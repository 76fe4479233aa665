-------------------------- MODULE InvitationProofs --------------------------
(***************************************************************************)
(* Proofs about Memberships, for any number of accounts and of requests    *)
(* that overlap, about Invitations over Memberships, for any number of     *)
(* links and of calls besides, and about Tenancy, for any number of        *)
(* organizations, projects, items and requests.                            *)
(***************************************************************************)
EXTENDS Tenants, TLAPS

-----------------------------------------------------------------------------
(* Memberships.                                                            *)

USE DEF Roles

\* In the initial state the founder is the owner and nothing is under way.
LEMMA MemberInitInv == MemberInit => MemberInv
  <1> SUFFICES ASSUME MemberInit PROVE MemberInv
    OBVIOUS
  <1> USE MembershipAssumption DEF MembershipAssumption, MemberInit, NoRequest
  <1>1. MemberTypeOK
    BY DEF MemberTypeOK, Request
  <1>2. CheckStillHolds
    BY DEF CheckStillHolds, Withdrawing
  <1>3. GrantsComeFromOwners
    BY DEF GrantsComeFromOwners
  <1>4. OwnerlessOnlyByRace
    <2>1. Founder \in Owners
      BY DEF Owners
    <2> QED BY <2>1 DEF OwnerlessOnlyByRace
  <1> QED BY <1>1, <1>2, <1>3, <1>4 DEF MemberInv

\* A step that leaves the memberships alone, and lets no request past its check
\* that was not past it, cannot break the check of any other.
LEMMA NoNewWithdrawal ==
  ASSUME MemberInv, UNCHANGED <<member, raced>>,
         \A r \in Requests : Withdrawing(r)' =>
           Withdrawing(r) /\ request'[r].target = request[r].target
  PROVE  CheckStillHolds' /\ OwnerlessOnlyByRace'
  <1> USE DEF MemberInv
  <1>1. Owners' = Owners
    BY DEF Owners
  <1>2. \A u : OtherOwners(u)' = OtherOwners(u)
    BY <1>1 DEF OtherOwners
  <1>3. CheckStillHolds'
    BY <1>2 DEF CheckStillHolds
  <1>4. OwnerlessOnlyByRace'
    BY <1>1 DEF OwnerlessOnlyByRace
  <1> QED BY <1>3, <1>4

\* A request that ends, or is let in, is not past its check.
LEMMA FinishedIsIdle ==
  ASSUME MemberTypeOK, NEW r \in Requests, Finish(r)
  PROVE  /\ request' \in [Requests -> Request]
         /\ request'[r] = NoRequest
         /\ \A other \in Requests : other # r => request'[other] = request[other]
  <1>1. NoRequest \in Request
    BY MembershipAssumption DEF MembershipAssumption, NoRequest, Request
  <1> QED BY <1>1 DEF MemberTypeOK, Finish

\* The guard and a lost connection: memberships stay as they are and no request
\* gets past its check.
LEMMA AdmitKeepsInv ==
  ASSUME MemberInv, NEW r \in Requests, NEW actor \in Users, NEW target \in Users,
         NEW verb \in {"update", "remove", "leave"}, NEW newRole \in Roles \cup {NoRole},
         Admit(r, actor, verb, target, newRole)
  PROVE  MemberInv'
  <1> DEFINE q == [step |-> "read", verb |-> verb, actorRole |-> member[actor],
                   target |-> target, newRole |-> newRole, existing |-> NoRole]
  <1>1. /\ request' = [request EXCEPT ![r] = q]
        /\ UNCHANGED <<member, raced>>
        /\ verb = "update" <=> newRole # NoRole
    BY DEF Admit
  <1>2. q \in Request
    BY DEF MemberInv, MemberTypeOK, Request
  <1>3. /\ request'[r] = q
        /\ \A other \in Requests : other # r => request'[other] = request[other]
    BY <1>1 DEF MemberInv, MemberTypeOK
  <1>4. MemberTypeOK'
    BY <1>1, <1>2 DEF MemberInv, MemberTypeOK
  <1>5. \A other \in Requests : Withdrawing(other)' =>
          Withdrawing(other) /\ request'[other].target = request[other].target
    BY <1>3 DEF Withdrawing
  <1>6. GrantsComeFromOwners'
    BY <1>1, <1>3 DEF MemberInv, GrantsComeFromOwners
  <1> QED BY <1>1, <1>4, <1>5, <1>6, NoNewWithdrawal DEF MemberInv

LEMMA FinishKeepsInv ==
  ASSUME MemberInv, NEW r \in Requests, Finish(r), UNCHANGED <<member, raced>>
  PROVE  MemberInv'
  <1>1. MemberTypeOK
    BY DEF MemberInv
  <1>2. MemberTypeOK'
    BY <1>1, FinishedIsIdle DEF MemberTypeOK
  <1>3. \A other \in Requests : Withdrawing(other)' =>
          Withdrawing(other) /\ request'[other].target = request[other].target
    BY <1>1, FinishedIsIdle DEF Withdrawing, NoRequest
  <1>4. GrantsComeFromOwners'
    BY <1>1, FinishedIsIdle DEF MemberInv, GrantsComeFromOwners, NoRequest
  <1> QED BY <1>2, <1>3, <1>4, NoNewWithdrawal DEF MemberInv

\* Reading the target lets a request through to its write at once only when no
\* owner is about to go.
LEMMA ReadTargetKeepsInv ==
  ASSUME MemberInv, NEW r \in Requests, ReadTarget(r)
  PROVE  MemberInv'
  <1> DEFINE existing == member[request[r].target]
             next == IF existing = "OWNER" /\ request[r].newRole # "OWNER"
                     THEN "count" ELSE "write"
  <1>1. /\ request[r].step = "read"
        /\ UNCHANGED <<member, raced>>
    BY DEF ReadTarget
  <1>2. CASE Finish(r)
    BY <1>1, <1>2, FinishKeepsInv
  <1>3. CASE /\ request' = [request EXCEPT ![r].existing = existing, ![r].step = next]
             /\ existing # NoRole
             /\ MayAct(request[r].actorRole, request[r].verb, existing, request[r].newRole)
    <2>1. /\ request[r] \in Request
          /\ existing \in Roles \cup {NoRole}
      BY DEF MemberInv, MemberTypeOK, Request
    <2>2. /\ request'[r] = [request[r] EXCEPT !.existing = existing, !.step = next]
          /\ \A other \in Requests : other # r => request'[other] = request[other]
      BY <1>3 DEF MemberInv, MemberTypeOK
    <2>3. /\ request'[r] \in Request
          /\ request'[r].step = next /\ request'[r].existing = existing
          /\ request'[r].newRole = request[r].newRole
          /\ request'[r].verb = request[r].verb
          /\ request'[r].actorRole = request[r].actorRole
      BY <2>1, <2>2 DEF Request
    <2>4. MemberTypeOK'
      BY <1>1, <1>3, <2>2, <2>3 DEF MemberInv, MemberTypeOK
    <2>5. \A other \in Requests : Withdrawing(other)' =>
            Withdrawing(other) /\ request'[other].target = request[other].target
      BY <2>2, <2>3 DEF Withdrawing
    <2>6. /\ request[r].verb = "update" <=> request[r].newRole # NoRole
          /\ \A other \in Requests : other # r =>
               /\ request'[other].step # "idle" =>
                    (request'[other].verb = "update" <=> request'[other].newRole # NoRole)
               /\ request'[other].step = "write" /\ request'[other].newRole = "OWNER"
                    => request'[other].actorRole = "OWNER"
               /\ request'[other].step = "count"
                    => request'[other].existing = "OWNER" /\ request'[other].newRole # "OWNER"
      BY <1>1, <2>2 DEF MemberInv, GrantsComeFromOwners
    <2>7. request[r].newRole = "OWNER" => request[r].actorRole = "OWNER"
      BY <1>3, <2>6, MembershipAssumption DEF MayAct, MembershipAssumption
    <2>8. GrantsComeFromOwners'
      BY <2>3, <2>6, <2>7 DEF GrantsComeFromOwners
    <2> QED BY <1>1, <2>4, <2>5, <2>8, NoNewWithdrawal DEF MemberInv
  <1> QED BY <1>2, <1>3 DEF ReadTarget

\* The check that another owner remains: whoever passes it is alone past it, or
\* the race is on record.
LEMMA CountOwnersKeepsInv ==
  ASSUME MemberInv, NEW r \in Requests, CountOwners(r)
  PROVE  MemberInv'
  <1>1. request[r].step = "count" /\ UNCHANGED member
    BY DEF CountOwners
  <1>2. CASE Finish(r) /\ UNCHANGED raced
    BY <1>1, <1>2, FinishKeepsInv
  <1>3. CASE /\ LeavesAnOwner(request[r].target)
             /\ request' = [request EXCEPT ![r].step = "write"]
             /\ raced' = (raced \/ \E other \in Requests : Withdrawing(other))
    <2>1. request[r] \in Request
      BY DEF MemberInv, MemberTypeOK
    <2>2. /\ request'[r] = [request[r] EXCEPT !.step = "write"]
          /\ \A other \in Requests : other # r => request'[other] = request[other]
      BY <1>3 DEF MemberInv, MemberTypeOK
    <2>3. /\ request'[r] \in Request
          /\ request'[r].step = "write"
          /\ request'[r].existing = request[r].existing
          /\ request'[r].newRole = request[r].newRole
          /\ request'[r].target = request[r].target
          /\ request'[r].verb = request[r].verb
      BY <2>1, <2>2 DEF Request
    <2>4. MemberTypeOK'
      BY <1>1, <1>3, <2>2, <2>3 DEF MemberInv, MemberTypeOK
    <2>5. Owners' = Owners /\ OtherOwners(request[r].target) # {}
      BY <1>1, <1>3 DEF Owners, LeavesAnOwner
    <2>6. CheckStillHolds'
      <3> SUFFICES ASSUME ~raced' PROVE
            /\ \A s \in Requests : Withdrawing(s)' => OtherOwners(request[s].target)' # {}
            /\ \A s, other \in Requests : Withdrawing(s)' /\ Withdrawing(other)' => s = other
        BY DEF CheckStillHolds
      <3>1. \A other \in Requests : ~Withdrawing(other)
        BY <1>3
      <3>2. \A other \in Requests : other # r => ~Withdrawing(other)'
        BY <2>2, <3>1 DEF Withdrawing
      <3>3. OtherOwners(request[r].target)' # {}
        BY <2>3, <2>5 DEF OtherOwners
      <3> QED BY <3>2, <3>3
    <2>7. GrantsComeFromOwners'
      <3>1. /\ request[r].newRole # "OWNER"
            /\ request[r].verb = "update" <=> request[r].newRole # NoRole
        BY <1>1 DEF MemberInv, GrantsComeFromOwners
      <3>2. \A other \in Requests : other # r =>
               /\ request'[other].step # "idle" =>
                    (request'[other].verb = "update" <=> request'[other].newRole # NoRole)
               /\ request'[other].step = "write" /\ request'[other].newRole = "OWNER"
                    => request'[other].actorRole = "OWNER"
               /\ request'[other].step = "count"
                    => request'[other].existing = "OWNER" /\ request'[other].newRole # "OWNER"
        BY <2>2 DEF MemberInv, GrantsComeFromOwners
      <3> QED BY <2>3, <3>1, <3>2 DEF GrantsComeFromOwners
    <2>8. OwnerlessOnlyByRace'
      BY <1>3, <2>5 DEF MemberInv, OwnerlessOnlyByRace
    <2> QED BY <2>4, <2>6, <2>7, <2>8 DEF MemberInv
  <1> QED BY <1>2, <1>3 DEF CountOwners

\* The write.  Without a race it takes ownership only from a target whose check
\* still holds, so another owner stays.
LEMMA WriteKeepsInv ==
  ASSUME MemberInv, NEW r \in Requests, Write(r)
  PROVE  MemberInv'
  <1> DEFINE t == request[r].target
             new == request[r].newRole
  <1>1. /\ request[r].step = "write"
        /\ member' = IF member[t] = NoRole THEN member ELSE [member EXCEPT ![t] = new]
        /\ raced' = (raced \/ (member[t] = "OWNER" /\ new # "OWNER" /\ ~Withdrawing(r)))
        /\ Finish(r)
    BY DEF Write
  <1>2. /\ request[r] \in Request
        /\ t \in Users /\ new \in Roles \cup {NoRole}
        /\ member \in [Users -> Roles \cup {NoRole}]
        /\ raced \in BOOLEAN
    BY DEF MemberInv, MemberTypeOK, Request
  <1>3. /\ request' \in [Requests -> Request]
        /\ request'[r] = NoRequest
        /\ \A other \in Requests : other # r => request'[other] = request[other]
    BY <1>1, FinishedIsIdle DEF MemberInv
  <1>4. MemberTypeOK'
    BY <1>1, <1>2, <1>3 DEF MemberTypeOK
  <1>5. GrantsComeFromOwners'
    BY <1>3 DEF MemberInv, GrantsComeFromOwners, NoRequest
  <1>6. \A u \in Users : u # t => member'[u] = member[u]
    BY <1>1, <1>2
  <1>7. \A other \in Requests : Withdrawing(other)' =>
          Withdrawing(other) /\ other # r /\ request'[other].target = request[other].target
    BY <1>3 DEF Withdrawing, NoRequest
  <1>8. CASE member'[t] = "OWNER" \/ member[t] # "OWNER"
    <2>1. Owners \subseteq Owners'
      BY <1>6, <1>8 DEF Owners
    <2>2. \A u : OtherOwners(u) \subseteq OtherOwners(u)'
      BY <2>1 DEF OtherOwners
    <2>3. raced => raced'
      BY <1>1
    <2>4. CheckStillHolds'
      BY <1>7, <2>2, <2>3 DEF MemberInv, CheckStillHolds
    <2>5. OwnerlessOnlyByRace'
      BY <2>1, <2>3 DEF MemberInv, OwnerlessOnlyByRace
    <2> QED BY <1>4, <1>5, <2>4, <2>5 DEF MemberInv
  <1>9. CASE member'[t] # "OWNER" /\ member[t] = "OWNER"
    <2>1. new # "OWNER"
      BY <1>1, <1>2, <1>9
    <2>2. CASE raced'
      BY <1>4, <1>5, <2>2 DEF MemberInv, CheckStillHolds, OwnerlessOnlyByRace
    <2>3. CASE ~raced'
      <3>1. ~raced /\ Withdrawing(r)
        BY <1>1, <1>9, <2>1, <2>3
      <3>2. OtherOwners(t) # {}
        BY <3>1 DEF MemberInv, CheckStillHolds
      <3>3. \A other \in Requests : ~Withdrawing(other)'
        BY <1>7, <3>1 DEF MemberInv, CheckStillHolds
      <3>4. OtherOwners(t) \subseteq Owners'
        BY <1>6 DEF OtherOwners, Owners
      <3>5. Owners' # {}
        BY <3>2, <3>4
      <3>6. CheckStillHolds' /\ OwnerlessOnlyByRace'
        BY <3>3, <3>5 DEF CheckStillHolds, OwnerlessOnlyByRace
      <3> QED BY <1>4, <1>5, <3>6 DEF MemberInv
    <2> QED BY <2>2, <2>3
  <1> QED BY <1>8, <1>9

\* A redeemed invitation only adds members.
LEMMA JoinKeepsInv ==
  ASSUME MemberInv, NEW u \in Users, NEW role \in Roles, Join(u, role)
  PROVE  MemberInv'
  <1>1. /\ member' = IF member[u] = NoRole THEN [member EXCEPT ![u] = role] ELSE member
        /\ UNCHANGED <<request, raced>>
    BY DEF Join, Granted
  <1>2. MemberTypeOK'
    BY <1>1 DEF MemberInv, MemberTypeOK
  <1>3. Owners \subseteq Owners'
    BY <1>1, MembershipAssumption DEF MemberInv, MemberTypeOK, Owners, MembershipAssumption
  <1>4. \A v : OtherOwners(v) \subseteq OtherOwners(v)'
    BY <1>3 DEF OtherOwners
  <1>5. \A r \in Requests : Withdrawing(r)' <=> Withdrawing(r)
    BY <1>1 DEF Withdrawing
  <1>6. CheckStillHolds'
    BY <1>1, <1>4, <1>5 DEF MemberInv, CheckStillHolds
  <1>7. GrantsComeFromOwners'
    BY <1>1 DEF MemberInv, GrantsComeFromOwners
  <1>8. OwnerlessOnlyByRace'
    BY <1>1, <1>3 DEF MemberInv, OwnerlessOnlyByRace
  <1> QED BY <1>2, <1>6, <1>7, <1>8 DEF MemberInv

LEMMA MemberStepInv == MemberInv /\ [MemberNext]_memberVars => MemberInv'
  <1> SUFFICES ASSUME MemberInv, [MemberNext]_memberVars PROVE MemberInv'
    OBVIOUS
  <1>1. ASSUME NEW r \in Requests, RequestStep(r) PROVE MemberInv'
    <2>1. CASE Abandon(r)
      BY <2>1, FinishKeepsInv DEF Abandon
    <2>2. CASE \E actor, target \in Users, verb \in {"update", "remove", "leave"},
                  newRole \in Roles \cup {NoRole} : Admit(r, actor, verb, target, newRole)
      BY <2>2, AdmitKeepsInv
    <2> QED BY <1>1, <2>1, <2>2, ReadTargetKeepsInv, CountOwnersKeepsInv, WriteKeepsInv
            DEF RequestStep
  <1>2. ASSUME NEW u \in Users, NEW role \in Roles, Join(u, role) PROVE MemberInv'
    BY <1>2, JoinKeepsInv
  <1>3. CASE UNCHANGED memberVars
    <2>1. UNCHANGED <<member, request, raced>>
      BY <1>3 DEF memberVars
    <2>2. /\ MemberTypeOK' /\ GrantsComeFromOwners'
      BY <2>1 DEF MemberInv, MemberTypeOK, GrantsComeFromOwners
    <2>3. \A r \in Requests : Withdrawing(r)' =>
            Withdrawing(r) /\ request'[r].target = request[r].target
      BY <2>1 DEF Withdrawing
    <2> QED BY <2>1, <2>2, <2>3, NoNewWithdrawal DEF MemberInv
  <1> QED BY <1>1, <1>2, <1>3 DEF MemberNext

\* The inductive invariant of the memberships holds in every reachable state.
THEOREM MemberInvariant == MemberSpec => []MemberInv
  BY MemberInitInv, MemberStepInv, PTL DEF MemberSpec

\* Type correctness.
THEOREM MemberTypeCorrect == MemberSpec => []MemberTypeOK
  <1>1. MemberInv => MemberTypeOK
    BY DEF MemberInv
  <1> QED BY <1>1, MemberInvariant, PTL

\* refuseIfLastOwner keeps the last owner for any number of accounts and of
\* overlapping requests, unless two withdrawals raced.
THEOREM LastOwnerLostOnlyByRace == MemberSpec => []OwnerlessOnlyByRace
  <1>1. MemberInv => OwnerlessOnlyByRace
    BY DEF MemberInv
  <1> QED BY <1>1, MemberInvariant, PTL

\* Ownership reaches an existing member only from a request let in as an owner's.
THEOREM OwnershipOnlyFromOwners == MemberSpec => PromotedByOwner
  <1> DEFINE Granting == \A u \in Users : member[u] \in {"ADMIN", "MEMBER"} /\ member'[u] = "OWNER" =>
               Grants(u, {"OWNER"})
  <1>1. ASSUME MemberInv, [MemberNext]_memberVars PROVE [Granting]_memberVars
    <2> SUFFICES ASSUME NEW u \in Users, member[u] \in {"ADMIN", "MEMBER"}, member'[u] = "OWNER"
                 PROVE Grants(u, {"OWNER"})
      OBVIOUS
    <2>1. member' # member
      OBVIOUS
    <2>2. ASSUME NEW v \in Users, NEW role \in Roles, Join(v, role) PROVE FALSE
      BY <2>2, MembershipAssumption
         DEF Join, Granted, MemberInv, MemberTypeOK, MembershipAssumption
    <2>3. PICK r \in Requests : Write(r)
      BY <1>1, <2>1, <2>2
         DEF MemberNext, RequestStep, memberVars, Admit, ReadTarget, CountOwners, Abandon
    <2>4. /\ request[r].step = "write"
          /\ member' = IF member[request[r].target] = NoRole THEN member
                       ELSE [member EXCEPT ![request[r].target] = request[r].newRole]
      BY <2>3 DEF Write
    <2>5. request[r].target = u /\ request[r].newRole = "OWNER"
      BY <2>1, <2>4 DEF MemberInv, MemberTypeOK
    <2>6. request[r].actorRole = "OWNER"
      BY <1>1, <2>4, <2>5 DEF MemberInv, GrantsComeFromOwners
    <2> QED BY <2>5, <2>6 DEF Grants
  <1>2. MemberInv /\ [MemberNext]_memberVars => [Granting]_memberVars
    BY <1>1
  <1> QED BY <1>2, MemberInvariant, PTL DEF MemberSpec, PromotedByOwner

-----------------------------------------------------------------------------
(* Invitations.                                                            *)

LinkParts ==
  /\ BlankUntilIssued
  /\ IssuedByManagers
  /\ CallsKnowTheirLink
  /\ WithdrawalsHold
  /\ OneLiveLinkPerSeat

Managers == {"OWNER", "ADMIN"}

LEMMA BlankTypes == Unissued \in Invitation /\ NoCall \in Call
  BY MembershipAssumption, InvitationAssumption
     DEF MembershipAssumption, InvitationAssumption, Unissued, Invitation, NoCall, Call

\* A new step of one call leaves the links alone.
LEMMA CallKeepsLinks ==
  ASSUME TypeOK, LinkParts, NEW c \in Calls, NEW k \in Call,
         call' = [call EXCEPT ![c] = k], UNCHANGED <<invitation, beside>>,
         k.step \in {"revoke", "redeem"} => k.link \in AllIssued,
         k.step \in {"withdraw", "issue"} => k.by \in Managers,
         k.step = "issue" => /\ k.seen \subseteq AllIssued
                             /\ ToWithdraw(k.login) \cap k.seen \subseteq k.rows
  PROVE  LinkParts'
  <1>1. \A d \in Calls : call'[d] = IF d = c THEN k ELSE call[d]
    BY DEF TypeOK
  <1>2. /\ AllIssued' = AllIssued
        /\ \A login : ToWithdraw(login)' = ToWithdraw(login)
    BY DEF AllIssued, ToWithdraw, Outstanding
  <1>3. CallsKnowTheirLink' /\ WithdrawalsHold'
    BY <1>1, <1>2 DEF LinkParts, CallsKnowTheirLink, WithdrawalsHold
  <1>4. BlankUntilIssued' /\ OneLiveLinkPerSeat'
    BY DEF LinkParts, BlankUntilIssued, OneLiveLinkPerSeat, Outstanding
  <1>5. IssuedByManagers'
    BY <1>1, <1>2 DEF LinkParts, IssuedByManagers, Managers
  <1> QED BY <1>3, <1>4, <1>5 DEF LinkParts

\* Links that expire, are revoked or are spent: none becomes good again.
LEMMA LinksOnlyAge ==
  ASSUME TypeOK, LinkParts, NEW c \in Calls, call' = call \/ Done(c), UNCHANGED beside,
         \A i \in Links :
           /\ invitation'[i].issued = invitation[i].issued
           /\ invitation'[i].login = invitation[i].login
           /\ invitation'[i].by = invitation[i].by
           /\ Outstanding(i)' => Outstanding(i)
           /\ ~invitation[i].issued => invitation'[i] = invitation[i]
  PROVE  LinkParts'
  <1>1. \A d \in Calls : call'[d] = call[d] \/ call'[d].step = "idle"
    BY DEF TypeOK, Done, NoCall
  <1>2. AllIssued' = AllIssued
    BY DEF AllIssued
  <1>3. \A login : ToWithdraw(login)' \subseteq ToWithdraw(login)
    BY DEF ToWithdraw
  <1>4. BlankUntilIssued'
    BY DEF LinkParts, BlankUntilIssued
  <1>5. CallsKnowTheirLink'
    BY <1>1, <1>2 DEF LinkParts, CallsKnowTheirLink
  <1>6. WithdrawalsHold'
    <2> SUFFICES ASSUME NEW d \in Calls, call'[d].step = "issue"
                 PROVE  /\ call'[d].seen \subseteq AllIssued'
                        /\ ToWithdraw(call[d].login)' \cap call'[d].seen \subseteq call'[d].rows
      BY DEF WithdrawalsHold
    <2>1. call'[d] = call[d]
      BY <1>1
    <2>2. /\ call[d].seen \subseteq AllIssued
          /\ ToWithdraw(call[d].login) \cap call[d].seen \subseteq call[d].rows
      BY <2>1 DEF LinkParts, WithdrawalsHold
    <2>3. ToWithdraw(call[d].login)' \subseteq ToWithdraw(call[d].login)
      BY <2>1 DEF ToWithdraw
    <2> QED BY <1>2, <2>1, <2>2, <2>3
  <1>7. OneLiveLinkPerSeat'
    BY DEF LinkParts, OneLiveLinkPerSeat
  <1>8. IssuedByManagers'
    BY <1>1, <1>2 DEF LinkParts, IssuedByManagers, AllIssued
  <1> QED BY <1>4, <1>5, <1>6, <1>7, <1>8 DEF LinkParts

\* The new link is issued beside those only that its create could not see: the
\* others are withdrawn with it.
LEMMA IssueKeepsLinks ==
  ASSUME TypeOK, LinkParts, NEW c \in Calls, NEW i \in Links, IssueLink(c, i)
  PROVE  TypeOK' /\ LinkParts'
  <1> DEFINE k == call[c]
             new == Issued(k.by, k.login, k.role)
  <1>1. /\ k \in Call /\ k.step = "issue" /\ ~invitation[i].issued
        /\ UNCHANGED <<member, request, raced, quota>>
        /\ call' = [call EXCEPT ![c] = NoCall]
        /\ beside' = [beside EXCEPT ![i] = AllIssued \ k.seen]
        /\ invitation' = [j \in Links |->
             IF j = i THEN new
             ELSE IF j \in k.rows /\ Outstanding(j) THEN [invitation[j] EXCEPT !.revoked = TRUE]
             ELSE invitation[j]]
    BY DEF IssueLink, Done, TypeOK, memberVars
  <1>2. /\ new \in Invitation /\ new.issued /\ new.login = k.login /\ new.by = k.by
        /\ ~new.accepted /\ ~new.revoked
    BY <1>1, BlankTypes DEF Issued, Unissued, Invitation, Call
  <1>3. \A j \in Links : invitation[j] \in Invitation
    BY DEF TypeOK
  <1>4. invitation'[i] = new
    BY <1>1
  <1> HIDE DEF new, k
  <1>5. \A j \in Links : j # i =>
          /\ invitation'[j] \in Invitation
          /\ invitation'[j].issued = invitation[j].issued
          /\ invitation'[j].login = invitation[j].login
          /\ invitation'[j].by = invitation[j].by
          /\ invitation[j].issued \/ invitation'[j] = invitation[j]
          /\ Outstanding(j)' => Outstanding(j) /\ j \notin k.rows
    BY <1>1, <1>3 DEF Outstanding, Invitation
  <1>6. TypeOK'
    <2>1. invitation' \in [Links -> Invitation]
      BY <1>1, <1>2, <1>4, <1>5
    <2>2. call' \in [Calls -> Call]
      BY <1>1, BlankTypes DEF TypeOK
    <2>3. beside' \in [Links -> SUBSET Links]
      BY <1>1 DEF TypeOK, AllIssued
    <2> QED BY <1>1, <2>1, <2>2, <2>3 DEF TypeOK, MemberTypeOK
  <1>7. BlankUntilIssued'
    BY <1>2, <1>4, <1>5 DEF LinkParts, BlankUntilIssued
  <1>8. AllIssued' = AllIssued \cup {i}
    BY <1>2, <1>4, <1>5 DEF AllIssued
  <1>9. \A d \in Calls : call'[d] = IF d = c THEN NoCall ELSE call[d]
    BY <1>1 DEF TypeOK
  <1>10. CallsKnowTheirLink'
    BY <1>8, <1>9 DEF LinkParts, CallsKnowTheirLink, NoCall
  <1>11. WithdrawalsHold'
    <2> SUFFICES ASSUME NEW d \in Calls, call'[d].step = "issue"
                 PROVE  /\ call'[d].seen \subseteq AllIssued'
                        /\ ToWithdraw(call[d].login)' \cap call'[d].seen \subseteq call'[d].rows
      BY DEF WithdrawalsHold
    <2>1. call'[d] = call[d]
      BY <1>9 DEF NoCall
    <2>2. /\ call[d].seen \subseteq AllIssued
          /\ ToWithdraw(call[d].login) \cap call[d].seen \subseteq call[d].rows
      BY <2>1 DEF LinkParts, WithdrawalsHold
    <2>3. i \notin call[d].seen
      BY <1>1, <2>2 DEF AllIssued
    <2>4. \A j \in Links : j # i /\ Outstanding(j)' /\ invitation'[j].login = call[d].login
                             => j \in ToWithdraw(call[d].login)
      BY <1>5 DEF ToWithdraw
    <2>5. ToWithdraw(call[d].login)' \subseteq ToWithdraw(call[d].login) \cup {i}
      BY <2>1, <2>4 DEF ToWithdraw
    <2> QED BY <1>8, <2>1, <2>2, <2>3, <2>5
  <1>12. OneLiveLinkPerSeat'
    <2>1. \A j \in Links : j # i /\ Outstanding(j)' /\ invitation'[j].login = k.login
                             => j \in beside'[i]
      <3> SUFFICES ASSUME NEW j \in Links, j # i, Outstanding(j)', invitation'[j].login = k.login
                   PROVE  j \in beside'[i]
        OBVIOUS
      <3>1. j \in ToWithdraw(k.login) /\ j \in AllIssued /\ j \notin k.rows
        BY <1>5 DEF ToWithdraw, Outstanding, AllIssued
      <3>2. j \notin k.seen
        BY <1>1, <3>1 DEF LinkParts, WithdrawalsHold, k
      <3> QED BY <1>1, <3>1, <3>2 DEF TypeOK
    <2>2. \A j \in Links : j # i => beside'[j] = beside[j]
      BY <1>1 DEF TypeOK
    <2>3. ASSUME NEW x \in Links, NEW y \in Links, x # y, x # i, y # i,
                 Outstanding(x)', Outstanding(y)', invitation'[x].login = invitation'[y].login
          PROVE  x \in beside'[y] \/ y \in beside'[x]
      BY <1>5, <2>2, <2>3 DEF LinkParts, OneLiveLinkPerSeat
    <2>4. invitation'[i].login = k.login
      BY <1>2, <1>4
    <2> QED BY <2>1, <2>3, <2>4 DEF OneLiveLinkPerSeat
  <1>13. IssuedByManagers'
    <2>1. k.by \in Managers
      BY <1>1 DEF LinkParts, IssuedByManagers, Managers, k
    <2>2. \A j \in AllIssued' : invitation'[j].by \in Managers
      BY <1>2, <1>4, <1>5, <1>8, <2>1 DEF LinkParts, IssuedByManagers, Managers, AllIssued
    <2> QED BY <1>9, <2>2 DEF LinkParts, IssuedByManagers, Managers, NoCall
  <1> QED BY <1>6, <1>7, <1>10, <1>11, <1>12, <1>13 DEF LinkParts

\* Each of the other steps of a call, and the passing of the seven days.
LEMMA BeginKeepsLinks ==
  ASSUME TypeOK, LinkParts, NEW c \in Calls, NEW k \in Call,
         NEW step \in {"withdraw", "revoke", "redeem"}, Begin(c, step, k),
         step \in {"revoke", "redeem"} => k.link \in AllIssued,
         step = "withdraw" => k.by \in Managers
  PROVE  TypeOK' /\ LinkParts' /\ UNCHANGED <<memberVars, quota, invitation, beside>>
  <1> DEFINE next == [k EXCEPT !.step = step]
  <1>1. call' = [call EXCEPT ![c] = next] /\ UNCHANGED <<memberVars, quota, invitation, beside>>
    BY DEF Begin
  <1>2. next \in Call /\ next.step = step /\ next.link = k.link /\ next.by = k.by
    BY DEF Call
  <1> HIDE DEF next
  <1>3. TypeOK'
    BY <1>1, <1>2 DEF TypeOK, MemberTypeOK, memberVars
  <1>4. LinkParts'
    BY <1>1, <1>2, CallKeepsLinks
  <1> QED BY <1>1, <1>3, <1>4

LEMMA RedeemJoins ==
  ASSUME TypeOK, CallsKnowTheirLink, NEW c \in Calls, Redeem(c)
  PROVE  /\ call[c].link \in Links
         /\ invitation[call[c].link].login \in Users
         /\ invitation[call[c].link].role \in Roles
         /\ Join(invitation[call[c].link].login, invitation[call[c].link].role)
         /\ member'[invitation[call[c].link].login] # NoRole
  <1>1. call[c].link \in Links
    BY DEF Redeem, CallsKnowTheirLink, AllIssued
  <1>2. invitation[call[c].link] \in Invitation
    BY <1>1 DEF TypeOK
  <1>3. /\ invitation[call[c].link].login \in Users
        /\ invitation[call[c].link].role \in Roles
    BY <1>2 DEF Invitation
  <1>4. Join(invitation[call[c].link].login, invitation[call[c].link].role)
    BY DEF Redeem, Join
  <1>5. member'[invitation[call[c].link].login] # NoRole
    BY <1>3, MembershipAssumption
       DEF Redeem, Granted, TypeOK, MemberTypeOK, MembershipAssumption
  <1> QED BY <1>1, <1>3, <1>4, <1>5

\* What spending a link does to the table.
LEMMA SpendEffect ==
  ASSUME TypeOK, NEW i \in Links, invitation' = Spend(i)
  PROVE  /\ invitation' \in [Links -> Invitation]
         /\ \A j \in Links :
              /\ invitation'[j].issued = invitation[j].issued
              /\ invitation'[j].login = invitation[j].login
              /\ invitation'[j].by = invitation[j].by
              /\ invitation'[j].revoked = invitation[j].revoked
              /\ invitation[j].accepted => invitation'[j].accepted
              /\ invitation'[j].accepted # invitation[j].accepted => j = i /\ Outstanding(i)
              /\ Outstanding(j)' => Outstanding(j)
              /\ ~invitation[j].issued => invitation'[j] = invitation[j]
  <1>1. \A j \in Links : invitation[j] \in Invitation
    BY DEF TypeOK
  <1>2. CASE Outstanding(i)
    <2>1. invitation' = [invitation EXCEPT ![i].accepted = TRUE]
      BY <1>2 DEF Spend
    <2>2. \A j \in Links : invitation'[j] = IF j = i THEN [invitation[i] EXCEPT !.accepted = TRUE]
                                            ELSE invitation[j]
      BY <2>1 DEF TypeOK
    <2>3. invitation' \in [Links -> Invitation]
      <3>1. [invitation[i] EXCEPT !.accepted = TRUE] \in Invitation
        BY <1>1 DEF Invitation
      <3>2. invitation' = [invitation EXCEPT ![i] = [invitation[i] EXCEPT !.accepted = TRUE]]
        BY <2>1
      <3> QED BY <3>1, <3>2 DEF TypeOK
    <2>4. \A j \in Links : j # i => invitation'[j] = invitation[j]
      BY <2>2
    <2>5. /\ invitation'[i].issued = invitation[i].issued
          /\ invitation'[i].login = invitation[i].login
          /\ invitation'[i].by = invitation[i].by
          /\ invitation'[i].revoked = invitation[i].revoked
          /\ invitation'[i].accepted /\ invitation[i].issued
      BY <1>1, <1>2, <2>2 DEF Invitation, Outstanding
    <2> QED BY <1>2, <2>3, <2>4, <2>5 DEF Outstanding
  <1>3. CASE ~Outstanding(i)
    <2>1. invitation' = invitation
      BY <1>3 DEF Spend
    <2> QED BY <2>1 DEF TypeOK, Outstanding
  <1> QED BY <1>2, <1>3

LEMMA RevokeEffect ==
  ASSUME TypeOK, CallsKnowTheirLink, NEW c \in Calls, Revoke(c)
  PROVE  /\ invitation' \in [Links -> Invitation]
         /\ \A j \in Links :
              /\ invitation'[j].issued = invitation[j].issued
              /\ invitation'[j].login = invitation[j].login
              /\ invitation'[j].by = invitation[j].by
              /\ invitation[j].revoked => invitation'[j].revoked
              /\ invitation'[j].accepted = invitation[j].accepted
              /\ Outstanding(j)' => Outstanding(j)
              /\ ~invitation[j].issued => invitation'[j] = invitation[j]
  <1> DEFINE i == call[c].link
  <1>1. \A j \in Links : invitation[j] \in Invitation
    BY DEF TypeOK
  <1>2. i \in Links /\ invitation[i].issued
    BY DEF Revoke, CallsKnowTheirLink, AllIssued
  <1>3. \A j \in Links : invitation'[j] = IF j = i THEN [invitation[i] EXCEPT !.revoked = TRUE]
                                          ELSE invitation[j]
    BY DEF Revoke, TypeOK
  <1>4. invitation' = [invitation EXCEPT ![i].revoked = TRUE]
    BY DEF Revoke
  <1> HIDE DEF i
  <1>5. \A j \in Links : j # i => invitation'[j] = invitation[j]
    BY <1>3
  <1>6. /\ invitation'[i] \in Invitation
        /\ invitation'[i].issued = invitation[i].issued
        /\ invitation'[i].login = invitation[i].login
        /\ invitation'[i].by = invitation[i].by
        /\ invitation'[i].accepted = invitation[i].accepted
        /\ invitation'[i].revoked
    BY <1>1, <1>2, <1>3 DEF Invitation
  <1>7. invitation' \in [Links -> Invitation]
    BY <1>1, <1>4, <1>5, <1>6 DEF TypeOK
  <1> QED BY <1>2, <1>5, <1>6, <1>7 DEF Outstanding

LEMMA ExpireEffect ==
  ASSUME TypeOK, NEW i \in Links, Expire(i)
  PROVE  /\ invitation' \in [Links -> Invitation]
         /\ \A j \in Links :
              /\ invitation'[j].issued = invitation[j].issued
              /\ invitation'[j].login = invitation[j].login
              /\ invitation'[j].by = invitation[j].by
              /\ invitation'[j].revoked = invitation[j].revoked
              /\ invitation'[j].accepted = invitation[j].accepted
              /\ ~invitation[j].issued => invitation'[j] = invitation[j]
  <1>1. \A j \in Links : invitation[j] \in Invitation
    BY DEF TypeOK
  <1>2. /\ invitation[i].issued
        /\ invitation' = [invitation EXCEPT ![i].expired = TRUE]
        /\ \A j \in Links : invitation'[j] = IF j = i THEN [invitation[i] EXCEPT !.expired = TRUE]
                                             ELSE invitation[j]
    BY DEF Expire, Live, Outstanding, TypeOK
  <1>3. \A j \in Links : j # i => invitation'[j] = invitation[j]
    BY <1>2
  <1>4. /\ invitation'[i] \in Invitation
        /\ invitation'[i].issued = invitation[i].issued
        /\ invitation'[i].login = invitation[i].login
        /\ invitation'[i].by = invitation[i].by
        /\ invitation'[i].accepted = invitation[i].accepted
        /\ invitation'[i].revoked = invitation[i].revoked
    <2>1. invitation'[i] = [invitation[i] EXCEPT !.expired = TRUE] /\ invitation[i] \in Invitation
      BY <1>1, <1>2
    <2> QED BY <2>1 DEF Invitation
  <1>5. invitation' \in [Links -> Invitation]
    BY <1>1, <1>2, <1>3, <1>4 DEF TypeOK
  <1> QED BY <1>2, <1>3, <1>4, <1>5

LEMMA InvitationInit == Init => InvitationInv
  <1> SUFFICES ASSUME Init PROVE InvitationInv
    OBVIOUS
  <1>1. MemberInv
    BY MemberInitInv DEF Init
  <1>2. TypeOK
    BY <1>1, BlankTypes DEF Init, TypeOK, MemberInv
  <1>3. /\ \A i \in Links : invitation[i] = Unissued /\ ~invitation[i].issued
        /\ \A c \in Calls : call[c].step = "idle"
    BY DEF Init, Unissued, NoCall
  <1> QED
    BY <1>1, <1>2, <1>3
       DEF InvitationInv, LinkInv, BlankUntilIssued, IssuedByManagers, CallsKnowTheirLink,
           WithdrawalsHold, OneLiveLinkPerSeat, Outstanding, AllIssued

LEMMA CallStepKeepsInv ==
  ASSUME InvitationInv, NEW c \in Calls, CallStep(c)
  PROVE  InvitationInv'
  <1> USE DEF InvitationInv, LinkInv
  <1>0. LinkParts
    BY DEF LinkParts
  <1> SUFFICES TypeOK' /\ MemberInv' /\ LinkParts'
    BY DEF LinkParts
  <1>1. ASSUME UNCHANGED memberVars PROVE MemberInv'
    BY <1>1, MemberStepInv
  <1>2. ASSUME NEW actor \in Users, NEW login \in Users, NEW role \in Roles,
               BeginCreate(c, actor, login, role)
        PROVE  TypeOK' /\ MemberInv' /\ LinkParts'
    <2> DEFINE k == [NoCall EXCEPT !.by = member[actor], !.login = login, !.role = role]
    <2>1. k \in Call /\ k.by \in Managers
      BY <1>2, BlankTypes, MembershipAssumption
         DEF MembershipAssumption, Call, NoCall, BeginCreate, MayInvite, Managers, Roles
    <2> QED BY <1>0, <1>1, <1>2, <2>1, BeginKeepsLinks DEF BeginCreate
  <1>3. CASE WithdrawOutstanding(c)
    <2> DEFINE k == [call[c] EXCEPT !.step = "issue", !.rows = ToWithdraw(call[c].login),
                                    !.seen = AllIssued]
    <2>1. call[c] \in Call
      BY DEF TypeOK
    <2>2. /\ k \in Call /\ k.step = "issue" /\ k.login = call[c].login /\ k.by = call[c].by
          /\ k.rows = ToWithdraw(call[c].login) /\ k.seen = AllIssued
      BY <2>1 DEF Call, ToWithdraw, AllIssued
    <2>3. /\ call' = [call EXCEPT ![c] = k]
          /\ UNCHANGED <<memberVars, quota, invitation, beside>>
      BY <1>3 DEF WithdrawOutstanding, TypeOK
    <2>6. k.by \in Managers
      BY <1>0, <1>3, <2>2 DEF WithdrawOutstanding, LinkParts, IssuedByManagers, Managers
    <2> HIDE DEF k
    <2>4. TypeOK'
      BY <2>2, <2>3 DEF TypeOK, MemberTypeOK, memberVars
    <2>5. LinkParts'
      BY <1>0, <2>2, <2>3, <2>6, CallKeepsLinks
    <2> QED BY <1>1, <2>3, <2>4, <2>5
  <1>4. ASSUME NEW i \in Links, IssueLink(c, i) PROVE TypeOK' /\ MemberInv' /\ LinkParts'
    BY <1>0, <1>1, <1>4, IssueKeepsLinks DEF IssueLink
  <1>5. ASSUME NEW i \in Links, ReadForRevoke(c, i) \/ CheckLink(c, i)
        PROVE  TypeOK' /\ MemberInv' /\ LinkParts'
    <2> DEFINE k == [NoCall EXCEPT !.link = i]
    <2>1. k \in Call /\ k.link = i
      BY BlankTypes DEF Call, NoCall
    <2>2. i \in AllIssued
      BY <1>5 DEF ReadForRevoke, CheckLink, Live, Outstanding, AllIssued
    <2>3. Begin(c, "revoke", k) \/ Begin(c, "redeem", k)
      BY <1>5 DEF ReadForRevoke, CheckLink
    <2> HIDE DEF k
    <2> QED BY <1>0, <1>1, <2>1, <2>2, <2>3, BeginKeepsLinks
  <1>6. CASE Revoke(c)
    <2>1. UNCHANGED <<memberVars, quota, beside>> /\ Done(c)
      BY <1>6 DEF Revoke
    <2>2. LinkParts'
      BY <1>0, <1>6, <2>1, RevokeEffect, LinksOnlyAge
    <2>3. TypeOK'
      BY <1>6, <2>1, RevokeEffect, BlankTypes DEF TypeOK, MemberTypeOK, memberVars, Done
    <2> QED BY <1>1, <2>1, <2>2, <2>3
  <1>7. CASE Redeem(c)
    <2> DEFINE i == call[c].link
    <2>1. /\ i \in Links /\ Done(c) /\ UNCHANGED <<request, raced, quota, beside>>
          /\ invitation' = Spend(i)
      BY <1>7, RedeemJoins DEF Redeem
    <2>2. MemberInv'
      BY <1>7, RedeemJoins, JoinKeepsInv
    <2> HIDE DEF i
    <2>3. LinkParts'
      BY <1>0, <2>1, SpendEffect, LinksOnlyAge
    <2>4. TypeOK'
      BY <2>1, <2>2, SpendEffect, BlankTypes DEF TypeOK, MemberInv, Done
    <2> QED BY <2>2, <2>3, <2>4
  <1>8. CASE AbandonCall(c)
    <2>1. call' = [call EXCEPT ![c] = NoCall] /\ UNCHANGED <<memberVars, quota, invitation, beside>>
      BY <1>8 DEF AbandonCall, Done
    <2>2. NoCall.step = "idle"
      BY DEF NoCall
    <2>3. TypeOK'
      BY <2>1, BlankTypes DEF TypeOK, MemberTypeOK, memberVars
    <2>4. LinkParts'
      BY <1>0, <2>1, <2>2, BlankTypes, CallKeepsLinks
    <2> QED BY <1>1, <2>1, <2>3, <2>4
  <1>9. quota.people \subseteq Users /\ quota.roles \subseteq Roles
    BY InvitationAssumption DEF InvitationAssumption, TypeOK
  <1> QED BY <1>2, <1>3, <1>4, <1>5, <1>6, <1>7, <1>8, <1>9 DEF CallStep

LEMMA InvitationStep == InvitationInv /\ [Next]_vars => InvitationInv'
  <1> SUFFICES ASSUME InvitationInv, [Next]_vars PROVE InvitationInv'
    OBVIOUS
  <1>1. ASSUME UNCHANGED inviteVars, MemberInv' PROVE InvitationInv'
    BY <1>1 DEF InvitationInv, LinkInv, TypeOK, MemberInv, inviteVars, BlankUntilIssued,
         IssuedByManagers, CallsKnowTheirLink, WithdrawalsHold, OneLiveLinkPerSeat, Outstanding,
         AllIssued, ToWithdraw
  <1>2. CASE MembershipStep
    <2>1. MemberNext
      BY <1>2 DEF MembershipStep, MemberNext
    <2>2. MemberInv'
      BY <2>1, MemberStepInv DEF InvitationInv, LinkInv
    <2> QED BY <1>1, <1>2, <2>2 DEF MembershipStep
  <1>3. ASSUME NEW i \in Links, Expire(i) PROVE InvitationInv'
    <2>1. UNCHANGED <<memberVars, quota, call, beside>>
      BY <1>3 DEF Expire
    <2>2. MemberInv'
      BY <2>1, MemberStepInv DEF InvitationInv, LinkInv
    <2>3. TypeOK'
      BY <1>3, <2>1, ExpireEffect DEF InvitationInv, LinkInv, TypeOK, MemberTypeOK, memberVars
    <2>4. BlankUntilIssued' /\ OneLiveLinkPerSeat'
      BY <1>3, <2>1, ExpireEffect
         DEF InvitationInv, LinkInv, BlankUntilIssued, OneLiveLinkPerSeat, Outstanding
    <2>5. /\ AllIssued' = AllIssued
          /\ \A login : ToWithdraw(login)' = ToWithdraw(login)
      BY <1>3, ExpireEffect DEF InvitationInv, LinkInv, AllIssued, ToWithdraw, Outstanding
    <2>6. CallsKnowTheirLink' /\ WithdrawalsHold'
      BY <2>1, <2>5 DEF InvitationInv, LinkInv, CallsKnowTheirLink, WithdrawalsHold
    <2>7. IssuedByManagers'
      BY <1>3, <2>1, <2>5, ExpireEffect DEF InvitationInv, LinkInv, IssuedByManagers, AllIssued
    <2> QED BY <2>2, <2>3, <2>4, <2>6, <2>7 DEF InvitationInv, LinkInv
  <1>4. ASSUME NEW c \in Calls, CallStep(c) PROVE InvitationInv'
    BY <1>4, CallStepKeepsInv
  <1>5. CASE UNCHANGED vars
    <2>1. UNCHANGED <<memberVars, inviteVars>>
      BY <1>5 DEF vars
    <2>2. MemberInv'
      BY <2>1, MemberStepInv DEF InvitationInv, LinkInv
    <2> QED BY <1>1, <2>1, <2>2
  <1> QED BY <1>2, <1>3, <1>4, <1>5 DEF Next

\* What the lemmas keep step by step, in one.
LEMMA InvitationInvHolds == Spec => []InvitationInv
  BY InvitationInit, InvitationStep, PTL DEF Spec

\* Links, the calls that act on them and the memberships agree in every reachable
\* state of InvitationService and OrganizationService together.
THEOREM InvitationInvariant == Spec => [](MemberInv /\ LinkInv)
  <1>1. InvitationInv => MemberInv /\ LinkInv
    BY DEF InvitationInv
  <1> QED BY <1>1, InvitationInvHolds, PTL

\* What is kept of the links is kept for any number of accounts, links and calls.
THEOREM LinkInvariant == Spec => []LinkInv
  <1>1. InvitationInv => LinkInv
    BY DEF InvitationInv
  <1> QED BY <1>1, InvitationInvHolds, PTL

\* Re-inviting leaves one live link to a seat, but for links of creates that could
\* not see each other (InvitationService.create).
THEOREM OneLinkPerSeat == Spec => []OneLiveLinkPerSeat
  <1>1. InvitationInv => OneLiveLinkPerSeat
    BY DEF InvitationInv, LinkInv
  <1> QED BY <1>1, InvitationInvHolds, PTL

\* What the links do to the memberships is what Memberships allows: redeeming
\* one is its Join, and everything else leaves the memberships alone.
THEOREM MembershipsUnderLinks == Spec => MemberSpec
  <1>1. InvitationInv /\ [Next]_vars => [MemberNext]_memberVars
    <2> SUFFICES ASSUME InvitationInv, [Next]_vars PROVE MemberNext \/ UNCHANGED memberVars
      OBVIOUS
    <2>1. ASSUME NEW c \in Calls, CallStep(c) PROVE MemberNext \/ UNCHANGED memberVars
      <3>1. CASE Redeem(c)
        BY <3>1, RedeemJoins DEF InvitationInv, LinkInv, MemberNext
      <3>2. CASE ~Redeem(c)
        BY <2>1, <3>2
           DEF CallStep, BeginCreate, WithdrawOutstanding, IssueLink, ReadForRevoke, CheckLink,
               Revoke, AbandonCall, Begin
      <3> QED BY <3>1, <3>2
    <2>2. ASSUME NEW i \in Links, Expire(i) PROVE UNCHANGED memberVars
      BY <2>2 DEF Expire
    <2>3. MembershipStep => MemberNext
      BY DEF MembershipStep, MemberNext
    <2> QED BY <2>1, <2>2, <2>3 DEF Next, vars
  <1>2. Init => MemberInit
    BY DEF Init
  <1> QED BY <1>1, <1>2, InvitationInvHolds, PTL DEF Spec, MemberSpec

\* The last owner is lost only by a race, whatever links are redeemed meanwhile
\* (refuseIfLastOwner).
THEOREM LinksKeepAnOwner == Spec => []OwnerlessOnlyByRace
  BY MembershipsUnderLinks, LastOwnerLostOnlyByRace, PTL

\* What changes a membership: a link that is redeemed, or a request.
LEMMA MembersChangeBy ==
  ASSUME [Next]_vars, member' # member
  PROVE  (\E c \in Calls : Redeem(c)) \/ (\E r \in Requests : Write(r))
  <1>1. ASSUME NEW r \in Requests, RequestStep(r) PROVE Write(r)
    BY <1>1 DEF RequestStep, Admit, ReadTarget, CountOwners, Abandon
  <1>2. ASSUME NEW c \in Calls, CallStep(c) PROVE Redeem(c)
    BY <1>2 DEF CallStep, Begin, BeginCreate, WithdrawOutstanding, IssueLink, ReadForRevoke, CheckLink, Revoke, AbandonCall,
                memberVars
  <1>3. ASSUME NEW i \in Links, Expire(i) PROVE FALSE
    BY <1>3 DEF Expire, memberVars
  <1>4. ~UNCHANGED vars
    BY DEF vars, memberVars
  <1>5. CASE MembershipStep
    BY <1>1, <1>5 DEF MembershipStep
  <1> QED BY <1>2, <1>3, <1>4, <1>5 DEF Next

\* What an action may change of a link.
LEMMA LinkEffect ==
  ASSUME InvitationInv, [Next]_vars, NEW i \in Links
  PROVE  /\ invitation[i].accepted => invitation'[i].accepted
         /\ invitation[i].revoked => /\ invitation'[i].revoked
                                     /\ invitation'[i].accepted = invitation[i].accepted
         /\ ~invitation[i].accepted /\ invitation'[i].accepted =>
              \E c \in Calls : Redeem(c) /\ call[c].link = i
  <1> USE DEF InvitationInv, LinkInv
  <1>1. ASSUME UNCHANGED invitation PROVE invitation'[i] = invitation[i]
    BY <1>1
  <1>2. CASE \E j \in Links : Expire(j)
    BY <1>2, ExpireEffect
  <1>3. ASSUME NEW c \in Calls, Revoke(c)
        PROVE  /\ invitation'[i].accepted = invitation[i].accepted
               /\ invitation[i].revoked => invitation'[i].revoked
    BY <1>3, RevokeEffect
  <1>4. ASSUME NEW c \in Calls, Redeem(c)
        PROVE  /\ invitation[i].accepted => invitation'[i].accepted
               /\ invitation'[i].revoked = invitation[i].revoked
               /\ invitation'[i].accepted # invitation[i].accepted =>
                    i = call[c].link /\ ~invitation[i].revoked
    <2>1. call[c].link \in Links /\ invitation' = Spend(call[c].link)
      BY <1>4, RedeemJoins DEF Redeem
    <2>2. /\ invitation[i].accepted => invitation'[i].accepted
          /\ invitation'[i].revoked = invitation[i].revoked
          /\ invitation'[i].accepted # invitation[i].accepted =>
               i = call[c].link /\ Outstanding(call[c].link)
      BY <2>1, SpendEffect
    <2> QED BY <2>2 DEF Outstanding
  <1>5. ASSUME NEW c \in Calls, NEW j \in Links, IssueLink(c, j)
        PROVE  /\ invitation'[i].accepted = invitation[i].accepted
               /\ invitation[i].revoked => invitation'[i].revoked
    <2>1. /\ ~invitation[j].issued
          /\ invitation' = [x \in Links |->
               IF x = j THEN Issued(call[c].by, call[c].login, call[c].role)
               ELSE IF x \in call[c].rows /\ Outstanding(x)
                    THEN [invitation[x] EXCEPT !.revoked = TRUE] ELSE invitation[x]]
      BY <1>5 DEF IssueLink
    <2>2. CASE i = j
      <3>1. invitation[j] = Unissued
        BY <2>1 DEF BlankUntilIssued
      <3>2. invitation'[j] = [Unissued EXCEPT !.issued = TRUE, !.by = call[c].by,
                                              !.login = call[c].login, !.role = call[c].role]
        BY <2>1 DEF Issued
      <3> QED BY <2>2, <3>1, <3>2 DEF Unissued
    <2>3. CASE i # j
      <3>1. invitation[i] \in Invitation
        BY DEF TypeOK
      <3>2. \/ invitation'[i] = invitation[i]
            \/ invitation'[i] = [invitation[i] EXCEPT !.revoked = TRUE]
        BY <2>1, <2>3
      <3> QED BY <3>1, <3>2 DEF Invitation
    <2> QED BY <2>2, <2>3
  <1>6. \/ UNCHANGED invitation
        \/ \E j \in Links : Expire(j)
        \/ \E c \in Calls : Revoke(c) \/ Redeem(c) \/ \E j \in Links : IssueLink(c, j)
    BY DEF Next, vars, inviteVars, MembershipStep, CallStep, BeginCreate, WithdrawOutstanding,
           ReadForRevoke, CheckLink, AbandonCall, Begin
  <1> QED BY <1>1, <1>2, <1>3, <1>4, <1>5, <1>6

\* A link does what it was sent for, once (InvitationService.redeem): it is marked
\* accepted only with the membership it was accepted for, what became of it stays,
\* and it rewrites no member's role.
THEOREM LinksDoNoMore == Spec => LinksKeepTheirWord
  <1> DEFINE Joined == \A i \in Links : ~invitation[i].accepted /\ invitation'[i].accepted =>
                         member'[invitation[i].login] # NoRole
             Final == \A i \in Links :
                        /\ invitation[i].accepted => invitation'[i].accepted
                        /\ invitation[i].revoked  => /\ invitation'[i].revoked
                                                     /\ invitation'[i].accepted = invitation[i].accepted
             Kept == \A u \in Users :
                       member[u] # NoRole /\ member'[u] # member[u] => request' # request
  <1>1. InvitationInv /\ [Next]_vars => Joined
    <2> SUFFICES ASSUME InvitationInv, [Next]_vars, NEW i \in Links,
                        ~invitation[i].accepted, invitation'[i].accepted
                 PROVE  member'[invitation[i].login] # NoRole
      OBVIOUS
    <2>1. PICK c \in Calls : Redeem(c) /\ call[c].link = i
      BY LinkEffect
    <2> QED BY <2>1, RedeemJoins DEF InvitationInv, LinkInv
  <1>2. InvitationInv /\ [Next]_vars => Final
    BY LinkEffect
  <1>3. InvitationInv /\ [Next]_vars => Kept
    <2> SUFFICES ASSUME InvitationInv, [Next]_vars, NEW u \in Users,
                        member[u] # NoRole, member'[u] # member[u]
                 PROVE  request' # request
      OBVIOUS
    <2>1. ASSUME NEW c \in Calls, Redeem(c) PROVE FALSE
      BY <2>1, RedeemJoins DEF Join, Granted, InvitationInv, LinkInv, TypeOK, MemberTypeOK
    <2>2. (\E c \in Calls : Redeem(c)) \/ (\E r \in Requests : Write(r))
      BY MembersChangeBy
    <2>3. PICK r \in Requests : Write(r)
      BY <2>1, <2>2
    <2>4. request[r].step = "write" /\ request'[r] = NoRequest
      BY <2>3, FinishedIsIdle DEF Write, InvitationInv, LinkInv, TypeOK
    <2> QED BY <2>4 DEF NoRequest
  <1>4. InvitationInv /\ [Next]_vars => [Joined]_vars /\ [Final]_vars /\ [Kept]_vars
    BY <1>1, <1>2, <1>3
  <1> QED BY <1>4, InvitationInvHolds, PTL
          DEF Spec, LinksKeepTheirWord, AcceptedMeansJoined, LinkIsFinal, LinkKeepsRole

\* Nobody becomes an owner but through an owner's request or a link that offers it,
\* which an owner or an admin issued (OrgMembershipGuard, InvitationService.redeem).
THEOREM OwnersAreGranted == Spec => OwnershipIsGranted
  <1> DEFINE Granting == \A u \in Users : member[u] # "OWNER" /\ member'[u] = "OWNER" =>
                           Grants(u, {"OWNER"}) \/ InvitedAsOwner(u, {"OWNER", "ADMIN"})
  <1>1. InvitationInv /\ [Next]_vars => Granting
    <2> SUFFICES ASSUME InvitationInv, [Next]_vars, NEW u \in Users,
                        member[u] # "OWNER", member'[u] = "OWNER"
                 PROVE  Grants(u, {"OWNER"}) \/ InvitedAsOwner(u, {"OWNER", "ADMIN"})
      OBVIOUS
    <2>1. ASSUME NEW c \in Calls, Redeem(c) PROVE InvitedAsOwner(u, {"OWNER", "ADMIN"})
      <3> DEFINE link == invitation[call[c].link]
      <3>1. /\ call[c].link \in AllIssued /\ link.by \in {"OWNER", "ADMIN"}
            /\ link.login \in Users /\ link.role \in Roles /\ call[c].step = "redeem"
            /\ member' = Granted(link.login, link.role)
        BY <2>1, RedeemJoins
           DEF Redeem, Join, InvitationInv, LinkInv, CallsKnowTheirLink, IssuedByManagers
      <3>2. member' = [member EXCEPT ![link.login] = link.role] /\ member[link.login] = NoRole
        BY <3>1 DEF Granted
      <3>3. u = link.login /\ link.role = "OWNER" /\ member[u] = NoRole
        BY <3>2 DEF InvitationInv, LinkInv, TypeOK, MemberTypeOK
      <3> QED BY <3>1, <3>3 DEF InvitedAsOwner
    <2>2. ASSUME NEW r \in Requests, Write(r) PROVE Grants(u, {"OWNER"})
      <3>1. /\ request[r].step = "write"
            /\ member' = IF member[request[r].target] = NoRole THEN member
                         ELSE [member EXCEPT ![request[r].target] = request[r].newRole]
        BY <2>2 DEF Write
      <3>2. request[r].target = u /\ request[r].newRole = "OWNER"
        BY <3>1 DEF InvitationInv, MemberInv, MemberTypeOK
      <3>3. request[r].actorRole = "OWNER"
        BY <3>1, <3>2 DEF InvitationInv, MemberInv, GrantsComeFromOwners
      <3> QED BY <3>2, <3>3 DEF Grants
    <2>3. (\E c \in Calls : Redeem(c)) \/ (\E r \in Requests : Write(r))
      BY MembersChangeBy
    <2> QED BY <2>1, <2>2, <2>3
  <1>2. InvitationInv /\ [Next]_vars => [Granting]_vars
    BY <1>1
  <1> QED BY <1>2, InvitationInvHolds, PTL DEF Spec, OwnershipIsGranted

-----------------------------------------------------------------------------
(* The routes of Tenancy.  A table is a value here, so that what a handler *)
(* finds in the whole of it can be compared with what it finds in a part.  *)

ProjectRow == [owner : Organizations \cup {None}, slug : Slugs \cup {None}]
ItemRow    == [kind : Kinds, of : Projects \cup Organizations \cup {None}, login : Viewers \cup {None},
               mark : {"live", "revoked", "spent", "gone"}]
Seats      == [Viewers \X Organizations -> Ranks \cup {"NONE"}]

Databases ==
  [organization : [Organizations -> Slugs \cup {None}], seat : Seats,
   project : [Projects -> ProjectRow], item : [Items -> ItemRow]]

\* An item that was ever stored is of a project that exists, or of an organization.
Anchored(db) == \A i \in Items : IF db.item[i].of = None THEN db.item[i] = NoItem
                                                        ELSE \E o \in Organizations : Belongs(i, o, db)

\* Belongs, of a row.
RowOf(row, o, db) == IF row.kind = "invitation" THEN row.of = o ELSE Owned(row.of, o, db)

\* What is stored for a project.
ProjectKinds == Kinds \ {"invitation"}

LEMMA NoRowsAreRows == NoProject \in ProjectRow /\ NoItem \in ItemRow
  BY DEF NoProject, NoItem, ProjectRow, ItemRow, Kinds

\* What is within the given organizations, table by table.
LEMMA WithinTables ==
  ASSUME NEW owners, NEW db \in Databases
  PROVE  /\ Within(owners, db) \in Databases
         /\ \A o \in Organizations : Within(owners, db).organization[o] = IF o \in owners THEN db.organization[o] ELSE None
         /\ \A u \in Viewers, o \in Organizations :
              Within(owners, db).seat[u, o] = IF o \in owners THEN db.seat[u, o] ELSE "NONE"
         /\ \A p \in Projects : Within(owners, db).project[p] =
              IF db.project[p].owner \in owners THEN db.project[p] ELSE NoProject
         /\ \A i \in Items : Within(owners, db).item[i] =
              IF \E o \in owners : Belongs(i, o, db) THEN db.item[i] ELSE NoItem
  <1>1. db.organization \in [Organizations -> Slugs \cup {None}] /\ db.seat \in Seats
        /\ db.project \in [Projects -> ProjectRow] /\ db.item \in [Items -> ItemRow]
    BY DEF Databases
  <1>2. \A u \in Viewers, o \in Organizations :
              Within(owners, db).seat[u, o] = IF o \in owners THEN db.seat[u, o] ELSE "NONE"
    BY DEF Within
  <1>3. Within(owners, db).seat \in Seats
    BY <1>1 DEF Within, Seats
  <1>4. Within(owners, db).project \in [Projects -> ProjectRow] /\ Within(owners, db).item \in [Items -> ItemRow]
    BY <1>1, NoRowsAreRows DEF Within
  <1>5. Within(owners, db).organization \in [Organizations -> Slugs \cup {None}]
    BY <1>1 DEF Within
  <1>6. Within(owners, db) = [organization |-> Within(owners, db).organization, seat |-> Within(owners, db).seat,
                              project |-> Within(owners, db).project, item |-> Within(owners, db).item]
    BY DEF Within
  <1>7. Within(owners, db) \in Databases
    BY <1>3, <1>4, <1>5, <1>6 DEF Databases
  <1> QED BY <1>2, <1>7 DEF Within

\* What an organization's request finds is there without the others.
LEMMA FoundWithin ==
  ASSUME NEW db \in Databases, Anchored(db), NEW o \in Organizations
  PROVE  LET own == Within({o}, db) IN
         /\ \A p : Owned(p, o, own) <=> Owned(p, o, db)
         /\ \A p : Owned(p, o, db) => own.project[p] = db.project[p]
         /\ \A i \in Items : Belongs(i, o, db) => own.item[i] = db.item[i]
         /\ \A kind \in ProjectKinds : \A p : Owned(p, o, db) => Stored(kind, p, own) = Stored(kind, p, db)
         /\ \A kind \in ProjectKinds : \A p : StoredWithin(kind, p, o, own) = StoredWithin(kind, p, o, db)
         /\ \A p : \A slug \in Slugs : SlugTaken(o, p, slug, own) <=> SlugTaken(o, p, slug, db)
         /\ Invited(o, own) = Invited(o, db)
         /\ \A u \in Viewers : own.seat[u, o] = db.seat[u, o]
  <1> DEFINE own == Within({o}, db)
  <1>1. o # None
    BY TenancyAssumption
  <1>2. \A p \in Projects : own.project[p] = IF db.project[p].owner = o THEN db.project[p] ELSE NoProject
    BY DEF Within
  <1>3. \A i \in Items : own.item[i] = IF Belongs(i, o, db) THEN db.item[i] ELSE NoItem
    BY DEF Within
  <1>0. \A u \in Viewers : own.seat[u, o] = db.seat[u, o]
    BY DEF Within
  <1> HIDE DEF own
  <1>4. \A p : Owned(p, o, own) <=> Owned(p, o, db)
    BY <1>1, <1>2 DEF Owned, NoProject
  <1>5. \A p : Owned(p, o, db) => own.project[p] = db.project[p]
    BY <1>2 DEF Owned
  <1>6. ASSUME NEW kind \in ProjectKinds, NEW p, Owned(p, o, db) PROVE Stored(kind, p, own) = Stored(kind, p, db)
    <2>1. p # None
      BY <1>6, TenancyAssumption DEF Owned
    <2>2. ASSUME NEW i \in Items
          PROVE  own.item[i].mark # "gone" /\ own.item[i].kind = kind /\ own.item[i].of = p
             <=> db.item[i].mark # "gone" /\ db.item[i].kind = kind /\ db.item[i].of = p
      <3>1. CASE Belongs(i, o, db)
        BY <3>1, <1>3
      <3>2. CASE ~Belongs(i, o, db)
        <4>1. own.item[i] = NoItem /\ (db.item[i].kind # kind \/ db.item[i].of # p)
          BY <3>2, <1>3, <1>6 DEF Belongs, ProjectKinds
        <4> QED BY <4>1, <2>1 DEF NoItem
      <3> QED BY <3>1, <3>2
    <2> QED BY <2>2 DEF Stored
  <1>7. \A kind \in ProjectKinds : \A p : StoredWithin(kind, p, o, own) = StoredWithin(kind, p, o, db)
    BY <1>4, <1>6 DEF StoredWithin
  <1>8. ASSUME NEW p, NEW slug \in Slugs PROVE SlugTaken(o, p, slug, own) <=> SlugTaken(o, p, slug, db)
    <2>1. ASSUME NEW q \in Projects
          PROVE  own.project[q] = [owner |-> o, slug |-> slug] <=> db.project[q] = [owner |-> o, slug |-> slug]
      BY <1>1, <1>2 DEF NoProject
    <2> QED BY <2>1 DEF SlugTaken
  <1>9. Invited(o, own) = Invited(o, db)
    <2>1. ASSUME NEW i \in Items
          PROVE  own.item[i].kind = "invitation" /\ own.item[i].of = o
             <=> db.item[i].kind = "invitation" /\ db.item[i].of = o
      BY <1>1, <1>3 DEF Belongs, NoItem
    <2> QED BY <2>1 DEF Invited
  <1> QED BY <1>0, <1>3, <1>4, <1>5, <1>6, <1>7, <1>8, <1>9 DEF own

LEMMA WithinIsOne == \A owners : \A db \in Databases : Within(owners, db) \in Databases
  BY WithinTables

LEMMA SameDatabase ==
  ASSUME NEW a \in Databases, NEW b \in Databases,
         a.organization = b.organization, a.seat = b.seat, a.project = b.project, a.item = b.item
  PROVE  a = b
  BY DEF Databases

\* A project written for an organization is written within it, and nowhere else.
LEMMA ProjectWrittenWithin ==
  ASSUME NEW db \in Databases, Anchored(db), NEW o \in Organizations,
         NEW p \in Projects, db.project[p].owner \in {None, o},
         NEW row \in ProjectRow, row.owner = o
  PROVE  LET written == WithProject(p, row, db)
             own == Within({o}, db) IN
         /\ Within({o}, written) = WithProject(p, row, own)
         /\ Within(Organizations \ {o}, written) = Within(Organizations \ {o}, db)
  <1> DEFINE written == WithProject(p, row, db)
             own == Within({o}, db)
             others == Organizations \ {o}
  <1>0. o # None
    BY TenancyAssumption
  <1>1. /\ written.organization = db.organization /\ written.seat = db.seat /\ written.item = db.item
        /\ written.project = [db.project EXCEPT ![p] = row]
        /\ written \in Databases
    BY DEF WithProject, Databases
  <1>2. \A q \in Projects : q # p => written.project[q] = db.project[q]
    BY <1>1 DEF Databases
  <1>3. written.project[p] = row
    BY <1>1 DEF Databases
  <1> HIDE DEF written
  <1>4. ASSUME NEW i \in Items, db.item[i].of = p, db.item[i].kind # "invitation" PROVE db.project[p].owner = o
    BY <1>4, TenancyAssumption DEF Anchored, Belongs, Owned
  <1>5. ASSUME NEW i \in Items, NEW x \in Organizations PROVE Belongs(i, x, written) <=> Belongs(i, x, db)
    <2>1. CASE db.item[i].kind = "invitation"
      BY <2>1, <1>1 DEF Belongs
    <2>2. CASE db.item[i].kind # "invitation" /\ db.item[i].of = p
      BY <2>2, <1>4, <1>3, <1>1 DEF Belongs, Owned
    <2>3. CASE db.item[i].of # p
      BY <2>3, <1>2, <1>1 DEF Belongs, Owned
    <2> QED BY <2>1, <2>2, <2>3
  <1>6. Within({o}, written) = WithProject(p, row, own)
    <2>1. own \in Databases /\ Within({o}, written) \in Databases
      BY <1>1, WithinTables
    <2>2. /\ WithProject(p, row, own) \in Databases
          /\ WithProject(p, row, own).organization = own.organization /\ WithProject(p, row, own).seat = own.seat
          /\ WithProject(p, row, own).item = own.item
          /\ WithProject(p, row, own).project = [own.project EXCEPT ![p] = row]
      BY <2>1 DEF WithProject, Databases
    <2>3. Within({o}, written).organization = own.organization /\ Within({o}, written).seat = own.seat
      BY <1>1 DEF Within
    <2>4. Within({o}, written).item = own.item
      BY <1>1, <1>5 DEF Within
    <2>5. ASSUME NEW q \in Projects PROVE Within({o}, written).project[q] = [own.project EXCEPT ![p] = row][q]
      <3>1. own.project \in [Projects -> ProjectRow]
        BY <2>1 DEF Databases
      <3>2. CASE q = p
        BY <3>1, <3>2, <1>3 DEF Within
      <3>3. CASE q # p
        BY <3>1, <3>3, <1>2 DEF Within
      <3> QED BY <3>2, <3>3
    <2>6. Within({o}, written).project = [own.project EXCEPT ![p] = row]
      BY <2>1, <2>5 DEF Databases
    <2> QED BY <2>1, <2>2, <2>3, <2>4, <2>6, SameDatabase
  <1>7. Within(others, written) = Within(others, db)
    <2>1. \A q \in Projects : Within(others, written).project[q] = Within(others, db).project[q]
      BY <1>0, <1>2, <1>3, TenancyAssumption DEF Within
    <2>2. Within(others, written).project = Within(others, db).project
      BY <2>1 DEF Within
    <2>3. Within(others, written).item = Within(others, db).item
      BY <1>1, <1>5 DEF Within
    <2>4. Within(others, written).organization = Within(others, db).organization /\ Within(others, written).seat = Within(others, db).seat
      BY <1>1 DEF Within
    <2>5. Within(others, written) \in Databases /\ Within(others, db) \in Databases
      BY <1>1, WithinIsOne
    <2> QED BY <2>2, <2>3, <2>4, <2>5, SameDatabase
  <1> QED BY <1>6, <1>7 DEF written

\* So are rows of items: each is new or was the organization's, and is the organization's.
OwnRows(items, o, db) ==
  /\ items \in [Items -> ItemRow]
  /\ \A j \in Items : \/ items[j] = db.item[j]
                      \/ /\ RowOf(items[j], o, db)
                         /\ \/ db.item[j].of = None
                            \/ db.item[j].of = items[j].of /\ db.item[j].kind = items[j].kind

WithItems(items, db) == [db EXCEPT !.item = items]

LEMMA ItemsWrittenWithin ==
  ASSUME NEW db \in Databases, Anchored(db), NEW o \in Organizations, NEW items, OwnRows(items, o, db)
  PROVE  LET written == WithItems(items, db)
             own == Within({o}, db) IN
         /\ Within({o}, written) =
              WithItems([j \in Items |-> IF items[j] = db.item[j] THEN own.item[j] ELSE items[j]], own)
         /\ Within(Organizations \ {o}, written) = Within(Organizations \ {o}, db)
  <1> DEFINE written == WithItems(items, db)
             own == Within({o}, db)
             others == Organizations \ {o}
             rows == [j \in Items |-> IF items[j] = db.item[j] THEN own.item[j] ELSE items[j]]
  <1>1. /\ written.organization = db.organization /\ written.seat = db.seat /\ written.project = db.project
        /\ written.item = items /\ written \in Databases
    BY DEF WithItems, Databases, OwnRows
  <1> HIDE DEF written
  <1>2. \A p, x : Owned(p, x, written) <=> Owned(p, x, db)
    BY <1>1 DEF Owned
  <1>3. \A j \in Items, x \in Organizations : /\ Belongs(j, x, written) <=> RowOf(items[j], x, db)
                                              /\ Belongs(j, x, db) <=> RowOf(db.item[j], x, db)
    BY <1>1, <1>2 DEF Belongs, RowOf
  <1>4. ASSUME NEW j \in Items, items[j] # db.item[j]
        PROVE  /\ Belongs(j, o, written)
               /\ \A x \in others : ~Belongs(j, x, written) /\ ~Belongs(j, x, db)
    <2>1. RowOf(items[j], o, db)
      BY <1>4 DEF OwnRows
    <2>2. \A x \in others : ~RowOf(items[j], x, db)
      BY <2>1, TenancyAssumption DEF RowOf, Owned
    <2>3. db.item[j].of = None => \A x \in Organizations : ~RowOf(db.item[j], x, db)
      BY TenancyAssumption DEF RowOf, Owned
    <2>4. db.item[j].of = items[j].of /\ db.item[j].kind = items[j].kind =>
            \A x \in others : ~RowOf(db.item[j], x, db)
      BY <2>2 DEF RowOf
    <2> QED BY <1>3, <1>4, <2>1, <2>2, <2>3, <2>4 DEF OwnRows
  <1>5. ASSUME NEW j \in Items, items[j] = db.item[j], NEW x \in Organizations
        PROVE  Belongs(j, x, written) <=> Belongs(j, x, db)
    BY <1>3, <1>5
  <1>6. Within({o}, written) = WithItems(rows, own)
    <2>1. own \in Databases /\ Within({o}, written) \in Databases
      BY <1>1, WithinTables
    <2>2. rows \in [Items -> ItemRow]
      BY <2>1 DEF OwnRows, Databases
    <2>3. /\ WithItems(rows, own) \in Databases
          /\ WithItems(rows, own).organization = own.organization /\ WithItems(rows, own).seat = own.seat
          /\ WithItems(rows, own).project = own.project
          /\ WithItems(rows, own).item = rows
      BY <2>1, <2>2 DEF WithItems, Databases
    <2>4. Within({o}, written).organization = own.organization /\ Within({o}, written).seat = own.seat
          /\ Within({o}, written).project = own.project
      BY <1>1 DEF Within
    <2>5. ASSUME NEW j \in Items PROVE Within({o}, written).item[j] = rows[j]
      <3>1. Within({o}, written).item[j] = IF Belongs(j, o, written) THEN items[j] ELSE NoItem
        BY <1>1 DEF Within
      <3>2. own.item[j] = IF Belongs(j, o, db) THEN db.item[j] ELSE NoItem
        BY DEF Within
      <3> HIDE DEF own
      <3>3. CASE items[j] = db.item[j]
        BY <3>1, <3>2, <3>3, <1>5
      <3>4. CASE items[j] # db.item[j]
        BY <3>1, <3>4, <1>4
      <3> QED BY <3>3, <3>4
    <2>6. Within({o}, written).item = rows
      BY <2>1, <2>2, <2>5 DEF Databases
    <2> QED BY <2>1, <2>3, <2>4, <2>6, SameDatabase
  <1>7. Within(others, written) = Within(others, db)
    <2>1. ASSUME NEW j \in Items PROVE Within(others, written).item[j] = Within(others, db).item[j]
      <3>1. CASE items[j] = db.item[j]
        BY <3>1, <1>1, <1>5 DEF Within
      <3>2. CASE items[j] # db.item[j]
        BY <3>2, <1>4 DEF Within
      <3> QED BY <3>1, <3>2
    <2>2. Within(others, written).item = Within(others, db).item
      BY <2>1 DEF Within
    <2>3. Within(others, written).organization = Within(others, db).organization /\ Within(others, written).seat = Within(others, db).seat
          /\ Within(others, written).project = Within(others, db).project
      BY <1>1 DEF Within
    <2>4. Within(others, written) \in Databases /\ Within(others, db) \in Databases
      BY <1>1, WithinIsOne
    <2> QED BY <2>2, <2>3, <2>4, SameDatabase
  <1> QED BY <1>6, <1>7 DEF written

\* One row that is written is a case of it.
LEMMA OneItemIsItems ==
  ASSUME NEW db \in Databases, NEW i \in Items, NEW row
  PROVE  WithItem(i, row, db) = WithItems([db.item EXCEPT ![i] = row], db)
  BY DEF WithItem, WithItems

LEMMA OneItemIsOwn ==
  ASSUME NEW db \in Databases, NEW o \in Organizations, NEW i \in Items, NEW row \in ItemRow, RowOf(row, o, db),
         db.item[i].of = None \/ (db.item[i].of = row.of /\ db.item[i].kind = row.kind)
  PROVE  OwnRows([db.item EXCEPT ![i] = row], o, db)
  BY DEF OwnRows, Databases

LEMMA ItemWrittenWithin ==
  ASSUME NEW db \in Databases, Anchored(db), NEW o \in Organizations,
         NEW i \in Items, NEW row \in ItemRow, RowOf(row, o, db),
         db.item[i].of = None \/ (db.item[i].of = row.of /\ db.item[i].kind = row.kind)
  PROVE  LET written == WithItem(i, row, db)
             own == Within({o}, db) IN
         /\ Within({o}, written) = WithItem(i, row, own)
         /\ Within(Organizations \ {o}, written) = Within(Organizations \ {o}, db)
  <1> DEFINE items == [db.item EXCEPT ![i] = row]
             own == Within({o}, db)
  <1>1. OwnRows(items, o, db)
    BY OneItemIsOwn
  <1>2. own \in Databases /\ db.item \in [Items -> ItemRow]
    BY WithinTables DEF Databases
  <1>3. own.item \in [Items -> ItemRow]
    BY <1>2 DEF Databases
  <1>4. Belongs(i, o, db) => own.item[i] = db.item[i]
    BY FoundWithin
  <1>5. db.item[i] = row => Belongs(i, o, db)
    BY DEF Belongs, RowOf
  <1> HIDE DEF own
  <1>6. [j \in Items |-> IF items[j] = db.item[j] THEN own.item[j] ELSE items[j]] = [own.item EXCEPT ![i] = row]
    BY <1>2, <1>3, <1>4, <1>5
  <1>7. WithItem(i, row, db) = WithItems(items, db) /\ WithItem(i, row, own) = WithItems([own.item EXCEPT ![i] = row], own)
    BY <1>2, OneItemIsItems
  <1> HIDE DEF items
  <1>8. /\ Within({o}, WithItems(items, db)) =
             WithItems([j \in Items |-> IF items[j] = db.item[j] THEN own.item[j] ELSE items[j]], own)
        /\ Within(Organizations \ {o}, WithItems(items, db)) = Within(Organizations \ {o}, db)
    BY <1>1, ItemsWrittenWithin DEF own
  <1> QED BY <1>6, <1>7, <1>8 DEF own

\* And a membership.
WithSeat(u, o, rank, db) == [db EXCEPT !.seat = [db.seat EXCEPT ![<<u, o>>] = rank]]

LEMMA SeatWrittenWithin ==
  ASSUME NEW db \in Databases, NEW o \in Organizations, NEW u \in Viewers, NEW rank \in Ranks \cup {"NONE"}
  PROVE  LET written == WithSeat(u, o, rank, db)
             own == Within({o}, db) IN
         /\ Within({o}, written) = WithSeat(u, o, rank, own)
         /\ Within(Organizations \ {o}, written) = Within(Organizations \ {o}, db)
  <1> DEFINE written == WithSeat(u, o, rank, db)
             own == Within({o}, db)
             others == Organizations \ {o}
             seats == [db.seat EXCEPT ![<<u, o>>] = rank]
             ownSeats == [own.seat EXCEPT ![<<u, o>>] = rank]
  <1>0. own \in Databases
    BY WithinTables
  <1>1. db.seat \in Seats /\ own.seat \in Seats /\ seats \in Seats /\ ownSeats \in Seats
    BY <1>0 DEF Databases, Seats
  <1>2. /\ written.organization = db.organization /\ written.item = db.item /\ written.project = db.project
        /\ written.seat = seats /\ written \in Databases
    BY <1>1 DEF WithSeat, Databases
  <1>3. /\ WithSeat(u, o, rank, own).organization = own.organization /\ WithSeat(u, o, rank, own).item = own.item
        /\ WithSeat(u, o, rank, own).project = own.project
        /\ WithSeat(u, o, rank, own).seat = ownSeats /\ WithSeat(u, o, rank, own) \in Databases
    <2> HIDE DEF own
    <2> QED BY <1>0, <1>1 DEF WithSeat, Databases
  <1> HIDE DEF written
  <1>4. \A i \in Items : \A x : Belongs(i, x, written) <=> Belongs(i, x, db)
    BY <1>2 DEF Belongs, Owned
  <1>5. Within({o}, written) = WithSeat(u, o, rank, own)
    <2>1. Within({o}, written).organization = own.organization /\ Within({o}, written).project = own.project
          /\ Within({o}, written).item = own.item
      BY <1>2, <1>4 DEF Within
    <2>2. ASSUME NEW s \in Viewers \X Organizations PROVE Within({o}, written).seat[s] = ownSeats[s]
      <3>1. Within({o}, written).seat[s] = IF s[2] = o THEN seats[s] ELSE "NONE"
        BY <1>2 DEF Within
      <3>2. own.seat[s] = IF s[2] = o THEN db.seat[s] ELSE "NONE"
        BY DEF Within
      <3> HIDE DEF own
      <3>3. seats[s] = (IF s = <<u, o>> THEN rank ELSE db.seat[s]) /\ ownSeats[s] = IF s = <<u, o>> THEN rank ELSE own.seat[s]
        BY <1>1 DEF Seats
      <3> QED BY <3>1, <3>2, <3>3
    <2>3. Within({o}, written) \in Databases
      BY <1>2, WithinTables
    <2>4. Within({o}, written).seat = ownSeats
      BY <1>1, <2>2, <2>3 DEF Seats, Databases
    <2> QED BY <1>3, <2>1, <2>3, <2>4, SameDatabase
  <1>6. Within(others, written) = Within(others, db)
    <2>1. ASSUME NEW s \in Viewers \X Organizations, s[2] # o PROVE seats[s] = db.seat[s]
      BY <1>1, <2>1 DEF Seats
    <2>2. Within(others, written).seat = Within(others, db).seat
      BY <1>2, <2>1 DEF Within
    <2>3. Within(others, written).organization = Within(others, db).organization /\ Within(others, written).item = Within(others, db).item
          /\ Within(others, written).project = Within(others, db).project
      BY <1>2, <1>4 DEF Within
    <2>4. Within(others, written) \in Databases /\ Within(others, db) \in Databases
      BY <1>2, WithinIsOne
    <2> QED BY <2>2, <2>3, <2>4, SameDatabase
  <1> QED BY <1>5, <1>6 DEF written

-----------------------------------------------------------------------------
(* The rows a statement may write.  `w` is a request, `db` what it finds.  *)

LEMMA StatesAreDatabases ==
  ASSUME TenancyTypeOK, RowsHaveOwners
  PROVE  Database \in Databases /\ Anchored(Database)
  <1>1. Database \in Databases
    BY DEF TenancyTypeOK, Database, Databases, ProjectRow, ItemRow, Seats
  <1>2. Database.item = item
    BY DEF Database
  <1> QED BY <1>1, <1>2 DEF RowsHaveOwners, Anchored

\* Which requests are about a person.
NamesAnAccount(w) == FindsMember(w) \/ (w.on = "invitation" /\ w.does = "create")

\* What the next statement of a request goes by, by what the tables say.
Goes(w, projects, items) ==
  IF FindsMember(w) THEN w.user \in Viewers
  ELSE /\ w.step = "found"
       /\ IF w.on = "invitation"
          THEN IF w.does = "revoke" THEN w.item \in Items /\ items[w.item].kind = "invitation" /\ items[w.item].of = w.owner
               ELSE w.does = "create" /\ w.user \in Viewers
          ELSE /\ FindsProject(w) \/ FindsRule(w) \/ w.does = "revoke" \/ FindsRoots(w)
               /\ (w.project \in Projects /\ projects[w.project].owner = w.owner) \/ (FindsRoots(w) /\ w.rows = {})
               /\ FindsRule(w) \/ w.does = "revoke" =>
                    w.item \in Items /\ items[w.item].of = w.project /\ items[w.item].kind = w.on

\* What is known of a request under way, of the statement it is at.
Ready(w, new, db) ==
  /\ w.step \in {"admitted", "found", "counted"} /\ w \in Visit /\ w.owner \in Organizations
  /\ Route(w.on, w.does) \in Routes
  /\ NamesAnAccount(w) => w.user \in Viewers
  /\ w.does = "create" /\ w.on = "project" => new \in Projects /\ db.project[new].owner = None
  /\ w.does = "create" /\ w.on # "project" => new \in Items /\ db.item[new].of = None
  /\ w.step # "admitted" => Goes(w, db.project, db.item)

\* Who is concerned stays known.
AccountsAreNamed == \A v \in Visits : visit[v].step # "idle" /\ NamesAnAccount(visit[v]) => visit[v].user \in Viewers

LEMMA FoundIsGoes ==
  FoundStaysWithin <=> \A v \in Visits : visit[v].step \in {"found", "counted"} => Goes(visit[v], project, item)
  BY DEF FoundStaysWithin, Goes, Owned, Invited, Database

LEMMA FoundIsGoesNext ==
  FoundStaysWithin' <=> \A v \in Visits : visit'[v].step \in {"found", "counted"} => Goes(visit'[v], project', item')
  BY DEF FoundStaysWithin, Goes, Owned, Invited, Database

LEMMA RequestsAreReady ==
  ASSUME TenancyTypeOK, PathStillNamesIt, FoundStaysWithin, AccountsAreNamed,
         NEW v \in Visits, visit[v].step # "idle", NEW new \in NewRows(visit[v])
  PROVE  Ready(visit[v], new, Database)
  <1> DEFINE w == visit[v]
  <1>1. w \in Visit /\ Route(w.on, w.does) \in Routes
    BY DEF TenancyTypeOK
  <1>2. w.step \in {"admitted", "found", "counted"} /\ w.owner \in Organizations
    BY <1>1 DEF Visit, PathStillNamesIt
  <1>3. /\ w.does = "create" /\ w.on = "project" => new \in Projects /\ Database.project[new].owner = None
        /\ w.does = "create" /\ w.on # "project" => new \in Items /\ Database.item[new].of = None
    BY DEF NewRows, FreeProjects, Free, Unowned, Unused, Database
  <1>4. w.step # "admitted" => Goes(w, project, item)
    BY <1>2, FoundIsGoes
  <1>5. Database.project = project /\ Database.item = item
    BY DEF Database
  <1>6. NamesAnAccount(w) => w.user \in Viewers
    BY DEF AccountsAreNamed
  <1> QED BY <1>1, <1>2, <1>3, <1>4, <1>5, <1>6 DEF Ready

\* The routes, one by one, by what their statements are.
LEMMA RouteCases ==
  ASSUME NEW on, NEW does, Route(on, does) \in Routes
  PROVE  \/ on = "organization" /\ does \in {"show", "update"}
         \/ on = "member" /\ does \in {"list", "update", "delete"}
         \/ on = "membership" /\ does = "delete"
         \/ on = "invitation" /\ does \in {"list", "create", "revoke"}
         \/ on = "project" /\ does \in {"list", "create", "update"}
         \/ on = "token" /\ does \in {"list", "create", "revoke"}
         \/ on = "rule" /\ does \in {"list", "create", "update", "delete"}
         \/ on = "report" /\ does \in {"list", "show"}
         \/ on = "log" /\ does = "list"
         \/ on = "span" /\ does \in {"list", "show"}
         \/ on = "dashboard" /\ does = "show"
  <1> USE DEF Route
  <1>1. CASE Route(on, does) \in OrganizationRoutes \cup ProjectRoutes
    BY <1>1 DEF OrganizationRoutes, ProjectRoutes
  <1>2. CASE Route(on, does) \in TokenRoutes \cup RuleRoutes
    BY <1>2 DEF TokenRoutes, RuleRoutes
  <1>3. CASE Route(on, does) \in ReportRoutes \cup LogRoutes
    BY <1>3 DEF ReportRoutes, LogRoutes
  <1>4. CASE Route(on, does) \in TraceRoutes \cup SummaryRoutes
    BY <1>4 DEF TraceRoutes, SummaryRoutes
  <1>5. CASE Route(on, does) \in MemberRoutes \cup LinkRoutes
    BY <1>5 DEF MemberRoutes, LinkRoutes
  <1> QED BY <1>1, <1>2, <1>3, <1>4, <1>5 DEF Routes

\* Which rows its statements go by: those of one kind of resource only.
LEMMA FindsOneThing ==
  ASSUME NEW w, Route(w.on, w.does) \in Routes
  PROVE  /\ FindsMember(w) => /\ ~FindsProject(w) /\ ~FindsRule(w) /\ ~FindsRoots(w) /\ w.on # "invitation"
                              /\ w.does \notin {"revoke", "create"}
         /\ FindsProject(w) => ~FindsRule(w) /\ ~FindsRoots(w) /\ w.does # "revoke" /\ w.on # "invitation"
         /\ FindsRule(w) => ~FindsRoots(w) /\ w.does # "revoke" /\ w.on = "rule"
         /\ FindsRoots(w) => w.does # "revoke" /\ w.on = "span"
         /\ w.does = "revoke" => w.on \in {"token", "invitation"}
  BY RouteCases DEF FindsMember, FindsProject, FindsRule, FindsRoots

\* What the first statement of a request to a project is.
LEMMA FirstAtProjects ==
  ASSUME NEW w, Route(w.on, w.does) \in Routes, NEW new, w.on \notin {"organization", "member", "membership", "invitation"}
  PROVE  \/ w.on = "project" /\ w.does = "list" /\ \A db : FirstStatement(w, new, db) = ProjectsListed(w, db)
         \/ w.on = "project" /\ w.does = "create" /\ \A db : FirstStatement(w, new, db) = ProjectCreated(w, new, db)
         \/ w.on = "report" /\ w.does = "show" /\ \A db : FirstStatement(w, new, db) = ReportShown(w, db)
         \/ FindsProject(w) /\ \A db : FirstStatement(w, new, db) = ProjectFound(w, db)
         \/ FindsRule(w) /\ \A db : FirstStatement(w, new, db) = RuleFound(w, db)
         \/ w.on = "token" /\ w.does = "revoke" /\ \A db : FirstStatement(w, new, db) = TokenFound(w, db)
         \/ FindsRoots(w) /\ \A db : FirstStatement(w, new, db) = RootsFound(w, db)
         \/ w.on \in {"report", "log", "span"} /\ \A db : FirstStatement(w, new, db) = ItemsListed(w, db)
  <1> USE DEF FirstStatement, FindsMember, FindsProject, FindsRule, FindsRoots
  <1>1. CASE w.on = "project"
    BY <1>1, RouteCases
  <1>2. CASE w.on = "token"
    BY <1>2, RouteCases
  <1>3. CASE w.on = "rule"
    BY <1>3, RouteCases
  <1>4. CASE w.on \in {"report", "log"}
    BY <1>4, RouteCases
  <1>5. CASE w.on \in {"span", "dashboard"}
    BY <1>5, RouteCases
  <1> QED BY <1>1, <1>2, <1>3, <1>4, <1>5, RouteCases

\* And of one to the people of an organization.
LEMMA FirstAtPeople ==
  ASSUME NEW w, Route(w.on, w.does) \in Routes, NEW new, w.on \in {"organization", "member", "membership", "invitation"}
  PROVE  \/ w.on = "organization" /\ \A db : FirstStatement(w, new, db) = OrganizationShown(w, db)
         \/ w.on = "member" /\ \A db : FirstStatement(w, new, db) = MembersListed(w, db)
         \/ FindsMember(w) /\ \A db : FirstStatement(w, new, db) = MemberFound(w, db)
         \/ w.on = "invitation" /\ w.does = "list" /\ \A db : FirstStatement(w, new, db) = LinksListed(w, db)
         \/ w.on = "invitation" /\ w.does = "create" /\ \A db : FirstStatement(w, new, db) = InviteeSought(w, db)
         \/ w.on = "invitation" /\ w.does = "revoke" /\ \A db : FirstStatement(w, new, db) = LinkFound(w, db)
  BY RouteCases DEF FirstStatement, FindsMember, FindsProject, FindsRule, FindsRoots

LEMMA SecondStatements ==
  ASSUME NEW w, Route(w.on, w.does) \in Routes, NEW new, NEW projects, NEW items, w.step = "found", Goes(w, projects, items)
  PROVE  \/ FindsMember(w) /\ \A db : SecondStatement(w, new, db) = OwnersCounted(w, db)
         \/ w.on = "invitation" /\ w.does = "create" /\ \A db : SecondStatement(w, new, db) = LinkIssued(w, new, db)
         \/ w.on = "project" /\ FindsProject(w) /\ \A db : SecondStatement(w, new, db) = ProjectUpdated(w, db)
         \/ w.on = "dashboard" /\ FindsProject(w) /\ \A db : SecondStatement(w, new, db) = ActivitySummed(w, db)
         \/ FindsRoots(w) /\ \A db : SecondStatement(w, new, db) = SpansCounted(w, db)
         \/ w.on \in {"token", "rule"} /\ w.does = "list" /\ \A db : SecondStatement(w, new, db) = ListedOf(w, db)
         \/ w.on \in {"token", "rule"} /\ w.does = "create" /\ \A db : SecondStatement(w, new, db) = AddedTo(w, new, db)
         \/ w.on \in {"token", "invitation"} /\ w.does = "revoke" /\ \A db : SecondStatement(w, new, db) = Revoked(w, db)
         \/ FindsRule(w) /\ \A db : SecondStatement(w, new, db) = RuleChanged(w, db)
  <1> USE DEF FindsMember, FindsProject, FindsRule, FindsRoots
  <1>1. CASE FindsMember(w)
    <2>1. w.on \in {"member", "membership"} /\ w.does \in {"update", "delete"}
      BY <1>1, RouteCases
    <2> QED BY <1>1, <2>1 DEF SecondStatement
  <1>2. CASE w.on = "invitation"
    <2>1. w.does \in {"create", "revoke"}
      BY <1>2 DEF Goes
    <2> QED BY <1>2, <2>1 DEF SecondStatement
  <1>3. CASE ~FindsMember(w) /\ w.on \in {"project", "dashboard", "span"}
    <2>1. \/ w.on = "project" /\ w.does = "update"
          \/ w.on = "dashboard" /\ w.does = "show"
          \/ w.on = "span" /\ w.does = "list"
      BY <1>3, RouteCases DEF Goes
    <2> QED BY <2>1 DEF SecondStatement
  <1>4. CASE ~FindsMember(w) /\ w.on \in {"token", "rule"}
    <2>1. \/ w.does \in {"list", "create"}
          \/ w.does = "revoke" /\ w.on = "token"
          \/ w.does \in {"update", "delete"} /\ w.on = "rule"
      BY <1>4, RouteCases DEF Goes
    <2> QED BY <1>4, <2>1 DEF SecondStatement
  <1>5. \/ FindsMember(w) \/ w.on = "invitation" \/ (~FindsMember(w) /\ w.on \in {"project", "dashboard", "span"})
        \/ (~FindsMember(w) /\ w.on \in {"token", "rule"})
    BY RouteCases DEF Goes
  <1> QED BY <1>1, <1>2, <1>3, <1>4, <1>5

\* Reading leaves the database as it is.
LEMMA ReadsWriteNothing ==
  ASSUME NEW w, NEW db
  PROVE  /\ OrganizationShown(w, db).db = db /\ MembersListed(w, db).db = db /\ ProjectsListed(w, db).db = db
         /\ LinksListed(w, db).db = db /\ LinkFound(w, db).db = db /\ InviteeSought(w, db).db = db
         /\ MemberFound(w, db).db = db /\ OwnersCounted(w, db).db = db
         /\ ReportShown(w, db).db = db /\ ItemsListed(w, db).db = db /\ ProjectFound(w, db).db = db
         /\ RuleFound(w, db).db = db /\ TokenFound(w, db).db = db /\ RootsFound(w, db).db = db
         /\ ListedOf(w, db).db = db /\ SpansCounted(w, db).db = db /\ ActivitySummed(w, db).db = db
  <1>1. /\ OrganizationShown(w, db).db = db /\ MembersListed(w, db).db = db /\ ProjectsListed(w, db).db = db
        /\ LinksListed(w, db).db = db /\ LinkFound(w, db).db = db /\ InviteeSought(w, db).db = db
        /\ MemberFound(w, db).db = db /\ OwnersCounted(w, db).db = db
    BY DEF OrganizationShown, MembersListed, ProjectsListed, LinksListed, LinkFound, InviteeSought, MemberFound,
           OwnersCounted, Outcome
  <1>2. /\ ReportShown(w, db).db = db /\ ItemsListed(w, db).db = db /\ ProjectFound(w, db).db = db
        /\ RuleFound(w, db).db = db /\ TokenFound(w, db).db = db /\ RootsFound(w, db).db = db
        /\ ListedOf(w, db).db = db /\ SpansCounted(w, db).db = db /\ ActivitySummed(w, db).db = db
    BY DEF ReportShown, ItemsListed, ProjectFound, RuleFound, TokenFound, RootsFound, ListedOf, SpansCounted,
           ActivitySummed, Outcome
  <1> QED BY <1>1, <1>2

\* A statement writes nothing, or one project of the request's organization, or
\* items of it, or one membership.
Writes(w, db, out) ==
  \/ out.db = db
  \/ \E p \in Projects, row \in ProjectRow :
       /\ out.db = WithProject(p, row, db) /\ row.owner = w.owner /\ row.slug # None
       /\ db.project[p].owner \in {None, w.owner} /\ ~SlugTaken(w.owner, p, row.slug, db)
  \/ \E items : out.db = WithItems(items, db) /\ OwnRows(items, w.owner, db)
  \/ \E u \in Viewers, rank \in Ranks \cup {"NONE"} : out.db = WithSeat(u, w.owner, rank, db)

LEMMA NothingIsWritten ==
  ASSUME NEW w, NEW db, NEW out, out.db = db
  PROVE  Writes(w, db, out)
  BY DEF Writes

LEMMA ProjectIsWritten ==
  ASSUME NEW w, NEW db, NEW out, NEW p \in Projects, NEW row \in ProjectRow, out.db = WithProject(p, row, db),
         row.owner = w.owner, row.slug # None, db.project[p].owner \in {None, w.owner},
         ~SlugTaken(w.owner, p, row.slug, db)
  PROVE  Writes(w, db, out)
  BY DEF Writes

LEMMA ItemsAreWritten ==
  ASSUME NEW w, NEW db, NEW out, NEW items, out.db = WithItems(items, db), OwnRows(items, w.owner, db)
  PROVE  Writes(w, db, out)
  BY DEF Writes

LEMMA OneItemIsWritten ==
  ASSUME NEW db \in Databases, NEW w, NEW out, w.owner \in Organizations, NEW i \in Items, NEW row \in ItemRow,
         out.db = WithItem(i, row, db), RowOf(row, w.owner, db),
         db.item[i].of = None \/ (db.item[i].of = row.of /\ db.item[i].kind = row.kind)
  PROVE  Writes(w, db, out)
  <1>1. OwnRows([db.item EXCEPT ![i] = row], w.owner, db)
    BY OneItemIsOwn
  <1>2. out.db = WithItems([db.item EXCEPT ![i] = row], db)
    BY OneItemIsItems
  <1> QED BY <1>1, <1>2, ItemsAreWritten

\* Which rows a link that is issued writes.
LinkRows(w, new, db) ==
  [i \in Items |->
    IF i = new THEN [kind |-> "invitation", of |-> w.owner, login |-> w.user, mark |-> "live"]
    ELSE IF i \in Invited(w.owner, db) /\ db.item[i].login = w.user /\ db.item[i].mark = "live"
         THEN [db.item[i] EXCEPT !.mark = "revoked"]
    ELSE db.item[i]]

LEMMA IssuedRows ==
  ASSUME NEW db \in Databases, NEW w, w.owner \in Organizations, w.user \in Viewers,
         NEW new \in Items, db.item[new].of = None
  PROVE  OwnRows(LinkRows(w, new, db), w.owner, db)
  <1>1. db.item \in [Items -> ItemRow]
    BY DEF Databases
  <1>2. ASSUME NEW j \in Items
        PROVE  /\ LinkRows(w, new, db)[j] \in ItemRow
               /\ \/ LinkRows(w, new, db)[j] = db.item[j]
                  \/ /\ RowOf(LinkRows(w, new, db)[j], w.owner, db)
                     /\ \/ db.item[j].of = None
                        \/ /\ db.item[j].of = LinkRows(w, new, db)[j].of
                           /\ db.item[j].kind = LinkRows(w, new, db)[j].kind
    <2>1. CASE j = new
      <3>1. LinkRows(w, new, db)[j] = [kind |-> "invitation", of |-> w.owner, login |-> w.user, mark |-> "live"]
        BY <2>1 DEF LinkRows
      <3> QED BY <2>1, <3>1 DEF ItemRow, Kinds, RowOf
    <2>2. CASE j # new /\ j \in Invited(w.owner, db) /\ db.item[j].login = w.user /\ db.item[j].mark = "live"
      <3>1. LinkRows(w, new, db)[j] = [db.item[j] EXCEPT !.mark = "revoked"]
        BY <2>2 DEF LinkRows
      <3>2. db.item[j] \in ItemRow
        BY <1>1
      <3>3. /\ LinkRows(w, new, db)[j] \in ItemRow /\ LinkRows(w, new, db)[j].of = db.item[j].of
            /\ LinkRows(w, new, db)[j].kind = db.item[j].kind
        BY <3>1, <3>2 DEF ItemRow
      <3> QED BY <2>2, <3>3 DEF RowOf, Invited
    <2>3. CASE j # new /\ ~(j \in Invited(w.owner, db) /\ db.item[j].login = w.user /\ db.item[j].mark = "live")
      <3>1. LinkRows(w, new, db)[j] = db.item[j]
        BY <2>3 DEF LinkRows
      <3> QED BY <1>1, <3>1
    <2> QED BY <2>1, <2>2, <2>3
  <1>3. LinkRows(w, new, db) \in [Items -> ItemRow]
    BY <1>2 DEF LinkRows
  <1> QED BY <1>2, <1>3 DEF OwnRows

LEMMA IssuesRows ==
  ASSUME NEW w, NEW new, NEW db
  PROVE  LinkIssued(w, new, db) = Outcome("ok", {new}, WithItems(LinkRows(w, new, db), db))
  BY DEF LinkIssued, LinkRows, WithItems

\* One item of a project, or a link, that is marked anew.
LEMMA MarkedRow ==
  ASSUME NEW db \in Databases, NEW w, Route(w.on, w.does) \in Routes, w.owner \in Organizations, w.step = "found",
         FindsRule(w) \/ w.does = "revoke", Goes(w, db.project, db.item), NEW m \in {"revoked", "gone"}
  PROVE  LET row == [db.item[w.item] EXCEPT !.mark = m] IN
         /\ w.item \in Items /\ row \in ItemRow /\ RowOf(row, w.owner, db) /\ Belongs(w.item, w.owner, db)
         /\ db.item[w.item].of = row.of /\ db.item[w.item].kind = row.kind
  <1> DEFINE row == [db.item[w.item] EXCEPT !.mark = m]
  <1>1. ~FindsMember(w) /\ ~FindsRoots(w) /\ (FindsRule(w) => w.on # "invitation")
    BY FindsOneThing
  <1>2. w.item \in Items /\ Belongs(w.item, w.owner, db)
    <2>1. CASE w.on = "invitation"
      BY <1>1, <2>1 DEF Goes, Belongs
    <2>2. CASE w.on # "invitation"
      <3>1. w.on \in {"token", "rule"}
        BY <2>2, FindsOneThing
      <3> QED BY <1>1, <3>1 DEF Goes, Belongs, Owned
    <2> QED BY <2>1, <2>2
  <1>3. db.item[w.item] \in ItemRow
    BY <1>2 DEF Databases
  <1>4. row \in ItemRow /\ row.of = db.item[w.item].of /\ row.kind = db.item[w.item].kind
    BY <1>3 DEF ItemRow
  <1> QED BY <1>2, <1>4 DEF Belongs, RowOf

LEMMA FirstWrites ==
  ASSUME NEW db \in Databases, Anchored(db), NEW w, NEW new, Ready(w, new, db), w.step = "admitted"
  PROVE  Writes(w, db, FirstStatement(w, new, db))
  <1>1. w.owner # None /\ w.slug \in Slugs \cup {None} /\ w.owner \in Organizations /\ Route(w.on, w.does) \in Routes
    BY TenancyAssumption DEF Ready, Visit
  <1>2. CASE w.on = "project" /\ w.does = "create"
    <2>1. FirstStatement(w, new, db) = ProjectCreated(w, new, db)
      BY <1>1, <1>2, FirstAtProjects DEF FindsProject, FindsRule, FindsRoots
    <2>2. CASE w.slug = None \/ SlugTaken(w.owner, new, w.slug, db)
      <3>1. ProjectCreated(w, new, db).db = db
        BY <2>2 DEF ProjectCreated, Outcome
      <3> QED BY <2>1, <3>1 DEF Writes
    <2>3. CASE w.slug # None /\ ~SlugTaken(w.owner, new, w.slug, db)
      <3> DEFINE row == [owner |-> w.owner, slug |-> w.slug]
      <3>1. row \in ProjectRow /\ row.owner = w.owner /\ row.slug = w.slug
        BY <1>1 DEF ProjectRow
      <3>2. FirstStatement(w, new, db).db = WithProject(new, row, db)
        BY <2>1, <2>3 DEF ProjectCreated, Outcome
      <3>3. new \in Projects /\ db.project[new].owner = None
        BY <1>2 DEF Ready
      <3> QED BY <2>3, <3>1, <3>2, <3>3 DEF Writes
    <2> QED BY <2>2, <2>3
  <1>3. CASE ~(w.on = "project" /\ w.does = "create")
    <2>1. FirstStatement(w, new, db).db = db
      BY <1>1, <1>3, FirstAtProjects, FirstAtPeople, ReadsWriteNothing
    <2> QED BY <2>1 DEF Writes
  <1> QED BY <1>2, <1>3

LEMMA SecondWrites ==
  ASSUME NEW db \in Databases, Anchored(db), NEW w, NEW new, Ready(w, new, db), w.step = "found"
  PROVE  Writes(w, db, SecondStatement(w, new, db))
  <1> DEFINE out == SecondStatement(w, new, db)
  <1>1. /\ w.owner # None /\ w.slug \in Slugs \cup {None} /\ w.owner \in Organizations /\ Route(w.on, w.does) \in Routes
        /\ Goes(w, db.project, db.item)
    BY TenancyAssumption DEF Ready, Visit
  <1> SUFFICES Writes(w, db, out)
    OBVIOUS
  <1> HIDE DEF out
  <1>2. CASE w.on = "project" /\ FindsProject(w) /\ out = ProjectUpdated(w, db)
    <2>1. Owned(w.project, w.owner, db)
      BY <1>1, <1>2, FindsOneThing DEF Goes, Owned
    <2>2. CASE w.slug = None \/ SlugTaken(w.owner, w.project, w.slug, db)
      <3>1. out.db = db
        BY <1>2, <2>1, <2>2 DEF ProjectUpdated, Outcome, Owned
      <3> QED BY <3>1, NothingIsWritten
    <2>3. CASE w.slug # None /\ ~SlugTaken(w.owner, w.project, w.slug, db)
      <3> DEFINE row == [db.project[w.project] EXCEPT !.slug = w.slug]
      <3>1. db.project[w.project] \in ProjectRow /\ db.project[w.project].owner = w.owner
        BY <2>1 DEF Owned, Databases
      <3>2. row \in ProjectRow /\ row.owner = w.owner /\ row.slug = w.slug
        BY <3>1, <1>1 DEF ProjectRow
      <3>3. out.db = WithProject(w.project, row, db)
        BY <1>2, <2>3, <3>1 DEF ProjectUpdated, Outcome
      <3>4. w.project \in Projects /\ row.slug # None /\ ~SlugTaken(w.owner, w.project, row.slug, db)
        BY <2>1, <2>3, <3>2 DEF Owned
      <3> HIDE DEF row
      <3> QED BY <3>1, <3>2, <3>3, <3>4, ProjectIsWritten
    <2> QED BY <2>2, <2>3
  <1>3. CASE \/ out = ActivitySummed(w, db)
             \/ out = SpansCounted(w, db)
             \/ out = ListedOf(w, db)
             \/ out = OwnersCounted(w, db)
    <2>1. out.db = db
      BY <1>3, ReadsWriteNothing
    <2> QED BY <2>1, NothingIsWritten
  <1>4. CASE out = AddedTo(w, new, db) /\ w.on \in {"token", "rule"} /\ w.does = "create"
    <2> DEFINE row == [kind |-> w.on, of |-> w.project, login |-> None, mark |-> "live"]
    <2>1. Owned(w.project, w.owner, db) /\ new \in Items /\ db.item[new].of = None
      BY <1>1, <1>4, FindsOneThing DEF Ready, Goes, FindsRoots, FindsMember, Owned
    <2>2. row \in ItemRow /\ RowOf(row, w.owner, db)
      BY <1>4, <2>1 DEF ItemRow, Kinds, Owned, RowOf
    <2>3. out.db = WithItem(new, row, db)
      BY <1>4 DEF AddedTo, Outcome
    <2> HIDE DEF row
    <2> QED BY <1>1, <2>1, <2>2, <2>3, OneItemIsWritten
  <1>5. CASE out = LinkIssued(w, new, db) /\ w.on = "invitation" /\ w.does = "create"
    <2>1. new \in Items /\ db.item[new].of = None /\ w.user \in Viewers
      BY <1>5 DEF Ready, NamesAnAccount
    <2>2. OwnRows(LinkRows(w, new, db), w.owner, db)
      BY <1>1, <2>1, IssuedRows
    <2>3. out.db = WithItems(LinkRows(w, new, db), db)
      BY <1>5, IssuesRows DEF Outcome
    <2> QED BY <2>2, <2>3, ItemsAreWritten
  <1>6. CASE /\ out = Revoked(w, db) \/ out = RuleChanged(w, db)
             /\ w.does = "revoke" \/ FindsRule(w)
    <2>1. ASSUME NEW m \in {"revoked", "gone"}, out.db = WithItem(w.item, [db.item[w.item] EXCEPT !.mark = m], db)
          PROVE  Writes(w, db, out)
      <3> DEFINE row == [db.item[w.item] EXCEPT !.mark = m]
      <3>1. /\ w.item \in Items /\ row \in ItemRow /\ RowOf(row, w.owner, db)
            /\ db.item[w.item].of = row.of /\ db.item[w.item].kind = row.kind
        BY <1>1, <1>6, MarkedRow
      <3>2. out.db = WithItem(w.item, row, db)
        BY <2>1
      <3> HIDE DEF row
      <3> QED BY <1>1, <3>1, <3>2, OneItemIsWritten
    <2>2. \/ out.db = db
          \/ \E m \in {"revoked", "gone"} : out.db = WithItem(w.item, [db.item[w.item] EXCEPT !.mark = m], db)
      BY <1>6 DEF Revoked, RuleChanged, Outcome
    <2> QED BY <2>1, <2>2, NothingIsWritten
  <1> QED BY <1>1, <1>2, <1>3, <1>4, <1>5, <1>6, SecondStatements DEF out

LEMMA ThirdWrites ==
  ASSUME NEW db \in Databases, NEW w, NEW new, Ready(w, new, db), w.step = "counted"
  PROVE  Writes(w, db, MemberWritten(w, db))
  <1>1. w.user \in Viewers /\ w.rank \in Ranks \cup {"NONE"}
    BY DEF Ready, Goes, Visit
  <1> QED BY <1>1 DEF MemberWritten, Outcome, Writes, WithSeat

LEMMA StatementWrites ==
  ASSUME NEW db \in Databases, Anchored(db), NEW w, NEW new, Ready(w, new, db)
  PROVE  Writes(w, db, Statement(w, new, db))
  <1>1. CASE w.step = "admitted"
    BY <1>1, FirstWrites DEF Statement
  <1>2. CASE w.step = "found"
    BY <1>2, SecondWrites DEF Statement
  <1>3. CASE w.step = "counted"
    BY <1>3, ThirdWrites DEF Statement
  <1> QED BY <1>1, <1>2, <1>3 DEF Ready

\* What a request gets from the whole database, `all`, and from what belongs to its
\* organization, `own`, are alike.
Alike(w, db, all, own) ==
  /\ all.status = own.status /\ all.rows = own.rows
  /\ Within({w.owner}, all.db) = own.db
  /\ Within(Organizations \ {w.owner}, all.db) = Within(Organizations \ {w.owner}, db)

LEMMA ReadsAreAlike ==
  ASSUME NEW db, NEW w, NEW all, NEW own, all.db = db, own.db = Within({w.owner}, db),
         all.status = own.status, all.rows = own.rows
  PROVE  Alike(w, db, all, own)
  BY DEF Alike

LEMMA FirstIsAlike ==
  ASSUME NEW db \in Databases, Anchored(db), NEW w, NEW new, Ready(w, new, db), w.step = "admitted"
  PROVE  Alike(w, db, FirstStatement(w, new, db), FirstStatement(w, new, Within({w.owner}, db)))
  <1> DEFINE o == w.owner
             L == Within({o}, db)
             all == FirstStatement(w, new, db)
             own == FirstStatement(w, new, L)
  <1> SUFFICES Alike(w, db, all, own)
    OBVIOUS
  <1>1. /\ o # None /\ o \in Organizations /\ w.slug \in Slugs \cup {None} /\ Route(w.on, w.does) \in Routes
        /\ NamesAnAccount(w) => w.user \in Viewers
    BY TenancyAssumption DEF Ready, Visit
  <1>2. /\ \A p : Owned(p, o, L) <=> Owned(p, o, db)
        /\ \A i \in Items : Belongs(i, o, db) => L.item[i] = db.item[i]
        /\ \A kind \in ProjectKinds : \A p : StoredWithin(kind, p, o, L) = StoredWithin(kind, p, o, db)
        /\ \A p : \A slug \in Slugs : SlugTaken(o, p, slug, L) <=> SlugTaken(o, p, slug, db)
        /\ Invited(o, L) = Invited(o, db)
    BY <1>1, FoundWithin
  <1>3. \A u \in Viewers : L.seat[u, o] = db.seat[u, o]
    BY <1>1, FoundWithin
  <1> HIDE DEF L
  <1>4. ASSUME all.db = db, own.db = L, all.status = own.status, all.rows = own.rows
        PROVE  Alike(w, db, all, own)
    BY <1>4, ReadsAreAlike DEF L
  <1> HIDE DEF all, own
  <1>5. CASE w.on = "organization" /\ all = OrganizationShown(w, db) /\ own = OrganizationShown(w, L)
    BY <1>4, <1>5 DEF OrganizationShown, Outcome
  <1>6. CASE w.on = "member" /\ all = MembersListed(w, db) /\ own = MembersListed(w, L)
    <2>1. {u \in Viewers : db.seat[u, o] # "NONE"} = {u \in Viewers : L.seat[u, o] # "NONE"}
      BY <1>3
    <2> QED BY <1>4, <1>6, <2>1 DEF MembersListed, Outcome
  <1>7. CASE all = ProjectsListed(w, db) /\ own = ProjectsListed(w, L)
    <2>1. {p \in Projects : Owned(p, o, db)} = {p \in Projects : Owned(p, o, L)}
      BY <1>2
    <2> QED BY <1>4, <1>7, <2>1 DEF ProjectsListed, Outcome
  <1>8. CASE w.on = "project" /\ w.does = "create" /\ all = ProjectCreated(w, new, db) /\ own = ProjectCreated(w, new, L)
    <2>1. CASE w.slug = None
      BY <1>4, <1>8, <2>1 DEF ProjectCreated, Outcome
    <2>2. CASE w.slug # None /\ SlugTaken(o, new, w.slug, db)
      <3>1. SlugTaken(o, new, w.slug, L)
        BY <1>1, <1>2, <2>2
      <3> QED BY <1>4, <1>8, <2>2, <3>1 DEF ProjectCreated, Outcome
    <2>3. CASE w.slug # None /\ ~SlugTaken(o, new, w.slug, db)
      <3> DEFINE row == [owner |-> o, slug |-> w.slug]
      <3>1. ~SlugTaken(o, new, w.slug, L)
        BY <1>1, <1>2, <2>3
      <3>2. all = Outcome("ok", {new}, WithProject(new, row, db)) /\ own = Outcome("ok", {new}, WithProject(new, row, L))
        BY <1>8, <2>3, <3>1 DEF ProjectCreated
      <3>3. new \in Projects /\ db.project[new].owner = None /\ row \in ProjectRow /\ row.owner = o
        BY <1>1, <1>8 DEF Ready, ProjectRow
      <3>4. /\ Within({o}, WithProject(new, row, db)) = WithProject(new, row, L)
            /\ Within(Organizations \ {o}, WithProject(new, row, db)) = Within(Organizations \ {o}, db)
        BY <1>1, <3>3, ProjectWrittenWithin DEF L
      <3> QED BY <3>2, <3>4 DEF Alike, Outcome
    <2> QED BY <2>1, <2>2, <2>3
  <1>9. CASE all = ReportShown(w, db) /\ own = ReportShown(w, L)
    <2>1. StoredWithin("report", w.project, o, db) = StoredWithin("report", w.project, o, L)
      BY <1>2 DEF ProjectKinds, Kinds
    <2> QED BY <1>4, <1>9, <2>1 DEF ReportShown, Outcome
  <1>10. CASE all = ProjectFound(w, db) /\ own = ProjectFound(w, L)
    BY <1>2, <1>4, <1>10 DEF ProjectFound, Outcome
  <1>11. CASE all = RuleFound(w, db) /\ own = RuleFound(w, L)
    <2>1. StoredWithin("rule", w.project, o, db) = StoredWithin("rule", w.project, o, L)
      BY <1>2 DEF ProjectKinds, Kinds
    <2> QED BY <1>4, <1>11, <2>1 DEF RuleFound, Outcome
  <1>12. CASE all = TokenFound(w, db) /\ own = TokenFound(w, L)
    <2>1. StoredWithin("token", w.project, o, db) = StoredWithin("token", w.project, o, L)
      BY <1>2 DEF ProjectKinds, Kinds
    <2>2. CASE w.item \notin StoredWithin("token", w.project, o, db)
      BY <1>4, <1>12, <2>1, <2>2 DEF TokenFound, Outcome
    <2>3. CASE w.item \in StoredWithin("token", w.project, o, db)
      <3>1. w.item \in Items /\ Belongs(w.item, o, db)
        BY <2>3 DEF StoredWithin, Stored, Belongs
      <3>2. L.item[w.item] = db.item[w.item]
        BY <1>2, <3>1
      <3> QED BY <1>4, <1>12, <2>1, <2>3, <3>2 DEF TokenFound, Outcome
    <2> QED BY <2>2, <2>3
  <1>13. CASE all = RootsFound(w, db) /\ own = RootsFound(w, L)
    <2>1. StoredWithin("span", w.project, o, db) = StoredWithin("span", w.project, o, L)
      BY <1>2 DEF ProjectKinds, Kinds
    <2> QED BY <1>4, <1>13, <2>1 DEF RootsFound, Outcome
  <1>14. CASE w.on \in {"report", "log", "span"} /\ all = ItemsListed(w, db) /\ own = ItemsListed(w, L)
    <2>1. StoredWithin(w.on, w.project, o, db) = StoredWithin(w.on, w.project, o, L)
      BY <1>2, <1>14 DEF ProjectKinds, Kinds
    <2> QED BY <1>4, <1>14, <2>1 DEF ItemsListed, Outcome
  <1>15. CASE FindsMember(w) /\ all = MemberFound(w, db) /\ own = MemberFound(w, L)
    <2>1. L.seat[w.user, o] = db.seat[w.user, o]
      BY <1>1, <1>3, <1>15 DEF NamesAnAccount
    <2> QED BY <1>4, <1>15, <2>1 DEF MemberFound, Outcome
  <1>16. CASE all = LinksListed(w, db) /\ own = LinksListed(w, L)
    BY <1>2, <1>4, <1>16 DEF LinksListed, Outcome
  <1>17. CASE w.on = "invitation" /\ w.does = "create" /\ all = InviteeSought(w, db) /\ own = InviteeSought(w, L)
    <2>1. L.seat[w.user, o] = db.seat[w.user, o]
      BY <1>1, <1>3, <1>17 DEF NamesAnAccount
    <2> QED BY <1>4, <1>17, <2>1 DEF InviteeSought, Outcome
  <1>18. CASE all = LinkFound(w, db) /\ own = LinkFound(w, L)
    <2>1. CASE w.item \notin Invited(o, db)
      BY <1>2, <1>4, <1>18, <2>1 DEF LinkFound, Outcome
    <2>2. CASE w.item \in Invited(o, db)
      <3>1. w.item \in Items /\ Belongs(w.item, o, db)
        BY <2>2 DEF Invited, Belongs
      <3>2. L.item[w.item] = db.item[w.item]
        BY <1>2, <3>1
      <3> QED BY <1>2, <1>4, <1>18, <2>2, <3>2 DEF LinkFound, Outcome
    <2> QED BY <2>1, <2>2
  <1>19. CASE w.on \in {"organization", "member", "membership", "invitation"}
    BY <1>1, <1>5, <1>6, <1>15, <1>16, <1>17, <1>18, <1>19, FirstAtPeople DEF all, own
  <1>20. CASE w.on \notin {"organization", "member", "membership", "invitation"}
    BY <1>1, <1>7, <1>8, <1>9, <1>10, <1>11, <1>12, <1>13, <1>14, <1>20, FirstAtProjects DEF all, own
  <1> QED BY <1>19, <1>20

LEMMA LinksIssuedAlike ==
  ASSUME NEW db \in Databases, Anchored(db), NEW w, w.owner \in Organizations, w.user \in Viewers,
         NEW new \in Items, db.item[new].of = None
  PROVE  LET own == Within({w.owner}, db) IN
         /\ Within({w.owner}, WithItems(LinkRows(w, new, db), db)) = WithItems(LinkRows(w, new, own), own)
         /\ Within(Organizations \ {w.owner}, WithItems(LinkRows(w, new, db), db)) = Within(Organizations \ {w.owner}, db)
  <1> DEFINE o == w.owner
             own == Within({o}, db)
             items == LinkRows(w, new, db)
             rows == [j \in Items |-> IF items[j] = db.item[j] THEN own.item[j] ELSE items[j]]
  <1>1. OwnRows(items, o, db)
    BY IssuedRows
  <1>2. Invited(o, own) = Invited(o, db) /\ \A j \in Items : Belongs(j, o, db) => own.item[j] = db.item[j]
    BY FoundWithin
  <1>3. \A j \in Invited(o, db) : j \in Items /\ own.item[j] = db.item[j]
    BY <1>2 DEF Invited, Belongs
  <1>0. db.item \in [Items -> ItemRow]
    BY DEF Databases
  <1> HIDE DEF own
  <1>4. ASSUME NEW j \in Items PROVE rows[j] = LinkRows(w, new, own)[j]
    <2>1. CASE j = new
      <3>1. items[j] = [kind |-> "invitation", of |-> o, login |-> w.user, mark |-> "live"]
            /\ LinkRows(w, new, own)[j] = [kind |-> "invitation", of |-> o, login |-> w.user, mark |-> "live"]
        BY <2>1 DEF LinkRows
      <3>2. items[j] # db.item[j]
        BY <2>1, <3>1, TenancyAssumption
      <3> HIDE DEF items
      <3> QED BY <3>1, <3>2
    <2>2. CASE j # new /\ j \in Invited(o, db) /\ db.item[j].login = w.user /\ db.item[j].mark = "live"
      <3>1. items[j] = [db.item[j] EXCEPT !.mark = "revoked"]
            /\ LinkRows(w, new, own)[j] = [own.item[j] EXCEPT !.mark = "revoked"]
        BY <2>2, <1>2, <1>3 DEF LinkRows
      <3>2. db.item[j] \in ItemRow
        BY <1>0
      <3>3. items[j] # db.item[j]
        BY <2>2, <3>1, <3>2 DEF ItemRow
      <3> HIDE DEF items
      <3> QED BY <3>1, <3>3, <2>2, <1>3
    <2>3. CASE j # new /\ ~(j \in Invited(o, db) /\ db.item[j].login = w.user /\ db.item[j].mark = "live")
      <3>1. items[j] = db.item[j]
        BY <2>3 DEF LinkRows
      <3>2. LinkRows(w, new, own)[j] = own.item[j]
        BY <2>3, <1>2, <1>3 DEF LinkRows
      <3> HIDE DEF items
      <3> QED BY <3>1, <3>2
    <2> QED BY <2>1, <2>2, <2>3
  <1>5. rows = LinkRows(w, new, own)
    BY <1>4 DEF LinkRows
  <1> HIDE DEF items
  <1>6. /\ Within({o}, WithItems(items, db)) = WithItems(rows, own)
        /\ Within(Organizations \ {o}, WithItems(items, db)) = Within(Organizations \ {o}, db)
    BY <1>1, ItemsWrittenWithin DEF own
  <1> QED BY <1>5, <1>6 DEF own, items

LEMMA SecondIsAlike ==
  ASSUME NEW db \in Databases, Anchored(db), NEW w, NEW new, Ready(w, new, db), w.step = "found"
  PROVE  Alike(w, db, SecondStatement(w, new, db), SecondStatement(w, new, Within({w.owner}, db)))
  <1> DEFINE o == w.owner
             L == Within({o}, db)
             all == SecondStatement(w, new, db)
             own == SecondStatement(w, new, L)
  <1> SUFFICES Alike(w, db, all, own)
    OBVIOUS
  <1>1. /\ o # None /\ o \in Organizations /\ w.slug \in Slugs \cup {None} /\ Route(w.on, w.does) \in Routes
        /\ Goes(w, db.project, db.item) /\ (NamesAnAccount(w) => w.user \in Viewers)
    BY TenancyAssumption DEF Ready, Visit
  <1>2. /\ \A p : Owned(p, o, db) => L.project[p] = db.project[p]
        /\ \A i \in Items : Belongs(i, o, db) => L.item[i] = db.item[i]
        /\ \A kind \in ProjectKinds : \A p : Owned(p, o, db) => Stored(kind, p, L) = Stored(kind, p, db)
        /\ \A p : \A slug \in Slugs : SlugTaken(o, p, slug, L) <=> SlugTaken(o, p, slug, db)
        /\ \A u \in Viewers : L.seat[u, o] = db.seat[u, o]
    BY <1>1, FoundWithin
  <1>0. FindsProject(w) => Owned(w.project, o, db)
    BY <1>1, FindsOneThing DEF Goes, Owned
  <1> HIDE DEF L
  <1>3. ASSUME all.db = db, own.db = L, all.status = own.status, all.rows = own.rows
        PROVE  Alike(w, db, all, own)
    BY <1>3, ReadsAreAlike DEF L
  <1> HIDE DEF all, own
  <1>4. CASE FindsProject(w) /\ all = ProjectUpdated(w, db) /\ own = ProjectUpdated(w, L)
    <2>1. Owned(w.project, o, db) /\ L.project[w.project] = db.project[w.project] /\ db.project[w.project].owner = o
      BY <1>0, <1>2, <1>4 DEF Owned
    <2>2. CASE w.slug = None
      BY <1>3, <1>4, <2>2 DEF ProjectUpdated, Outcome
    <2>3. CASE w.slug # None /\ SlugTaken(o, w.project, w.slug, db)
      <3>1. SlugTaken(o, w.project, w.slug, L)
        BY <1>1, <1>2, <2>3
      <3> QED BY <1>3, <1>4, <2>1, <2>3, <3>1 DEF ProjectUpdated, Outcome
    <2>4. CASE w.slug # None /\ ~SlugTaken(o, w.project, w.slug, db)
      <3> DEFINE row == [db.project[w.project] EXCEPT !.slug = w.slug]
      <3>1. ~SlugTaken(o, w.project, w.slug, L)
        BY <1>1, <1>2, <2>4
      <3>2. /\ all = Outcome("ok", {w.project}, WithProject(w.project, row, db))
            /\ own = Outcome("ok", {w.project}, WithProject(w.project, row, L))
        BY <1>4, <2>1, <2>4, <3>1 DEF ProjectUpdated
      <3>3. w.project \in Projects /\ row \in ProjectRow /\ row.owner = o
        BY <1>1, <2>1 DEF Owned, Databases, ProjectRow
      <3>4. /\ Within({o}, WithProject(w.project, row, db)) = WithProject(w.project, row, L)
            /\ Within(Organizations \ {o}, WithProject(w.project, row, db)) = Within(Organizations \ {o}, db)
        BY <1>1, <2>1, <3>3, ProjectWrittenWithin DEF L
      <3> QED BY <3>2, <3>4 DEF Alike, Outcome
    <2> QED BY <2>2, <2>3, <2>4
  <1>5. CASE FindsProject(w) /\ all = ActivitySummed(w, db) /\ own = ActivitySummed(w, L)
    <2>1. \A k \in {"report", "log", "span"} : Stored(k, w.project, db) = Stored(k, w.project, L)
      BY <1>0, <1>2, <1>5 DEF ProjectKinds, Kinds
    <2>2. UNION {Stored(k, w.project, db) : k \in {"report", "log", "span"}} = UNION {Stored(k, w.project, L) : k \in {"report", "log", "span"}}
      BY <2>1
    <2> QED BY <1>3, <1>5, <2>2 DEF ActivitySummed, Outcome
  <1>6. CASE FindsRoots(w) /\ all = SpansCounted(w, db) /\ own = SpansCounted(w, L)
    <2>1. ~FindsMember(w) /\ ~FindsProject(w) /\ w.on = "span"
      BY <1>1, <1>6, FindsOneThing
    <2>2. w.rows # {} => Stored("span", w.project, db) = Stored("span", w.project, L)
      BY <1>1, <1>2, <2>1 DEF Goes, Owned, ProjectKinds, Kinds
    <2> QED BY <1>3, <1>6, <2>2 DEF SpansCounted, Outcome
  <1>7. CASE w.on \in {"token", "rule"} /\ w.does = "list" /\ all = ListedOf(w, db) /\ own = ListedOf(w, L)
    <2>1. Stored(w.on, w.project, db) = Stored(w.on, w.project, L)
      BY <1>0, <1>2, <1>7 DEF FindsProject, ProjectKinds, Kinds
    <2> QED BY <1>3, <1>7, <2>1 DEF ListedOf, Outcome
  <1>8. CASE w.on \in {"token", "rule"} /\ w.does = "create" /\ all = AddedTo(w, new, db) /\ own = AddedTo(w, new, L)
    <2> DEFINE row == [kind |-> w.on, of |-> w.project, login |-> None, mark |-> "live"]
    <2>1. Owned(w.project, w.owner, db) /\ new \in Items /\ db.item[new].of = None
      BY <1>0, <1>8 DEF Ready, FindsProject
    <2>2. row \in ItemRow /\ RowOf(row, o, db)
      BY <1>8, <2>1 DEF ItemRow, Kinds, Owned, RowOf
    <2>3. /\ Within({o}, WithItem(new, row, db)) = WithItem(new, row, L)
          /\ Within(Organizations \ {o}, WithItem(new, row, db)) = Within(Organizations \ {o}, db)
      <3> HIDE DEF row
      <3> QED BY <1>1, <2>1, <2>2, ItemWrittenWithin DEF L
    <2>4. all = Outcome("ok", {new}, WithItem(new, row, db)) /\ own = Outcome("ok", {new}, WithItem(new, row, L))
      BY <1>8 DEF AddedTo
    <2> QED BY <2>3, <2>4 DEF Alike, Outcome
  <1>9. ASSUME w.does = "revoke" \/ FindsRule(w)
        PROVE  /\ L.item[w.item] = db.item[w.item]
               /\ \A m \in {"revoked", "gone"} : LET row == [db.item[w.item] EXCEPT !.mark = m] IN
                    /\ Within({o}, WithItem(w.item, row, db)) = WithItem(w.item, row, L)
                    /\ Within(Organizations \ {o}, WithItem(w.item, row, db)) = Within(Organizations \ {o}, db)
    <2>1. ASSUME NEW m \in {"revoked", "gone"}
          PROVE  LET row == [db.item[w.item] EXCEPT !.mark = m] IN
                    /\ w.item \in Items /\ Belongs(w.item, o, db)
                    /\ Within({o}, WithItem(w.item, row, db)) = WithItem(w.item, row, L)
                    /\ Within(Organizations \ {o}, WithItem(w.item, row, db)) = Within(Organizations \ {o}, db)
      <3> DEFINE row == [db.item[w.item] EXCEPT !.mark = m]
      <3>1. /\ w.item \in Items /\ row \in ItemRow /\ RowOf(row, o, db) /\ Belongs(w.item, o, db)
            /\ db.item[w.item].of = row.of /\ db.item[w.item].kind = row.kind
        BY <1>1, <1>9, MarkedRow
      <3> HIDE DEF row
      <3>2. /\ Within({o}, WithItem(w.item, row, db)) = WithItem(w.item, row, L)
            /\ Within(Organizations \ {o}, WithItem(w.item, row, db)) = Within(Organizations \ {o}, db)
        BY <1>1, <3>1, ItemWrittenWithin DEF L
      <3> QED BY <3>1, <3>2 DEF row
    <2> QED BY <1>2, <2>1
  <1>10. CASE w.does = "revoke" /\ all = Revoked(w, db) /\ own = Revoked(w, L)
    <2> DEFINE row == [db.item[w.item] EXCEPT !.mark = "revoked"]
    <2>1. all = Outcome("ok", {w.item}, WithItem(w.item, row, db)) /\ own = Outcome("ok", {w.item}, WithItem(w.item, row, L))
      BY <1>9, <1>10 DEF Revoked
    <2> QED BY <1>9, <1>10, <2>1 DEF Alike, Outcome
  <1>11. CASE FindsRule(w) /\ all = RuleChanged(w, db) /\ own = RuleChanged(w, L)
    <2>1. L.item[w.item] = db.item[w.item]
      BY <1>9, <1>11
    <2>2. CASE db.item[w.item].mark = "gone" \/ w.does # "delete"
      BY <1>3, <1>11, <2>1, <2>2 DEF RuleChanged, Outcome
    <2>3. CASE db.item[w.item].mark # "gone" /\ w.does = "delete"
      <3> DEFINE row == [db.item[w.item] EXCEPT !.mark = "gone"]
      <3>1. all = Outcome("ok", {w.item}, WithItem(w.item, row, db)) /\ own = Outcome("ok", {w.item}, WithItem(w.item, row, L))
        BY <1>11, <2>1, <2>3 DEF RuleChanged
      <3> QED BY <1>9, <1>11, <3>1 DEF Alike, Outcome
    <2> QED BY <2>2, <2>3
  <1>12. CASE FindsMember(w) /\ all = OwnersCounted(w, db) /\ own = OwnersCounted(w, L)
    <2>1. (\E u \in Viewers \ {w.user} : db.seat[u, o] = "OWNER") <=> (\E u \in Viewers \ {w.user} : L.seat[u, o] = "OWNER")
      BY <1>2
    <2> QED BY <1>3, <1>12, <2>1 DEF OwnersCounted, Outcome
  <1>13. CASE w.on = "invitation" /\ w.does = "create" /\ all = LinkIssued(w, new, db) /\ own = LinkIssued(w, new, L)
    <2>1. new \in Items /\ db.item[new].of = None /\ w.user \in Viewers
      BY <1>1, <1>13 DEF Ready, NamesAnAccount
    <2>2. /\ Within({o}, WithItems(LinkRows(w, new, db), db)) = WithItems(LinkRows(w, new, L), L)
          /\ Within(Organizations \ {o}, WithItems(LinkRows(w, new, db), db)) = Within(Organizations \ {o}, db)
      BY <1>1, <2>1, LinksIssuedAlike DEF L
    <2>3. /\ all = Outcome("ok", {new}, WithItems(LinkRows(w, new, db), db))
          /\ own = Outcome("ok", {new}, WithItems(LinkRows(w, new, L), L))
      BY <1>13, IssuesRows
    <2> QED BY <2>2, <2>3 DEF Alike, Outcome
  <1> QED BY <1>1, <1>4, <1>5, <1>6, <1>7, <1>8, <1>10, <1>11, <1>12, <1>13, SecondStatements DEF all, own

LEMMA ThirdIsAlike ==
  ASSUME NEW db \in Databases, NEW w, NEW new, Ready(w, new, db), w.step = "counted"
  PROVE  Alike(w, db, MemberWritten(w, db), MemberWritten(w, Within({w.owner}, db)))
  <1> DEFINE o == w.owner
             L == Within({o}, db)
  <1>1. w.user \in Viewers /\ w.rank \in Ranks \cup {"NONE"} /\ o \in Organizations
    BY DEF Ready, Goes, Visit
  <1>2. L.seat[w.user, o] = db.seat[w.user, o]
    BY <1>1 DEF Within
  <1>3. CASE db.seat[w.user, o] = "NONE"
    <2>1. MemberWritten(w, db) = Outcome("error", {}, db) /\ MemberWritten(w, L) = Outcome("error", {}, L)
      BY <1>2, <1>3 DEF MemberWritten
    <2> QED BY <2>1, ReadsAreAlike DEF Outcome
  <1>4. CASE db.seat[w.user, o] # "NONE"
    <2>1. /\ MemberWritten(w, db) = Outcome("ok", {w.user}, WithSeat(w.user, o, w.rank, db))
          /\ MemberWritten(w, L) = Outcome("ok", {w.user}, WithSeat(w.user, o, w.rank, L))
      BY <1>2, <1>4 DEF MemberWritten, WithSeat
    <2>2. /\ Within({o}, WithSeat(w.user, o, w.rank, db)) = WithSeat(w.user, o, w.rank, L)
          /\ Within(Organizations \ {o}, WithSeat(w.user, o, w.rank, db)) = Within(Organizations \ {o}, db)
      BY <1>1, SeatWrittenWithin
    <2> HIDE DEF L
    <2>3. Alike(w, db, MemberWritten(w, db), MemberWritten(w, L))
      BY <2>1, <2>2 DEF Alike, Outcome
    <2> QED BY <2>3 DEF L
  <1> QED BY <1>3, <1>4

\* A request is answered as if there were no other organization.
LEMMA AnsweredAsIfAlone ==
  ASSUME TenancyTypeOK, RowsHaveOwners, PathStillNamesIt, FoundStaysWithin, AccountsAreNamed
  PROVE  OthersDoNotShow
  <1> SUFFICES ASSUME NEW v \in Visits, visit[v].step # "idle", NEW new \in NewRows(visit[v])
               PROVE  Alike(visit[v], Database, Statement(visit[v], new, Database),
                            Statement(visit[v], new, Within({visit[v].owner}, Database)))
    BY DEF OthersDoNotShow, Alike
  <1>1. Ready(visit[v], new, Database) /\ Database \in Databases /\ Anchored(Database)
    BY RequestsAreReady, StatesAreDatabases
  <1>2. CASE visit[v].step = "admitted"
    BY <1>1, <1>2, FirstIsAlike DEF Statement
  <1>3. CASE visit[v].step = "found"
    BY <1>1, <1>3, SecondIsAlike DEF Statement
  <1>4. CASE visit[v].step = "counted"
    BY <1>1, <1>4, ThirdIsAlike DEF Statement
  <1> QED BY <1>1, <1>2, <1>3, <1>4 DEF Ready

\* The guard finds the same organizations where there are only the viewer's own.
LEMMA GuardAsIfAlone ==
  ASSUME TenancyTypeOK
  PROVE  GuardTellsOfOwn
  <1> SUFFICES ASSUME NEW viewer \in Viewers, NEW path \in Slugs, NEW route \in Routes
               PROVE  Guard(viewer, path, route, Database) =
                        Guard(viewer, path, route, Within({o \in Organizations : seat[viewer, o] # "NONE"}, Database))
    BY DEF GuardTellsOfOwn
  <1> DEFINE S == {o \in Organizations : seat[viewer, o] # "NONE"}
             L == Within(S, Database)
  <1>1. path # None
    BY TenancyAssumption
  <1>2. \A o \in Organizations : /\ L.organization[o] = IF o \in S THEN organization[o] ELSE None
                                 /\ L.seat[viewer, o] = IF o \in S THEN seat[viewer, o] ELSE "NONE"
    BY DEF Within, Database
  <1> HIDE DEF L
  <1>3. Resolved(viewer, path, L) = Resolved(viewer, path, Database)
    BY <1>1, <1>2 DEF Resolved, Database
  <1>4. \A o \in Resolved(viewer, path, Database) : L.seat[viewer, o] = Database.seat[viewer, o]
    BY <1>2 DEF Resolved, Database
  <1>5. Guard(viewer, path, route, Database) = Guard(viewer, path, route, L)
    BY <1>3, <1>4 DEF Guard
  <1> QED BY <1>5 DEF L

-----------------------------------------------------------------------------
(* The inductive part of TenancyInv.                                       *)

TenancyCore ==
  TenancyTypeOK /\ SlugsNameOne /\ RowsHaveOwners /\ PathStillNamesIt /\ FoundStaysWithin /\ AccountsAreNamed

LEMMA CoreIsEnough == TenancyCore => TenancyInv
  BY AnsweredAsIfAlone, GuardAsIfAlone DEF TenancyCore, TenancyInv

LEMMA NoVisitIsVisit == NoVisit \in Visit /\ NoVisit.step = "idle" /\ Route(NoVisit.on, NoVisit.does) \in Routes
  BY DEF NoVisit, Visit, Routes, OrganizationRoutes, Route, Ranks

LEMMA TenancyInitCore == TenancyInit => TenancyCore
  <1> SUFFICES ASSUME TenancyInit PROVE TenancyCore
    OBVIOUS
  <1> USE DEF TenancyInit
  <1>1. TenancyTypeOK
    BY NoVisitIsVisit DEF TenancyTypeOK, NoProject, NoItem, Kinds
  <1>2. SlugsNameOne /\ RowsHaveOwners
    BY DEF SlugsNameOne, RowsHaveOwners, NoProject, NoItem
  <1>3. PathStillNamesIt /\ FoundStaysWithin /\ AccountsAreNamed
    BY NoVisitIsVisit DEF PathStillNamesIt, FoundStaysWithin, AccountsAreNamed
  <1> QED BY <1>1, <1>2, <1>3 DEF TenancyCore

\* Which statements are the last of their request, and what the others found.
More == {"found", "counted"}

LEMMA LastStatements ==
  ASSUME NEW w, NEW new, NEW db
  PROVE  /\ OrganizationShown(w, db).status \notin More /\ MembersListed(w, db).status \notin More
         /\ LinksListed(w, db).status \notin More
         /\ ProjectsListed(w, db).status \notin More /\ ProjectCreated(w, new, db).status \notin More
         /\ ReportShown(w, db).status \notin More /\ ItemsListed(w, db).status \notin More
         /\ ProjectUpdated(w, db).status \notin More /\ ListedOf(w, db).status \notin More
         /\ AddedTo(w, new, db).status \notin More /\ Revoked(w, db).status \notin More
         /\ LinkIssued(w, new, db).status \notin More /\ MemberWritten(w, db).status \notin More
         /\ RuleChanged(w, db).status \notin More /\ SpansCounted(w, db).status \notin More
         /\ ActivitySummed(w, db).status \notin More
  <1> USE DEF Outcome, More
  <1>1. /\ OrganizationShown(w, db).status \notin More /\ MembersListed(w, db).status \notin More
        /\ LinksListed(w, db).status \notin More
        /\ ProjectsListed(w, db).status \notin More /\ ListedOf(w, db).status \notin More /\ ItemsListed(w, db).status \notin More
    BY DEF OrganizationShown, MembersListed, LinksListed, ProjectsListed, ListedOf, ItemsListed
  <1>2. /\ AddedTo(w, new, db).status \notin More /\ Revoked(w, db).status \notin More
        /\ SpansCounted(w, db).status \notin More /\ ActivitySummed(w, db).status \notin More
    BY DEF AddedTo, Revoked, SpansCounted, ActivitySummed
  <1>3. LinkIssued(w, new, db).status \notin More
    BY DEF LinkIssued
  <1>4. ProjectCreated(w, new, db).status \notin More /\ ReportShown(w, db).status \notin More
    BY DEF ProjectCreated, ReportShown
  <1>5. ProjectUpdated(w, db).status \notin More /\ RuleChanged(w, db).status \notin More
    BY DEF ProjectUpdated, RuleChanged
  <1>6. MemberWritten(w, db).status \notin More
    BY DEF MemberWritten
  <1> QED BY <1>1, <1>2, <1>3, <1>4, <1>5, <1>6

LEMMA FirstFinds ==
  ASSUME NEW w, NEW db
  PROVE  /\ ProjectFound(w, db).status \in More =>
              /\ ProjectFound(w, db).status = "found" /\ Owned(w.project, w.owner, db) /\ ProjectFound(w, db).rows = {}
         /\ RuleFound(w, db).status \in More =>
              /\ RuleFound(w, db).status = "found" /\ w.item \in StoredWithin("rule", w.project, w.owner, db)
              /\ RuleFound(w, db).rows = {}
         /\ TokenFound(w, db).status \in More =>
              /\ TokenFound(w, db).status = "found" /\ w.item \in StoredWithin("token", w.project, w.owner, db)
              /\ TokenFound(w, db).rows = {}
         /\ LinkFound(w, db).status \in More =>
              /\ LinkFound(w, db).status = "found" /\ w.item \in Invited(w.owner, db) /\ LinkFound(w, db).rows = {}
         /\ InviteeSought(w, db).status \in More => InviteeSought(w, db).status = "found" /\ InviteeSought(w, db).rows = {}
         /\ MemberFound(w, db).rows = {} /\ OwnersCounted(w, db).rows = {}
         /\ RootsFound(w, db).status = "found" /\ RootsFound(w, db).rows = StoredWithin("span", w.project, w.owner, db)
  <1> USE DEF Outcome, More
  <1>1. /\ ProjectFound(w, db).status \in More =>
              /\ ProjectFound(w, db).status = "found" /\ Owned(w.project, w.owner, db) /\ ProjectFound(w, db).rows = {}
        /\ RuleFound(w, db).status \in More =>
              /\ RuleFound(w, db).status = "found" /\ w.item \in StoredWithin("rule", w.project, w.owner, db)
              /\ RuleFound(w, db).rows = {}
    BY DEF ProjectFound, RuleFound
  <1>2. /\ TokenFound(w, db).status \in More =>
              /\ TokenFound(w, db).status = "found" /\ w.item \in StoredWithin("token", w.project, w.owner, db)
              /\ TokenFound(w, db).rows = {}
    BY DEF TokenFound
  <1>3. /\ LinkFound(w, db).status \in More =>
              /\ LinkFound(w, db).status = "found" /\ w.item \in Invited(w.owner, db) /\ LinkFound(w, db).rows = {}
        /\ InviteeSought(w, db).status \in More => InviteeSought(w, db).status = "found" /\ InviteeSought(w, db).rows = {}
    BY DEF LinkFound, InviteeSought
  <1>4. /\ MemberFound(w, db).rows = {} /\ OwnersCounted(w, db).rows = {}
        /\ RootsFound(w, db).status = "found" /\ RootsFound(w, db).rows = StoredWithin("span", w.project, w.owner, db)
    BY DEF MemberFound, OwnersCounted, RootsFound
  <1> QED BY <1>1, <1>2, <1>3, <1>4

\* The request at its next statement.
Onward(w, out) == [w EXCEPT !.step = out.status, !.rows = out.rows]

LEMMA OnwardIsVisit ==
  ASSUME NEW w \in Visit, NEW out, out.status \in More, out.rows \subseteq Items
  PROVE  /\ Onward(w, out) \in Visit /\ Onward(w, out).step = out.status /\ Onward(w, out).rows = out.rows
         /\ Onward(w, out).on = w.on /\ Onward(w, out).does = w.does
         /\ Onward(w, out).owner = w.owner /\ Onward(w, out).path = w.path
         /\ Onward(w, out).project = w.project /\ Onward(w, out).item = w.item /\ Onward(w, out).user = w.user
  <1>1. /\ Onward(w, out).step = out.status /\ Onward(w, out).rows = out.rows
        /\ Onward(w, out).on = w.on /\ Onward(w, out).does = w.does
        /\ Onward(w, out).owner = w.owner /\ Onward(w, out).path = w.path
    BY DEF Onward, Visit
  <1>2. Onward(w, out).project = w.project /\ Onward(w, out).item = w.item /\ Onward(w, out).user = w.user
    BY DEF Onward, Visit
  <1>3. out.status \in {"idle", "admitted", "found", "counted"} /\ out.rows \in SUBSET Items
    BY DEF More
  <1>4. Onward(w, out) \in Visit
    BY <1>3 DEF Onward, Visit
  <1> QED BY <1>1, <1>2, <1>4

LEMMA OnwardFinds ==
  ASSUME NEW w \in Visit, NEW out, out.status \in More, out.rows \subseteq Items
  PROVE  LET next == Onward(w, out) IN
         /\ FindsMember(next) <=> FindsMember(w)
         /\ FindsProject(next) <=> FindsProject(w)
         /\ FindsRule(next) <=> FindsRule(w)
         /\ FindsRoots(next) <=> FindsRoots(w)
  BY OnwardIsVisit DEF FindsMember, FindsProject, FindsRule, FindsRoots

\* A statement with another after it has read only, and found what that one goes by.
LEMMA NextIsFound ==
  ASSUME NEW w, NEW new, NEW db, Ready(w, new, db), Statement(w, new, db).status \in More
  PROVE  LET out == Statement(w, new, db) IN
         /\ out.rows \subseteq Items /\ out.db = db
         /\ Goes(Onward(w, out), db.project, db.item)
  <1> DEFINE out == Statement(w, new, db)
  <1>1. Route(w.on, w.does) \in Routes /\ w \in Visit /\ (NamesAnAccount(w) => w.user \in Viewers)
    BY DEF Ready
  <1>2. ASSUME FindsMember(w), out.rows = {}, out.db = db
        PROVE  out.rows \subseteq Items /\ out.db = db /\ Goes(Onward(w, out), db.project, db.item)
    <2>1. w.user \in Viewers
      BY <1>1, <1>2 DEF NamesAnAccount
    <2> HIDE DEF out
    <2>2. out.status \in More
      BY DEF out
    <2>3. out.rows \subseteq Items
      BY <1>2
    <2>4. FindsMember(Onward(w, out)) /\ Onward(w, out).user = w.user
      BY <1>1, <1>2, <2>2, <2>3, OnwardFinds, OnwardIsVisit
    <2> QED BY <1>2, <2>1, <2>3, <2>4 DEF Goes
  <1>3. CASE w.step = "counted"
    <2>1. out.status \notin More
      BY <1>3, LastStatements DEF Statement
    <2> QED BY <2>1
  <1>4. CASE w.step = "found"
    <2>1. out = SecondStatement(w, new, db) /\ Goes(w, db.project, db.item)
      BY <1>4 DEF Statement, Ready
    <2>2. out \in {LinkIssued(w, new, db), ProjectUpdated(w, db), ActivitySummed(w, db), SpansCounted(w, db),
                   ListedOf(w, db), AddedTo(w, new, db), Revoked(w, db), RuleChanged(w, db)}
          \/ (FindsMember(w) /\ out = OwnersCounted(w, db))
      BY <1>1, <1>4, <2>1, SecondStatements
    <2> HIDE DEF out
    <2>3. out \notin {LinkIssued(w, new, db), ProjectUpdated(w, db), ActivitySummed(w, db), SpansCounted(w, db),
                      ListedOf(w, db), AddedTo(w, new, db), Revoked(w, db), RuleChanged(w, db)}
      <3>1. out.status \in More
        BY DEF out
      <3> QED BY <3>1, LastStatements
    <2>4. FindsMember(w) /\ out.rows = {} /\ out.db = db
      BY <2>2, <2>3, FirstFinds, ReadsWriteNothing
    <2> QED BY <1>2, <2>4 DEF out
  <1>5. CASE w.step = "admitted"
    <2>1. out = FirstStatement(w, new, db)
      BY <1>5 DEF Statement
    <2>2. \/ out \in {OrganizationShown(w, db), MembersListed(w, db), LinksListed(w, db), ProjectsListed(w, db),
                      ProjectCreated(w, new, db), ReportShown(w, db), ItemsListed(w, db)}
          \/ FindsMember(w) /\ out = MemberFound(w, db)
          \/ w.on = "invitation" /\ w.does = "create" /\ out = InviteeSought(w, db)
          \/ w.on = "invitation" /\ w.does = "revoke" /\ out = LinkFound(w, db)
          \/ FindsProject(w) /\ out = ProjectFound(w, db)
          \/ FindsRule(w) /\ out = RuleFound(w, db)
          \/ w.on = "token" /\ w.does = "revoke" /\ out = TokenFound(w, db)
          \/ FindsRoots(w) /\ out = RootsFound(w, db)
      <3>1. CASE w.on \in {"organization", "member", "membership", "invitation"}
        BY <1>1, <2>1, <3>1, FirstAtPeople
      <3>2. CASE w.on \notin {"organization", "member", "membership", "invitation"}
        BY <1>1, <2>1, <3>2, FirstAtProjects
      <3> QED BY <3>1, <3>2
    <2> HIDE DEF out
    <2>3. out.status \in More
      BY DEF out
    <2>4. out \notin {OrganizationShown(w, db), MembersListed(w, db), LinksListed(w, db), ProjectsListed(w, db),
                      ProjectCreated(w, new, db), ReportShown(w, db), ItemsListed(w, db)}
      BY <2>3, LastStatements
    <2>5. out.db = db
      BY <2>2, <2>4, ReadsWriteNothing
    <2>6. ASSUME out.status = "found", out.rows \subseteq Items, ~FindsMember(w),
                 LET next == Onward(w, out) IN
                 IF w.on = "invitation"
                 THEN IF w.does = "revoke" THEN w.item \in Items /\ db.item[w.item].kind = "invitation" /\ db.item[w.item].of = w.owner
                      ELSE w.does = "create" /\ w.user \in Viewers
                 ELSE /\ FindsProject(w) \/ FindsRule(w) \/ w.does = "revoke" \/ FindsRoots(w)
                      /\ (w.project \in Projects /\ db.project[w.project].owner = w.owner) \/ (FindsRoots(w) /\ out.rows = {})
                      /\ FindsRule(w) \/ w.does = "revoke" =>
                           w.item \in Items /\ db.item[w.item].of = w.project /\ db.item[w.item].kind = w.on
          PROVE  out.rows \subseteq Items /\ out.db = db /\ Goes(Onward(w, out), db.project, db.item)
      <3> DEFINE next == Onward(w, out)
      <3>1. /\ FindsMember(next) <=> FindsMember(w)
            /\ FindsProject(next) <=> FindsProject(w)
            /\ FindsRule(next) <=> FindsRule(w)
            /\ FindsRoots(next) <=> FindsRoots(w)
        BY <1>1, <2>3, <2>6, OnwardFinds
      <3>2. /\ next.step = "found" /\ next.rows = out.rows /\ next.on = w.on /\ next.does = w.does
            /\ next.owner = w.owner /\ next.project = w.project /\ next.item = w.item /\ next.user = w.user
        BY <1>1, <2>3, <2>6, OnwardIsVisit
      <3> HIDE DEF next
      <3>3. Goes(next, db.project, db.item)
        BY <2>6, <3>1, <3>2 DEF Goes
      <3> QED BY <2>5, <2>6, <3>3 DEF next
    <2>7. ASSUME NEW kind, w.item \in StoredWithin(kind, w.project, w.owner, db)
          PROVE  /\ w.project \in Projects /\ db.project[w.project].owner = w.owner
                 /\ w.item \in Items /\ db.item[w.item].of = w.project /\ db.item[w.item].kind = kind
      BY <2>7 DEF StoredWithin, Stored, Owned
    <2>8. CASE FindsMember(w) /\ out = MemberFound(w, db)
      BY <1>2, <2>5, <2>8, FirstFinds DEF out
    <2>9. CASE w.on = "invitation" /\ w.does = "create" /\ out = InviteeSought(w, db)
      <3>1. out.status = "found" /\ out.rows = {} /\ w.user \in Viewers /\ ~FindsMember(w)
        BY <1>1, <2>3, <2>9, FirstFinds, FindsOneThing DEF NamesAnAccount
      <3>2. out.rows \subseteq Items
        BY <3>1
      <3> QED BY <2>6, <2>9, <3>1, <3>2 DEF out
    <2>10. CASE w.on = "invitation" /\ w.does = "revoke" /\ out = LinkFound(w, db)
      <3>1. out.status = "found" /\ out.rows = {} /\ w.item \in Invited(w.owner, db) /\ ~FindsMember(w)
        BY <1>1, <2>3, <2>10, FirstFinds, FindsOneThing
      <3>2. out.rows \subseteq Items
        BY <3>1
      <3> QED BY <2>6, <2>10, <3>1, <3>2 DEF out, Invited
    <2>11. CASE FindsProject(w) /\ out = ProjectFound(w, db)
      <3>1. /\ out.status = "found" /\ out.rows = {} /\ Owned(w.project, w.owner, db)
            /\ ~FindsMember(w) /\ ~FindsRule(w) /\ w.does # "revoke" /\ w.on # "invitation"
        BY <1>1, <2>3, <2>11, FirstFinds, FindsOneThing
      <3>2. out.rows \subseteq Items
        BY <3>1
      <3> QED BY <2>6, <2>11, <3>1, <3>2 DEF out, Owned
    <2>12. CASE FindsRule(w) /\ out = RuleFound(w, db)
      <3>1. /\ out.status = "found" /\ out.rows = {} /\ w.item \in StoredWithin("rule", w.project, w.owner, db)
            /\ ~FindsMember(w) /\ w.on = "rule"
        BY <1>1, <2>3, <2>12, FirstFinds, FindsOneThing
      <3>2. out.rows \subseteq Items
        BY <3>1
      <3> QED BY <2>6, <2>7, <2>12, <3>1, <3>2 DEF out
    <2>13. CASE w.on = "token" /\ w.does = "revoke" /\ out = TokenFound(w, db)
      <3>1. /\ out.status = "found" /\ out.rows = {} /\ w.item \in StoredWithin("token", w.project, w.owner, db)
            /\ ~FindsMember(w)
        BY <1>1, <2>3, <2>13, FirstFinds, FindsOneThing
      <3>2. out.rows \subseteq Items
        BY <3>1
      <3> QED BY <2>6, <2>7, <2>13, <3>1, <3>2 DEF out
    <2>14. CASE FindsRoots(w) /\ out = RootsFound(w, db)
      <3>1. /\ out.status = "found" /\ out.rows = StoredWithin("span", w.project, w.owner, db)
            /\ ~FindsMember(w) /\ ~FindsRule(w) /\ w.does # "revoke" /\ w.on = "span"
        BY <1>1, <2>3, <2>14, FirstFinds, FindsOneThing
      <3>2. out.rows \subseteq Items
        BY <3>1 DEF StoredWithin, Stored
      <3>3. (w.project \in Projects /\ db.project[w.project].owner = w.owner) \/ out.rows = {}
        BY <3>1 DEF StoredWithin, Owned
      <3> QED BY <2>6, <2>14, <3>1, <3>2, <3>3 DEF out
    <2> QED BY <2>2, <2>4, <2>8, <2>9, <2>10, <2>11, <2>12, <2>13, <2>14 DEF out
  <1> QED BY <1>3, <1>4, <1>5 DEF Ready

\* Rows stay where they are: no step moves a project or an item, or renames a path.
Unmoved ==
  /\ \A p \in Projects : project[p].owner # None => project'[p].owner = project[p].owner
  /\ \A i \in Items : item[i].of # None => item'[i].of = item[i].of /\ item'[i].kind = item[i].kind
  /\ \A o \in Organizations : organization[o] # None => organization'[o] = organization[o]

\* What an item belongs to, it belongs to where nothing moves.
LEMMA StillBelongs ==
  ASSUME Unmoved, NEW i \in Items, NEW o \in Organizations, Belongs(i, o, Database)
  PROVE  Belongs(i, o, Database)'
  <1>1. item[i].of # None /\ o # None
    BY TenancyAssumption DEF Belongs, Owned, Database
  <1>2. item'[i].of = item[i].of /\ item'[i].kind = item[i].kind
    BY <1>1 DEF Unmoved
  <1> QED BY <1>1, <1>2 DEF Belongs, Owned, Database, Unmoved

\* A request found by a statement stays found where nothing moves.
LEMMA StillGoes ==
  ASSUME Unmoved, NEW w, w.owner # None, Goes(w, project, item)
  PROVE  Goes(w, project', item')
  <1>1. CASE FindsMember(w)
    BY <1>1 DEF Goes
  <1>2. CASE ~FindsMember(w) /\ w.on = "invitation"
    BY <1>2 DEF Goes, Unmoved
  <1>3. CASE ~FindsMember(w) /\ w.on # "invitation"
    <2>1. w.project \in Projects /\ project[w.project].owner = w.owner => project'[w.project].owner = w.owner
      BY DEF Unmoved
    <2>2. FindsRule(w) \/ w.does = "revoke" => w.project # None
      BY <1>3, TenancyAssumption DEF Goes, FindsRule, FindsRoots
    <2>3. FindsRule(w) \/ w.does = "revoke" => item'[w.item].of = w.project /\ item'[w.item].kind = w.on
      BY <1>3, <2>2 DEF Goes, Unmoved
    <2> QED BY <1>3, <2>1, <2>3 DEF Goes
  <1> QED BY <1>1, <1>2, <1>3

LEMMA OthersStayFound ==
  ASSUME TenancyCore, Unmoved,
         \A v \in Visits : \/ visit'[v] = visit[v]
                           \/ visit'[v] = NoVisit
                           \/ /\ visit'[v].step # "idle" /\ visit'[v].owner \in Organizations
                              /\ organization'[visit'[v].owner] = visit'[v].path /\ visit'[v].path # None
                              /\ visit'[v].step \in More => Goes(visit'[v], project', item')
                              /\ NamesAnAccount(visit'[v]) => visit'[v].user \in Viewers
  PROVE  PathStillNamesIt' /\ FoundStaysWithin' /\ AccountsAreNamed'
  <1>1. ASSUME NEW v \in Visits, visit'[v] = visit[v], visit[v].step # "idle"
        PROVE  visit[v].owner \in Organizations /\ visit[v].owner # None
               /\ organization'[visit[v].owner] = visit[v].path /\ visit[v].path # None
    BY <1>1, TenancyAssumption DEF TenancyCore, PathStillNamesIt, Unmoved
  <1>2. PathStillNamesIt'
    BY <1>1, NoVisitIsVisit DEF PathStillNamesIt
  <1>3. ASSUME NEW v \in Visits, visit'[v].step \in More PROVE Goes(visit'[v], project', item')
    <2>1. CASE visit'[v] = visit[v]
      BY <2>1, <1>1, <1>3, FoundIsGoes, StillGoes DEF TenancyCore, More
    <2>2. CASE visit'[v] # visit[v]
      BY <2>2, <1>3, NoVisitIsVisit DEF More
    <2> QED BY <2>1, <2>2
  <1>4. FoundStaysWithin'
    BY <1>3, FoundIsGoesNext DEF More
  <1>5. AccountsAreNamed'
    BY NoVisitIsVisit DEF TenancyCore, AccountsAreNamed
  <1> QED BY <1>2, <1>4, <1>5

LEMMA CreateOrganizationKeepsCore ==
  ASSUME TenancyCore, NEW viewer \in Viewers, NEW o \in Organizations, NEW slug \in Slugs \cup {None},
         CreateOrganization(viewer, o, slug)
  PROVE  TenancyCore'
  <1> USE DEF CreateOrganization
  <1>1. TenancyTypeOK'
    BY DEF TenancyCore, TenancyTypeOK, Ranks
  <1>2. \A other \in Organizations : organization'[other] = IF other = o THEN slug ELSE organization[other]
    BY DEF TenancyCore, TenancyTypeOK
  <1>3. SlugsNameOne'
    BY <1>2 DEF TenancyCore, SlugsNameOne
  <1>4. Unmoved
    BY <1>2 DEF Unmoved
  <1>5. RowsHaveOwners'
    <2>1. \A p \in Projects : project[p].owner # None => organization'[project[p].owner] # None
      <3>1. \A p \in Projects : project[p].owner # None => project[p].owner \in Organizations
        BY DEF TenancyCore, TenancyTypeOK
      <3> QED BY <1>2, <3>1 DEF TenancyCore, RowsHaveOwners
    <2>2. \A i \in Items : IF item[i].of = None THEN item[i] = NoItem
                           ELSE \E x \in Organizations : organization'[x] # None /\ Belongs(i, x, Database)'
      <3>1. \A x \in Organizations : organization[x] # None => organization'[x] # None
        BY <1>2
      <3> QED BY <1>4, <3>1, StillBelongs DEF TenancyCore, RowsHaveOwners
    <2>3. /\ \A p \in Projects : project[p].owner = None <=> project[p].slug = None
          /\ UNCHANGED <<project, item>>
      BY DEF TenancyCore, RowsHaveOwners
    <2> QED BY <2>1, <2>2, <2>3 DEF RowsHaveOwners
  <1>6. \A v \in Visits : visit'[v] = visit[v]
    OBVIOUS
  <1>7. PathStillNamesIt' /\ FoundStaysWithin' /\ AccountsAreNamed'
    BY <1>4, <1>6, OthersStayFound
  <1> QED BY <1>1, <1>3, <1>5, <1>7 DEF TenancyCore

\* Rows have owners still where only memberships and requests have changed.
LEMMA SameRowsHaveOwners ==
  ASSUME RowsHaveOwners, UNCHANGED <<organization, project, item>>
  PROVE  RowsHaveOwners'
  BY DEF RowsHaveOwners, Belongs, Owned, Database

LEMMA MembershipChangesKeepsCore ==
  ASSUME TenancyCore, NEW viewer \in Viewers, NEW o \in Organizations, NEW rank \in scope.ranks,
         MembershipChanges(viewer, o, rank)
  PROVE  TenancyCore'
  <1> USE DEF MembershipChanges
  <1>1. rank \in Ranks \cup {"NONE"}
    BY TenancyAssumption DEF TenancyCore, TenancyTypeOK
  <1>2. TenancyTypeOK'
    BY <1>1 DEF TenancyCore, TenancyTypeOK
  <1>3. SlugsNameOne' /\ RowsHaveOwners'
    BY SameRowsHaveOwners DEF TenancyCore, SlugsNameOne
  <1>4. Unmoved
    BY DEF Unmoved
  <1>5. \A v \in Visits : visit'[v] = visit[v]
    OBVIOUS
  <1>6. PathStillNamesIt' /\ FoundStaysWithin' /\ AccountsAreNamed'
    BY <1>4, <1>5, OthersStayFound
  <1> QED BY <1>2, <1>3, <1>6 DEF TenancyCore

LEMMA IngestKeepsCore ==
  ASSUME TenancyCore, NEW i \in Items, NEW kind \in Kinds, NEW p \in Projects, Ingest(i, kind, p)
  PROVE  TenancyCore'
  <1> DEFINE row == [kind |-> kind, of |-> p, login |-> None, mark |-> "live"]
  <1>1. /\ p # None /\ kind # "invitation" /\ item[i].of = None /\ project[p].owner # None
        /\ item' = [item EXCEPT ![i] = row] /\ UNCHANGED <<scope, organization, seat, project, visit>>
    BY TenancyAssumption DEF Ingest, Free, Unused
  <1>2. TenancyTypeOK'
    BY <1>1 DEF TenancyCore, TenancyTypeOK
  <1>3. \A j \in Items : item'[j] = IF j = i THEN row ELSE item[j]
    BY <1>1 DEF TenancyCore, TenancyTypeOK
  <1>4. SlugsNameOne'
    BY <1>1 DEF TenancyCore, SlugsNameOne
  <1>5. Unmoved
    BY <1>1, <1>3 DEF Unmoved
  <1>6. RowsHaveOwners'
    <2>1. project[p].owner \in Organizations /\ organization[project[p].owner] # None
      BY <1>1 DEF TenancyCore, TenancyTypeOK, RowsHaveOwners
    <2>2. item'[i].of = p /\ Belongs(i, project[p].owner, Database)'
      BY <1>1, <1>3 DEF Belongs, Owned, Database
    <2>3. ASSUME NEW j \in Items
          PROVE  IF item'[j].of = None THEN item'[j] = NoItem
                 ELSE \E x \in Organizations : organization'[x] # None /\ Belongs(j, x, Database)'
      <3>1. CASE j = i
        BY <1>1, <2>1, <2>2, <3>1
      <3>2. CASE j # i
        BY <1>1, <1>3, <1>5, <3>2, StillBelongs DEF TenancyCore, RowsHaveOwners
      <3> QED BY <3>1, <3>2
    <2> QED BY <1>1, <2>3 DEF TenancyCore, RowsHaveOwners
  <1>7. \A v \in Visits : visit'[v] = visit[v]
    BY <1>1
  <1>8. PathStillNamesIt' /\ FoundStaysWithin' /\ AccountsAreNamed'
    BY <1>5, <1>7, OthersStayFound
  <1> QED BY <1>2, <1>4, <1>6, <1>8 DEF TenancyCore

\* A live item that is marked anew.
LEMMA MarkedKeepsCore ==
  ASSUME TenancyCore, NEW i \in Items, item[i].mark = "live", NEW m \in {"spent", "gone"},
         item' = [item EXCEPT ![i].mark = m], UNCHANGED <<scope, organization, seat, project, visit>>
  PROVE  TenancyCore'
  <1>1. TenancyTypeOK'
    BY DEF TenancyCore, TenancyTypeOK
  <1>2. \A j \in Items : item'[j] = IF j = i THEN [item[j] EXCEPT !.mark = m] ELSE item[j]
    BY DEF TenancyCore, TenancyTypeOK
  <1>3. \A j \in Items : item'[j].of = item[j].of /\ item'[j].kind = item[j].kind
    BY <1>2 DEF TenancyCore, TenancyTypeOK
  <1>4. item[i].of # None
    BY DEF TenancyCore, RowsHaveOwners, NoItem
  <1>5. SlugsNameOne'
    BY DEF TenancyCore, SlugsNameOne
  <1>6. Unmoved
    BY <1>3 DEF Unmoved
  <1>7. RowsHaveOwners'
    <2>1. ASSUME NEW j \in Items
          PROVE  IF item'[j].of = None THEN item'[j] = NoItem
                 ELSE \E x \in Organizations : organization'[x] # None /\ Belongs(j, x, Database)'
      <3>1. CASE item[j].of = None
        BY <1>2, <1>4, <3>1 DEF TenancyCore, RowsHaveOwners
      <3>2. CASE item[j].of # None
        BY <1>3, <1>6, <3>2, StillBelongs DEF TenancyCore, RowsHaveOwners
      <3> QED BY <3>1, <3>2
    <2> QED BY <2>1 DEF TenancyCore, RowsHaveOwners
  <1>8. \A v \in Visits : visit'[v] = visit[v]
    OBVIOUS
  <1>9. PathStillNamesIt' /\ FoundStaysWithin' /\ AccountsAreNamed'
    BY <1>6, <1>8, OthersStayFound
  <1> QED BY <1>1, <1>5, <1>7, <1>9 DEF TenancyCore

LEMMA SweepKeepsCore ==
  ASSUME TenancyCore, NEW i \in Items, Sweep(i)
  PROVE  TenancyCore'
  BY MarkedKeepsCore DEF Sweep

LEMMA SpendLinkKeepsCore ==
  ASSUME TenancyCore, NEW i \in Items, SpendLink(i)
  PROVE  TenancyCore'
  BY MarkedKeepsCore DEF SpendLink

\* The fields of a route.
LEMMA RouteFields ==
  ASSUME NEW route \in Routes
  PROVE  /\ route = Route(route.on, route.does)
         /\ route.on \in Kinds \cup {"organization", "member", "membership", "project", "dashboard"}
         /\ route.does \in {"list", "show", "create", "update", "revoke", "delete"}
  <1> USE DEF Route, Kinds
  <1>1. CASE route \in OrganizationRoutes \cup MemberRoutes \cup LinkRoutes \cup ProjectRoutes
    BY <1>1 DEF OrganizationRoutes, MemberRoutes, LinkRoutes, ProjectRoutes
  <1>2. CASE route \in TokenRoutes \cup RuleRoutes \cup ReportRoutes \cup LogRoutes \cup TraceRoutes \cup SummaryRoutes
    BY <1>2 DEF TokenRoutes, RuleRoutes, ReportRoutes, LogRoutes, TraceRoutes, SummaryRoutes
  <1> QED BY <1>1, <1>2 DEF Routes

\* Whom a request is about.
LEMMA RouteAccounts ==
  ASSUME NEW route \in Routes, NEW viewer \in Viewers, NEW user \in UsersOf(route, viewer)
  PROVE  /\ user \in Viewers \cup {None}
         /\ NamesAnAccount(route) => user \in Viewers
  <1>1. route = Route(route.on, route.does)
    BY RouteFields
  <1>2. CASE route.on = "membership"
    BY <1>2 DEF UsersOf
  <1>3. CASE route.on # "membership" /\ route \in {Route("member", "update"), Route("member", "delete"), Route("invitation", "create")}
    BY <1>3 DEF UsersOf
  <1>4. CASE route.on # "membership" /\ route \notin {Route("member", "update"), Route("member", "delete"), Route("invitation", "create")}
    <2>1. user = None
      BY <1>4 DEF UsersOf
    <2>2. Route(route.on, route.does) \in Routes
      BY <1>1
    <2>3. ~NamesAnAccount(route)
      BY <1>1, <1>4, <2>2, RouteCases DEF NamesAnAccount, FindsMember
    <2> QED BY <2>1, <2>3
  <1> QED BY <1>2, <1>3, <1>4

Admitted(on, does, path, owner, role, p, i, slug, user, rank) ==
  [step |-> "admitted", on |-> on, does |-> does, path |-> path, owner |-> owner, role |-> role,
   project |-> p, item |-> i, slug |-> slug, user |-> user, rank |-> rank, rows |-> {}]

Typed(on, does, path, owner, role, p, i, slug, user, rank) ==
  /\ on \in Kinds \cup {"organization", "member", "membership", "project", "dashboard"}
  /\ does \in {"list", "show", "create", "update", "revoke", "delete"} /\ path \in Slugs \cup {None}
  /\ owner \in Organizations \cup {None} /\ role \in Ranks /\ p \in Projects \cup {None}
  /\ i \in Items \cup {None} /\ slug \in Slugs \cup {None} /\ user \in Viewers \cup {None}
  /\ rank \in Ranks \cup {"NONE"}

LEMMA AdmittedIsVisit ==
  ASSUME NEW on, NEW does, NEW path, NEW owner, NEW role, NEW p, NEW i, NEW slug, NEW user, NEW rank,
         Typed(on, does, path, owner, role, p, i, slug, user, rank)
  PROVE  LET w == Admitted(on, does, path, owner, role, p, i, slug, user, rank) IN
         /\ w \in Visit /\ w.step = "admitted" /\ w.owner = owner /\ w.path = path
         /\ w.on = on /\ w.does = does /\ w.user = user
  <1>1. {} \in SUBSET Items
    OBVIOUS
  <1> QED BY <1>1 DEF Visit, Admitted, Typed

LEMMA LetInKeepsCore ==
  ASSUME TenancyCore, NEW v \in Visits, NEW viewer \in Viewers, NEW path \in Slugs, NEW route \in scope.routes,
         NEW p \in ProjectsOf(route), NEW i \in ItemsOf(route), NEW slug \in SlugsOf(route),
         NEW user \in UsersOf(route, viewer), NEW rank \in RanksOf(route),
         LetIn(v, viewer, path, route, p, i, slug, user, rank)
  PROVE  TenancyCore'
  <1>1. PICK o \in Resolved(viewer, path, Database) :
          visit' = [visit EXCEPT ![v] =
            [step |-> "admitted", on |-> route.on, does |-> route.does, path |-> path, owner |-> o,
             role |-> seat[viewer, o], project |-> p, item |-> i, slug |-> slug, user |-> user, rank |-> rank,
             rows |-> {}]]
    BY DEF LetIn
  <1> DEFINE w == Admitted(route.on, route.does, path, o, seat[viewer, o], p, i, slug, user, rank)
  <1>2. o \in Organizations /\ organization[o] = path /\ path # None
    BY TenancyAssumption DEF Resolved, Database
  <1>3. seat[viewer, o] \in Ranks
    BY <1>2 DEF Resolved, Database, TenancyCore, TenancyTypeOK
  <1>4. route \in Routes
    BY TenancyAssumption DEF TenancyCore, TenancyTypeOK
  <1>5. /\ route = Route(route.on, route.does)
        /\ route.on \in Kinds \cup {"organization", "member", "membership", "project", "dashboard"}
        /\ route.does \in {"list", "show", "create", "update", "revoke", "delete"}
    BY <1>4, RouteFields
  <1>6. p \in Projects \cup {None} /\ i \in Items \cup {None} /\ rank \in Ranks \cup {"NONE"}
    BY DEF ProjectsOf, ItemsOf, RanksOf
  <1>7. slug \in Slugs \cup {None}
    BY TenancyAssumption DEF SlugsOf, SlugOf
  <1>8. user \in Viewers \cup {None} /\ (NamesAnAccount(route) => user \in Viewers)
    BY <1>4, RouteAccounts
  <1>9. /\ w \in Visit /\ w.step = "admitted" /\ w.owner = o /\ w.path = path
        /\ w.on = route.on /\ w.does = route.does /\ w.user = user
    <2>1. path \in Slugs \cup {None} /\ o \in Organizations \cup {None} /\ user \in Viewers \cup {None}
      BY <1>2, <1>8
    <2>2. /\ route.on \in Kinds \cup {"organization", "member", "membership", "project", "dashboard"}
          /\ route.does \in {"list", "show", "create", "update", "revoke", "delete"}
      BY <1>5
    <2>3. Typed(route.on, route.does, path, o, seat[viewer, o], p, i, slug, user, rank)
      BY <1>3, <1>6, <1>7, <2>1, <2>2 DEF Typed
    <2> DEFINE on == route.on
               does == route.does
               role == seat[viewer, o]
    <2>4. Typed(on, does, path, o, role, p, i, slug, user, rank) /\ w = Admitted(on, does, path, o, role, p, i, slug, user, rank)
      BY <2>3
    <2> HIDE DEF on, does, role, w
    <2>5. /\ w \in Visit /\ w.step = "admitted" /\ w.owner = o /\ w.path = path
          /\ w.on = on /\ w.does = does /\ w.user = user
      BY <2>4, AdmittedIsVisit
    <2> QED BY <2>5 DEF on, does
  <1>0. Route(w.on, w.does) \in Routes
    BY <1>4, <1>5, <1>9
  <1>10. visit' \in [Visits -> Visit] /\ \A u \in Visits : visit'[u] = IF u = v THEN w ELSE visit[u]
    BY <1>1, <1>9 DEF TenancyCore, TenancyTypeOK, Admitted
  <1>11. UNCHANGED <<scope, organization, seat, project, item>>
    BY DEF LetIn
  <1>12. TenancyTypeOK'
    BY <1>0, <1>10, <1>11 DEF TenancyCore, TenancyTypeOK
  <1>13. SlugsNameOne' /\ RowsHaveOwners'
    BY <1>11, SameRowsHaveOwners DEF TenancyCore, SlugsNameOne
  <1>14. Unmoved
    BY <1>11 DEF Unmoved
  <1>15. NamesAnAccount(w) => w.user \in Viewers
    BY <1>8, <1>9 DEF NamesAnAccount, FindsMember
  <1> HIDE DEF w
  <1>16. PathStillNamesIt' /\ FoundStaysWithin' /\ AccountsAreNamed'
    BY <1>2, <1>9, <1>10, <1>11, <1>14, <1>15, OthersStayFound DEF More
  <1> QED BY <1>12, <1>13, <1>16 DEF TenancyCore

LEMMA CutOffKeepsCore ==
  ASSUME TenancyCore, NEW v \in Visits, CutOff(v)
  PROVE  TenancyCore'
  <1> USE DEF CutOff
  <1>1. \A u \in Visits : visit'[u] = IF u = v THEN NoVisit ELSE visit[u]
    BY DEF TenancyCore, TenancyTypeOK
  <1>2. TenancyTypeOK'
    BY <1>1, NoVisitIsVisit DEF TenancyCore, TenancyTypeOK
  <1>3. SlugsNameOne' /\ RowsHaveOwners'
    BY SameRowsHaveOwners DEF TenancyCore, SlugsNameOne
  <1>4. Unmoved
    BY DEF Unmoved
  <1>5. PathStillNamesIt' /\ FoundStaysWithin' /\ AccountsAreNamed'
    BY <1>1, <1>4, OthersStayFound
  <1> QED BY <1>2, <1>3, <1>5 DEF TenancyCore

\* What a statement wrote, in the tables.
LEMMA TablesWritten ==
  ASSUME TenancyTypeOK, NEW w, w.owner \in Organizations, organization[w.owner] # None, w.owner # None,
         SlugsNameOne, RowsHaveOwners, NEW out, Writes(w, Database, out),
         seat' = out.db.seat, project' = out.db.project, item' = out.db.item, UNCHANGED <<scope, organization>>
  PROVE  /\ seat' \in Seats /\ project' \in [Projects -> ProjectRow] /\ item' \in [Items -> ItemRow]
         /\ SlugsNameOne' /\ RowsHaveOwners' /\ Unmoved
  <1>0. seat \in Seats /\ project \in [Projects -> ProjectRow] /\ item \in [Items -> ItemRow]
    BY DEF TenancyTypeOK, ProjectRow, ItemRow, Seats
  <1>1. CASE out.db = Database
    <2>1. seat' = seat /\ project' = project /\ item' = item
      BY <1>1 DEF Database
    <2> QED BY <1>0, <2>1, SameRowsHaveOwners DEF SlugsNameOne, Unmoved
  <1>2. ASSUME NEW p \in Projects, NEW row \in ProjectRow,
               out.db = WithProject(p, row, Database), row.owner = w.owner, row.slug # None,
               Database.project[p].owner \in {None, w.owner}, ~SlugTaken(w.owner, p, row.slug, Database)
        PROVE  /\ seat' \in Seats /\ project' \in [Projects -> ProjectRow] /\ item' \in [Items -> ItemRow]
               /\ SlugsNameOne' /\ RowsHaveOwners' /\ Unmoved
    <2>1. project' = [project EXCEPT ![p] = row] /\ item' = item /\ seat' = seat
      BY <1>2 DEF WithProject, Database
    <2>2. \A q \in Projects : project'[q] = IF q = p THEN row ELSE project[q]
      BY <1>0, <2>1
    <2>3. project[p].owner \in {None, w.owner}
      BY <1>2 DEF Database
    <2>4. \A q \in Projects : q # p => project[q] # row
      <3>1. row = [owner |-> w.owner, slug |-> row.slug]
        BY <1>2 DEF ProjectRow
      <3> QED BY <1>2, <3>1 DEF SlugTaken, Database
    <2>5. SlugsNameOne'
      BY <2>2, <2>4 DEF SlugsNameOne
    <2>6. Unmoved
      BY <1>2, <2>1, <2>2, <2>3 DEF Unmoved
    <2>7. \A i \in Items : IF item'[i].of = None THEN item'[i] = NoItem
                           ELSE \E x \in Organizations : organization'[x] # None /\ Belongs(i, x, Database)'
      BY <2>1, <2>6, StillBelongs DEF RowsHaveOwners
    <2>8. RowsHaveOwners'
      BY <1>2, <2>2, <2>7 DEF RowsHaveOwners
    <2> QED BY <1>0, <2>1, <2>5, <2>6, <2>8
  <1>3. ASSUME NEW items, out.db = WithItems(items, Database), OwnRows(items, w.owner, Database)
        PROVE  /\ seat' \in Seats /\ project' \in [Projects -> ProjectRow] /\ item' \in [Items -> ItemRow]
               /\ SlugsNameOne' /\ RowsHaveOwners' /\ Unmoved
    <2>1. item' = items /\ project' = project /\ seat' = seat
      BY <1>3 DEF WithItems, Database
    <2>2. /\ item' \in [Items -> ItemRow]
          /\ \A j \in Items : \/ item'[j] = item[j]
                              \/ /\ RowOf(item'[j], w.owner, Database)
                                 /\ \/ item[j].of = None
                                    \/ item[j].of = item'[j].of /\ item[j].kind = item'[j].kind
      BY <1>3, <2>1 DEF OwnRows, Database
    <2>3. SlugsNameOne'
      BY <2>1 DEF SlugsNameOne
    <2>4. Unmoved
      BY <2>1, <2>2 DEF Unmoved
    <2>5. ASSUME NEW j \in Items
          PROVE  IF item'[j].of = None THEN item'[j] = NoItem
                 ELSE \E x \in Organizations : organization'[x] # None /\ Belongs(j, x, Database)'
      <3>1. CASE item'[j] = item[j]
        BY <2>4, <3>1, StillBelongs DEF RowsHaveOwners
      <3>2. CASE item'[j] # item[j]
        <4>1. RowOf(item'[j], w.owner, Database)
          BY <2>2, <3>2
        <4>2. item'[j].of # None /\ Belongs(j, w.owner, Database)'
          BY <2>1, <4>1, TenancyAssumption DEF RowOf, Belongs, Owned, Database
        <4> QED BY <4>2
      <3> QED BY <3>1, <3>2
    <2>6. RowsHaveOwners'
      BY <2>1, <2>5 DEF RowsHaveOwners
    <2> QED BY <1>0, <2>1, <2>2, <2>3, <2>4, <2>6
  <1>4. ASSUME NEW u \in Viewers, NEW rank \in Ranks \cup {"NONE"}, out.db = WithSeat(u, w.owner, rank, Database)
        PROVE  /\ seat' \in Seats /\ project' \in [Projects -> ProjectRow] /\ item' \in [Items -> ItemRow]
               /\ SlugsNameOne' /\ RowsHaveOwners' /\ Unmoved
    <2>1. item' = item /\ project' = project /\ seat' = [seat EXCEPT ![<<u, w.owner>>] = rank]
      BY <1>4 DEF WithSeat, Database
    <2>2. seat' \in Seats
      BY <1>0, <2>1 DEF Seats
    <2> QED BY <1>0, <2>1, <2>2, SameRowsHaveOwners DEF SlugsNameOne, Unmoved
  <1> QED BY <1>1, <1>2, <1>3, <1>4 DEF Writes

LEMMA StepKeepsCore ==
  ASSUME TenancyCore, NEW v \in Visits, NEW new \in NewRows(visit[v]), Step(v, new)
  PROVE  TenancyCore'
  <1> DEFINE w == visit[v]
             out == Statement(w, new, Database)
             then == IF out.status \in More THEN Onward(w, out) ELSE NoVisit
  <1>1. /\ w.step # "idle" /\ seat' = out.db.seat /\ project' = out.db.project /\ item' = out.db.item
        /\ visit' = [visit EXCEPT ![v] = then] /\ UNCHANGED <<scope, organization>>
    BY DEF Step, More, Onward
  <1>2. Ready(w, new, Database) /\ Database \in Databases /\ Anchored(Database)
    BY <1>1, RequestsAreReady, StatesAreDatabases DEF TenancyCore
  <1>3. Writes(w, Database, out)
    BY <1>2, StatementWrites
  <1>4. w.owner \in Organizations /\ organization[w.owner] = w.path /\ w.path # None /\ w.owner # None
    BY <1>1, TenancyAssumption DEF TenancyCore, PathStillNamesIt
  <1>5. w \in Visit /\ Route(w.on, w.does) \in Routes /\ (NamesAnAccount(w) => w.user \in Viewers)
    BY <1>2 DEF Ready
  <1>6. out.status \in More =>
          out.rows \subseteq Items /\ out.db = Database /\ Goes(Onward(w, out), project, item)
    <2>1. Database.project = project /\ Database.item = item
      BY DEF Database
    <2> QED BY <1>2, <2>1, NextIsFound
  <1> HIDE DEF out
  <1>7. /\ seat' \in Seats /\ project' \in [Projects -> ProjectRow] /\ item' \in [Items -> ItemRow]
        /\ SlugsNameOne' /\ RowsHaveOwners' /\ Unmoved
    <2> HIDE DEF w
    <2> QED BY <1>1, <1>3, <1>4, TablesWritten DEF TenancyCore
  <1>8. CASE out.status \in More
    <2> DEFINE found == Onward(w, out)
    <2>1. /\ found \in Visit /\ found.step = out.status /\ found.on = w.on /\ found.does = w.does
          /\ found.owner = w.owner /\ found.path = w.path /\ found.user = w.user
      BY <1>5, <1>6, <1>8, OnwardIsVisit
    <2>2. \A u \in Visits : visit'[u] = IF u = v THEN found ELSE visit[u]
      BY <1>1, <1>8 DEF TenancyCore, TenancyTypeOK
    <2>3. visit' \in [Visits -> Visit]
      BY <1>1, <1>8, <2>1 DEF TenancyCore, TenancyTypeOK
    <2>4. Goes(found, project, item)
      BY <1>6, <1>8
    <2> HIDE DEF found, w
    <2>5. project' = project /\ item' = item
      BY <1>1, <1>6, <1>8 DEF Database
    <2>6. TenancyTypeOK'
      BY <1>1, <1>5, <1>7, <2>1, <2>2, <2>3 DEF TenancyCore, TenancyTypeOK, ProjectRow, ItemRow, Seats
    <2>7. NamesAnAccount(found) => found.user \in Viewers
      BY <1>5, <2>1 DEF NamesAnAccount, FindsMember
    <2>8. PathStillNamesIt' /\ FoundStaysWithin' /\ AccountsAreNamed'
      BY <1>1, <1>4, <1>7, <1>8, <2>1, <2>2, <2>4, <2>5, <2>7, OthersStayFound DEF More
    <2> QED BY <1>7, <2>6, <2>8 DEF TenancyCore
  <1>9. CASE out.status \notin More
    <2>1. \A u \in Visits : visit'[u] = IF u = v THEN NoVisit ELSE visit[u]
      BY <1>1, <1>9 DEF TenancyCore, TenancyTypeOK
    <2>2. visit' \in [Visits -> Visit]
      BY <1>1, <1>9, NoVisitIsVisit DEF TenancyCore, TenancyTypeOK
    <2>3. TenancyTypeOK'
      BY <1>1, <1>7, <2>1, <2>2, NoVisitIsVisit DEF TenancyCore, TenancyTypeOK, ProjectRow, ItemRow, Seats
    <2>4. PathStillNamesIt' /\ FoundStaysWithin' /\ AccountsAreNamed'
      BY <1>7, <2>1, OthersStayFound
    <2> QED BY <1>7, <2>3, <2>4 DEF TenancyCore
  <1> QED BY <1>8, <1>9

LEMMA TenancyNextKeepsCore == TenancyCore /\ [TenancyNext]_tenancyVars => TenancyCore'
  <1> SUFFICES ASSUME TenancyCore, [TenancyNext]_tenancyVars PROVE TenancyCore'
    OBVIOUS
  <1>1. \A name \in Names, slug \in Slugs \cup {None} : SlugOf(name, slug) \in Slugs \cup {None}
    BY TenancyAssumption DEF SlugOf
  <1>0. scope.viewers \subseteq Viewers
    BY TenancyAssumption DEF TenancyCore, TenancyTypeOK
  <1>2. CASE \E viewer \in scope.viewers, o \in Organizations :
               \/ \E name \in Names, slug \in Slugs \cup {None} : CreateOrganization(viewer, o, SlugOf(name, slug))
               \/ \E rank \in scope.ranks : MembershipChanges(viewer, o, rank)
    BY <1>0, <1>1, <1>2, CreateOrganizationKeepsCore, MembershipChangesKeepsCore
  <1>3. CASE \E i \in Items : Sweep(i) \/ SpendLink(i) \/ \E kind \in Kinds, p \in Projects : Ingest(i, kind, p)
    BY <1>3, SweepKeepsCore, SpendLinkKeepsCore, IngestKeepsCore
  <1>4. CASE \E v \in Visits :
               \/ \E viewer \in scope.viewers, path \in Slugs, route \in scope.routes :
                    \E p \in ProjectsOf(route), i \in ItemsOf(route), slug \in SlugsOf(route),
                       user \in UsersOf(route, viewer), rank \in RanksOf(route) :
                      LetIn(v, viewer, path, route, p, i, slug, user, rank)
               \/ \E new \in NewRows(visit[v]) : Step(v, new)
               \/ CutOff(v)
    BY <1>0, <1>4, LetInKeepsCore, StepKeepsCore, CutOffKeepsCore
  <1>5. CASE UNCHANGED tenancyVars
    <2>1. UNCHANGED <<scope, organization, seat, project, item, visit>>
      BY <1>5 DEF tenancyVars
    <2>2. PathStillNamesIt' /\ FoundStaysWithin' /\ AccountsAreNamed'
      BY <2>1, OthersStayFound DEF Unmoved
    <2> QED BY <2>1, <2>2, SameRowsHaveOwners DEF TenancyCore, TenancyTypeOK, SlugsNameOne
  <1> QED BY <1>2, <1>3, <1>4, <1>5 DEF TenancyNext

\* Every request under orgs/:orgSlug is answered as if the organization its path
\* names were the only one, though the later statements of a handler go by the
\* identifier alone: a row never moves to another project, nor a project to another
\* organization, and no path comes to name another organization.
THEOREM TenancyInvariant == TenancySpec => []TenancyInv
  <1>1. TenancyCore /\ [TenancyNext]_tenancyVars => TenancyCore'
    BY TenancyNextKeepsCore
  <1>2. TenancyInit => TenancyCore
    BY TenancyInitCore
  <1>3. TenancyCore => TenancyInv
    BY CoreIsEnough
  <1> QED BY <1>1, <1>2, <1>3, PTL DEF TenancySpec

-----------------------------------------------------------------------------
(* Tenants.                                                                *)

\* Side by side, each part keeps what it keeps alone: a step of one is a stutter of
\* the other.
THEOREM TenantsKeepBoth == TenantsSpec => [](InvitationInv /\ TenancyInv)
  <1>1. TenantsInit => Init /\ TenancyInit
    BY DEF TenantsInit
  <1>2. [TenantsNext]_tenantsVars => [Next]_vars
    BY DEF TenantsNext, tenantsVars
  <1>3. [TenantsNext]_tenantsVars => [TenancyNext]_tenancyVars
    BY DEF TenantsNext, tenantsVars
  <1>4. TenantsSpec => Spec /\ TenancySpec
    BY <1>1, <1>2, <1>3, PTL DEF TenantsSpec, Spec, TenancySpec
  <1> QED BY <1>4, InvitationInvHolds, TenancyInvariant, PTL

=============================================================================
