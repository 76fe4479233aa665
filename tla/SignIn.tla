------------------------------- MODULE SignIn -------------------------------
(***************************************************************************)
(* Signing in with GitHub: AuthController and AuthService, the state cookie*)
(* a sign-in leaves in the browser while it is away, the links of          *)
(* InvitationService it may have begun with, and the sessions it ends in   *)
(* (apps/api/src/auth).  The flows interleave between their statements;    *)
(* only the claim of an unclaimed instance takes a lock.                   *)
(*                                                                         *)
(* An account is named by its address, which no statement changes, and a   *)
(* GitHub account by its id, which stands for its login too.               *)
(***************************************************************************)
EXTENDS FiniteSets, Naturals

CONSTANTS
  Identities,  \* GitHub accounts
  Mocks,       \* those of them that the development mock makes up
  Addresses,   \* addresses GitHub may vouch for
  Legacy,      \* those that may have an account from before GitHub sign-in
  Allowlist,   \* the logins that may sign in; empty for no restriction
  Flows,       \* sign-ins and acceptances, each with a nonce of its own
  Browsers,
  Links,       \* invitations that may be issued
  Null, Absent

Accounts == Addresses \cup Identities

ASSUME SignInAssumption ==
  /\ Legacy \subseteq Addresses
  /\ Mocks \cup Allowlist \subseteq Identities
  /\ Addresses \cap Identities = {}
  /\ {Null, Absent} \cap (Accounts \cup Flows \cup Links) = {} /\ Null # Absent
  /\ {"legacy", "claim"} \cap (Links \cup {Absent}) = {}

VARIABLES
  account,   \* table User: the GitHub account each row is linked to
  joined,    \* the accounts with a membership
  link,      \* table Invitation
  claimLock, \* the advisory lock of the claim
  flow,      \* the requests of each sign-in
  cookie,    \* dolshoe_oauth_state of each browser
  jar,       \* dolshoe_session of each browser: the flow that set it
  session,   \* table Session: the flows whose session is valid
  holder,    \* GitHub: who has verified each address
  origin     \* history: what let each account in

vars == <<account, joined, link, claimLock, flow, cookie, jar, session, holder, origin>>

NoCookie == [nonce |-> Null, link |-> Null]
NoFlow == [step |-> "idle", browser |-> Null, began |-> Null, link |-> Null, who |-> Null,
           address |-> Null, account |-> Null, viewer |-> FALSE, refusal |-> Null]

\* An instance nobody has claimed, or one upgraded with the accounts it had.
Init ==
  /\ joined \in SUBSET Legacy
  /\ account = [a \in Accounts |-> IF a \in joined THEN Null ELSE Absent]
  /\ link = [l \in Links |-> [login |-> Null, status |-> "unissued"]]
  /\ claimLock = Null
  /\ flow = [f \in Flows |-> NoFlow]
  /\ cookie = [b \in Browsers |-> NoCookie]
  /\ jar = [b \in Browsers |-> Null]
  /\ session = {}
  /\ holder \in [Addresses -> Identities \ Mocks]
  /\ origin = [a \in Accounts |-> IF a \in joined THEN "legacy" ELSE Absent]

At(f, step) == flow[f].step = step

Goto(f, step) == flow' = [flow EXCEPT ![f].step = step]

\* The browser goes back to the sign-in page with the code.  What the flow knew is
\* forgotten, but for whom it refused.
Refuse(f, code) ==
  flow' = [flow EXCEPT ![f] = [NoFlow EXCEPT !.step = "refused", !.refusal = code,
             !.who     = IF code = "account_conflict" THEN flow[f].who ELSE Null,
             !.address = IF code = "account_conflict" THEN flow[f].address ELSE Null]]

\* The account is known: redeem the link, when there is one.
Resolve(f, a) ==
  flow' = [flow EXCEPT ![f].account = a,
                       ![f].step = IF flow[f].link = Null THEN "session" ELSE "redeem"]

\* SessionAuthGuard: the cookie of the browser names a row that is still there.
SignedIn(b) == jar[b] \in session

LinkedAccounts(who) == {a \in Accounts : account[a] = who}

-----------------------------------------------------------------------------
(* GitHub, and the links of the organization *)

\* An address passes to another GitHub account, never while a sign-in that was
\* told of it is under way.
MoveAddress(a, who) ==
  /\ holder[a] # who /\ who \notin Mocks
  /\ \A f \in Flows : flow[f].address = a => flow[f].step \in {"refused", "done"}
  /\ holder' = [holder EXCEPT ![a] = who]
  /\ UNCHANGED <<account, joined, link, claimLock, flow, cookie, jar, session, origin>>

\* create, by somebody who is signed in and belongs there.
Issue(l, who) ==
  /\ link[l].status = "unissued"
  /\ \E b \in Browsers : SignedIn(b) /\ flow[jar[b]].account \in joined
  /\ link' = [link EXCEPT ![l] = [login |-> who, status |-> "live"]]
  /\ UNCHANGED <<account, joined, claimLock, flow, cookie, jar, session, holder, origin>>

\* Revoked or expired.
LinkDies(l) ==
  /\ link[l].status = "live"
  /\ link' = [link EXCEPT ![l].status = "dead"]
  /\ UNCHANGED <<account, joined, claimLock, flow, cookie, jar, session, holder, origin>>

-----------------------------------------------------------------------------
(* AuthController *)

OAuthState(f, l) == [nonce |-> f, link |-> l]

\* start: one state cookie for each browser, whatever it was away for before.
Start(f, b, l) ==
  /\ At(f, "idle")
  /\ l \in Links => link[l].status # "unissued"
  /\ flow' = [flow EXCEPT ![f] = [NoFlow EXCEPT !.step = "away", !.browser = b, !.began = l]]
  /\ cookie' = [cookie EXCEPT ![b] = OAuthState(f, l)]
  /\ UNCHANGED <<account, joined, link, claimLock, jar, session, holder, origin>>

\* A callback that takes the state cookie for its own without comparing nonces.
AnyNonce(f, state) == state.nonce # Null

NonceMatches(f, state) == state.nonce = f

\* callback: the cookie is read and cleared before anything is decided.
Callback(f, declined) ==
  LET state == cookie[flow[f].browser] IN
  /\ At(f, "away")
  /\ cookie' = [cookie EXCEPT ![flow[f].browser] = NoCookie]
  /\ IF declined THEN Refuse(f, "denied")
     ELSE IF ~NonceMatches(f, state) THEN Refuse(f, "state")
     ELSE flow' = [flow EXCEPT ![f].step = "github", ![f].link = state.link]
  /\ UNCHANGED <<account, joined, link, claimLock, jar, session, holder, origin>>

\* What selectVerifiedEmail may answer: an address GitHub verified, or its own
\* no-reply address, which is the one that has the id in it.
AddressesOf(who) == {a \in Addresses : holder[a] = who} \cup {who}

IsAllowedToSignIn(who) == Allowlist = {} \/ who \in Allowlist

\* The first decision of signInWithGitHub.
SignInWith(f, fields, who, address) ==
  IF IsAllowedToSignIn(who)
  THEN flow' = [flow EXCEPT ![f] = [fields EXCEPT !.who = who, !.address = address,
                  !.step = IF fields.link = Null THEN "lookup" ELSE "check"]]
  ELSE Refuse(f, "not_allowed")

\* exchangeCode and fetchIdentity.
Identify(f, who, address) ==
  /\ At(f, "github")
  /\ who \notin Mocks /\ address \in AddressesOf(who)
  /\ SignInWith(f, flow[f], who, address)
  /\ UNCHANGED <<account, joined, link, claimLock, cookie, jar, session, holder, origin>>

\* MockLoginController: the identity is made up, the rest is the same.
MockSignIn(f, b, l, who) ==
  /\ At(f, "idle")
  /\ who \in Mocks
  /\ l \in Links => link[l].status # "unissued"
  /\ SignInWith(f, [NoFlow EXCEPT !.browser = b, !.began = l, !.link = l], who, who)
  /\ UNCHANGED <<account, joined, link, claimLock, cookie, jar, session, holder, origin>>

\* GitHub could not be reached, or said no.
GitHubFails(f) ==
  /\ At(f, "github")
  /\ Refuse(f, "github_unavailable")
  /\ UNCHANGED <<account, joined, link, claimLock, cookie, jar, session, holder, origin>>

\* startSession, and the redirect into the app.
StartSession(f) ==
  /\ At(f, "session")
  /\ session' = session \cup {f}
  /\ jar' = [jar EXCEPT ![flow[f].browser] = f]
  /\ Goto(f, "done")
  /\ UNCHANGED <<account, joined, link, claimLock, cookie, holder, origin>>

\* logout, behind the guard that resolves the session of the cookie.
Logout(b) ==
  /\ SignedIn(b)
  /\ session' = session \ {jar[b]}
  /\ jar' = [jar EXCEPT ![b] = Null]
  /\ UNCHANGED <<account, joined, link, claimLock, flow, cookie, holder, origin>>

\* The thirty days are over.
SessionExpires(f) ==
  /\ f \in session
  /\ session' = session \ {f}
  /\ UNCHANGED <<account, joined, link, claimLock, flow, cookie, jar, holder, origin>>

\* acceptInvitation: the guard has resolved the account of the session.
AcceptAsViewer(f, b, l) ==
  LET a == flow[jar[b]].account IN
  /\ At(f, "idle")
  /\ SignedIn(b)
  /\ link[l].status # "unissued"
  /\ flow' = [flow EXCEPT ![f] = [step |-> "check", browser |-> b, began |-> l, link |-> l,
                who |-> account[a], address |-> a, account |-> a, viewer |-> TRUE, refusal |-> Null]]
  /\ UNCHANGED <<account, joined, link, claimLock, cookie, jar, session, holder, origin>>

-----------------------------------------------------------------------------
(* AuthService.signInWithGitHub and what it calls *)

\* A link taken for the one who holds it.
AnyLogin(who, l) == link[l].status = "live"

Redeemable(who, l) == link[l].status = "live" /\ link[l].login = who

\* findRedeemable, or findLive and the comparison in acceptAsViewer.
CheckLink(f) ==
  /\ At(f, "check")
  /\ IF ~Redeemable(flow[f].who, flow[f].link) THEN Refuse(f, "invitation")
     ELSE Goto(f, IF flow[f].viewer THEN "redeem" ELSE "lookup")
  /\ UNCHANGED <<account, joined, link, claimLock, cookie, jar, session, holder, origin>>

\* resolveAccount: an account linked already, whose login, name and picture are
\* refreshed and whose address is not.
LookUp(f) ==
  /\ At(f, "lookup")
  /\ IF LinkedAccounts(flow[f].who) = {} THEN Goto(f, "adoptable")
     ELSE Resolve(f, CHOOSE a \in LinkedAccounts(flow[f].who) : TRUE)
  /\ UNCHANGED <<account, joined, link, claimLock, cookie, jar, session, holder, origin>>

Adoptable(a) == account[a] = Null

FindAdoptable(f) ==
  /\ At(f, "adoptable")
  /\ Goto(f, IF Adoptable(flow[f].address) THEN "adopt" ELSE "lock")
  /\ UNCHANGED <<account, joined, link, claimLock, cookie, jar, session, holder, origin>>

\* The update by the id of the row that was found.  A GitHub account has one row.
Adopt(f) ==
  LET a == flow[f].address IN
  /\ At(f, "adopt")
  /\ IF LinkedAccounts(flow[f].who) \ {a} = {}
     THEN account' = [account EXCEPT ![a] = flow[f].who] /\ Resolve(f, a)
     ELSE UNCHANGED account /\ Refuse(f, "github_unavailable")
  /\ UNCHANGED <<joined, link, claimLock, cookie, jar, session, holder, origin>>

\* A transaction that counts without waiting for the one before.
TakeNoLock(f) ==
  /\ At(f, "lock")
  /\ Goto(f, "count")
  /\ UNCHANGED <<account, joined, link, claimLock, cookie, jar, session, holder, origin>>

\* claimUnclaimedInstance: pg_advisory_xact_lock waits for the other claims.
TakeLock(f) ==
  /\ At(f, "lock")
  /\ claimLock = Null
  /\ claimLock' = f
  /\ Goto(f, "count")
  /\ UNCHANGED <<account, joined, link, cookie, jar, session, holder, origin>>

\* With an account there already nothing is claimed, the transaction ends, and
\* only a link lets a newcomer in.
CountAccounts(f) ==
  LET claimed == \E a \in Accounts : account[a] # Absent IN
  /\ At(f, "count")
  /\ claimLock' = IF claimed THEN Null ELSE claimLock
  /\ IF ~claimed THEN Goto(f, "claim")
     ELSE IF flow[f].link = Null THEN Refuse(f, "no_account")
     ELSE Goto(f, "create")
  /\ UNCHANGED <<account, joined, link, cookie, jar, session, holder, origin>>

\* The account and its membership of the default organization, and the commit.
Claim(f) ==
  LET a == flow[f].address IN
  /\ At(f, "claim")
  /\ account' = [account EXCEPT ![a] = flow[f].who]
  /\ joined' = joined \cup {a}
  /\ origin' = [origin EXCEPT ![a] = "claim"]
  /\ claimLock' = Null
  /\ Resolve(f, a)
  /\ UNCHANGED <<link, cookie, jar, session, holder>>

\* createInvitedAccount.  Of the unique indexes the insert trips over, PostgreSQL
\* names the first, and the one on the address is older than the one on the id.
CreateInvited(f) ==
  LET a == flow[f].address
      linked == LinkedAccounts(flow[f].who) IN
  /\ At(f, "create")
  /\ IF account[a] # Absent
     THEN Refuse(f, "account_conflict") /\ UNCHANGED <<account, origin>>
     ELSE IF linked # {}
     THEN Resolve(f, CHOOSE b \in linked : TRUE) /\ UNCHANGED <<account, origin>>
     ELSE /\ account' = [account EXCEPT ![a] = flow[f].who]
          /\ origin' = [origin EXCEPT ![a] = flow[f].link]
          /\ Resolve(f, a)
  /\ UNCHANGED <<joined, link, claimLock, cookie, jar, session, holder>>

\* The two statements of redeem without their transaction: the mark may be the
\* one that is committed.
RedeemInParts(f) ==
  LET l == flow[f].link IN
  /\ At(f, "redeem")
  /\ joined' \in {joined, joined \cup {flow[f].account}}
  /\ link' = IF link[l].status = "live" THEN [link EXCEPT ![l].status = "accepted"] ELSE link
  /\ Goto(f, IF flow[f].viewer THEN "done" ELSE "session")
  /\ UNCHANGED <<account, claimLock, cookie, jar, session, holder, origin>>

\* redeem: the membership, and the mark on a link that is still outstanding.
Redeem(f) ==
  LET l == flow[f].link IN
  /\ At(f, "redeem")
  /\ joined' = joined \cup {flow[f].account}
  /\ link' = IF link[l].status = "live" THEN [link EXCEPT ![l].status = "accepted"] ELSE link
  /\ Goto(f, IF flow[f].viewer THEN "done" ELSE "session")
  /\ UNCHANGED <<account, claimLock, cookie, jar, session, holder, origin>>

\* The lock ends with the transaction, whichever way it ends.
Released(f) == IF claimLock = f THEN Null ELSE claimLock

\* The process or the connection goes.  What was not committed is rolled back.
Stop(f) ==
  /\ flow[f].step \notin {"idle", "away", "refused", "done"}
  /\ Refuse(f, "stopped")
  /\ claimLock' = Released(f)
  /\ UNCHANGED <<account, joined, link, cookie, jar, session, holder, origin>>

-----------------------------------------------------------------------------

\* The statements the server goes through once the callback has come.
ServerStep(f) ==
  \/ \E who \in Identities, a \in Accounts : Identify(f, who, a)
  \/ CheckLink(f) \/ LookUp(f)
  \/ FindAdoptable(f) \/ Adopt(f)
  \/ TakeLock(f) \/ CountAccounts(f) \/ Claim(f)
  \/ CreateInvited(f)
  \/ Redeem(f) \/ StartSession(f)

Next ==
  \/ \E f \in Flows :
       \/ ServerStep(f) \/ GitHubFails(f) \/ Stop(f) \/ SessionExpires(f)
       \/ \E b \in Browsers, l \in Links \cup {Null} :
            Start(f, b, l) \/ \E who \in Identities : MockSignIn(f, b, l, who)
       \/ \E b \in Browsers, l \in Links : AcceptAsViewer(f, b, l)
       \/ \E declined \in BOOLEAN : Callback(f, declined)
  \/ \E b \in Browsers : Logout(b)
  \/ \E l \in Links : LinkDies(l) \/ \E who \in Identities : Issue(l, who)
  \/ \E a \in Addresses, who \in Identities : MoveAddress(a, who)

Spec == Init /\ [][Next]_vars

-----------------------------------------------------------------------------
(* Properties *)

Steps == {"idle", "away", "github", "check", "lookup", "adoptable", "adopt", "lock", "count",
          "claim", "create", "redeem", "session", "refused", "done"}
Codes == {"denied", "state", "not_allowed", "github_unavailable", "invitation", "no_account",
          "account_conflict", "stopped"}

Flow == [step : Steps, browser : Browsers \cup {Null}, began : Links \cup {Null},
         link : Links \cup {Null}, who : Identities \cup {Null}, address : Accounts \cup {Null},
         account : Accounts \cup {Null}, viewer : BOOLEAN, refusal : Codes \cup {Null}]

\* Every variable has its type.
TypeOK ==
  /\ account \in [Accounts -> Identities \cup {Null, Absent}]
  /\ joined \subseteq Accounts
  /\ link \in [Links -> [login : Identities \cup {Null},
                         status : {"unissued", "live", "dead", "accepted"}]]
  /\ claimLock \in Flows \cup {Null}
  /\ flow \in [Flows -> Flow]
  /\ cookie \in [Browsers -> [nonce : Flows \cup {Null}, link : Links \cup {Null}]]
  /\ jar \in [Browsers -> Flows \cup {Null}]
  /\ session \subseteq Flows
  /\ holder \in [Addresses -> Identities]
  /\ origin \in [Accounts -> Links \cup {"legacy", "claim", Absent}]

\* However many sign-ins arrive together, an instance is claimed once and only
\* while it has no accounts: the owner nobody invited is alone.
ClaimedOnce ==
  /\ Cardinality({a \in Accounts : origin[a] = "claim"}) <= 1
  /\ (\E a \in Accounts : origin[a] = "claim") => \A a \in Accounts : origin[a] # "legacy"

\* A claimed instance does not grow accounts for strangers: whoever is linked to
\* an account claimed the instance, had one before, or was sent a link himself, and is on the allowlist.
StrangersStayOut ==
  \A a \in Accounts :
    /\ account[a] = Absent <=> origin[a] = Absent
    /\ origin[a] \in Links => link[origin[a]].login = account[a]
    /\ account[a] \in Identities => IsAllowedToSignIn(account[a])

\* A GitHub account has one account here, and an account that is linked stays
\* linked to whom it is, through address changes, second tabs and adoptions.
LinkedForGood ==
  [][/\ \A a \in Accounts : account[a] \in Identities => account'[a] = account[a]
     /\ \A a, b \in Accounts : account'[a] \in Identities /\ account'[a] = account'[b] => a = b]_vars

\* A sign-in spends the link it began with, for the one it was sent to, however
\* many tabs of a browser share the state cookie.
SpendsItsOwnLink ==
  [][\A l \in Links : link[l].status = "live" /\ link'[l].status = "accepted" =>
       \E f \in Flows : /\ flow[f].began = l /\ At(f, "redeem")
                        /\ account[flow[f].account] = link[l].login]_vars

\* Whoever got an account for a link has either joined or still has the link to
\* try again with, wherever the process stopped in between.
StrandedCanReturn ==
  \A a \in Accounts : origin[a] \in Links /\ a \notin joined => link[origin[a]].status # "accepted"

\* A browser that is signed in is signed in as the GitHub account that proved
\* itself in that very browser.
SignedInAsOneself ==
  \A f \in session : account[flow[f].account] = flow[f].who /\ flow[f].who \in Identities

\* Nobody waits for ever to see whether the instance is claimed: the lock is with
\* a sign-in that is still at it, or with nobody.
LockIsHeldByTheLiving ==
  claimLock # Null => flow[claimLock].step \in {"count", "claim"}

\* The links of overlapping sign-ins are one's own: of an account to its GitHub
\* account, and of a sign-in to the invitation it began with.
LinksAreOnesOwn == LinkedForGood /\ SpendsItsOwnLink

\* Nobody is in who should not be, however sign-ins overlap: an instance has one
\* founder, and everyone else was asked in.
AccountsAreFounded == ClaimedOnce /\ StrangersStayOut

\* The invariant of the sign-ins, wherever one of them stops: no account is out
\* of reach of its owner, no session of another's, and no lock held for good.
SignInInv == TypeOK /\ StrandedCanReturn /\ SignedInAsOneself /\ LockIsHeldByTheLiving

=============================================================================
