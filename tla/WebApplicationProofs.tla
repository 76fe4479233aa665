------------------------ MODULE WebApplicationProofs ------------------------
(***************************************************************************)
(* What holds of every instance of WebApplication: however many sign-ins,  *)
(* browsers and links there are and wherever any of them stops, and        *)
(* however many rows a screen has and requests it has under way.           *)
(*                                                                         *)
(* The invariant of SignIn says what a sign-in knows at each of its        *)
(* statements that is still true when the next one runs: whom GitHub       *)
(* vouched for, that the link it was away for is its own, and what the     *)
(* table said of the address it is about to write.                         *)
(*                                                                         *)
(* That of Controls ties the flags of a screen to the requests that raised *)
(* them: while the reader is there, every flag is raised by exactly one,   *)
(* so that a control with a flag has one request.                          *)
(***************************************************************************)
EXTENDS WebApplication, FiniteSetTheorems, TLAPS

-----------------------------------------------------------------------------
(* The way in.                                                             *)

\* GitHub has said who it is, and nothing is written yet;
Deciding == {"check", "lookup", "adoptable", "adopt", "lock", "count", "claim", "create"}

\* the account is known.
Resolved == {"redeem", "session", "done"}

Known == Deciding \cup Resolved

\* What a flow has been told, and what still holds of it.
WhoItIs(f) ==
  /\ flow[f].step = "away" => flow[f].browser \in Browsers
  /\ flow[f].step \in Known \cup {"github"} => flow[f].link = flow[f].began
  /\ flow[f].step \in Known => flow[f].who \in Identities
  /\ flow[f].step \in {"check", "create", "redeem"} => flow[f].link \in Links
  /\ flow[f].step \in Deciding /\ ~flow[f].viewer =>
       flow[f].address \in AddressesOf(flow[f].who) /\ IsAllowedToSignIn(flow[f].who)
  /\ flow[f].viewer => flow[f].step \in {"check"} \cup Resolved
  /\ f \in session => flow[f].step = "done"

\* The link it holds is one that was sent to it.
LinkIsIts(f) ==
  flow[f].step \in Known \ {"check"} /\ flow[f].link # Null =>
    link[flow[f].link].status # "unissued" /\ link[flow[f].link].login = flow[f].who

\* What it read of the accounts.
AccountIsIts(f) ==
  /\ flow[f].step \in Resolved \/ flow[f].viewer =>
       flow[f].account \in Accounts /\ account[flow[f].account] = flow[f].who
  /\ flow[f].step = "adopt" => account[flow[f].address] \in {Null, flow[f].who}
  /\ flow[f].step = "create" => \E a \in Accounts : account[a] # Absent
  /\ flow[f].step = "claim" => \A a \in Accounts : account[a] = Absent

FlowsKnow == \A f \in Flows : WhoItIs(f) /\ LinkIsIts(f) /\ AccountIsIts(f)

\* The lock is with the sign-in that counts or claims.
LockIsIts == \A f \in Flows : claimLock = f <=> flow[f].step \in {"count", "claim"}

\* The state cookie of a browser is of the sign-in it is away for.
CookiesMatch ==
  \A b \in Browsers : cookie[b].nonce # Null =>
    /\ flow[cookie[b].nonce].step = "away" /\ flow[cookie[b].nonce].browser = b
    /\ cookie[b].link = flow[cookie[b].nonce].began

\* A GitHub account has one row,
NoTwins ==
  \A a, b \in Accounts : account[a] \in Identities /\ account[a] = account[b] => a = b

\* which came to be in a way that allows it to be there;
RowsAreFounded ==
  \A a \in Accounts :
    /\ account[a] = Absent <=> origin[a] = Absent
    /\ account[a] \in Identities => IsAllowedToSignIn(account[a])
    /\ origin[a] \in Links => /\ account[a] \in Identities /\ link[origin[a]].login = account[a]
                              /\ link[origin[a]].status # "unissued"

OneFounder ==
  \A a, b \in Accounts : origin[a] = "claim" /\ origin[b] \in {"claim", "legacy"} => a = b

\* and a link that is accepted has an account to show for it.
AcceptedBySomeone ==
  \A l \in Links : link[l].status = "accepted" =>
    \E a \in Accounts : account[a] \in Identities /\ account[a] = link[l].login

Rows == NoTwins /\ RowsAreFounded /\ OneFounder /\ AcceptedBySomeone /\ StrandedCanReturn

SignInIInv == TypeOK /\ FlowsKnow /\ LockIsIts /\ CookiesMatch /\ Rows

-----------------------------------------------------------------------------
(* The helpers of the flows, and what they leave alone.                     *)

\* A flow that goes on to another statement knows what it knew.
LEMMA GotoMoves ==
  ASSUME TypeOK, NEW f \in Flows, NEW s \in Steps, Goto(f, s)
  PROVE  /\ flow' \in [Flows -> Flow] /\ flow'[f].step = s
         /\ flow'[f].browser = flow[f].browser /\ flow'[f].began = flow[f].began
         /\ flow'[f].link = flow[f].link /\ flow'[f].who = flow[f].who
         /\ flow'[f].address = flow[f].address /\ flow'[f].account = flow[f].account
         /\ flow'[f].viewer = flow[f].viewer
         /\ \A g \in Flows \ {f} : flow'[g] = flow[g]
<1>1. flow \in [Flows -> Flow] /\ flow[f] \in Flow
  BY DEF TypeOK
<1>2. flow' = [flow EXCEPT ![f] = [flow[f] EXCEPT !.step = s]]
  BY DEF Goto
<1>3. [flow[f] EXCEPT !.step = s] \in Flow
  BY ONLY <1>1, s \in Steps DEF Flow
<1> QED  BY <1>1, <1>2, <1>3 DEF Flow

\* One that resolves its account learns nothing else.
LEMMA ResolveMoves ==
  ASSUME TypeOK, NEW f \in Flows, NEW a \in Accounts, Resolve(f, a)
  PROVE  /\ flow' \in [Flows -> Flow]
         /\ flow'[f].step = (IF flow[f].link = Null THEN "session" ELSE "redeem")
         /\ flow'[f].browser = flow[f].browser /\ flow'[f].began = flow[f].began
         /\ flow'[f].link = flow[f].link /\ flow'[f].who = flow[f].who
         /\ flow'[f].address = flow[f].address /\ flow'[f].account = a
         /\ flow'[f].viewer = flow[f].viewer
         /\ \A g \in Flows \ {f} : flow'[g] = flow[g]
<1> DEFINE s == IF flow[f].link = Null THEN "session" ELSE "redeem"
<1>1. flow \in [Flows -> Flow] /\ flow[f] \in Flow /\ s \in Steps
  BY DEF TypeOK, Steps
<1>2. flow' = [flow EXCEPT ![f] = [flow[f] EXCEPT !.account = a, !.step = s]]
  BY <1>1 DEF Resolve
<1> HIDE DEF s
<1>3. [flow[f] EXCEPT !.account = a, !.step = s] \in Flow
  BY ONLY <1>1, a \in Accounts DEF Flow
<1>4. /\ flow' \in [Flows -> Flow] /\ flow'[f] = [flow[f] EXCEPT !.account = a, !.step = s]
      /\ \A g \in Flows \ {f} : flow'[g] = flow[g]
  BY <1>1, <1>2, <1>3
<1>5. flow'[f].step = s
  BY <1>1, <1>4 DEF Flow
<1> QED  BY <1>1, <1>4, <1>5 DEF Flow, s

\* One that is refused holds nothing that the others rely on.
LEMMA RefuseMoves ==
  ASSUME TypeOK, NEW f \in Flows, NEW code \in Codes, Refuse(f, code)
  PROVE  /\ flow' \in [Flows -> Flow] /\ flow'[f].step = "refused" /\ flow'[f].viewer = FALSE
         /\ \A g \in Flows \ {f} : flow'[g] = flow[g]
<1> DEFINE r == [NoFlow EXCEPT !.step = "refused", !.refusal = code,
                   !.who     = IF code = "account_conflict" THEN flow[f].who ELSE Null,
                   !.address = IF code = "account_conflict" THEN flow[f].address ELSE Null]
<1>1. flow \in [Flows -> Flow] /\ flow[f] \in Flow
  BY DEF TypeOK
<1>2. flow' = [flow EXCEPT ![f] = r]
  BY DEF Refuse
<1>3. flow[f].who \in Identities \cup {Null} /\ flow[f].address \in Accounts \cup {Null}
  BY <1>1 DEF Flow
<1>4. r \in Flow /\ r.step = "refused" /\ r.viewer = FALSE
  BY <1>3 DEF NoFlow, Flow, Steps
<1> HIDE DEF r
<1> QED  BY <1>1, <1>2, <1>4

\* An address is vouched for to one GitHub account.
LEMMA OneHolder ==
  ASSUME NEW a, NEW v \in Identities, NEW w \in Identities,
         a \in AddressesOf(v), a \in AddressesOf(w)
  PROVE  v = w
BY SignInAssumption DEF AddressesOf

-----------------------------------------------------------------------------
(* A step that writes nothing but its own flow.                             *)

LEMMA FlowStep ==
  ASSUME SignInIInv, NEW f \in Flows,
         UNCHANGED <<account, joined, link, holder, origin, session>>,
         jar' \in [Browsers -> Flows \cup {Null}], claimLock' \in Flows \cup {Null},
         cookie' \in [Browsers -> [nonce : Flows \cup {Null}, link : Links \cup {Null}]],
         flow' \in [Flows -> Flow], \A g \in Flows \ {f} : flow'[g] = flow[g],
         WhoItIs(f)', LinkIsIts(f)', AccountIsIts(f)', LockIsIts', CookiesMatch'
  PROVE  SignInIInv'
<1>1. TypeOK'
  BY DEF SignInIInv, TypeOK
<1>2. ASSUME NEW g \in Flows, g # f
      PROVE  WhoItIs(g)' /\ LinkIsIts(g)' /\ AccountIsIts(g)'
  BY <1>2 DEF SignInIInv, FlowsKnow, WhoItIs, LinkIsIts, AccountIsIts, AddressesOf, IsAllowedToSignIn
<1>3. FlowsKnow'
  BY <1>2 DEF FlowsKnow
<1>4. Rows'
  BY DEF SignInIInv, Rows, NoTwins, RowsAreFounded, OneFounder, AcceptedBySomeone, StrandedCanReturn,
         IsAllowedToSignIn
<1> QED  BY <1>1, <1>3, <1>4 DEF SignInIInv

\* The lock, and the cookies, of a step that is not about them.
LEMMA LockStays ==
  ASSUME SignInIInv, NEW f \in Flows, UNCHANGED claimLock,
         \A g \in Flows \ {f} : flow'[g] = flow[g],
         flow[f].step \in {"count", "claim"} <=> flow'[f].step \in {"count", "claim"}
  PROVE  LockIsIts'
BY DEF SignInIInv, LockIsIts

LEMMA CookiesStay ==
  ASSUME SignInIInv, NEW f \in Flows, UNCHANGED cookie,
         \A g \in Flows \ {f} : flow'[g] = flow[g], flow[f].step # "away"
  PROVE  CookiesMatch'
BY DEF SignInIInv, TypeOK, CookiesMatch

\* A refusal, wherever it comes from.
LEMMA RefuseStep ==
  ASSUME SignInIInv, NEW f \in Flows, NEW code \in Codes, Refuse(f, code), flow[f].step # "done",
         UNCHANGED <<account, joined, link, holder, origin, session, jar>>,
         claimLock' = Released(f), CookiesMatch',
         cookie' \in [Browsers -> [nonce : Flows \cup {Null}, link : Links \cup {Null}]]
  PROVE  SignInIInv'
<1>1. TypeOK
  BY DEF SignInIInv
<1>2. /\ flow' \in [Flows -> Flow] /\ flow'[f].step = "refused" /\ flow'[f].viewer = FALSE
      /\ \A g \in Flows \ {f} : flow'[g] = flow[g]
  BY <1>1, RefuseMoves
<1>3. WhoItIs(f)' /\ LinkIsIts(f)' /\ AccountIsIts(f)'
  <2>1. f \notin session'
    BY DEF SignInIInv, FlowsKnow, WhoItIs
  <2> QED  BY <1>2, <2>1 DEF WhoItIs, LinkIsIts, AccountIsIts, Known, Deciding, Resolved
<1>4. LockIsIts'
  BY <1>2, SignInAssumption DEF SignInIInv, LockIsIts, Released
<1> QED  BY <1>1, <1>2, <1>3, <1>4, FlowStep DEF TypeOK, Released

\* A step that only moves its flow on.
LEMMA GotoStep ==
  ASSUME SignInIInv, NEW f \in Flows, NEW s \in Steps \ {"claim"}, Goto(f, s),
         UNCHANGED <<account, joined, link, cookie, jar, session, holder, origin>>,
         claimLock' \in Flows \cup {Null}, LockIsIts',
         flow[f].step \in Known \ {"done"}, s \in Known,
         s \in {"check", "create", "redeem"} => flow[f].link \in Links,
         s \in Deciding => flow[f].step \in Deciding /\ ~flow[f].viewer,
         s \in Resolved => flow[f].step \in Resolved \/ flow[f].viewer,
         LinkIsIts(f)',
         s = "adopt" => account[flow[f].address] \in {Null, flow[f].who},
         s = "create" => \E a \in Accounts : account[a] # Absent
  PROVE  SignInIInv'
<1>1. TypeOK /\ WhoItIs(f) /\ AccountIsIts(f)
  BY DEF SignInIInv, FlowsKnow
<1>2. /\ flow' \in [Flows -> Flow] /\ flow'[f].step = s
      /\ flow'[f].browser = flow[f].browser /\ flow'[f].began = flow[f].began
      /\ flow'[f].link = flow[f].link /\ flow'[f].who = flow[f].who
      /\ flow'[f].address = flow[f].address /\ flow'[f].account = flow[f].account
      /\ flow'[f].viewer = flow[f].viewer
      /\ \A g \in Flows \ {f} : flow'[g] = flow[g]
  BY <1>1, GotoMoves
<1>3. WhoItIs(f)'
  BY <1>1, <1>2 DEF WhoItIs, Known, Deciding, Resolved, AddressesOf, IsAllowedToSignIn
<1>4. AccountIsIts(f)'
  BY <1>1, <1>2 DEF AccountIsIts, Known, Deciding, Resolved
<1>5. CookiesMatch'
  BY <1>2, CookiesStay DEF Known, Deciding, Resolved
<1> QED  BY <1>1, <1>2, <1>3, <1>4, <1>5, FlowStep DEF TypeOK

-----------------------------------------------------------------------------
(* The way to GitHub and back.                                              *)

LEMMA StartStep ==
  ASSUME SignInIInv, NEW f \in Flows, NEW b \in Browsers, NEW l \in Links \cup {Null}, Start(f, b, l)
  PROVE  SignInIInv'
<1> DEFINE r == [NoFlow EXCEPT !.step = "away", !.browser = b, !.began = l]
<1>1. /\ r \in Flow /\ r.step = "away" /\ r.browser = b /\ r.began = l /\ r.viewer = FALSE
  BY DEF NoFlow, Flow, Steps
<1>2. TypeOK /\ WhoItIs(f) /\ flow[f].step = "idle" /\ flow' = [flow EXCEPT ![f] = r]
  BY DEF SignInIInv, FlowsKnow, Start, At
<1> HIDE DEF r
<1>3. /\ flow' \in [Flows -> Flow] /\ flow'[f] = r
      /\ \A g \in Flows \ {f} : flow'[g] = flow[g]
  BY <1>1, <1>2 DEF TypeOK
<1>4. WhoItIs(f)' /\ LinkIsIts(f)' /\ AccountIsIts(f)'
  <2>1. f \notin session'
    BY <1>2 DEF WhoItIs, Start
  <2> QED  BY <1>1, <1>3, <2>1 DEF WhoItIs, LinkIsIts, AccountIsIts, Known, Deciding, Resolved
<1>5. LockIsIts'
  BY <1>1, <1>2, <1>3, LockStays DEF Start
<1>6. /\ cookie' \in [Browsers -> [nonce : Flows \cup {Null}, link : Links \cup {Null}]]
      /\ cookie'[b].nonce = f /\ cookie'[b].link = l
      /\ \A c \in Browsers \ {b} : cookie'[c] = cookie[c]
  BY <1>2 DEF Start, OAuthState, TypeOK
<1>7. CookiesMatch'
  <2>1. ASSUME NEW c \in Browsers, c # b, cookie[c].nonce # Null
        PROVE  cookie[c].nonce \in Flows \ {f}
    BY <1>2, <2>1 DEF SignInIInv, TypeOK, CookiesMatch
  <2> QED  BY <1>1, <1>3, <1>6, <2>1 DEF SignInIInv, CookiesMatch
<1> QED  BY <1>2, <1>3, <1>4, <1>5, <1>6, <1>7, FlowStep DEF Start, TypeOK

LEMMA CallbackStep ==
  ASSUME SignInIInv, NEW f \in Flows, NEW declined \in BOOLEAN, Callback(f, declined)
  PROVE  SignInIInv'
<1> DEFINE b == flow[f].browser
<1>1. TypeOK /\ WhoItIs(f) /\ flow[f].step = "away" /\ b \in Browsers
  BY DEF SignInIInv, FlowsKnow, WhoItIs, Callback, At
<1>2. /\ cookie' \in [Browsers -> [nonce : Flows \cup {Null}, link : Links \cup {Null}]]
      /\ cookie'[b].nonce = Null
      /\ \A c \in Browsers \ {b} : cookie'[c] = cookie[c]
  BY <1>1 DEF Callback, NoCookie, TypeOK
<1>3. ASSUME \A g \in Flows \ {f} : flow'[g] = flow[g]
      PROVE  CookiesMatch'
  <2>1. ASSUME NEW c \in Browsers, c # b, cookie[c].nonce # Null
        PROVE  cookie[c].nonce \in Flows \ {f}
    BY <2>1 DEF SignInIInv, TypeOK, CookiesMatch
  <2> QED  BY <1>2, <1>3, <2>1 DEF SignInIInv, CookiesMatch
<1>4. UNCHANGED <<account, joined, link, holder, origin, session, jar, claimLock>>
  BY DEF Callback
<1>5. CASE declined \/ ~NonceMatches(f, cookie[b])
  <2>1. PICK code \in Codes : Refuse(f, code)
    BY <1>5 DEF Callback, Codes
  <2>2. CookiesMatch'
    BY <1>1, <1>3, <2>1, RefuseMoves
  <2>3. claimLock' = Released(f)
    BY <1>1, <1>4 DEF Released, SignInIInv, LockIsIts
  <2> QED  BY <1>1, <1>2, <1>4, <2>1, <2>2, <2>3, RefuseStep
<1>6. CASE ~declined /\ NonceMatches(f, cookie[b])
  <2> DEFINE r == [flow[f] EXCEPT !.step = "github", !.link = cookie[b].link]
  <2>1. cookie[b].nonce = f /\ cookie[b].link = flow[f].began /\ cookie[b].link \in Links \cup {Null}
    BY <1>1, <1>6, SignInAssumption DEF NonceMatches, SignInIInv, CookiesMatch, TypeOK
  <2>2. flow' = [flow EXCEPT ![f] = r] /\ flow[f] \in Flow
    BY <1>1, <1>6 DEF Callback, TypeOK
  <2>3. r \in Flow /\ r.step = "github" /\ r.link = r.began /\ r.viewer = flow[f].viewer
    BY <2>1, <2>2 DEF Flow, Steps
  <2>4. ~flow[f].viewer /\ f \notin session
    BY <1>1 DEF WhoItIs, Resolved
  <2> HIDE DEF r
  <2>5. /\ flow' \in [Flows -> Flow] /\ flow'[f] = r
        /\ \A g \in Flows \ {f} : flow'[g] = flow[g]
    BY <1>1, <2>2, <2>3 DEF TypeOK
  <2>6. WhoItIs(f)' /\ LinkIsIts(f)' /\ AccountIsIts(f)'
    BY <1>4, <2>3, <2>4, <2>5 DEF WhoItIs, LinkIsIts, AccountIsIts, Known, Deciding, Resolved
  <2>7. LockIsIts'
    BY <1>1, <1>4, <2>3, <2>5, LockStays
  <2> QED  BY <1>1, <1>2, <1>3, <1>4, <2>5, <2>6, <2>7, FlowStep DEF TypeOK
<1> QED  BY <1>5, <1>6

\* Whoever GitHub, or the mock, says it is.
LEMMA SignInWithStep ==
  ASSUME SignInIInv, NEW f \in Flows, NEW fields \in Flow, fields.link = fields.began, ~fields.viewer,
         NEW who \in Identities, NEW address \in AddressesOf(who),
         SignInWith(f, fields, who, address), flow[f].step \in {"idle", "github"},
         UNCHANGED <<account, joined, link, claimLock, cookie, jar, session, holder, origin>>
  PROVE  SignInIInv'
<1>1. TypeOK /\ WhoItIs(f)
  BY DEF SignInIInv, FlowsKnow
<1>2. CASE ~IsAllowedToSignIn(who)
  <2>1. Refuse(f, "not_allowed") /\ "not_allowed" \in Codes
    BY <1>2 DEF SignInWith, Codes
  <2>2. CookiesMatch'
    BY <1>1, <2>1, RefuseMoves, CookiesStay
  <2>3. claimLock' = Released(f)
    BY <1>1 DEF Released, SignInIInv, LockIsIts
  <2> QED  BY <1>1, <2>1, <2>2, <2>3, RefuseStep DEF TypeOK
<1>3. CASE IsAllowedToSignIn(who)
  <2> DEFINE s == IF fields.link = Null THEN "lookup" ELSE "check"
             r == [fields EXCEPT !.who = who, !.address = address, !.step = s]
  <2>1. address \in Accounts
    BY DEF AddressesOf, Accounts
  <2>2. s \in {"lookup", "check"} /\ (s = "check" => fields.link \in Links)
    BY DEF Flow
  <2>3. flow' = [flow EXCEPT ![f] = r]
    BY <1>3 DEF SignInWith
  <2> HIDE DEF s
  <2>4. /\ r \in Flow /\ r.step = s /\ r.link = fields.link /\ r.began = fields.began
        /\ r.who = who /\ r.address = address /\ r.viewer = FALSE
    BY <2>1, <2>2 DEF Flow, Steps
  <2> HIDE DEF r
  <2>5. /\ flow' \in [Flows -> Flow] /\ flow'[f] = r
        /\ \A g \in Flows \ {f} : flow'[g] = flow[g]
    BY <1>1, <2>3, <2>4 DEF TypeOK
  <2>6. s = "lookup" => fields.link = Null
    BY DEF s
  <2>7. WhoItIs(f)'
    BY <1>1, <1>3, <2>2, <2>4, <2>5 DEF WhoItIs, Known, Deciding, Resolved, AddressesOf, IsAllowedToSignIn
  <2>8. LinkIsIts(f)' /\ AccountIsIts(f)'
    BY <2>2, <2>4, <2>5, <2>6 DEF LinkIsIts, AccountIsIts, Known, Deciding, Resolved
  <2>9. LockIsIts' /\ CookiesMatch'
    BY <2>2, <2>4, <2>5, LockStays, CookiesStay
  <2> QED  BY <1>1, <2>5, <2>7, <2>8, <2>9, FlowStep DEF TypeOK
<1> QED  BY <1>2, <1>3

LEMMA IdentifyStep ==
  ASSUME SignInIInv, NEW f \in Flows, NEW who \in Identities, NEW a \in Accounts, Identify(f, who, a)
  PROVE  SignInIInv'
<1>1. TypeOK /\ WhoItIs(f) /\ flow[f].step = "github" /\ flow[f] \in Flow
  BY DEF SignInIInv, FlowsKnow, TypeOK, Identify, At
<1>2. flow[f].link = flow[f].began /\ ~flow[f].viewer
  BY <1>1 DEF WhoItIs, Resolved
<1> QED  BY <1>1, <1>2, SignInWithStep DEF Identify

LEMMA MockStep ==
  ASSUME SignInIInv, NEW f \in Flows, NEW b \in Browsers, NEW l \in Links \cup {Null},
         NEW who \in Identities, MockSignIn(f, b, l, who)
  PROVE  SignInIInv'
<1> DEFINE r == [NoFlow EXCEPT !.browser = b, !.began = l, !.link = l]
<1>1. r \in Flow /\ r.link = r.began /\ ~r.viewer
  BY DEF NoFlow, Flow, Steps
<1>2. SignInWith(f, r, who, who) /\ flow[f].step = "idle" /\ who \in AddressesOf(who)
  BY DEF MockSignIn, At, AddressesOf
<1> HIDE DEF r
<1> QED  BY <1>1, <1>2, SignInWithStep DEF MockSignIn

\* A viewer is who its session says.
LEMMA ViewerStep ==
  ASSUME SignInIInv, NEW f \in Flows, NEW b \in Browsers, NEW l \in Links, AcceptAsViewer(f, b, l)
  PROVE  SignInIInv'
<1> DEFINE a == flow[jar[b]].account
           r == [step |-> "check", browser |-> b, began |-> l, link |-> l,
                 who |-> account[a], address |-> a, account |-> a, viewer |-> TRUE, refusal |-> Null]
<1>1. TypeOK /\ WhoItIs(f) /\ flow[f].step = "idle" /\ f \notin session
  BY DEF SignInIInv, FlowsKnow, WhoItIs, AcceptAsViewer, At
<1>2. a \in Accounts /\ account[a] \in Identities
  <2>1. jar[b] \in session /\ jar[b] \in Flows
    BY DEF AcceptAsViewer, SignedIn, SignInIInv, TypeOK
  <2>2. WhoItIs(jar[b]) /\ AccountIsIts(jar[b])
    BY <2>1 DEF SignInIInv, FlowsKnow
  <2> QED  BY <2>1, <2>2 DEF WhoItIs, AccountIsIts, Known, Resolved
<1>3. flow' = [flow EXCEPT ![f] = r]
  BY DEF AcceptAsViewer
<1> HIDE DEF a
<1>4. /\ r \in Flow /\ r.step = "check" /\ r.link = l /\ r.began = l /\ r.viewer = TRUE
      /\ r.account = a /\ r.who = account[a]
  BY <1>2 DEF Flow, Steps
<1> HIDE DEF r
<1>5. /\ flow' \in [Flows -> Flow] /\ flow'[f] = r
      /\ \A g \in Flows \ {f} : flow'[g] = flow[g]
  BY <1>1, <1>3, <1>4 DEF TypeOK
<1>6. UNCHANGED <<account, joined, link, claimLock, cookie, jar, session, holder, origin>>
  BY DEF AcceptAsViewer
<1>7. WhoItIs(f)' /\ LinkIsIts(f)' /\ AccountIsIts(f)'
  BY <1>1, <1>2, <1>4, <1>5, <1>6 DEF WhoItIs, LinkIsIts, AccountIsIts, Known, Deciding, Resolved
<1>8. LockIsIts' /\ CookiesMatch'
  BY <1>1, <1>4, <1>5, <1>6, LockStays, CookiesStay
<1> QED  BY <1>1, <1>5, <1>6, <1>7, <1>8, FlowStep DEF TypeOK

-----------------------------------------------------------------------------
(* The statements that read, and decide.                                    *)

LEMMA GitHubFailsStep ==
  ASSUME SignInIInv, NEW f \in Flows, GitHubFails(f)
  PROVE  SignInIInv'
<1>1. TypeOK /\ flow[f].step = "github" /\ Refuse(f, "github_unavailable")
      /\ "github_unavailable" \in Codes
  BY DEF SignInIInv, GitHubFails, At, Codes
<1>2. CookiesMatch'
  BY <1>1, RefuseMoves, CookiesStay DEF GitHubFails
<1>3. claimLock' = Released(f)
  BY <1>1 DEF Released, SignInIInv, LockIsIts, GitHubFails
<1> QED  BY <1>1, <1>2, <1>3, RefuseStep DEF GitHubFails, TypeOK

LEMMA StopStep ==
  ASSUME SignInIInv, NEW f \in Flows, Stop(f)
  PROVE  SignInIInv'
<1>1. TypeOK /\ flow[f].step # "done" /\ flow[f].step # "away" /\ Refuse(f, "stopped")
      /\ "stopped" \in Codes
  BY DEF SignInIInv, Stop, Codes
<1>2. CookiesMatch'
  BY <1>1, RefuseMoves, CookiesStay DEF Stop
<1> QED  BY <1>1, <1>2, RefuseStep DEF Stop, TypeOK

\* What a statement that only reads leaves alone.
LEMMA ReadStep ==
  ASSUME SignInIInv, NEW f \in Flows, NEW s \in Steps \ {"count", "claim"}, Goto(f, s),
         flow[f].step \notin {"away", "count", "claim"}, UNCHANGED claimLock
  PROVE  LockIsIts'
<1>1. TypeOK
  BY DEF SignInIInv
<1> QED  BY <1>1, GotoMoves, LockStays

LEMMA CheckLinkStep ==
  ASSUME SignInIInv, NEW f \in Flows, CheckLink(f)
  PROVE  SignInIInv'
<1>1. /\ TypeOK /\ WhoItIs(f) /\ AccountIsIts(f) /\ flow[f].step = "check"
      /\ UNCHANGED <<account, joined, link, claimLock, cookie, jar, session, holder, origin>>
  BY DEF SignInIInv, FlowsKnow, CheckLink, At
<1>2. CASE ~Redeemable(flow[f].who, flow[f].link)
  <2>1. Refuse(f, "invitation") /\ "invitation" \in Codes
    BY <1>2 DEF CheckLink, Codes
  <2>2. CookiesMatch'
    BY <1>1, <2>1, RefuseMoves, CookiesStay
  <2>3. claimLock' = Released(f)
    BY <1>1 DEF Released, SignInIInv, LockIsIts
  <2> QED  BY <1>1, <2>1, <2>2, <2>3, RefuseStep DEF TypeOK
<1>3. CASE Redeemable(flow[f].who, flow[f].link)
  <2> DEFINE s == IF flow[f].viewer THEN "redeem" ELSE "lookup"
  <2>1. Goto(f, s) /\ s \in {"redeem", "lookup"} /\ s \in Steps
    BY <1>3 DEF CheckLink, Steps
  <2>2. (s = "redeem" => flow[f].viewer) /\ (s = "lookup" => ~flow[f].viewer)
    OBVIOUS
  <2> HIDE DEF s
  <2>3. LockIsIts'
    BY <1>1, <2>1, ReadStep
  <2>4. LinkIsIts(f)'
    BY <1>1, <1>3, <2>1, GotoMoves DEF LinkIsIts, Redeemable
  <2>5. flow[f].link \in Links /\ flow[f].step \in Known \ {"done"} /\ s \in Known
        /\ flow[f].step \in Deciding
    BY <1>1, <2>1 DEF WhoItIs, Known, Deciding, Resolved
  <2>6. s \in Deciding => ~flow[f].viewer
    BY <2>1, <2>2 DEF Deciding
  <2>7. s \in Resolved => flow[f].viewer
    BY <2>1, <2>2 DEF Resolved
  <2> QED  BY <1>1, <2>1, <2>3, <2>4, <2>5, <2>6, <2>7, GotoStep DEF TypeOK
<1> QED  BY <1>2, <1>3

\* The account is found, or made: nothing is left to decide.
LEMMA ResolveKnows ==
  ASSUME SignInIInv, NEW f \in Flows, NEW a \in Accounts, Resolve(f, a),
         flow[f].step \in Deciding \ {"check"}, account'[a] = flow[f].who,
         UNCHANGED <<link, session, cookie, holder>>
  PROVE  /\ flow' \in [Flows -> Flow] /\ \A g \in Flows \ {f} : flow'[g] = flow[g]
         /\ flow'[f].step \notin {"count", "claim"}
         /\ WhoItIs(f)' /\ LinkIsIts(f)' /\ AccountIsIts(f)' /\ CookiesMatch'
<1>1. TypeOK /\ WhoItIs(f) /\ LinkIsIts(f) /\ flow[f] \in Flow
  BY DEF SignInIInv, FlowsKnow, TypeOK
<1>2. /\ flow' \in [Flows -> Flow]
      /\ flow'[f].step = (IF flow[f].link = Null THEN "session" ELSE "redeem")
      /\ flow'[f].browser = flow[f].browser /\ flow'[f].began = flow[f].began
      /\ flow'[f].link = flow[f].link /\ flow'[f].who = flow[f].who
      /\ flow'[f].address = flow[f].address /\ flow'[f].account = a
      /\ flow'[f].viewer = flow[f].viewer
      /\ \A g \in Flows \ {f} : flow'[g] = flow[g]
  BY <1>1, ResolveMoves
<1>3. /\ flow'[f].step \in {"session", "redeem"}
      /\ flow'[f].step = "redeem" => flow[f].link \in Links
  BY <1>1, <1>2 DEF Flow
<1>4. WhoItIs(f)'
  BY <1>1, <1>2, <1>3 DEF WhoItIs, Known, Deciding, Resolved
<1>5. LinkIsIts(f)'
  BY <1>1, <1>2, <1>3 DEF LinkIsIts, Known, Deciding, Resolved
<1>6. AccountIsIts(f)'
  BY <1>1, <1>2, <1>3 DEF AccountIsIts, WhoItIs, Resolved, Deciding
<1>7. CookiesMatch'
  BY <1>2, CookiesStay DEF Deciding
<1> QED  BY <1>2, <1>3, <1>4, <1>5, <1>6, <1>7

LEMMA LookUpStep ==
  ASSUME SignInIInv, NEW f \in Flows, LookUp(f)
  PROVE  SignInIInv'
<1>1. /\ TypeOK /\ WhoItIs(f) /\ LinkIsIts(f) /\ flow[f].step = "lookup"
      /\ UNCHANGED <<account, joined, link, claimLock, cookie, jar, session, holder, origin>>
  BY DEF SignInIInv, FlowsKnow, LookUp, At
<1>2. flow[f].step \in Known \ {"done"} /\ flow[f].step \in Deciding \ {"check"} /\ ~flow[f].viewer
  BY <1>1 DEF WhoItIs, Known, Deciding, Resolved
<1>3. CASE LinkedAccounts(flow[f].who) = {}
  <2>1. Goto(f, "adoptable") /\ "adoptable" \in Steps /\ "adoptable" \in Deciding
    BY <1>3 DEF LookUp, Steps, Deciding
  <2>2. LockIsIts'
    BY <1>1, <2>1, ReadStep
  <2>3. LinkIsIts(f)'
    BY <1>1, <1>2, <2>1, GotoMoves DEF LinkIsIts
  <2>4. "adoptable" \in Known /\ "adoptable" \notin Resolved
    BY DEF Known, Deciding, Resolved
  <2> QED  BY <1>1, <1>2, <2>1, <2>2, <2>3, <2>4, GotoStep DEF TypeOK
<1>4. CASE LinkedAccounts(flow[f].who) # {}
  <2> DEFINE a == CHOOSE b \in LinkedAccounts(flow[f].who) : TRUE
  <2>1. a \in LinkedAccounts(flow[f].who)
    BY <1>4
  <2>2. Resolve(f, a) /\ a \in Accounts /\ account'[a] = flow[f].who
    BY <1>1, <1>4, <2>1 DEF LookUp, LinkedAccounts
  <2> HIDE DEF a
  <2>3. /\ flow' \in [Flows -> Flow] /\ \A g \in Flows \ {f} : flow'[g] = flow[g]
        /\ flow'[f].step \notin {"count", "claim"}
        /\ WhoItIs(f)' /\ LinkIsIts(f)' /\ AccountIsIts(f)' /\ CookiesMatch'
    BY <1>1, <1>2, <2>2, ResolveKnows
  <2>4. LockIsIts'
    BY <1>1, <2>3, LockStays
  <2> QED  BY <1>1, <2>3, <2>4, FlowStep DEF TypeOK
<1> QED  BY <1>3, <1>4

LEMMA FindAdoptableStep ==
  ASSUME SignInIInv, NEW f \in Flows, FindAdoptable(f)
  PROVE  SignInIInv'
<1> DEFINE s == IF Adoptable(flow[f].address) THEN "adopt" ELSE "lock"
<1>1. /\ TypeOK /\ WhoItIs(f) /\ LinkIsIts(f) /\ flow[f].step = "adoptable"
      /\ UNCHANGED <<account, joined, link, claimLock, cookie, jar, session, holder, origin>>
      /\ Goto(f, s)
  BY DEF SignInIInv, FlowsKnow, FindAdoptable, At
<1>2. flow[f].step \in Known \ {"done"} /\ flow[f].step \in Deciding /\ ~flow[f].viewer
  BY <1>1 DEF WhoItIs, Known, Deciding, Resolved
<1>3. /\ s \in {"adopt", "lock"} /\ s \in Steps /\ s \in Known /\ s \in Deciding /\ s \notin Resolved
      /\ s = "adopt" => account[flow[f].address] = Null
  BY DEF Adoptable, Steps, Known, Deciding, Resolved
<1> HIDE DEF s
<1>4. LockIsIts'
  BY <1>1, <1>3, ReadStep
<1>5. LinkIsIts(f)'
  BY <1>1, <1>2, <1>3, GotoMoves DEF LinkIsIts, Known, Deciding
<1> QED  BY <1>1, <1>2, <1>3, <1>4, <1>5, GotoStep DEF TypeOK

LEMMA TakeLockStep ==
  ASSUME SignInIInv, NEW f \in Flows, TakeLock(f)
  PROVE  SignInIInv'
<1>1. /\ TypeOK /\ WhoItIs(f) /\ LinkIsIts(f) /\ flow[f].step = "lock" /\ Goto(f, "count")
      /\ claimLock = Null /\ claimLock' = f
      /\ UNCHANGED <<account, joined, link, cookie, jar, session, holder, origin>>
  BY DEF SignInIInv, FlowsKnow, TakeLock, At
<1>2. flow[f].step \in Known \ {"done"} /\ flow[f].step \in Deciding /\ ~flow[f].viewer
  BY <1>1 DEF WhoItIs, Known, Deciding, Resolved
<1>3. "count" \in Steps /\ "count" \in Known /\ "count" \in Deciding /\ "count" \notin Resolved
  BY DEF Steps, Known, Deciding, Resolved
<1>4. flow'[f].step = "count" /\ \A g \in Flows \ {f} : flow'[g] = flow[g]
  BY <1>1, <1>3, GotoMoves
<1>5. LockIsIts'
  BY <1>1, <1>4, SignInAssumption DEF SignInIInv, LockIsIts
<1>6. LinkIsIts(f)'
  BY <1>1, <1>2, <1>3, GotoMoves DEF LinkIsIts
<1> QED  BY <1>1, <1>2, <1>3, <1>5, <1>6, GotoStep DEF TypeOK

LEMMA CountStep ==
  ASSUME SignInIInv, NEW f \in Flows, CountAccounts(f)
  PROVE  SignInIInv'
<1> DEFINE claimed == \E a \in Accounts : account[a] # Absent
<1>1. /\ TypeOK /\ WhoItIs(f) /\ LinkIsIts(f) /\ flow[f].step = "count" /\ flow[f] \in Flow
      /\ claimLock = f /\ claimLock' = (IF claimed THEN Null ELSE f)
      /\ UNCHANGED <<account, joined, link, cookie, jar, session, holder, origin>>
  BY DEF SignInIInv, FlowsKnow, CountAccounts, At, LockIsIts, TypeOK
<1>2. flow[f].step \in Known \ {"done"} /\ flow[f].step \in Deciding /\ ~flow[f].viewer
  BY <1>1 DEF WhoItIs, Known, Deciding, Resolved
<1>3. CASE ~claimed
  <2>1. Goto(f, "claim") /\ "claim" \in Steps
    BY <1>3 DEF CountAccounts, Steps
  <2>2. /\ flow' \in [Flows -> Flow] /\ flow'[f].step = "claim"
        /\ flow'[f].browser = flow[f].browser /\ flow'[f].began = flow[f].began
        /\ flow'[f].link = flow[f].link /\ flow'[f].who = flow[f].who
        /\ flow'[f].address = flow[f].address /\ flow'[f].account = flow[f].account
        /\ flow'[f].viewer = flow[f].viewer
        /\ \A g \in Flows \ {f} : flow'[g] = flow[g]
    BY <1>1, <2>1, GotoMoves
  <2>3. WhoItIs(f)'
    BY <1>1, <1>2, <2>2 DEF WhoItIs, Known, Deciding, Resolved, AddressesOf, IsAllowedToSignIn
  <2>4. LinkIsIts(f)' /\ AccountIsIts(f)'
    BY <1>1, <1>2, <1>3, <2>2 DEF LinkIsIts, AccountIsIts, Known, Resolved
  <2>5. LockIsIts'
    BY <1>1, <1>3, <2>2, LockStays
  <2>6. CookiesMatch'
    BY <1>1, <2>2, CookiesStay
  <2> QED  BY <1>1, <2>2, <2>3, <2>4, <2>5, <2>6, FlowStep DEF TypeOK
<1>4. CASE claimed /\ flow[f].link = Null
  <2>1. Refuse(f, "no_account") /\ "no_account" \in Codes
    BY <1>4 DEF CountAccounts, Codes
  <2>2. CookiesMatch'
    BY <1>1, <2>1, RefuseMoves, CookiesStay
  <2>3. claimLock' = Released(f)
    BY <1>1, <1>4 DEF Released
  <2> QED  BY <1>1, <2>1, <2>2, <2>3, RefuseStep DEF TypeOK
<1>5. CASE claimed /\ flow[f].link # Null
  <2>1. Goto(f, "create") /\ "create" \in Steps /\ "create" \in Known /\ "create" \in Deciding
        /\ "create" \notin Resolved /\ flow[f].link \in Links
    BY <1>1, <1>5 DEF CountAccounts, Steps, Known, Deciding, Resolved, Flow
  <2>2. flow'[f].step = "create" /\ \A g \in Flows \ {f} : flow'[g] = flow[g]
    BY <1>1, <2>1, GotoMoves
  <2>3. LockIsIts'
    <3>1. claimLock' = Null
      BY <1>1, <1>5
    <3>2. \A g \in Flows \ {f} : flow[g].step \notin {"count", "claim"}
      BY <1>1 DEF SignInIInv, LockIsIts
    <3> QED  BY <2>2, <3>1, <3>2, SignInAssumption DEF LockIsIts
  <2>4. LinkIsIts(f)'
    BY <1>1, <1>2, <2>1, GotoMoves DEF LinkIsIts
  <2>5. claimLock' \in Flows \cup {Null}
    BY <1>1
  <2> QED  BY <1>1, <1>2, <1>5, <2>1, <2>3, <2>4, <2>5, GotoStep
<1> QED  BY <1>3, <1>4, <1>5

-----------------------------------------------------------------------------
(* The statements that write an account.                                    *)

\* A row that is written for the one its address is vouched for to: nobody else's
\* sign-in had decided anything about it, and whose row it was it stays.
LEMMA WriteStep ==
  ASSUME SignInIInv, NEW f \in Flows, NEW a \in Accounts, NEW who \in Identities,
         who = flow[f].who, a = flow[f].address, flow[f].step \in Deciding, ~flow[f].viewer,
         account' = [account EXCEPT ![a] = who],
         account[a] \in {Null, Absent, who}, LinkedAccounts(who) \ {a} = {},
         \A g \in Flows \ {f} : flow'[g] = flow[g] /\ flow[g].step # "claim",
         UNCHANGED <<link, session, holder>>
  PROVE  /\ \A g \in Flows \ {f} : WhoItIs(g)' /\ LinkIsIts(g)' /\ AccountIsIts(g)'
         /\ NoTwins' /\ AcceptedBySomeone'
         /\ account' \in [Accounts -> Identities \cup {Null, Absent}]
         /\ IsAllowedToSignIn(who)
<1>1. /\ TypeOK /\ WhoItIs(f) /\ account \in [Accounts -> Identities \cup {Null, Absent}]
      /\ NoTwins /\ AcceptedBySomeone
  BY DEF SignInIInv, FlowsKnow, TypeOK, Rows
<1>2. a \in AddressesOf(who) /\ IsAllowedToSignIn(who)
  BY <1>1 DEF WhoItIs
<1>3. /\ account' \in [Accounts -> Identities \cup {Null, Absent}] /\ account'[a] = who
      /\ \A b \in Accounts \ {a} : account'[b] = account[b]
  BY <1>1
<1>4. Null \notin Identities /\ Absent \notin Identities /\ Null # Absent
  BY SignInAssumption DEF Accounts
<1>5. \A b \in Accounts : account[b] \in Identities => account'[b] = account[b]
  BY <1>1, <1>3, <1>4
<1>6. \A b \in Accounts : account[b] = who => b = a
  BY DEF LinkedAccounts
<1>7. NoTwins'
  BY <1>1, <1>3, <1>6 DEF NoTwins
<1>8. AcceptedBySomeone'
  BY <1>1, <1>5 DEF AcceptedBySomeone
<1>9. ASSUME NEW g \in Flows \ {f}
      PROVE  WhoItIs(g)' /\ LinkIsIts(g)' /\ AccountIsIts(g)'
  <2>1. WhoItIs(g) /\ LinkIsIts(g) /\ AccountIsIts(g) /\ flow'[g] = flow[g] /\ flow[g].step # "claim"
    BY DEF SignInIInv, FlowsKnow
  <2>2. WhoItIs(g)' /\ LinkIsIts(g)'
    BY <2>1 DEF WhoItIs, LinkIsIts, AddressesOf, IsAllowedToSignIn
  <2>3. flow[g].step \in Resolved \/ flow[g].viewer => flow[g].who \in Identities
    BY <2>1 DEF WhoItIs, Known, Deciding
  <2>4. CASE flow[g].step = "adopt"
    <3>1. /\ flow[g].who \in Identities /\ flow[g].address \in AddressesOf(flow[g].who)
          /\ account[flow[g].address] \in {Null, flow[g].who}
      BY <2>1, <2>4 DEF WhoItIs, AccountIsIts, Known, Deciding, Resolved
    <3>2. flow[g].address \in Accounts
      BY <3>1 DEF AddressesOf, Accounts
    <3>3. account'[flow[g].address] \in {Null, flow[g].who}
      BY <1>2, <1>3, <3>1, <3>2, OneHolder
    <3>4. flow[g].step \notin Resolved /\ ~flow[g].viewer
      BY <2>1, <2>4 DEF WhoItIs, Resolved
    <3> QED  BY <2>1, <2>2, <2>4, <3>3, <3>4 DEF AccountIsIts
  <2>5. CASE flow[g].step # "adopt"
    <3>1. \E b \in Accounts : account'[b] # Absent
      BY <1>3, <1>4
    <3> QED  BY <1>5, <2>1, <2>2, <2>3, <2>5, <3>1 DEF AccountIsIts
  <2> QED  BY <2>4, <2>5
<1> QED  BY <1>2, <1>3, <1>7, <1>8, <1>9

LEMMA AdoptStep ==
  ASSUME SignInIInv, NEW f \in Flows, Adopt(f)
  PROVE  SignInIInv'
<1> DEFINE a == flow[f].address
           who == flow[f].who
<1>1. /\ TypeOK /\ WhoItIs(f) /\ AccountIsIts(f) /\ flow[f].step = "adopt"
      /\ UNCHANGED <<joined, link, claimLock, cookie, jar, session, holder, origin>>
  BY DEF SignInIInv, FlowsKnow, Adopt, At
<1>2. /\ flow[f].step \in Deciding \ {"check"} /\ ~flow[f].viewer
      /\ who \in Identities /\ a \in AddressesOf(who) /\ account[a] \in {Null, who}
  BY <1>1 DEF WhoItIs, AccountIsIts, Known, Deciding, Resolved
<1>3. a \in Accounts
  BY <1>2 DEF AddressesOf, Accounts
<1>4. CASE LinkedAccounts(who) \ {a} # {}
  <2>1. Refuse(f, "github_unavailable") /\ "github_unavailable" \in Codes /\ UNCHANGED account
    BY <1>4 DEF Adopt, Codes
  <2>2. CookiesMatch'
    BY <1>1, <2>1, RefuseMoves, CookiesStay
  <2>3. claimLock' = Released(f)
    BY <1>1 DEF Released, SignInIInv, LockIsIts
  <2> QED  BY <1>1, <2>1, <2>2, <2>3, RefuseStep DEF TypeOK
<1>5. CASE LinkedAccounts(who) \ {a} = {}
  <2>1. account' = [account EXCEPT ![a] = who] /\ Resolve(f, a)
    BY <1>5 DEF Adopt
  <2>2. Null \notin Identities /\ Absent \notin Identities /\ Null # Absent
    BY SignInAssumption DEF Accounts
  <2>3. \A g \in Flows : flow[g].step # "claim"
    BY <1>2, <1>3, <2>2 DEF SignInIInv, FlowsKnow, AccountIsIts
  <2> HIDE DEF a, who
  <2>4. account'[a] = who /\ \A b \in Accounts \ {a} : account'[b] = account[b]
    BY <1>1, <1>3, <2>1 DEF TypeOK
  <2>5. /\ flow' \in [Flows -> Flow] /\ \A g \in Flows \ {f} : flow'[g] = flow[g]
        /\ flow'[f].step \notin {"count", "claim"}
        /\ WhoItIs(f)' /\ LinkIsIts(f)' /\ AccountIsIts(f)' /\ CookiesMatch'
    BY <1>1, <1>2, <1>3, <2>1, <2>4, ResolveKnows DEF who
  <2>6. /\ \A g \in Flows \ {f} : WhoItIs(g)' /\ LinkIsIts(g)' /\ AccountIsIts(g)'
        /\ NoTwins' /\ AcceptedBySomeone' /\ IsAllowedToSignIn(who)
        /\ account' \in [Accounts -> Identities \cup {Null, Absent}]
    BY <1>1, <1>2, <1>3, <1>5, <2>1, <2>3, <2>5, WriteStep DEF a, who
  <2>7. LockIsIts'
    BY <1>1, <2>5, LockStays
  <2>8. RowsAreFounded'
    <3>1. RowsAreFounded
      BY DEF SignInIInv, Rows
    <3> QED  BY ONLY <1>1, <1>2, <1>3, <2>2, <2>4, <2>6, <3>1 DEF RowsAreFounded, IsAllowedToSignIn
  <2>9. OneFounder' /\ StrandedCanReturn'
    BY <1>1 DEF SignInIInv, Rows, OneFounder, StrandedCanReturn
  <2>10. TypeOK' /\ FlowsKnow'
    BY <1>1, <2>5, <2>6 DEF TypeOK, FlowsKnow
  <2> QED  BY <2>5, <2>6, <2>7, <2>8, <2>9, <2>10 DEF SignInIInv, Rows
<1> QED  BY <1>4, <1>5

LEMMA ClaimStep ==
  ASSUME SignInIInv, NEW f \in Flows, Claim(f)
  PROVE  SignInIInv'
<1> DEFINE a == flow[f].address
           who == flow[f].who
<1>1. /\ TypeOK /\ WhoItIs(f) /\ AccountIsIts(f) /\ flow[f].step = "claim" /\ claimLock = f
      /\ UNCHANGED <<link, cookie, jar, session, holder>>
      /\ account' = [account EXCEPT ![a] = who] /\ joined' = joined \cup {a}
      /\ origin' = [origin EXCEPT ![a] = "claim"] /\ claimLock' = Null /\ Resolve(f, a)
  BY DEF SignInIInv, FlowsKnow, LockIsIts, Claim, At
<1>2. /\ flow[f].step \in Deciding \ {"check"} /\ ~flow[f].viewer
      /\ who \in Identities /\ a \in AddressesOf(who)
      /\ \A b \in Accounts : account[b] = Absent
  BY <1>1 DEF WhoItIs, AccountIsIts, Known, Deciding, Resolved
<1>3. a \in Accounts
  BY <1>2 DEF AddressesOf, Accounts
<1>4. Null \notin Identities /\ Absent \notin Identities /\ Null # Absent
      /\ "claim" \notin Links /\ Absent \notin Links /\ Absent # "claim"
  BY SignInAssumption DEF Accounts
<1>5. \A g \in Flows \ {f} : flow[g].step # "claim"
  BY <1>1 DEF SignInIInv, LockIsIts
<1> HIDE DEF a, who
<1>6. /\ account'[a] = who /\ \A b \in Accounts \ {a} : account'[b] = Absent
      /\ origin'[a] = "claim" /\ \A b \in Accounts \ {a} : origin'[b] = Absent
  <2>1. \A b \in Accounts : origin[b] = Absent
    BY <1>2 DEF SignInIInv, Rows, RowsAreFounded
  <2> QED  BY <1>1, <1>2, <1>3, <2>1 DEF TypeOK
<1>7. /\ flow' \in [Flows -> Flow] /\ \A g \in Flows \ {f} : flow'[g] = flow[g]
      /\ flow'[f].step \notin {"count", "claim"}
      /\ WhoItIs(f)' /\ LinkIsIts(f)' /\ AccountIsIts(f)' /\ CookiesMatch'
  BY <1>1, <1>2, <1>3, <1>6, ResolveKnows DEF who
<1>8. /\ \A g \in Flows \ {f} : WhoItIs(g)' /\ LinkIsIts(g)' /\ AccountIsIts(g)'
      /\ NoTwins' /\ AcceptedBySomeone' /\ IsAllowedToSignIn(who)
      /\ account' \in [Accounts -> Identities \cup {Null, Absent}]
  <2>1. LinkedAccounts(who) = {}
    BY <1>2, <1>4 DEF LinkedAccounts
  <2> QED  BY <1>1, <1>2, <1>3, <1>5, <1>7, <2>1, WriteStep DEF a, who
<1>9. LockIsIts'
  BY <1>1, <1>5, <1>7, SignInAssumption DEF SignInIInv, LockIsIts
<1>10. RowsAreFounded'
  BY ONLY <1>2, <1>4, <1>6, <1>8 DEF RowsAreFounded, IsAllowedToSignIn
<1>11. OneFounder' /\ StrandedCanReturn'
  BY ONLY <1>4, <1>6, SignInAssumption DEF OneFounder, StrandedCanReturn
<1>12. TypeOK' /\ FlowsKnow'
  BY <1>1, <1>3, <1>7, <1>8 DEF TypeOK, FlowsKnow
<1> QED  BY <1>7, <1>8, <1>9, <1>10, <1>11, <1>12 DEF SignInIInv, Rows

LEMMA CreateStep ==
  ASSUME SignInIInv, NEW f \in Flows, CreateInvited(f)
  PROVE  SignInIInv'
<1> DEFINE a == flow[f].address
           who == flow[f].who
           l == flow[f].link
           linked == LinkedAccounts(who)
<1>1. /\ TypeOK /\ WhoItIs(f) /\ AccountIsIts(f) /\ LinkIsIts(f) /\ flow[f].step = "create"
      /\ UNCHANGED <<joined, link, claimLock, cookie, jar, session, holder>>
  BY DEF SignInIInv, FlowsKnow, CreateInvited, At
<1>2. /\ flow[f].step \in Deciding \ {"check"} /\ ~flow[f].viewer
      /\ who \in Identities /\ a \in AddressesOf(who) /\ l \in Links
      /\ \E b \in Accounts : account[b] # Absent
  BY <1>1 DEF WhoItIs, AccountIsIts, Known, Deciding, Resolved
<1>3. a \in Accounts
  BY <1>2 DEF AddressesOf, Accounts
<1>4. CASE account[a] # Absent
  <2>1. Refuse(f, "account_conflict") /\ "account_conflict" \in Codes /\ UNCHANGED <<account, origin>>
    BY <1>4 DEF CreateInvited, Codes
  <2>2. CookiesMatch'
    BY <1>1, <2>1, RefuseMoves, CookiesStay
  <2>3. claimLock' = Released(f)
    BY <1>1 DEF Released, SignInIInv, LockIsIts
  <2> QED  BY <1>1, <2>1, <2>2, <2>3, RefuseStep DEF TypeOK
<1>5. CASE account[a] = Absent /\ linked # {}
  <2> DEFINE b == CHOOSE x \in linked : TRUE
  <2>1. b \in linked
    BY <1>5
  <2>2. Resolve(f, b) /\ b \in Accounts /\ account'[b] = who /\ UNCHANGED <<account, origin>>
    BY <1>5, <2>1 DEF CreateInvited, LinkedAccounts
  <2> HIDE DEF b
  <2>3. /\ flow' \in [Flows -> Flow] /\ \A g \in Flows \ {f} : flow'[g] = flow[g]
        /\ flow'[f].step \notin {"count", "claim"}
        /\ WhoItIs(f)' /\ LinkIsIts(f)' /\ AccountIsIts(f)' /\ CookiesMatch'
    BY <1>1, <1>2, <2>2, ResolveKnows
  <2>4. LockIsIts'
    BY <1>1, <2>3, LockStays
  <2> QED  BY <1>1, <2>2, <2>3, <2>4, FlowStep DEF TypeOK
<1>6. CASE account[a] = Absent /\ linked = {}
  <2>1. /\ account' = [account EXCEPT ![a] = who] /\ Resolve(f, a)
        /\ origin' = [origin EXCEPT ![a] = l]
    BY <1>6 DEF CreateInvited
  <2>2. /\ Null \notin Identities /\ Absent \notin Identities /\ Null # Absent
        /\ l # Absent /\ l # "claim" /\ l # "legacy" /\ l # Null
    BY <1>2, SignInAssumption DEF Accounts
  <2>3. \A g \in Flows : flow[g].step # "claim"
    BY <1>2 DEF SignInIInv, FlowsKnow, AccountIsIts
  <2>4. link[l].status # "unissued" /\ link[l].login = who
    BY <1>1, <1>2, <2>2 DEF LinkIsIts, Known
  <2>5. LinkedAccounts(who) = {}
    BY <1>6
  <2> HIDE DEF a, who, l, linked
  <2>6. /\ account'[a] = who /\ \A b \in Accounts \ {a} : account'[b] = account[b]
        /\ origin'[a] = l /\ \A b \in Accounts \ {a} : origin'[b] = origin[b]
    BY <1>1, <1>3, <2>1 DEF TypeOK
  <2>7. /\ flow' \in [Flows -> Flow] /\ \A g \in Flows \ {f} : flow'[g] = flow[g]
        /\ flow'[f].step \notin {"count", "claim"}
        /\ WhoItIs(f)' /\ LinkIsIts(f)' /\ AccountIsIts(f)' /\ CookiesMatch'
    BY <1>1, <1>2, <1>3, <2>1, <2>6, ResolveKnows DEF who
  <2>8. /\ \A g \in Flows \ {f} : WhoItIs(g)' /\ LinkIsIts(g)' /\ AccountIsIts(g)'
        /\ NoTwins' /\ AcceptedBySomeone' /\ IsAllowedToSignIn(who)
        /\ account' \in [Accounts -> Identities \cup {Null, Absent}]
    BY <1>1, <1>2, <1>3, <1>6, <2>1, <2>3, <2>5, <2>7, WriteStep DEF a, who
  <2>9. LockIsIts'
    BY <1>1, <2>7, LockStays
  <2>10. RowsAreFounded'
    <3>1. RowsAreFounded
      BY DEF SignInIInv, Rows
    <3> QED  BY ONLY <1>1, <1>2, <2>2, <2>4, <2>6, <2>8, <3>1 DEF RowsAreFounded, IsAllowedToSignIn
  <2>11. OneFounder'
    BY <2>2, <2>6 DEF SignInIInv, Rows, OneFounder
  \* The link was not accepted: nobody has an account for it.
  <2>12. StrandedCanReturn'
    <3>1. link[l].status # "accepted"
      BY <1>2, <2>4, <2>5 DEF SignInIInv, Rows, AcceptedBySomeone, LinkedAccounts
    <3> QED  BY <1>1, <2>6, <3>1 DEF SignInIInv, Rows, StrandedCanReturn
  <2>13. TypeOK' /\ FlowsKnow'
    BY <1>1, <1>2, <2>1, <2>7, <2>8 DEF TypeOK, FlowsKnow
  <2> QED  BY <2>7, <2>8, <2>9, <2>10, <2>11, <2>12, <2>13 DEF SignInIInv, Rows
<1> QED  BY <1>4, <1>5, <1>6

-----------------------------------------------------------------------------
(* The link, and the session.                                               *)

\* A link that moves on, but never back, nor to another holder.
LEMMA LinkStep ==
  ASSUME SignInIInv, UNCHANGED account,
         \A l \in Links : link[l].status # "unissued" =>
           link'[l].login = link[l].login /\ link'[l].status # "unissued",
         NEW g \in Flows, flow'[g] = flow[g], g \in session' => g \in session,
         UNCHANGED holder
  PROVE  WhoItIs(g)' /\ LinkIsIts(g)' /\ AccountIsIts(g)'
<1>1. WhoItIs(g) /\ LinkIsIts(g) /\ AccountIsIts(g) /\ flow[g] \in Flow
  BY DEF SignInIInv, FlowsKnow, TypeOK
<1>2. WhoItIs(g)' /\ AccountIsIts(g)'
  BY <1>1 DEF WhoItIs, AccountIsIts, AddressesOf, IsAllowedToSignIn
<1>3. flow[g].link # Null => flow[g].link \in Links
  BY <1>1 DEF Flow
<1> QED  BY <1>1, <1>2, <1>3 DEF LinkIsIts

LEMMA LinkRows ==
  ASSUME SignInIInv, UNCHANGED <<account, origin>>,
         \A l \in Links : link[l].status # "unissued" =>
           link'[l].login = link[l].login /\ link'[l].status # "unissued"
  PROVE  NoTwins' /\ RowsAreFounded' /\ OneFounder'
<1>1. NoTwins /\ RowsAreFounded /\ OneFounder
  BY DEF SignInIInv, Rows
<1> QED  BY <1>1 DEF NoTwins, RowsAreFounded, OneFounder, IsAllowedToSignIn

LEMMA RedeemStep ==
  ASSUME SignInIInv, NEW f \in Flows, Redeem(f)
  PROVE  /\ SignInIInv'
         /\ flow[f].link \in Links /\ flow[f].began = flow[f].link
         /\ account[flow[f].account] = link[flow[f].link].login
<1> DEFINE l == flow[f].link
           a == flow[f].account
           s == IF flow[f].viewer THEN "done" ELSE "session"
<1>1. /\ TypeOK /\ WhoItIs(f) /\ AccountIsIts(f) /\ LinkIsIts(f) /\ flow[f].step = "redeem"
      /\ UNCHANGED <<account, claimLock, cookie, jar, session, holder, origin>>
      /\ Goto(f, s) /\ joined' = joined \cup {a}
      /\ link' = (IF link[l].status = "live" THEN [link EXCEPT ![l].status = "accepted"] ELSE link)
  BY DEF SignInIInv, FlowsKnow, Redeem, At
<1>2. /\ flow[f].who \in Identities /\ l \in Links /\ flow[f].began = l
      /\ a \in Accounts /\ account[a] = flow[f].who
  BY <1>1 DEF WhoItIs, AccountIsIts, Known, Resolved
<1>3. link[l].login = flow[f].who
  BY <1>1, <1>2, SignInAssumption DEF LinkIsIts, Known, Resolved
<1>4. s \in {"done", "session"} /\ s \in Steps
  BY DEF Steps
<1> HIDE DEF s
<1>5. /\ flow' \in [Flows -> Flow] /\ flow'[f].step = s
      /\ flow'[f].browser = flow[f].browser /\ flow'[f].began = flow[f].began
      /\ flow'[f].link = flow[f].link /\ flow'[f].who = flow[f].who
      /\ flow'[f].address = flow[f].address /\ flow'[f].account = flow[f].account
      /\ flow'[f].viewer = flow[f].viewer
      /\ \A g \in Flows \ {f} : flow'[g] = flow[g]
  BY <1>1, <1>4, GotoMoves
<1>6. /\ link' \in [Links -> [login : Identities \cup {Null},
                              status : {"unissued", "live", "dead", "accepted"}]]
      /\ \A m \in Links : link'[m].login = link[m].login
      /\ \A m \in Links : link[m].status # "unissued" => link'[m].status # "unissued"
      /\ \A m \in Links \ {l} : link'[m] = link[m]
  BY <1>1, <1>2 DEF TypeOK
<1> HIDE DEF l, a
<1>7. WhoItIs(f)'
  BY <1>1, <1>4, <1>5 DEF WhoItIs, Known, Deciding, Resolved
<1>8. LinkIsIts(f)' /\ AccountIsIts(f)'
  BY <1>1, <1>2, <1>3, <1>4, <1>5, <1>6 DEF LinkIsIts, AccountIsIts, Known, Deciding, Resolved, l
<1>9. FlowsKnow'
  BY <1>1, <1>5, <1>6, <1>7, <1>8, LinkStep DEF FlowsKnow
<1>10. LockIsIts' /\ CookiesMatch'
  BY <1>1, <1>4, <1>5, LockStays, CookiesStay
<1>11. NoTwins' /\ RowsAreFounded' /\ OneFounder'
  BY <1>1, <1>6, LinkRows
<1>12. AcceptedBySomeone'
  BY <1>1, <1>2, <1>3, <1>6 DEF SignInIInv, Rows, AcceptedBySomeone
<1>13. StrandedCanReturn'
  <2>1. ASSUME NEW b \in Accounts, origin[b] = l
        PROVE  b = a
    BY <1>2, <1>3, <2>1 DEF SignInIInv, Rows, NoTwins, RowsAreFounded
  <2> QED  BY <1>1, <1>6, <2>1 DEF SignInIInv, Rows, StrandedCanReturn
<1>14. TypeOK'
  BY <1>1, <1>2, <1>5, <1>6 DEF TypeOK
<1> QED  BY <1>2, <1>3, <1>9, <1>10, <1>11, <1>12, <1>13, <1>14 DEF SignInIInv, Rows, l, a

\* What is said of the rows is not about sessions.
LEMMA RowsStay ==
  ASSUME SignInIInv, UNCHANGED <<account, joined, link, origin>>
  PROVE  Rows'
BY DEF SignInIInv, Rows, NoTwins, RowsAreFounded, OneFounder, AcceptedBySomeone, StrandedCanReturn,
       IsAllowedToSignIn

LEMMA SessionStep ==
  ASSUME SignInIInv, NEW f \in Flows, StartSession(f)
  PROVE  SignInIInv'
<1>1. /\ TypeOK /\ WhoItIs(f) /\ AccountIsIts(f) /\ LinkIsIts(f) /\ flow[f].step = "session"
      /\ UNCHANGED <<account, joined, link, claimLock, cookie, holder, origin>>
      /\ Goto(f, "done") /\ "done" \in Steps /\ session' = session \cup {f}
      /\ jar' = [jar EXCEPT ![flow[f].browser] = f]
  BY DEF SignInIInv, FlowsKnow, StartSession, At, Steps
<1>2. /\ flow' \in [Flows -> Flow] /\ flow'[f].step = "done"
      /\ flow'[f].browser = flow[f].browser /\ flow'[f].began = flow[f].began
      /\ flow'[f].link = flow[f].link /\ flow'[f].who = flow[f].who
      /\ flow'[f].address = flow[f].address /\ flow'[f].account = flow[f].account
      /\ flow'[f].viewer = flow[f].viewer
      /\ \A g \in Flows \ {f} : flow'[g] = flow[g]
  BY <1>1, GotoMoves
<1>3. WhoItIs(f)' /\ LinkIsIts(f)' /\ AccountIsIts(f)'
  BY <1>1, <1>2 DEF WhoItIs, LinkIsIts, AccountIsIts, Known, Deciding, Resolved
<1>4. ASSUME NEW g \in Flows, g # f PROVE WhoItIs(g)' /\ LinkIsIts(g)' /\ AccountIsIts(g)'
  BY <1>1, <1>2, <1>4, LinkStep
<1>5. LockIsIts' /\ CookiesMatch'
  BY <1>1, <1>2, LockStays, CookiesStay
<1>6. TypeOK' /\ FlowsKnow'
  BY <1>1, <1>2, <1>3, <1>4 DEF TypeOK, FlowsKnow
<1> QED  BY <1>1, <1>5, <1>6, RowsStay DEF SignInIInv

\* Sessions end.
LEMMA SessionEndsStep ==
  ASSUME SignInIInv, session' \subseteq session, jar' \in [Browsers -> Flows \cup {Null}],
         UNCHANGED <<account, joined, link, claimLock, flow, cookie, holder, origin>>
  PROVE  SignInIInv'
<1>1. ASSUME NEW g \in Flows PROVE WhoItIs(g)' /\ LinkIsIts(g)' /\ AccountIsIts(g)'
  BY LinkStep
<1>2. LockIsIts' /\ CookiesMatch'
  BY DEF SignInIInv, LockIsIts, CookiesMatch
<1> QED  BY <1>1, <1>2, RowsStay DEF SignInIInv, FlowsKnow, TypeOK

\* A link is issued, or dies.
LEMMA LinkMovesStep ==
  ASSUME SignInIInv, NEW l \in Links, LinkDies(l) \/ \E who \in Identities : Issue(l, who)
  PROVE  SignInIInv'
<1>1. /\ TypeOK /\ UNCHANGED <<account, joined, claimLock, flow, cookie, jar, session, holder, origin>>
  BY DEF SignInIInv, Issue, LinkDies
<1>2. /\ link' \in [Links -> [login : Identities \cup {Null},
                              status : {"unissued", "live", "dead", "accepted"}]]
      /\ \A m \in Links : link[m].status # "unissued" =>
           link'[m].login = link[m].login /\ link'[m].status # "unissued"
      /\ \A m \in Links : link'[m].status = "accepted" => link'[m] = link[m]
  <2>1. CASE LinkDies(l)
    BY <1>1, <2>1 DEF LinkDies, TypeOK
  <2>2. ASSUME NEW who \in Identities, Issue(l, who)
        PROVE  link' = [link EXCEPT ![l] = [login |-> who, status |-> "live"]] /\ link[l].status = "unissued"
    BY <2>2 DEF Issue
  <2>3. CASE \E who \in Identities : Issue(l, who)
    <3>1. PICK who \in Identities : Issue(l, who)
      BY <2>3
    <3>2. /\ link \in [Links -> [login : Identities \cup {Null},
                                 status : {"unissued", "live", "dead", "accepted"}]]
          /\ link' = [link EXCEPT ![l] = [login |-> who, status |-> "live"]]
          /\ link[l].status = "unissued"
      BY <1>1, <2>2, <3>1 DEF TypeOK
    <3> QED  BY ONLY <3>2, l \in Links, who \in Identities
  <2> QED  BY <2>1, <2>3
<1>3. ASSUME NEW g \in Flows PROVE WhoItIs(g)' /\ LinkIsIts(g)' /\ AccountIsIts(g)'
  BY <1>1, <1>2, LinkStep
<1>4. LockIsIts' /\ CookiesMatch'
  BY <1>1 DEF SignInIInv, LockIsIts, CookiesMatch
<1>5. NoTwins' /\ RowsAreFounded' /\ OneFounder'
  BY <1>1, <1>2, LinkRows
<1>6. AcceptedBySomeone' /\ StrandedCanReturn'
  BY <1>1, <1>2 DEF SignInIInv, Rows, AcceptedBySomeone, StrandedCanReturn
<1> QED  BY <1>1, <1>2, <1>3, <1>4, <1>5, <1>6 DEF SignInIInv, Rows, FlowsKnow, TypeOK

\* An address passes to another account.
LEMMA MoveStep ==
  ASSUME SignInIInv, NEW a \in Addresses, NEW who \in Identities, MoveAddress(a, who)
  PROVE  SignInIInv'
<1>1. /\ TypeOK /\ UNCHANGED <<account, joined, link, claimLock, flow, cookie, jar, session, origin>>
      /\ holder' = [holder EXCEPT ![a] = who]
      /\ \A g \in Flows : flow[g].address = a => flow[g].step \in {"refused", "done"}
  BY DEF SignInIInv, MoveAddress
<1>2. ASSUME NEW g \in Flows PROVE WhoItIs(g)' /\ LinkIsIts(g)' /\ AccountIsIts(g)'
  <2>1. WhoItIs(g) /\ LinkIsIts(g) /\ AccountIsIts(g)
    BY DEF SignInIInv, FlowsKnow
  <2>2. LinkIsIts(g)' /\ AccountIsIts(g)'
    BY <1>1, <2>1 DEF LinkIsIts, AccountIsIts
  <2>3. flow[g].step \in Deciding /\ ~flow[g].viewer => flow[g].address \in AddressesOf(flow[g].who)'
    BY <1>1, <2>1 DEF WhoItIs, AddressesOf, Deciding, TypeOK
  <2> QED  BY <1>1, <2>1, <2>2, <2>3 DEF WhoItIs, IsAllowedToSignIn
<1>3. LockIsIts' /\ CookiesMatch'
  BY <1>1 DEF SignInIInv, LockIsIts, CookiesMatch
<1> QED  BY <1>1, <1>2, <1>3, RowsStay DEF SignInIInv, FlowsKnow, TypeOK

-----------------------------------------------------------------------------
(* The invariant.                                                           *)

LEMMA InitHolds == Init => SignInIInv
<1> SUFFICES ASSUME Init PROVE SignInIInv
  OBVIOUS
<1>1. /\ Null \notin Identities /\ Absent \notin Identities /\ Null # Absent
      /\ Absent \notin Links /\ "legacy" \notin Links /\ Absent # "legacy" /\ Absent # "claim"
      /\ \A f \in Flows : f # Null
      /\ Legacy \subseteq Accounts
  BY SignInAssumption DEF Accounts
<1>2. NoFlow \in Flow /\ NoFlow.step = "idle" /\ NoFlow.viewer = FALSE
  BY DEF NoFlow, Flow, Steps
<1>3. \A f \in Flows : flow[f] = NoFlow
  BY DEF Init
<1>4. TypeOK
  BY <1>1, <1>2 DEF Init, TypeOK, NoCookie
<1>5. FlowsKnow
  BY <1>2, <1>3 DEF Init, FlowsKnow, WhoItIs, LinkIsIts, AccountIsIts, Known, Deciding, Resolved
<1>6. LockIsIts /\ CookiesMatch
  BY <1>1, <1>2, <1>3 DEF Init, LockIsIts, CookiesMatch, NoCookie
<1>7. /\ \A a \in Accounts : account[a] \in {Null, Absent} /\ origin[a] \in {"legacy", Absent}
      /\ \A a \in Accounts : account[a] = Absent <=> origin[a] = Absent
      /\ \A l \in Links : link[l].status = "unissued"
  BY <1>1 DEF Init
<1>8. Rows
  BY <1>1, <1>7 DEF Rows, NoTwins, RowsAreFounded, OneFounder, AcceptedBySomeone, StrandedCanReturn
<1> QED  BY <1>4, <1>5, <1>6, <1>8 DEF SignInIInv

LEMMA ServerStepHolds ==
  ASSUME SignInIInv, NEW f \in Flows, ServerStep(f)
  PROVE  SignInIInv'
BY IdentifyStep, CheckLinkStep, LookUpStep, FindAdoptableStep, AdoptStep, TakeLockStep, CountStep,
   ClaimStep, CreateStep, RedeemStep, SessionStep DEF ServerStep

LEMMA NextHolds == SignInIInv /\ [Next]_vars => SignInIInv'
<1> SUFFICES ASSUME SignInIInv, [Next]_vars PROVE SignInIInv'
  OBVIOUS
<1>1. CASE UNCHANGED vars
  <2>1. session' \subseteq session /\ jar' \in [Browsers -> Flows \cup {Null}]
    BY <1>1 DEF vars, SignInIInv, TypeOK
  <2> QED  BY <1>1, <2>1, SessionEndsStep DEF vars
<1>2. ASSUME NEW f \in Flows, GitHubFails(f) \/ Stop(f) \/ SessionExpires(f) \/ ServerStep(f)
      PROVE  SignInIInv'
  <2>1. CASE SessionExpires(f)
    BY <2>1, SessionEndsStep DEF SessionExpires, SignInIInv, TypeOK
  <2> QED  BY <1>2, <2>1, GitHubFailsStep, StopStep, ServerStepHolds
<1>3. ASSUME NEW b \in Browsers, Logout(b)
      PROVE  SignInIInv'
  BY <1>3, SessionEndsStep DEF Logout, SignInIInv, TypeOK
<1>4. ASSUME NEW l \in Links, LinkDies(l) \/ \E who \in Identities : Issue(l, who)
      PROVE  SignInIInv'
  BY <1>4, LinkMovesStep
<1> QED
  BY <1>1, <1>2, <1>3, <1>4, StartStep, MockStep, ViewerStep, CallbackStep, MoveStep DEF Next

\* What is asked of the sign-ins follows.
LEMMA Inductive == Spec => []SignInIInv
BY InitHolds, NextHolds, PTL DEF Spec

\* No account is out of reach of its owner, no session is another's, and the lock
\* of the claim is with a sign-in that is still at it, wherever one stops
\* (auth.service.ts: redeem's transaction, the advisory lock).
THEOREM SignInInvariant == Spec => []SignInInv
<1>1. SignInIInv => SignInInv
  <2> SUFFICES ASSUME SignInIInv PROVE SignInInv
    OBVIOUS
  <2>1. SignedInAsOneself
    <3>1. ASSUME NEW f \in session
          PROVE  account[flow[f].account] = flow[f].who /\ flow[f].who \in Identities
      <4>1. f \in Flows
        BY DEF SignInIInv, TypeOK
      <4> QED  BY <4>1 DEF SignInIInv, FlowsKnow, WhoItIs, AccountIsIts, Known, Resolved
    <3> QED  BY <3>1 DEF SignedInAsOneself
  <2>2. LockIsHeldByTheLiving
    BY DEF SignInIInv, TypeOK, LockIsIts, LockIsHeldByTheLiving
  <2> QED  BY <2>1, <2>2 DEF SignInInv, SignInIInv, Rows
<1> QED  BY <1>1, Inductive, PTL

\* An instance is claimed once, while it is empty, and nobody else has an account
\* but who had one before or was sent a link, however many arrive together.
THEOREM SignInFounds == Spec => []AccountsAreFounded
<1>1. SignInIInv => AccountsAreFounded
  <2> SUFFICES ASSUME SignInIInv PROVE AccountsAreFounded
    OBVIOUS
  <2> DEFINE founders == {a \in Accounts : origin[a] = "claim"}
  <2>1. \A a, b \in Accounts : origin[a] = "claim" /\ origin[b] \in {"claim", "legacy"} => a = b
    BY DEF SignInIInv, Rows, OneFounder
  <2>2. Cardinality(founders) <= 1
    <3>1. CASE founders = {}
      BY <3>1, FS_EmptySet
    <3>2. CASE founders # {}
      <4>1. PICK a \in founders : TRUE
        BY <3>2
      <4>2. founders = {a}
        BY <2>1, <4>1
      <4>3. Cardinality({a}) = 1
        BY FS_Singleton, Zenon
      <4> HIDE DEF founders
      <4> QED  BY <4>2, <4>3, SMT
    <3> QED  BY <3>1, <3>2
  <2>3. (\E a \in Accounts : origin[a] = "claim") => \A a \in Accounts : origin[a] # "legacy"
    BY <2>1
  <2>4. StrangersStayOut
    BY DEF SignInIInv, Rows, RowsAreFounded, StrangersStayOut
  <2> QED  BY <2>2, <2>3, <2>4 DEF AccountsAreFounded, ClaimedOnce
<1> QED  BY <1>1, Inductive, PTL

\* The rows are written by the statements of a sign-in that has decided, and only
\* for the account whose address it is.
LEMMA AccountsStay ==
  ASSUME SignInIInv, [Next]_vars
  PROVE  \A a \in Accounts : account[a] \in Identities => account'[a] = account[a]
<1>1. Null \notin Identities /\ Absent \notin Identities
  BY SignInAssumption DEF Accounts
<1>2. ASSUME NEW f \in Flows, Adopt(f) \/ Claim(f) \/ CreateInvited(f)
      PROVE  \A a \in Accounts : account[a] \in Identities => account'[a] = account[a]
  <2>1. WhoItIs(f) /\ AccountIsIts(f) /\ TypeOK
    BY DEF SignInIInv, FlowsKnow
  <2>2. CASE Adopt(f)
    BY <1>1, <2>1, <2>2 DEF Adopt, At, AccountIsIts, TypeOK
  <2>3. CASE Claim(f)
    BY <1>1, <2>1, <2>3 DEF Claim, At, AccountIsIts, TypeOK
  <2>4. CASE CreateInvited(f)
    BY <1>1, <2>1, <2>4 DEF CreateInvited, TypeOK
  <2> QED  BY <1>2, <2>2, <2>3, <2>4
<1>3. CASE UNCHANGED account
  BY <1>3
<1>4. UNCHANGED account \/ \E f \in Flows : Adopt(f) \/ Claim(f) \/ CreateInvited(f)
  <2>1. ASSUME NEW f \in Flows, ServerStep(f)
        PROVE  UNCHANGED account \/ Adopt(f) \/ Claim(f) \/ CreateInvited(f)
    BY <2>1 DEF ServerStep, Identify, CheckLink, LookUp, FindAdoptable, TakeLock, CountAccounts,
                Redeem, StartSession
  <2>2. ASSUME Next, ~\E f \in Flows : ServerStep(f)
        PROVE  UNCHANGED account
    BY <2>2 DEF Next, GitHubFails, Stop, SessionExpires, Start, MockSignIn, AcceptAsViewer,
                Callback, Logout, LinkDies, Issue, MoveAddress
  <2> QED  BY <2>1, <2>2 DEF vars
<1> QED  BY <1>2, <1>3, <1>4

\* Only redeem accepts a link.
LEMMA LinksAreSpent ==
  ASSUME SignInIInv, [Next]_vars, NEW l \in Links, link[l].status = "live", link'[l].status = "accepted"
  PROVE  \E f \in Flows : flow[f].link = l /\ Redeem(f)
<1>1. UNCHANGED link \/ (\E f \in Flows : Redeem(f))
      \/ \E m \in Links : LinkDies(m) \/ \E who \in Identities : Issue(m, who)
  <2>1. ASSUME NEW f \in Flows, ServerStep(f)
        PROVE  UNCHANGED link \/ Redeem(f)
    BY <2>1 DEF ServerStep, Identify, CheckLink, LookUp, FindAdoptable, TakeLock, CountAccounts,
                Adopt, Claim, CreateInvited, StartSession
  <2>2. ASSUME Next, ~\E f \in Flows : ServerStep(f)
        PROVE  UNCHANGED link \/ \E m \in Links : LinkDies(m) \/ \E who \in Identities : Issue(m, who)
    <3>1. \A f \in Flows : GitHubFails(f) \/ Stop(f) \/ SessionExpires(f) => UNCHANGED link
      BY DEF GitHubFails, Stop, SessionExpires
    <3>2. \A f \in Flows, b \in Browsers, l2 \in Links \cup {Null} :
            Start(f, b, l2) \/ (\E who \in Identities : MockSignIn(f, b, l2, who)) => UNCHANGED link
      BY DEF Start, MockSignIn
    <3>3. \A f \in Flows, b \in Browsers, l2 \in Links : AcceptAsViewer(f, b, l2) => UNCHANGED link
      BY DEF AcceptAsViewer
    <3>4. \A f \in Flows, declined \in BOOLEAN : Callback(f, declined) => UNCHANGED link
      BY DEF Callback
    <3>5. /\ \A b \in Browsers : Logout(b) => UNCHANGED link
          /\ \A a \in Addresses, who \in Identities : MoveAddress(a, who) => UNCHANGED link
      BY DEF Logout, MoveAddress
    <3> QED  BY <2>2, <3>1, <3>2, <3>3, <3>4, <3>5 DEF Next
  <2> QED  BY <2>1, <2>2 DEF vars
<1>2. ASSUME NEW m \in Links, LinkDies(m) \/ \E who \in Identities : Issue(m, who)
      PROVE  link'[l].status # "accepted"
  BY <1>2 DEF SignInIInv, TypeOK, LinkDies, Issue
<1>3. ASSUME NEW f \in Flows, Redeem(f)
      PROVE  flow[f].link = l
  BY <1>3 DEF Redeem, SignInIInv, TypeOK
<1> QED  BY <1>1, <1>2, <1>3

\* A GitHub account keeps its one account, and a sign-in spends the link it began
\* with, for the one it was sent to, however many tabs share the state cookie.
THEOREM SignInLinksItsOwn == Spec => LinksAreOnesOwn
<1>1. SignInIInv /\ SignInIInv' /\ [Next]_vars =>
        /\ \A a \in Accounts : account[a] \in Identities => account'[a] = account[a]
        /\ \A a, b \in Accounts : account'[a] \in Identities /\ account'[a] = account'[b] => a = b
  BY AccountsStay DEF SignInIInv, Rows, NoTwins
<1>2. SignInIInv /\ [Next]_vars =>
        \A l \in Links : link[l].status = "live" /\ link'[l].status = "accepted" =>
          \E f \in Flows : /\ flow[f].began = l /\ At(f, "redeem")
                           /\ account[flow[f].account] = link[l].login
  <2> SUFFICES ASSUME SignInIInv, [Next]_vars, NEW l \in Links,
                      link[l].status = "live", link'[l].status = "accepted"
               PROVE  \E f \in Flows : /\ flow[f].began = l /\ At(f, "redeem")
                                       /\ account[flow[f].account] = link[l].login
    OBVIOUS
  <2>1. PICK f \in Flows : flow[f].link = l /\ Redeem(f)
    BY LinksAreSpent
  <2>2. flow[f].began = flow[f].link /\ account[flow[f].account] = link[flow[f].link].login
    BY <2>1, RedeemStep
  <2> QED  BY <2>1, <2>2 DEF Redeem
<1>3. Spec => LinkedForGood
  BY <1>1, Inductive, PTL DEF Spec, LinkedForGood
<1>4. Spec => SpendsItsOwnLink
  BY <1>2, Inductive, PTL DEF Spec, SpendsItsOwnLink
<1> QED  BY <1>3, <1>4 DEF LinksAreOnesOwn

-----------------------------------------------------------------------------
(* The controls of a screen.                                               *)

\* The controls whose flag is the screen's.
Single(k) == k.once /\ k # DeleteRule

\* A request as its handler sent it.
Pending(c) == calls[c] # NoRequest

Sent ==
  \A c \in Calls : Pending(c) =>
    LET k == calls[c].control IN
    /\ k \in panel /\ calls[c].row \in Entries \cup {Nothing}
    /\ calls[c].answer \in {"sent", "ok", "failed", "expired"}
    /\ k.on = "row" => calls[c].row \in Entries
    /\ k = Revoke => calls[c].row \in confirmed
    /\ calls[c].raised \subseteq {FlagOf(k, calls[c].row)}

\* The flags and those that raised them.
Raised ==
  Here =>
    /\ \A f \in flags : \E c \in Calls : f \in calls[c].raised
    /\ \A c \in Calls : calls[c].raised \subseteq flags
    /\ \A c, d \in Calls : c # d => calls[c].raised \cap calls[d].raised = {}
    /\ \A c \in Calls : Pending(c) /\ Single(calls[c].control) =>
         FlagOf(calls[c].control, Nothing) \in calls[c].raised

\* A secret is shown when the form's request is over.
OneSecret ==
  Here /\ reveal # Nothing => \A c \in Calls : Pending(c) => calls[c].control.then # "reveal"

\* While the project's form is under way nothing is said of it.
Quiet ==
  /\ saved => SaveProject \in panel
  /\ Here => \A c \in Calls : Pending(c) /\ calls[c].control = SaveProject =>
                ~saved /\ "panel" \notin unheard

Flags == {k.name : k \in AllControls} \X (Entries \cup {Nothing})

Request == [control : AllControls \cup {Nothing}, row : Entries \cup {Nothing}, raised : SUBSET Flags,
            answer : {"none", "sent", "ok", "failed", "expired"}]

CallsTyped == calls \in [Calls -> Request]

ControlsIInv ==
  /\ ControlsTypeOK /\ CallsTyped /\ Sent /\ Raised /\ OneSecret /\ Quiet
  /\ OnlyConfirmedRevoked /\ FailureIsTold

-----------------------------------------------------------------------------
(* The controls.                                                            *)

Names == {"issue", "revoke", "invite", "role", "remove", "withdraw", "delete", "create", "found", "rename",
          "quit", "save"}

Kinds == [name : Names, on : {"form", "row", "button"}, then : {"reveal", "reload", "leave", "stay"},
          once : BOOLEAN, clears : BOOLEAN, tells : {"panel", "button", "none"}, asks : BOOLEAN,
          checked : BOOLEAN, everyone : BOOLEAN]

\* What a control does follows from the form or the row it is made of.
LEMMA FormTable ==
  ASSUME NEW name \in Names, NEW then \in {"reveal", "leave", "stay"}
  PROVE  LET k == FormOf(name, then) IN
         /\ k \in Kinds /\ k.name = name /\ k.on = "form" /\ k.then = then /\ k.once /\ k.clears
         /\ k.tells = "panel" /\ ~k.asks
BY DEF Kinds, FormOf

LEMMA RowTable ==
  ASSUME NEW name \in Names
  PROVE  LET k == RowOf(name) IN
         k \in Kinds /\ k.name = name /\ k.on = "row" /\ k.then = "reload" /\ ~k.once /\ ~k.asks
BY DEF Kinds, FormOf, RowOf

LEMMA ControlTable ==
  /\ \A k \in {IssueToken, Invite, CreateProject, CreateOrganization, RenameOrganization, SaveProject} :
       k \in Kinds /\ k.on = "form" /\ k.once /\ k.clears /\ ~k.asks /\ k.tells = "panel"
  /\ \A k \in {ChangeRole, RemoveMember, Withdraw} :
       k \in Kinds /\ k.on = "row" /\ k.then = "reload" /\ ~k.once /\ ~k.asks
  /\ IssueToken.then = "reveal" /\ Invite.then = "reveal"
  /\ SaveProject.then = "stay" /\ RenameOrganization.then = "stay"
  /\ CreateProject.then = "leave" /\ CreateOrganization.then = "leave"
  /\ Revoke \in Kinds /\ Revoke.on = "row" /\ Revoke.then = "reload" /\ Revoke.asks /\ Revoke.once
  /\ DeleteRule \in Kinds /\ DeleteRule.on = "row" /\ DeleteRule.then = "reload" /\ ~DeleteRule.asks
  /\ DeleteRule.once
  /\ LeaveOrganization \in Kinds /\ LeaveOrganization.on = "button" /\ LeaveOrganization.then = "leave"
  /\ LeaveOrganization.once /\ ~LeaveOrganization.asks
  /\ Revoke # DeleteRule /\ SaveProject.name = "save" /\ RenameOrganization.name = "rename"
<1>1. \A k \in {IssueToken, Invite, RenameOrganization, SaveProject, CreateProject} :
        k \in Kinds /\ k.on = "form" /\ k.once /\ k.clears /\ ~k.asks /\ k.tells = "panel"
  BY FormTable DEF Names, IssueToken, Invite, RenameOrganization, SaveProject, CreateProject
<1>2. /\ IssueToken.then = "reveal" /\ Invite.then = "reveal"
      /\ SaveProject.then = "stay" /\ RenameOrganization.then = "stay" /\ CreateProject.then = "leave"
      /\ SaveProject.name = "save" /\ RenameOrganization.name = "rename"
  BY FormTable DEF Names, IssueToken, Invite, RenameOrganization, SaveProject, CreateProject
<1>3. LET k == CreateOrganization IN
      /\ k \in Kinds /\ k.on = "form" /\ k.once /\ k.clears /\ ~k.asks /\ k.tells = "panel"
      /\ k.then = "leave"
  <2> DEFINE form == FormOf("found", "leave")
  <2>1. form \in Kinds /\ form.on = "form" /\ form.then = "leave" /\ form.once /\ form.clears
        /\ form.tells = "panel" /\ ~form.asks
    BY FormTable DEF Names
  <2>2. CreateOrganization = [form EXCEPT !.everyone = TRUE]
    BY DEF CreateOrganization
  <2> HIDE DEF form
  <2> QED  BY <2>1, <2>2 DEF Kinds
<1>4. LET k == LeaveOrganization IN
      k \in Kinds /\ k.on = "button" /\ k.then = "leave" /\ k.once /\ ~k.asks
  <2> DEFINE form == FormOf("quit", "leave")
  <2>1. form \in Kinds /\ form.then = "leave" /\ form.once /\ ~form.asks
    BY FormTable DEF Names
  <2>2. LeaveOrganization = [form EXCEPT !.on = "button", !.tells = "button", !.checked = FALSE,
                                         !.everyone = TRUE]
    BY DEF LeaveOrganization
  <2> HIDE DEF form
  <2> QED  BY <2>1, <2>2 DEF Kinds
<1>5. ASSUME NEW k \in {ChangeRole, RemoveMember, Withdraw}
      PROVE  k \in Kinds /\ k.on = "row" /\ k.then = "reload" /\ ~k.once /\ ~k.asks
  <2>1. CASE k \in {ChangeRole, Withdraw}
    BY <2>1, RowTable DEF Names, ChangeRole, Withdraw
  <2>2. CASE k = RemoveMember
    <3> DEFINE row == RowOf("remove")
    <3>1. row \in Kinds /\ row.on = "row" /\ row.then = "reload" /\ ~row.once /\ ~row.asks
      BY RowTable DEF Names
    <3>2. k = [row EXCEPT !.checked = FALSE]
      BY <2>2 DEF RemoveMember
    <3> HIDE DEF row
    <3> QED  BY <3>1, <3>2 DEF Kinds
  <2> QED  BY <2>1, <2>2
<1>6. LET k == Revoke IN
      k \in Kinds /\ k.name = "revoke" /\ k.on = "row" /\ k.then = "reload" /\ k.asks /\ k.once
  <2> DEFINE row == RowOf("revoke")
  <2>1. row \in Kinds /\ row.name = "revoke" /\ row.on = "row" /\ row.then = "reload"
    BY RowTable DEF Names
  <2>2. Revoke = [row EXCEPT !.once = TRUE, !.clears = FALSE, !.asks = TRUE]
    BY DEF Revoke
  <2> HIDE DEF row
  <2> QED  BY <2>1, <2>2 DEF Kinds
<1>7. LET k == DeleteRule IN
      k \in Kinds /\ k.name = "delete" /\ k.on = "row" /\ k.then = "reload" /\ ~k.asks /\ k.once
  <2> DEFINE row == RowOf("delete")
  <2>1. row \in Kinds /\ row.name = "delete" /\ row.on = "row" /\ row.then = "reload" /\ ~row.asks
    BY RowTable DEF Names
  <2>2. DeleteRule = [row EXCEPT !.once = TRUE, !.clears = FALSE, !.tells = "none", !.checked = FALSE]
    BY DEF DeleteRule
  <2> HIDE DEF row
  <2> QED  BY <2>1, <2>2 DEF Kinds
<1>8. Revoke # DeleteRule
  BY <1>6, <1>7
<1> QED  BY <1>1, <1>2, <1>3, <1>4, <1>5, <1>6, <1>7, <1>8

LEMMA ControlFacts ==
  ASSUME NEW k \in AllControls
  PROVE  /\ k \in Kinds
         /\ k.on = "row" => k.then = "reload"
         /\ k.on # "row" => k # Revoke /\ Single(k)
         /\ k.asks <=> k = Revoke
BY ControlTable DEF AllControls, Panels, TokensPanel, MembersPanel, RulesPanel, ProjectsPanel,
     OrganizationsPanel, SettingsPanel, ProjectPanel, Single

\* Which controls a screen has beside one another.
LEMMA PanelFacts ==
  ASSUME NEW p \in Panels \cup {ForMembers(q) : q \in Panels}
  PROVE  /\ p \subseteq AllControls
         /\ \A j, k \in p : j.then = "reveal" /\ k.then = "reveal" => j = k
         /\ SaveProject \in p => \A k \in p : k = SaveProject
         /\ Revoke \in p => \A k \in p : k.on = "row" => k = Revoke
<1>1. PICK q \in Panels : p \subseteq q
  BY DEF ForMembers
<1>2. q \subseteq AllControls
  BY DEF AllControls
<1>3. \A j, k \in q : j.then = "reveal" /\ k.then = "reveal" => j = k
  BY ControlTable DEF Panels, TokensPanel, MembersPanel, RulesPanel, ProjectsPanel,
     OrganizationsPanel, SettingsPanel, ProjectPanel
<1>4. SaveProject \in q => \A k \in q : k = SaveProject
  BY ControlTable DEF Panels, TokensPanel, MembersPanel, RulesPanel, ProjectsPanel,
     OrganizationsPanel, SettingsPanel, ProjectPanel
<1>5. Revoke \in q => \A k \in q : k.on = "row" => k = Revoke
  BY ControlTable DEF Panels, TokensPanel, MembersPanel, RulesPanel, ProjectsPanel,
     OrganizationsPanel, SettingsPanel, ProjectPanel
<1> QED  BY <1>1, <1>2, <1>3, <1>4, <1>5

-----------------------------------------------------------------------------
(* Steps that leave the requests as they are, or take them with the screen. *)

LEMMA RequestFacts ==
  /\ NoRequest \in Request /\ NoRequest.raised = {} /\ NoRequest.answer = "none"
  /\ \A r \in Request : r.answer # "none" => r # NoRequest
BY DEF NoRequest, Request

\* Of a request under way, the control is one of the screen's.
LEMMA PendingFacts ==
  ASSUME ControlsIInv, NEW c \in Calls, Pending(c)
  PROVE  /\ calls[c] \in Request /\ calls[c].control \in panel /\ calls[c].control \in AllControls
         /\ calls[c].control \in Kinds /\ calls[c].answer # "none"
BY PanelFacts, ControlFacts DEF ControlsIInv, ControlsTypeOK, CallsTyped, Sent

\* The raised flag of a request is one at most.
LEMMA AtMostOne ==
  ASSUME NEW S, NEW x, S \subseteq {x}
  PROVE  Cardinality(S) <= 1
<1>1. S = {} \/ S = {x}
  OBVIOUS
<1>2. Cardinality({}) = 0 /\ Cardinality({x}) = 1
  BY FS_EmptySet, FS_Singleton
<1> QED  BY <1>1, <1>2

LEMMA OneFlag ==
  ASSUME CallsTyped, Sent
  PROVE  \A c \in Calls : Cardinality(calls[c].raised) <= 1
<1> SUFFICES ASSUME NEW c \in Calls PROVE Cardinality(calls[c].raised) <= 1
  OBVIOUS
<1>1. PICK f : calls[c].raised \subseteq {f}
  BY RequestFacts DEF Sent, Pending
<1> QED  BY <1>1, AtMostOne

LEMMA StillStep ==
  ASSUME ControlsIInv, UNCHANGED <<panel, visit, flags, errors, saved, calls, confirmed, ours, unheard>>,
         draft' \in BOOLEAN, reading' \in BOOLEAN, target' \in Entries \cup {Nothing},
         reveal' \in {reveal, Nothing}, shown' \subseteq Entries,
         entries' \in [Entries -> {"none", "made", "changed", "ended"}]
  PROVE  ControlsIInv'
<1>1. ControlsTypeOK'
  BY DEF ControlsIInv, ControlsTypeOK
<1>2. CallsTyped' /\ Sent' /\ Raised' /\ Quiet'
  BY DEF ControlsIInv, CallsTyped, Sent, Raised, Quiet, Pending, Here
<1>3. OneSecret'
  BY DEF ControlsIInv, OneSecret, Pending, Here
<1>4. OnlyConfirmedRevoked' /\ FailureIsTold'
  BY DEF ControlsIInv, OnlyConfirmedRevoked, FailureIsTold, Here
<1> QED  BY <1>1, <1>2, <1>3, <1>4 DEF ControlsIInv

LEMMA GoneStep ==
  ASSUME ControlsIInv, visit' \in {"away", "moved", "login"}, Unmounted,
         UNCHANGED <<panel, entries, confirmed, ours>>,
         calls' \in [Calls -> Request], \A c \in Calls : calls'[c] \in {calls[c], NoRequest}
  PROVE  ControlsIInv'
<1>1. CallsTyped' /\ Sent'
  BY DEF ControlsIInv, CallsTyped, Sent, Pending
<1>2. ControlsTypeOK'
  <2>1. \A c \in Calls :
           /\ calls'[c].control \in AllControls \cup {Nothing}
           /\ calls'[c].row \in Entries \cup {Nothing} /\ Cardinality(calls'[c].raised) <= 1
           /\ calls'[c].answer \in {"none", "sent", "ok", "failed", "expired"}
    <3>2. \A c \in Calls : calls'[c].raised = calls[c].raised \/ calls'[c].raised = {}
      BY RequestFacts
    <3>3. \A c \in Calls : Cardinality(calls[c].raised) <= 1 /\ Cardinality({}) <= 1
      BY OneFlag, AtMostOne DEF ControlsIInv
    <3>4. \A c \in Calls : Cardinality(calls'[c].raised) <= 1
      BY <3>2, <3>3
    <3> QED  BY <3>4 DEF Request
  <2> QED  BY <2>1 DEF ControlsIInv, ControlsTypeOK, Unmounted
<1>3. Raised' /\ OneSecret' /\ Quiet' /\ OnlyConfirmedRevoked' /\ FailureIsTold'
  BY DEF ControlsIInv, Raised, OneSecret, Quiet, OnlyConfirmedRevoked, FailureIsTold, Here, Unmounted
<1> QED  BY <1>1, <1>2, <1>3 DEF ControlsIInv

-----------------------------------------------------------------------------
(* A handler begins.                                                        *)

LEMMA SendStep ==
  ASSUME ControlsIInv, Here, NEW c \in Calls, NEW k \in panel, NEW row \in Entries \cup {Nothing},
         Send(c, k, row), k.on = "row" => row \in Entries, k = Revoke => row \in confirmed',
         k.then = "reveal" => reveal = Nothing,
         confirmed \subseteq confirmed', confirmed' \subseteq Entries,
         target' \in Entries \cup {Nothing},
         UNCHANGED <<panel, visit, draft, reveal, entries, shown, reading, ours>>
  PROVE  ControlsIInv'
<1> DEFINE raised == IF k.once THEN {FlagOf(k, row)} ELSE {}
           r == [control |-> k, row |-> row, raised |-> raised, answer |-> "sent"]
<1>1. /\ calls[c] = NoRequest /\ Free(k, row)
      /\ flags' = flags \cup raised /\ calls' = [calls EXCEPT ![c] = r]
      /\ errors' = (IF k.clears THEN errors \ {k.tells} ELSE errors) /\ saved' = FALSE
      /\ unheard' = (IF k.clears THEN unheard \ {k.tells} ELSE unheard)
  BY DEF Send, Clear
<1>2. k \in AllControls /\ k \in Kinds
  BY PanelFacts, ControlFacts DEF ControlsIInv, ControlsTypeOK
<1>3. raised \subseteq Flags /\ raised \cap flags = {}
  <2>1. FlagOf(k, row) \in Flags
    BY <1>2 DEF FlagOf, Flags
  <2> QED  BY <1>1, <2>1 DEF Free
<1>4. raised \subseteq {FlagOf(k, row)} /\ (k.once => raised = {FlagOf(k, row)})
  OBVIOUS
<1> HIDE DEF raised
<1>5. /\ r \in Request /\ r # NoRequest /\ r.control = k /\ r.row = row /\ r.raised = raised
      /\ r.answer = "sent"
  BY <1>2, <1>3 DEF Request, NoRequest
<1> HIDE DEF r
<1>6. /\ calls' \in [Calls -> Request] /\ calls'[c] = r
      /\ \A d \in Calls \ {c} : calls'[d] = calls[d]
  BY <1>1, <1>5 DEF ControlsIInv, CallsTyped
<1>7. CallsTyped' /\ Sent'
  BY <1>4, <1>5, <1>6 DEF ControlsIInv, CallsTyped, Sent, Pending
<1>8. Raised'
  <2>1. /\ \A f \in flags : \E d \in Calls : f \in calls[d].raised
        /\ \A d \in Calls : calls[d].raised \subseteq flags
        /\ \A d, e \in Calls : d # e => calls[d].raised \cap calls[e].raised = {}
        /\ \A d \in Calls : Pending(d) /\ Single(calls[d].control) =>
             FlagOf(calls[d].control, Nothing) \in calls[d].raised
    BY DEF ControlsIInv, Raised
  <2>2. calls[c].raised = {}
    BY <1>1, RequestFacts
  <2>3. \A f \in flags' : \E d \in Calls : f \in calls'[d].raised
    BY <1>1, <1>5, <1>6, <2>1, <2>2
  <2>4. \A d \in Calls : calls'[d].raised \subseteq flags'
    BY <1>1, <1>5, <1>6, <2>1
  <2>5. \A d, e \in Calls : d # e => calls'[d].raised \cap calls'[e].raised = {}
    BY <1>3, <1>5, <1>6, <2>1
  <2>6. Single(k) => FlagOf(k, Nothing) \in raised
    BY <1>4 DEF Single, FlagOf
  <2>7. \A d \in Calls : Pending(d)' /\ Single(calls'[d].control) =>
             FlagOf(calls'[d].control, Nothing) \in calls'[d].raised
    BY <1>5, <1>6, <2>1, <2>6 DEF Pending
  <2> QED  BY <2>3, <2>4, <2>5, <2>7 DEF Raised
<1>9. OneSecret'
  BY <1>5, <1>6 DEF ControlsIInv, OneSecret, Pending, Here
<1>10. k = SaveProject => k.clears /\ k.tells = "panel"
  BY ControlTable
<1>11. Quiet'
  BY <1>1, <1>5, <1>6, <1>10 DEF ControlsIInv, Quiet, Pending, Here
<1>12. OnlyConfirmedRevoked' /\ FailureIsTold'
  BY <1>1 DEF ControlsIInv, OnlyConfirmedRevoked, FailureIsTold, Here
<1>13. ControlsTypeOK'
  <2>1. flags' \subseteq Flags /\ errors' \subseteq {"panel", "button"}
        /\ unheard' \subseteq {"panel", "button"}
    BY <1>1, <1>3 DEF ControlsIInv, ControlsTypeOK, Flags
  <2>2. \A d \in Calls :
           /\ calls'[d].control \in AllControls \cup {Nothing}
           /\ calls'[d].row \in Entries \cup {Nothing} /\ Cardinality(calls'[d].raised) <= 1
           /\ calls'[d].answer \in {"none", "sent", "ok", "failed", "expired"}
    <3>1. Cardinality(raised) <= 1
      BY <1>4, AtMostOne
    <3> QED  BY <1>5, <1>6, <3>1, OneFlag DEF ControlsIInv, Request
  <2> QED  BY <1>1, <2>1, <2>2 DEF ControlsIInv, ControlsTypeOK, Flags
<1> QED  BY <1>7, <1>8, <1>9, <1>11, <1>12, <1>13 DEF ControlsIInv

-----------------------------------------------------------------------------
(* It is answered.                                                          *)

LEMMA AnswerStep ==
  ASSUME ControlsIInv, NEW c \in Calls, Pending(c), NEW r \in Request,
         r.control = calls[c].control, r.raised = calls[c].raised,
         r.answer \in {"ok", "failed", "expired"},
         r.row = calls[c].row \/ calls[c].control.on # "row",
         calls' = [calls EXCEPT ![c] = r],
         entries' \in [Entries -> {"none", "made", "changed", "ended"}],
         ours' \subseteq Entries, OnlyConfirmedRevoked',
         UNCHANGED <<panel, visit, drawn, shown, reading, confirmed, unheard>>
  PROVE  ControlsIInv'
<1> DEFINE k == calls[c].control
<1>1. /\ calls[c] \in Request /\ k \in panel /\ k \in AllControls /\ k \in Kinds
  BY PendingFacts
<1>2. FlagOf(k, r.row) = FlagOf(k, calls[c].row) /\ (k.on # "row" => k # Revoke)
  BY <1>1, ControlFacts DEF FlagOf, Single
<1>3. r # NoRequest
  BY RequestFacts
<1>4. /\ calls' \in [Calls -> Request] /\ calls'[c] = r
      /\ \A d \in Calls \ {c} : calls'[d] = calls[d]
  BY DEF ControlsIInv, CallsTyped
<1>5. \A d \in Calls : /\ Pending(d)' <=> Pending(d)
                       /\ calls'[d].control = calls[d].control /\ calls'[d].raised = calls[d].raised
  BY <1>3, <1>4 DEF Pending
<1>6. Sent'
  <2>1. /\ k.on = "row" => calls[c].row \in Entries
        /\ k = Revoke => calls[c].row \in confirmed
        /\ calls[c].raised \subseteq {FlagOf(k, calls[c].row)}
    BY DEF ControlsIInv, Sent
  <2>2. LET j == calls'[c].control IN
        /\ j \in panel /\ calls'[c].row \in Entries \cup {Nothing}
        /\ calls'[c].answer \in {"sent", "ok", "failed", "expired"}
        /\ j.on = "row" => calls'[c].row \in Entries
        /\ j = Revoke => calls'[c].row \in confirmed
        /\ calls'[c].raised \subseteq {FlagOf(j, calls'[c].row)}
    BY <1>1, <1>2, <1>4, <2>1 DEF Request
  <2>3. \A d \in Calls \ {c} : Pending(d)' =>
          LET j == calls'[d].control IN
          /\ j \in panel /\ calls'[d].row \in Entries \cup {Nothing}
          /\ calls'[d].answer \in {"sent", "ok", "failed", "expired"}
          /\ j.on = "row" => calls'[d].row \in Entries
          /\ j = Revoke => calls'[d].row \in confirmed
          /\ calls'[d].raised \subseteq {FlagOf(j, calls'[d].row)}
    BY <1>4, <1>5 DEF ControlsIInv, Sent
  <2> QED  BY <2>2, <2>3 DEF Sent
<1>7. Raised'
  BY <1>5 DEF ControlsIInv, Raised, Here, drawn
<1>8. OneSecret' /\ Quiet' /\ FailureIsTold'
  BY <1>5 DEF ControlsIInv, OneSecret, Quiet, FailureIsTold, Here, drawn
<1>9. ControlsTypeOK'
  <2>1. \A d \in Calls :
           /\ calls'[d].control \in AllControls \cup {Nothing}
           /\ calls'[d].row \in Entries \cup {Nothing} /\ Cardinality(calls'[d].raised) <= 1
           /\ calls'[d].answer \in {"none", "sent", "ok", "failed", "expired"}
    <3>1. \A d \in Calls : Cardinality(calls'[d].raised) <= 1
      BY <1>5, OneFlag DEF ControlsIInv
    <3> QED  BY <1>4, <3>1 DEF Request
  <2> QED  BY <2>1 DEF ControlsIInv, ControlsTypeOK, drawn
<1>10. CallsTyped'
  BY <1>4 DEF CallsTyped
<1> QED  BY <1>6, <1>7, <1>8, <1>9, <1>10 DEF ControlsIInv

LEMMA GrantedStep ==
  ASSUME ControlsIInv, NEW c \in Calls, Granted(c)
  PROVE  ControlsIInv'
<1> DEFINE k == calls[c].control
           Answer(e) == [calls[c] EXCEPT !.answer = "ok", !.row = e]
<1>1. calls[c].answer = "sent" /\ Pending(c)
  BY RequestFacts DEF Granted, Pending
<1>2. /\ calls[c] \in Request /\ k \in panel /\ k \in AllControls /\ k \in Kinds
  BY <1>1, PendingFacts
<1>3. /\ k.on = "row" => k.then = "reload" /\ calls[c].row \in Entries
      /\ k = Revoke => calls[c].row \in confirmed
  BY <1>1, <1>2, ControlFacts DEF ControlsIInv, Sent
<1>4. \A e \in Entries \cup {Nothing} :
        /\ Answer(e) \in Request /\ Answer(e).control = k /\ Answer(e).raised = calls[c].raised
        /\ Answer(e).answer = "ok" /\ Answer(e).row = e
        /\ [calls EXCEPT ![c].answer = "ok", ![c].row = e] = [calls EXCEPT ![c] = Answer(e)]
  BY <1>2 DEF Request
<1>5. /\ OnlyConfirmedRevoked /\ ours \subseteq Entries
      /\ entries \in [Entries -> {"none", "made", "changed", "ended"}]
      /\ panel \in Panels \cup {ForMembers(p) : p \in Panels}
  BY DEF ControlsIInv, ControlsTypeOK
<1>6. UNCHANGED <<panel, visit, drawn, shown, reading, confirmed, unheard>>
  BY DEF Granted
<1> HIDE DEF Answer
<1>7. CASE k.then = "reveal" /\ ours' = ours
             /\ \E e \in Entries : /\ entries' = [entries EXCEPT ![e] = "made"]
                                   /\ calls' = [calls EXCEPT ![c].answer = "ok", ![c].row = e]
  <2>0. PICK e \in Entries : /\ entries' = [entries EXCEPT ![e] = "made"]
                             /\ calls' = [calls EXCEPT ![c].answer = "ok", ![c].row = e]
    BY <1>7
  <2>1. entries' = [entries EXCEPT ![e] = "made"] /\ calls' = [calls EXCEPT ![c] = Answer(e)]
    BY <1>4, <2>0
  <2>2. k.on # "row"
    BY <1>3, <1>7
  <2>3. OnlyConfirmedRevoked'
    BY <1>5, <1>6, <1>7 DEF OnlyConfirmedRevoked
  <2>4. entries' \in [Entries -> {"none", "made", "changed", "ended"}]
    BY <1>5, <2>1
  <2> QED  BY <1>1, <1>4, <1>5, <1>6, <1>7, <2>1, <2>2, <2>3, <2>4, AnswerStep
<1>8. CASE /\ k.on = "row"
           /\ entries' = [entries EXCEPT ![Subject(c)] =
                            IF k = ChangeRole /\ @ # "ended" THEN "changed" ELSE "ended"]
           /\ ours' = (IF k = ChangeRole THEN ours ELSE ours \cup {Subject(c)})
           /\ calls' = [calls EXCEPT ![c].answer = "ok", ![c].row = calls[c].row]
  <2>1. calls' = [calls EXCEPT ![c] = Answer(calls[c].row)] /\ calls[c].row \in Entries
    BY <1>3, <1>4, <1>8
  <2>2. ours' \subseteq Entries
    BY <1>5, <1>8, <2>1 DEF Subject
  <2>3. OnlyConfirmedRevoked'
    <3>1. Revoke \in panel => k = Revoke
      BY <1>2, <1>5, <1>8, PanelFacts
    <3> QED  BY <1>3, <1>5, <1>6, <1>8, <3>1 DEF OnlyConfirmedRevoked, Subject
  <2>4. entries' \in [Entries -> {"none", "made", "changed", "ended"}]
    BY <1>5, <1>8
  <2> QED  BY <1>1, <1>4, <1>6, <2>1, <2>2, <2>3, <2>4, AnswerStep
<1>9. CASE /\ k.then \in {"leave", "stay"} /\ UNCHANGED <<entries, ours>>
           /\ calls' = [calls EXCEPT ![c].answer = "ok", ![c].row = Nothing]
  <2>1. calls' = [calls EXCEPT ![c] = Answer(Nothing)] /\ k.on # "row"
    BY <1>3, <1>4, <1>9
  <2>2. OnlyConfirmedRevoked'
    BY <1>5, <1>6, <1>9 DEF OnlyConfirmedRevoked
  <2>3. /\ ours' \subseteq Entries
        /\ entries' \in [Entries -> {"none", "made", "changed", "ended"}]
    BY <1>5, <1>9
  <2>4. /\ Answer(Nothing) \in Request /\ Answer(Nothing).control = k
        /\ Answer(Nothing).raised = calls[c].raised /\ Answer(Nothing).answer = "ok"
    BY <1>4
  <2> QED  BY <1>1, <1>6, <2>1, <2>2, <2>3, <2>4, AnswerStep
<1> QED  BY <1>7, <1>8, <1>9 DEF Granted

LEMMA DeniedStep ==
  ASSUME ControlsIInv, NEW c \in Calls, Denied(c)
  PROVE  ControlsIInv'
<1>1. calls[c].answer # "none" /\ Pending(c)
  BY RequestFacts DEF Denied, Pending
<1>2. calls[c] \in Request
  BY <1>1, PendingFacts
<1>3. PICK a \in {"failed", "expired"} : calls' = [calls EXCEPT ![c].answer = a]
  BY DEF Denied
<1> DEFINE r == [calls[c] EXCEPT !.answer = a]
<1>4. /\ r \in Request /\ r.control = calls[c].control /\ r.raised = calls[c].raised
      /\ r.answer = a /\ r.row = calls[c].row
  BY <1>2 DEF Request
<1>5. calls' = [calls EXCEPT ![c] = r]
  BY <1>3
<1> HIDE DEF r
<1>6. /\ UNCHANGED <<panel, visit, drawn, entries, shown, reading, confirmed, ours, unheard>>
      /\ OnlyConfirmedRevoked /\ ours \subseteq Entries
      /\ entries \in [Entries -> {"none", "made", "changed", "ended"}]
  BY DEF Denied, ControlsIInv, ControlsTypeOK
<1>7. OnlyConfirmedRevoked'
  BY <1>6 DEF OnlyConfirmedRevoked
<1> QED  BY <1>1, <1>4, <1>5, <1>6, <1>7, AnswerStep

-----------------------------------------------------------------------------
(* A handler ends.                                                          *)

\* One that finds its screen gone changes nothing of it.
LEMMA GoneEndStep ==
  ASSUME ControlsIInv, NEW c \in Calls, ~Here, calls' = [calls EXCEPT ![c] = NoRequest],
         UNCHANGED <<panel, visit, drawn, entries, shown, reading, confirmed, ours, unheard>>
  PROVE  ControlsIInv'
<1>1. /\ calls' \in [Calls -> Request] /\ \A d \in Calls : calls'[d] \in {calls[d], NoRequest}
  BY RequestFacts DEF ControlsIInv, CallsTyped
<1>2. CallsTyped' /\ Sent'
  BY <1>1 DEF ControlsIInv, CallsTyped, Sent, Pending
<1>3. ControlsTypeOK'
  <2>1. \A d \in Calls : Cardinality(calls'[d].raised) <= 1
    <3>1. \A d \in Calls : Cardinality(calls[d].raised) <= 1 /\ Cardinality({}) <= 1
      BY OneFlag, AtMostOne DEF ControlsIInv
    <3> QED  BY <1>1, <3>1, RequestFacts
  <2>2. \A d \in Calls :
           /\ calls'[d].control \in AllControls \cup {Nothing}
           /\ calls'[d].row \in Entries \cup {Nothing} /\ Cardinality(calls'[d].raised) <= 1
           /\ calls'[d].answer \in {"none", "sent", "ok", "failed", "expired"}
    BY <1>1, <2>1 DEF Request
  <2> QED  BY <2>2 DEF ControlsIInv, ControlsTypeOK, drawn
<1>4. Raised' /\ OneSecret' /\ Quiet' /\ FailureIsTold' /\ OnlyConfirmedRevoked'
  BY DEF ControlsIInv, Raised, OneSecret, Quiet, FailureIsTold, OnlyConfirmedRevoked, Here, drawn
<1> QED  BY <1>2, <1>3, <1>4 DEF ControlsIInv

\* One that finds it lowers its flag, and no other.
LEMMA EndStep ==
  ASSUME ControlsIInv, NEW c \in Calls, Here, Pending(c), calls' = [calls EXCEPT ![c] = NoRequest],
         flags' = flags \ calls[c].raised,
         UNCHANGED <<panel, visit, entries, shown, confirmed, ours>>,
         draft' \in BOOLEAN, saved' \in BOOLEAN, reading' \in BOOLEAN,
         target' \in Entries \cup {Nothing}, reveal' \in Entries \cup {Nothing},
         errors' \subseteq {"panel", "button"}, unheard' \subseteq {"panel", "button"},
         reveal' = reveal \/ calls[c].control.then = "reveal",
         FailureIsTold', Quiet'
  PROVE  ControlsIInv'
<1>1. /\ calls' \in [Calls -> Request] /\ calls'[c] = NoRequest
      /\ \A d \in Calls \ {c} : calls'[d] = calls[d]
  BY RequestFacts DEF ControlsIInv, CallsTyped
<1>2. CallsTyped' /\ Sent'
  BY <1>1 DEF ControlsIInv, CallsTyped, Sent, Pending
<1>3. ControlsTypeOK'
  <2>1. \A d \in Calls : Cardinality(calls'[d].raised) <= 1
    <3>1. \A d \in Calls : Cardinality(calls[d].raised) <= 1 /\ Cardinality({}) <= 1
      BY OneFlag, AtMostOne DEF ControlsIInv
    <3> QED  BY <1>1, <3>1, RequestFacts
  <2>2. \A d \in Calls :
           /\ calls'[d].control \in AllControls \cup {Nothing}
           /\ calls'[d].row \in Entries \cup {Nothing} /\ Cardinality(calls'[d].raised) <= 1
           /\ calls'[d].answer \in {"none", "sent", "ok", "failed", "expired"}
    BY <1>1, <2>1 DEF Request
  <2> QED  BY <2>2 DEF ControlsIInv, ControlsTypeOK
<1>4. /\ \A f \in flags : \E d \in Calls : f \in calls[d].raised
      /\ \A d \in Calls : calls[d].raised \subseteq flags
      /\ \A d, e \in Calls : d # e => calls[d].raised \cap calls[e].raised = {}
      /\ \A d \in Calls : Pending(d) /\ Single(calls[d].control) =>
           FlagOf(calls[d].control, Nothing) \in calls[d].raised
  BY DEF ControlsIInv, Raised
<1>5. Raised'
  <2>1. \A f \in flags' : \E d \in Calls : f \in calls'[d].raised
    BY <1>1, <1>4
  <2>2. \A d \in Calls : calls'[d].raised \subseteq flags'
    BY <1>1, <1>4, RequestFacts
  <2>3. \A d, e \in Calls : d # e => calls'[d].raised \cap calls'[e].raised = {}
    BY <1>1, <1>4, RequestFacts
  <2>4. \A d \in Calls : Pending(d)' /\ Single(calls'[d].control) =>
             FlagOf(calls'[d].control, Nothing) \in calls'[d].raised
    BY <1>1, <1>4 DEF Pending
  <2> QED  BY <2>1, <2>2, <2>3, <2>4 DEF Raised
\* The panel has one form that shows a secret, and that form one request.
<1>6. OneSecret'
  <2>1. CASE reveal' = reveal
    BY <1>1, <2>1 DEF ControlsIInv, OneSecret, Pending, Here
  <2>2. CASE calls[c].control.then = "reveal"
    <3>1. ASSUME NEW d \in Calls, d # c, Pending(d), calls[d].control.then = "reveal"
          PROVE  FALSE
      <4>1. calls[c].control = calls[d].control
        BY <2>2, <3>1, PendingFacts, PanelFacts DEF ControlsIInv, ControlsTypeOK
      <4>2. Single(calls[c].control)
        BY <2>2, PendingFacts, ControlFacts
      <4> QED  BY <1>4, <3>1, <4>1, <4>2
    <3> QED  BY <1>1, <3>1 DEF OneSecret, Pending
  <2> QED  BY <2>1, <2>2
<1>7. OnlyConfirmedRevoked'
  BY DEF ControlsIInv, OnlyConfirmedRevoked
<1> QED  BY <1>2, <1>3, <1>5, <1>6, <1>7 DEF ControlsIInv

\* The project's form has its screen for itself.
LEMMA OneSave ==
  ASSUME ControlsIInv, Here, NEW c \in Calls, Pending(c), SaveProject \in panel
  PROVE  /\ calls[c].control = SaveProject /\ ~saved /\ "panel" \notin unheard
         /\ \A d \in Calls \ {c} : ~Pending(d)
<1>1. \A d \in Calls : Pending(d) => calls[d].control = SaveProject
  BY PendingFacts, PanelFacts DEF ControlsIInv, ControlsTypeOK
<1>2. Single(SaveProject)
  BY <1>1, PendingFacts, ControlFacts, ControlTable
<1>3. \A d \in Calls \ {c} : ~Pending(d)
  BY <1>1, <1>2 DEF ControlsIInv, Raised
<1> QED  BY <1>1, <1>3 DEF ControlsIInv, Quiet

LEMMA FailStep ==
  ASSUME ControlsIInv, NEW c \in Calls, Fail(c)
  PROVE  ControlsIInv'
<1> DEFINE k == calls[c].control
<1>1. calls[c].answer = "failed" /\ Pending(c) /\ calls' = [calls EXCEPT ![c] = NoRequest]
  BY RequestFacts DEF Fail, Pending
<1>2. CASE ~Here
  BY <1>1, <1>2, GoneEndStep DEF Fail, drawn
<1>3. CASE Here
  <2>1. /\ flags' = flags \ calls[c].raised
        /\ errors' = (IF k.tells = "none" THEN errors ELSE errors \cup {k.tells})
        /\ unheard' = (IF k.tells = "none" THEN unheard ELSE unheard \cup {k.tells})
        /\ UNCHANGED <<panel, visit, draft, saved, target, reveal, entries, shown, reading, confirmed, ours>>
    BY <1>3 DEF Fail, Lowered, Said
  <2>2. k \in Kinds
    BY <1>1, PendingFacts
  <2>3. errors' \subseteq {"panel", "button"} /\ unheard' \subseteq {"panel", "button"}
    BY <2>1, <2>2 DEF Kinds, ControlsIInv, ControlsTypeOK
  <2>4. saved => "panel" \notin unheard'
    <3>1. saved => SaveProject \in panel
      BY DEF ControlsIInv, Quiet
    <3> QED  BY <1>1, <1>3, <3>1, OneSave
  <2>5. FailureIsTold'
    BY <2>1, <2>4 DEF ControlsIInv, FailureIsTold, Here
  <2>6. Quiet'
    <3>1. \A d \in Calls : Pending(d)' => d # c /\ Pending(d) /\ calls'[d] = calls[d]
      BY <1>1 DEF Pending, ControlsIInv, CallsTyped
    <3>2. SaveProject \in panel => \A d \in Calls : ~Pending(d)'
      BY <1>1, <1>3, <3>1, OneSave
    <3>3. \A d \in Calls : Pending(d)' => calls'[d].control \in panel
      BY <3>1, PendingFacts
    <3> QED  BY <2>1, <3>2, <3>3 DEF ControlsIInv, Quiet
  <2> QED  BY <1>1, <1>3, <2>1, <2>3, <2>5, <2>6, EndStep DEF ControlsIInv, ControlsTypeOK
<1> QED  BY <1>2, <1>3

LEMMA SucceedStep ==
  ASSUME ControlsIInv, NEW c \in Calls, Succeed(c)
  PROVE  ControlsIInv'
<1> DEFINE k == calls[c].control
<1>1. calls[c].answer = "ok" /\ Pending(c) /\ calls' = [calls EXCEPT ![c] = NoRequest]
      /\ UNCHANGED <<panel, entries, confirmed, ours>>
  BY RequestFacts DEF Succeed, Pending
<1>2. k \in panel /\ k \in Kinds /\ k \in AllControls /\ calls[c] \in Request
  BY <1>1, PendingFacts
<1>3. CASE k.then = "leave"
  <2>1. visit' = "moved" /\ Unmounted
    BY <1>3 DEF Succeed
  <2>2. calls' \in [Calls -> Request] /\ \A d \in Calls : calls'[d] \in {calls[d], NoRequest}
    BY <1>1, RequestFacts DEF ControlsIInv, CallsTyped
  <2> QED  BY <1>1, <2>1, <2>2, GoneStep
<1>4. CASE k.then # "leave" /\ ~Here
  BY <1>1, <1>4, GoneEndStep DEF Succeed, drawn
<1>5. CASE k.then # "leave" /\ Here
  <2>1. /\ flags' = flags \ calls[c].raised
        /\ reveal' = (IF k.then = "reveal" THEN calls[c].row ELSE reveal)
        /\ draft' = (draft /\ k.then # "reveal")
        /\ target' = (IF k.asks THEN Nothing ELSE target)
        /\ saved' = (saved \/ k = SaveProject)
        /\ reading' = (reading \/ k.then \in {"reveal", "reload"})
        /\ UNCHANGED <<visit, errors, shown, unheard>>
    BY <1>5 DEF Succeed, Lowered
  <2>2. /\ draft' \in BOOLEAN /\ saved' \in BOOLEAN /\ reading' \in BOOLEAN
        /\ target' \in Entries \cup {Nothing} /\ reveal' \in Entries \cup {Nothing}
        /\ errors' \subseteq {"panel", "button"} /\ unheard' \subseteq {"panel", "button"}
    <3>1. draft' \in BOOLEAN /\ saved' \in BOOLEAN /\ reading' \in BOOLEAN
      BY <2>1
    <3>2. target' \in Entries \cup {Nothing} /\ reveal' \in Entries \cup {Nothing}
      BY <1>2, <2>1 DEF ControlsIInv, ControlsTypeOK, Request
    <3>3. errors' \subseteq {"panel", "button"} /\ unheard' \subseteq {"panel", "button"}
      BY <2>1 DEF ControlsIInv, ControlsTypeOK
    <3> QED  BY <3>1, <3>2, <3>3
  <2>3. k = SaveProject => "panel" \notin unheard
    BY <1>1, <1>2, <1>5, OneSave
  <2>4. FailureIsTold'
    BY <1>5, <2>1, <2>3 DEF ControlsIInv, FailureIsTold, Here
  <2>5. Quiet'
    <3>1. \A d \in Calls : Pending(d)' => d # c /\ Pending(d) /\ calls'[d] = calls[d]
      BY <1>1 DEF Pending, ControlsIInv, CallsTyped
    <3>2. SaveProject \in panel => \A d \in Calls : ~Pending(d)'
      BY <1>1, <1>5, <3>1, OneSave
    <3>3. \A d \in Calls : Pending(d)' => calls'[d].control \in panel
      BY <3>1, PendingFacts
    <3>4. saved' => SaveProject \in panel
      BY <1>2, <2>1 DEF ControlsIInv, Quiet
    <3> QED  BY <1>1, <3>2, <3>3, <3>4 DEF Quiet
  <2>6. reveal' = reveal \/ k.then = "reveal"
    BY <2>1
  <2> QED  BY <1>1, <1>5, <2>1, <2>2, <2>4, <2>5, <2>6, EndStep
<1> QED  BY <1>3, <1>4, <1>5

\* The rows that go take their flags with them, from the requests as well.
LEMMA DrawStep ==
  ASSUME ControlsIInv, Draw
  PROVE  ControlsIInv'
<1> DEFINE lost == {f \in flags : f[2] \in Entries \ shown'}
<1>1. /\ Here /\ shown' \subseteq Entries /\ reading' = FALSE /\ flags' = flags \ lost
      /\ calls' = [c \in Calls |-> [calls[c] EXCEPT !.raised = @ \ lost]]
      /\ UNCHANGED <<panel, visit, draft, errors, saved, target, reveal, entries,
                     confirmed, ours, unheard>>
  BY DEF Draw
<1>2. \A k \in AllControls : FlagOf(k, Nothing) \notin lost
  BY ControlsAssumption DEF FlagOf
<1> HIDE DEF lost
<1>3. ASSUME NEW c \in Calls
      PROVE  /\ calls'[c] \in Request /\ calls'[c].raised = calls[c].raised \ lost
             /\ calls'[c].control = calls[c].control /\ calls'[c].row = calls[c].row
             /\ calls'[c].answer = calls[c].answer
             /\ Pending(c)' <=> Pending(c)
  <2>1. calls[c] \in Request
    BY DEF ControlsIInv, CallsTyped
  <2>2. calls'[c] = [calls[c] EXCEPT !.raised = @ \ lost]
    BY <1>1
  <2>3. /\ calls'[c] \in Request /\ calls'[c].raised = calls[c].raised \ lost
        /\ calls'[c].control = calls[c].control /\ calls'[c].row = calls[c].row
        /\ calls'[c].answer = calls[c].answer
    BY <2>1, <2>2 DEF Request
  <2>4. CASE calls[c] = NoRequest
    <3>1. calls'[c] = NoRequest
      BY <2>1, <2>2, <2>4 DEF NoRequest
    <3> QED  BY <2>3, <2>4, <3>1 DEF Pending
  <2>5. CASE calls[c] # NoRequest
    <3>1. calls[c].answer # "none"
      BY <2>5, PendingFacts DEF Pending
    <3> QED  BY <2>3, <2>5, <3>1, RequestFacts DEF Pending
  <2> QED  BY <2>4, <2>5
<1>4. CallsTyped'
  BY <1>1, <1>3 DEF CallsTyped
<1>5. Sent'
  BY <1>1, <1>3 DEF ControlsIInv, Sent
<1>6. Raised'
  <2>1. /\ \A f \in flags : \E d \in Calls : f \in calls[d].raised
        /\ \A d \in Calls : calls[d].raised \subseteq flags
        /\ \A d, e \in Calls : d # e => calls[d].raised \cap calls[e].raised = {}
        /\ \A d \in Calls : Pending(d) /\ Single(calls[d].control) =>
             FlagOf(calls[d].control, Nothing) \in calls[d].raised
    BY <1>1 DEF ControlsIInv, Raised
  <2>2. \A d \in Calls : Pending(d)' /\ Single(calls'[d].control) =>
          FlagOf(calls'[d].control, Nothing) \in calls'[d].raised
    <3>1. \A d \in Calls : Pending(d) => calls[d].control \in AllControls
      BY PendingFacts
    <3> QED  BY <1>2, <1>3, <2>1, <3>1
  <2>3. \A f \in flags' : \E d \in Calls : f \in calls'[d].raised
    <3> SUFFICES ASSUME NEW f \in flags' PROVE \E d \in Calls : f \in calls'[d].raised
      OBVIOUS
    <3>1. f \in flags /\ f \notin lost
      BY <1>1
    <3>2. PICK d \in Calls : f \in calls[d].raised
      BY <2>1, <3>1
    <3> QED  BY <1>3, <3>1, <3>2
  <2>4. \A d \in Calls : calls'[d].raised \subseteq flags'
    BY <1>1, <1>3, <2>1
  <2>5. \A d, e \in Calls : d # e => calls'[d].raised \cap calls'[e].raised = {}
    BY <1>3, <2>1
  <2> QED  BY <2>2, <2>3, <2>4, <2>5 DEF Raised
<1>7. OneSecret' /\ Quiet' /\ OnlyConfirmedRevoked' /\ FailureIsTold'
  BY <1>1, <1>3 DEF ControlsIInv, OneSecret, Quiet, OnlyConfirmedRevoked, FailureIsTold, Here
<1>8. ControlsTypeOK'
  <2>1. ASSUME NEW c \in Calls
        PROVE  Cardinality(calls'[c].raised) <= 1
    <3>1. PICK f : calls[c].raised \subseteq {f}
      BY RequestFacts DEF ControlsIInv, Sent, Pending
    <3>2. calls'[c].raised \subseteq {f}
      BY <1>3, <3>1
    <3> QED  BY <3>2, AtMostOne
  <2>2. \A c \in Calls :
           /\ calls'[c].control \in AllControls \cup {Nothing}
           /\ calls'[c].row \in Entries \cup {Nothing} /\ Cardinality(calls'[c].raised) <= 1
           /\ calls'[c].answer \in {"none", "sent", "ok", "failed", "expired"}
    BY <1>3, <2>1 DEF Request
  <2> QED  BY <1>1, <2>2 DEF ControlsIInv, ControlsTypeOK
<1> QED  BY <1>4, <1>5, <1>6, <1>7, <1>8 DEF ControlsIInv

-----------------------------------------------------------------------------
(* The invariant.                                                           *)

LEMMA ControlsInitHolds == ControlsInit => ControlsIInv
<1> SUFFICES ASSUME ControlsInit PROVE ControlsIInv
  OBVIOUS
<1>1. \A c \in Calls : calls[c] = NoRequest
  BY DEF ControlsInit
<1>2. CallsTyped /\ Sent
  BY <1>1, RequestFacts DEF ControlsInit, CallsTyped, Sent, Pending
<1>3. Raised /\ OneSecret /\ Quiet /\ OnlyConfirmedRevoked /\ FailureIsTold
  BY <1>1, RequestFacts DEF ControlsInit, Raised, OneSecret, Quiet, OnlyConfirmedRevoked, FailureIsTold,
                            Pending
<1>4. ControlsTypeOK
  <2>1. \A c \in Calls :
           /\ calls[c].control \in AllControls \cup {Nothing}
           /\ calls[c].row \in Entries \cup {Nothing} /\ Cardinality(calls[c].raised) <= 1
           /\ calls[c].answer \in {"none", "sent", "ok", "failed", "expired"}
    BY <1>2, OneFlag DEF CallsTyped, Request
  <2>2. entries \in [Entries -> {"none", "made", "changed", "ended"}]
    BY DEF ControlsInit
  <2>3. (\E k \in panel : k.on = "row") \in BOOLEAN
    OBVIOUS
  <2> QED  BY <2>1, <2>2, <2>3 DEF ControlsInit, ControlsTypeOK
<1> QED  BY <1>2, <1>3, <1>4 DEF ControlsIInv

LEMMA ReaderStep ==
  ASSUME ControlsIInv, NEW c \in Calls,
         \/ Confirm(c) \/ \E k \in panel : Submit(c, k) \/ \E e \in Entries : Press(c, k, e)
  PROVE  ControlsIInv'
<1>1. /\ panel \subseteq AllControls /\ confirmed \subseteq Entries
      /\ target \in Entries \cup {Nothing} /\ reveal \in Entries \cup {Nothing}
  BY PanelFacts DEF ControlsIInv, ControlsTypeOK
<1>2. CASE Confirm(c)
  <2>1. /\ Here /\ Revoke \in panel /\ target \in Entries /\ Send(c, Revoke, target)
        /\ target' = Nothing /\ confirmed' = confirmed \cup {target}
        /\ UNCHANGED <<panel, visit, draft, reveal, entries, shown, reading, ours>>
    BY <1>1, <1>2 DEF Confirm, Send
  <2>2. Revoke.then = "reload"
    BY ControlTable
  <2> QED  BY <1>1, <2>1, <2>2, SendStep
<1>3. ASSUME NEW k \in panel, Submit(c, k)
      PROVE  ControlsIInv'
  <2>1. /\ Here /\ reveal = Nothing /\ k.on # "row" /\ Send(c, k, Nothing)
        /\ UNCHANGED <<panel, visit, draft, target, reveal, entries, shown, reading, confirmed, ours>>
    BY <1>3 DEF Submit, Usable, ModalOpen, Here
  <2>2. k # Revoke
    BY <1>1, <2>1, ControlFacts
  <2> QED  BY <1>1, <2>1, <2>2, SendStep
<1>4. ASSUME NEW k \in panel, NEW e \in Entries, Press(c, k, e)
      PROVE  ControlsIInv'
  <2>1. /\ Here /\ reveal = Nothing /\ ~k.asks /\ Send(c, k, e)
        /\ UNCHANGED <<panel, visit, draft, target, reveal, entries, shown, reading, confirmed, ours>>
    BY <1>4 DEF Press, Usable, ModalOpen, Here
  <2>2. k # Revoke
    BY <1>1, <2>1, ControlFacts
  <2> QED  BY <1>1, <2>1, <2>2, SendStep
<1> QED  BY <1>2, <1>3, <1>4

LEMMA ControlsNextHolds == ControlsIInv /\ [ControlsNext]_controlVars => ControlsIInv'
<1> SUFFICES ASSUME ControlsIInv, [ControlsNext]_controlVars PROVE ControlsIInv'
  OBVIOUS
<1>1. /\ draft \in BOOLEAN /\ saved \in BOOLEAN /\ reading \in BOOLEAN /\ shown \subseteq Entries
      /\ target \in Entries \cup {Nothing} /\ reveal \in Entries \cup {Nothing}
      /\ entries \in [Entries -> {"none", "made", "changed", "ended"}]
      /\ calls \in [Calls -> Request]
  BY DEF ControlsIInv, ControlsTypeOK, CallsTyped
<1>2. CASE UNCHANGED controlVars
  BY <1>1, <1>2, StillStep DEF controlVars, drawn
<1>3. CASE Typing \/ Cancel \/ Dismiss \/ Again
  <2>1. CASE Typing
    BY <1>1, <2>1, StillStep DEF Typing
  <2>2. CASE Cancel
    BY <1>1, <2>2, StillStep DEF Cancel
  <2>3. CASE Dismiss
    BY <1>1, <2>3, StillStep DEF Dismiss
  <2>4. CASE Again
    BY <1>1, <2>4, StillStep DEF Again, drawn
  <2> QED  BY <1>3, <2>1, <2>2, <2>3, <2>4
<1>4. CASE GoAway
  BY <1>1, <1>4, GoneStep DEF GoAway
<1>5. ASSUME NEW e \in Entries, Choose(e) \/ Elsewhere(e)
      PROVE  ControlsIInv'
  <2>1. CASE Choose(e)
    BY <1>1, <2>1, StillStep DEF Choose
  <2>2. CASE Elsewhere(e)
    BY <1>1, <2>2, StillStep DEF Elsewhere, drawn
  <2> QED  BY <1>5, <2>1, <2>2
<1>6. ASSUME NEW c \in Calls, Expire(c)
      PROVE  ControlsIInv'
  BY <1>1, <1>6, RequestFacts, GoneStep DEF Expire
<1> QED
  BY <1>2, <1>3, <1>4, <1>5, <1>6, DrawStep, ReaderStep, GrantedStep, DeniedStep, SucceedStep, FailStep
     DEF ControlsNext

LEMMA ControlsInductive == ControlsSpec => []ControlsIInv
BY ControlsInitHolds, ControlsNextHolds, PTL DEF ControlsSpec

\* On every screen: only what a dialog asked about is revoked, a failure is on the
\* screen until its control is used again, and no control is off for good or
\* twice under way (the handlers of the routes and their finally blocks).
THEOREM ControlsInvariant == ControlsSpec => []ControlsInv
<1>1. ControlsIInv => ControlsInv
  <2> SUFFICES ASSUME ControlsIInv PROVE ControlsInv
    OBVIOUS
  <2>1. NothingStaysOff
    BY DEF ControlsIInv, Raised, NothingStaysOff
  <2>2. OneAtATime
    BY DEF ControlsIInv, Raised, OneAtATime, Single, Pending
  <2> QED  BY <2>1, <2>2 DEF ControlsIInv, ControlsInv
<1> QED  BY <1>1, ControlsInductive, PTL

\* A secret that is shown stays until its reader says that it is stored, or has
\* left: no request that is answered later replaces it (TokenRevealDialog).
THEOREM SecretsStay == ControlsSpec => SecretStays
<1>1. ControlsIInv /\ [ControlsNext]_controlVars =>
        (reveal # Nothing => reveal' = reveal \/ Dismiss \/ visit' # "here")
  <2> SUFFICES ASSUME ControlsIInv, [ControlsNext]_controlVars, reveal # Nothing, ~Dismiss, visit' = "here"
               PROVE  reveal' = reveal
    OBVIOUS
  <2>1. ASSUME NEW c \in Calls, Succeed(c)
        PROVE  reveal' = reveal
    <3>1. Pending(c) /\ calls[c].control.then # "leave"
      BY <2>1, RequestFacts DEF Succeed, Pending
    <3>2. Here => calls[c].control.then # "reveal"
      BY <3>1 DEF ControlsIInv, OneSecret
    <3> QED  BY <2>1, <3>1, <3>2 DEF Succeed, drawn, Here
  <2>2. ASSUME NEW c \in Calls, ~Succeed(c),
               \/ Confirm(c) \/ Granted(c) \/ Denied(c) \/ Fail(c) \/ Expire(c)
               \/ \E k \in panel : Submit(c, k) \/ \E e \in Entries : Press(c, k, e)
        PROVE  reveal' = reveal
    BY <2>2 DEF Confirm, Granted, Denied, Fail, Expire, Submit, Press, drawn
  <2> QED  BY <2>1, <2>2 DEF ControlsNext, controlVars, drawn, Typing, Cancel, GoAway, Draw, Again,
                            Choose, Elsewhere
<1> QED  BY <1>1, ControlsInductive, PTL DEF ControlsSpec, SecretStays

-----------------------------------------------------------------------------
\* A reader of the application is at the way in or at the controls: what holds
\* of each holds of both together.
THEOREM WebInvariant == WebSpec => [](SignInInv /\ ControlsInv)
<1>1. WebInit => Init /\ ControlsInit
  BY DEF WebInit
<1>2. [WebNext]_webVars => [Next]_vars /\ [ControlsNext]_controlVars
  BY DEF WebNext, webVars
<1>3. WebSpec => Spec /\ ControlsSpec
  BY <1>1, <1>2, PTL DEF WebSpec, Spec, ControlsSpec
<1> QED  BY <1>3, SignInInvariant, ControlsInvariant, PTL

=============================================================================
