---------------------------- MODULE ScreensProofs ----------------------------
(***************************************************************************)
(* What holds of every screen, whatever lists, writes and changes there    *)
(* are, and in whatever order requests are answered.                       *)
(*                                                                         *)
(* The invariant says of the request under way what the flag of its effect *)
(* achieves: unless another effect is due it asks for what the URL names,  *)
(* and once it was served its answer is as new as anything the screen was  *)
(* told of.                                                                *)
(***************************************************************************)
EXTENDS Screens, TLAPS

Codes == {"none", "sent", "ok", "failed", "expired"}

\* A control's request knows the change it made.
WritesKnow ==
    writes \in [screen.writes -> [code : Codes, change : Nat]]
        /\ \A w \in screen.writes : writes[w].change <= changes

\* What the request of the last effect asks for and was told.
LoadIsCurrent ==
    /\ load.code = "ok" => load.answer.status = "ready" /\ load.answer.of = load.key
    /\ load.code \in {"failed", "expired"} => load.answer = Failed
    /\ page = "screen" /\ ~due /\ UnderWay(load) =>
        /\ load.key = key
        /\ load.code = "ok" => load.answer.seen >= told

\* Rows that nothing is to replace.
RowsAreCurrent ==
    page = "screen" /\ ~due /\ ~refreshing /\ list.status = "ready" =>
        list.of = key /\ list.seen >= told

IInv == TypeOK /\ SpinnerHasARequest /\ WritesKnow /\ LoadIsCurrent /\ RowsAreCurrent

-----------------------------------------------------------------------------
\* What every screen is made of.
LEMMA ScreenShape ==
    \A s \in AllScreens :
        /\ s.reads \in BOOLEAN /\ s.filters \in BOOLEAN /\ s.polls \in BOOLEAN
        /\ \A w \in s.writes : w.after \in {"reload", "leave", "invalidate"} /\ w.checked \in BOOLEAN
<1> DEFINE Shape(s) == s.reads \in BOOLEAN /\ s.filters \in BOOLEAN /\ s.polls \in BOOLEAN
           Made(w) == w.after \in {"reload", "leave", "invalidate"} /\ w.checked \in BOOLEAN
<1>1. ASSUME NEW A
      PROVE  /\ Shape(Listing(A)) /\ Listing(A).writes = A
             /\ Shape(Form(A)) /\ Form(A).writes = A
  BY DEF Listing, Form
<1>2. \A name : \A after \in {"reload", "leave", "invalidate"}, checked \in BOOLEAN :
        Made(Write(name, after, checked))
  BY DEF Write
<1>3. Shape(Reports) /\ Reports.writes = {}
  BY <1>1 DEF Reports, Listing
<1> HIDE DEF Shape, Made
<1>4. \A s \in {Overview, Logs, Traces, Investigation, Report} : Shape(s) /\ s.writes = {}
  BY <1>1 DEF Overview, Logs, Traces, Investigation, Report
<1>5. \A s \in {Tokens, Members, Alerts, Projects, ProjectSettings, Settings, Organizations, AcceptInvitation} :
        Shape(s)
  BY <1>1 DEF Tokens, Members, Alerts, Projects, ProjectSettings, Settings, Organizations, AcceptInvitation
<1>6. \A s \in {Tokens, Members, Alerts, Projects} : \A w \in s.writes : Made(w)
  <2>1. Tokens.writes = {Write("issue", "reload", TRUE), Write("revoke", "reload", TRUE)}
    BY <1>1 DEF Tokens
  <2>2. Members.writes = {Write("invite", "reload", TRUE), Write("role", "reload", TRUE),
                         Write("remove", "reload", FALSE)}
    BY <1>1 DEF Members
  <2>3. Alerts.writes = {Write("create", "reload", TRUE), Write("delete", "reload", FALSE)}
    BY <1>1 DEF Alerts
  <2>4. Projects.writes = {Write("create", "leave", TRUE)}
    BY <1>1 DEF Projects
  <2>5. \A w \in Tokens.writes : Made(w)
    BY <1>2, <2>1
  <2>6. \A w \in Members.writes : Made(w)
    BY <1>2, <2>2
  <2>7. \A w \in Alerts.writes : Made(w)
    BY <1>2, <2>3
  <2>8. \A w \in Projects.writes : Made(w)
    BY <1>2, <2>4
  <2> QED  BY <2>5, <2>6, <2>7, <2>8
<1>7. \A s \in {ProjectSettings, Settings, Organizations, AcceptInvitation} : \A w \in s.writes : Made(w)
  <2>1. ProjectSettings.writes = {Write("rename", "invalidate", TRUE)}
    BY <1>1 DEF ProjectSettings
  <2>2. Settings.writes = {Write("rename", "invalidate", TRUE), Write("leave", "leave", FALSE)}
    BY <1>1 DEF Settings
  <2>3. Organizations.writes = {Write("create", "leave", TRUE)}
    BY <1>1 DEF Organizations
  <2>4. AcceptInvitation.writes = {Write("accept", "leave", TRUE)}
    BY <1>1 DEF AcceptInvitation
  <2>5. \A w \in ProjectSettings.writes : Made(w)
    BY <1>2, <2>1
  <2>6. \A w \in Settings.writes : Made(w)
    BY <1>2, <2>2
  <2>7. \A w \in Organizations.writes : Made(w)
    BY <1>2, <2>3
  <2>8. \A w \in AcceptInvitation.writes : Made(w)
    BY <1>2, <2>4
  <2> QED  BY <2>5, <2>6, <2>7, <2>8
<1>8. \A s \in AllScreens : Shape(s) /\ \A w \in s.writes : Made(w)
  BY <1>3, <1>4, <1>5, <1>6, <1>7 DEF AllScreens
<1> QED  BY <1>8 DEF Shape, Made

\* The constants of requests and resources have their types.
LEMMA BlankTypes ==
    /\ Unseen \in Resource /\ Failed \in Resource
    /\ NoLoad \in Request /\ \A k \in Keys : Sent(k) \in Request
    /\ Idle \in [code : Codes, change : Nat]
<1> USE ScreensAssumption DEF ScreensAssumption
<1>1. Unseen \in Resource
  BY DEF Unseen, Resource
<1>2. Failed \in Resource
  BY DEF Failed, Unseen, Resource
<1>3. NoLoad \in Request
  BY <1>1 DEF NoLoad, Request
<1>4. \A k \in Keys : Sent(k) \in Request
  BY <1>1 DEF Sent, NoLoad, Request
<1>5. Idle \in [code : Codes, change : Nat]
  BY DEF Idle, Codes
<1> QED  BY <1>1, <1>2, <1>3, <1>4, <1>5

\* So has what the server says to a request.
LEMMA ReplyType ==
    ASSUME TypeOK, load \in Request, stored \subseteq Items
    PROVE  /\ Reply(load) \in Request /\ Reply(load).code \in {"ok", "expired"}
           /\ Reply(load).key = load.key
           /\ Reply(load).code = "ok" =>
                /\ Reply(load).answer.status = "ready" /\ Reply(load).answer.of = load.key
                /\ Reply(load).answer.seen = changes
           /\ Reply(load).code = "expired" => Reply(load).answer = Failed
<1> USE DEF TypeOK, Request
<1>1. CASE session
  <2>1. [status |-> "ready", of |-> load.key, rows |-> stored \cap Lists[load.key], seen |-> changes] \in Resource
    BY DEF Resource
  <2> QED  BY <1>1, <2>1 DEF Reply
<1>2. CASE ~session
  BY <1>2, BlankTypes DEF Reply
<1> QED  BY <1>1, <1>2 DEF TypeOK

-----------------------------------------------------------------------------
LEMMA InitKeeps == Init => IInv
<1> SUFFICES ASSUME Init PROVE IInv
  OBVIOUS
<1> USE ScreensAssumption, BlankTypes DEF ScreensAssumption, Init
<1>1. TypeOK
  <2>1. due \in BOOLEAN /\ stored \subseteq Items
    BY ScreenShape
  <2>2. \A w \in screen.writes : writes[w].code = "none"
    BY DEF Idle
  <2>3. list \in Resource /\ load \in Request /\ old \in Request
    OBVIOUS
  <2>4. field \in [draft : Keys, timer : Keys \cup {None}]
    OBVIOUS
  <2>5. screen \in AllScreens /\ changes \in 0..MaxChanges /\ told \in 0..changes
    OBVIOUS
  <2> QED  BY <2>1, <2>2, <2>3, <2>4, <2>5 DEF TypeOK
<1>2. SpinnerHasARequest
  BY DEF SpinnerHasARequest
<1>3. WritesKnow
  BY DEF WritesKnow, Idle
<1>4. LoadIsCurrent /\ RowsAreCurrent
  BY DEF LoadIsCurrent, RowsAreCurrent, NoLoad, Unseen, UnderWay
<1> QED  BY <1>1, <1>2, <1>3, <1>4 DEF IInv

\* A screen that is no longer there, or is about to be the sign-in page, has
\* nothing to keep but its types.
LEMMA GoneKeeps ==
    ASSUME IInv, page' # "screen", page' \in {"away", "next", "login"},
           UNCHANGED <<screen, hidden, session, key, changes, stored>>,
           list' = list \/ list' = Unseen, load' = load \/ load' = NoLoad, old' = old \/ old' = NoLoad,
           refreshing' \in BOOLEAN, due' \in BOOLEAN, going' \in Keys \cup {None},
           field' \in [draft : Keys, timer : Keys \cup {None}],
           writes' \in [screen.writes -> [code : Codes, change : Nat]],
           \A w \in screen.writes : writes'[w].change <= changes,
           told' \in 0..changes
    PROVE  IInv'
<1> USE DEF IInv
<1>1. TypeOK'
  BY BlankTypes DEF TypeOK, Codes
<1>2. SpinnerHasARequest' /\ RowsAreCurrent'
  BY DEF SpinnerHasARequest, RowsAreCurrent
<1>3. WritesKnow'
  BY DEF WritesKnow
<1>4. LoadIsCurrent'
  BY DEF LoadIsCurrent, NoLoad
<1> QED  BY <1>1, <1>2, <1>3, <1>4

\* What leaves the resource alone keeps it, if an effect is due once the URL or
\* what the screen was told of has changed.
LEMMA BesideKeeps ==
    ASSUME IInv, UNCHANGED <<screen, page, list, refreshing, load>>,
           old' = old \/ old' = NoLoad, due' \in BOOLEAN, due => due',
           key' = key \/ due', key' \in Keys,
           told' = told \/ due' \/ page # "screen", told' \in 0..changes',
           changes' \in changes..MaxChanges, stored' \subseteq Items, session' \in BOOLEAN, hidden' \in BOOLEAN,
           going' \in Keys \cup {None}, field' \in [draft : Keys, timer : Keys \cup {None}],
           writes' \in [screen.writes -> [code : Codes, change : Nat]],
           \A w \in screen.writes : writes'[w].change <= changes'
    PROVE  IInv'
<1> USE DEF IInv
<1>0. changes' \in 0..MaxChanges
  BY ScreensAssumption DEF ScreensAssumption, TypeOK
<1>1. TypeOK'
  BY <1>0, BlankTypes DEF TypeOK, Codes
<1>2. SpinnerHasARequest'
  BY DEF SpinnerHasARequest
<1>3. WritesKnow'
  BY DEF WritesKnow
<1>4. LoadIsCurrent'
  BY DEF LoadIsCurrent
<1>5. RowsAreCurrent'
  BY DEF RowsAreCurrent, TypeOK
<1> QED  BY <1>1, <1>2, <1>3, <1>4, <1>5

\* The URL and the field.
LEMMA NavigationKeeps ==
    ASSUME IInv, Reload \/ Poll \/ Land \/ Commit \/ \E k \in Keys : GoTo(k) \/ Type(k)
    PROVE  IInv'
<1> USE ScreensAssumption DEF ScreensAssumption, IInv
<1> SUFFICES /\ UNCHANGED <<screen, hidden, page, list, refreshing, load, old, session, stored, changes, told, writes>>
             /\ due' \in BOOLEAN /\ (due => due') /\ (key' = key \/ due') /\ key' \in Keys
             /\ going' \in Keys \cup {None}
             /\ field' \in [draft : Keys, timer : Keys \cup {None}]
  BY BesideKeeps DEF TypeOK, WritesKnow
<1> USE DEF TypeOK
<1>1. CASE Reload
  BY <1>1 DEF Reload
<1>2. CASE Poll
  BY <1>2 DEF Poll
<1>3. CASE Land
  BY <1>3 DEF Land
<1>4. CASE Commit
  BY <1>4 DEF Commit
<1>5. ASSUME NEW k \in Keys, GoTo(k)
      PROVE  /\ going' = k
             /\ UNCHANGED <<screen, hidden, page, list, refreshing, load, old, session, stored, changes, told>>
             /\ UNCHANGED <<writes, due, key, field>>
  BY <1>5 DEF GoTo
<1>6. ASSUME NEW k \in Keys, Type(k)
      PROVE  /\ field' = [draft |-> k, timer |-> k]
             /\ UNCHANGED <<screen, hidden, page, list, refreshing, load, old, session, stored, changes, told>>
             /\ UNCHANGED <<writes, due, key, going>>
  BY <1>6 DEF Type
<1> QED  BY <1>1, <1>2, <1>3, <1>4, <1>5, <1>6

\* Writes, other administrators, and the session.
LEMMA OthersKeep ==
    ASSUME IInv, Happens \/ TurnTab \/ EndSession \/ \E w \in screen.writes : Start(w) \/ Apply(w) \/ Refuse(w)
    PROVE  IInv'
<1> USE ScreensAssumption DEF ScreensAssumption, IInv
<1> SUFFICES /\ UNCHANGED <<screen, page, list, refreshing, load, old, due, key, told, going, field>>
             /\ changes' \in changes..MaxChanges /\ stored' \subseteq Items /\ session' \in BOOLEAN
             /\ hidden' \in BOOLEAN
             /\ writes' \in [screen.writes -> [code : Codes, change : Nat]]
             /\ \A w \in screen.writes : writes'[w].change <= changes'
  BY BesideKeeps DEF TypeOK
<1> USE DEF TypeOK, WritesKnow
<1>1. CASE Happens
  BY <1>1 DEF Happens
<1>2. CASE EndSession
  <2>1. /\ UNCHANGED <<screen, page, list, refreshing, load, old, due, key, told, going, field>>
        /\ UNCHANGED <<hidden, changes, stored, writes>>
    BY <1>2 DEF EndSession
  <2>2. session' \in BOOLEAN
    BY <1>2 DEF EndSession
  <2>3. changes' \in changes..MaxChanges
    BY <2>1
  <2> QED  BY <2>1, <2>2, <2>3
<1>3. ASSUME NEW w \in screen.writes, Start(w) \/ Apply(w) \/ Refuse(w)
      PROVE  /\ UNCHANGED <<screen, page, list, refreshing, load, old, due, key, told, going, field>>
             /\ UNCHANGED <<hidden, stored, session>>
             /\ changes' \in changes..MaxChanges
             /\ writes' \in [screen.writes -> [code : Codes, change : Nat]]
             /\ \A v \in screen.writes : writes'[v].change <= changes'
  <2> USE DEF Codes
  <2>1. CASE Start(w)
    BY <2>1 DEF Start
  <2>2. CASE Apply(w)
    BY <2>2 DEF Apply
  <2>3. CASE Refuse(w)
    BY <2>3 DEF Refuse, Idle
  <2> QED  BY <1>3, <2>1, <2>2, <2>3
<1>4. CASE TurnTab
  <2>1. /\ UNCHANGED <<screen, page, list, refreshing, load, old, due, key, told, going, field>>
        /\ UNCHANGED <<session, changes, stored, writes>>
    BY <1>4 DEF TurnTab
  <2>2. hidden' \in BOOLEAN
    BY <1>4 DEF TurnTab
  <2>3. changes' \in changes..MaxChanges
    BY <2>1
  <2> QED  BY <2>1, <2>2, <2>3
<1> QED  BY <1>1, <1>2, <1>3, <1>4

\* The session is over, or the reader leaves.
LEMMA LeavingKeeps ==
    ASSUME IInv, ToSignIn \/ Leave
    PROVE  IInv'
<1> USE ScreensAssumption DEF ScreensAssumption, IInv
<1>1. [draft |-> NoFilter, timer |-> None] \in [draft : Keys, timer : Keys \cup {None}]
  OBVIOUS
<1>2. CASE ToSignIn
  <2>1. writes' \in [screen.writes -> [code : Codes, change : Nat]]
    BY <1>2, BlankTypes DEF ToSignIn
  <2>2. \A w \in screen.writes : writes'[w].change <= changes
    BY <1>2 DEF ToSignIn, Idle, TypeOK
  <2>3. /\ UNCHANGED <<screen, hidden, session, key, changes, stored>>
        /\ page' = "login" /\ list' = Unseen /\ load' = NoLoad /\ old' = NoLoad
        /\ refreshing' \in BOOLEAN /\ due' \in BOOLEAN /\ going' \in Keys \cup {None} /\ told' = 0
    BY <1>2 DEF ToSignIn
  <2>4. field' \in [draft : Keys, timer : Keys \cup {None}]
    BY <1>1, <1>2 DEF ToSignIn
  <2>5. told' \in 0..changes
    BY <2>3 DEF TypeOK
  <2> QED  BY <2>1, <2>2, <2>3, <2>4, <2>5, GoneKeeps
<1>3. CASE Leave
  BY <1>1, <1>3, GoneKeeps DEF Leave, TypeOK, WritesKnow
<1> QED  BY <1>2, <1>3

\* What follows a write.
LEMMA AnswerToWriteKeeps ==
    ASSUME IInv, NEW w \in screen.writes, Done(w) \/ NotDone(w)
    PROVE  IInv'
<1> USE ScreensAssumption DEF ScreensAssumption, IInv
<1>1. /\ [writes EXCEPT ![w] = Idle] \in [screen.writes -> [code : Codes, change : Nat]]
      /\ \A v \in screen.writes : [writes EXCEPT ![w] = Idle][v].change <= changes
  BY BlankTypes DEF WritesKnow, Idle, TypeOK
<1>2. CASE Done(w)
  <2>1. told' \in 0..changes
    BY <1>2 DEF Done, Follows, TypeOK, WritesKnow
  <2>2. CASE w.after = "leave"
    BY <1>1, <1>2, <2>1, <2>2, GoneKeeps DEF Done, Follows, TypeOK
  <2>3. CASE w.after # "leave"
    <3>1. /\ UNCHANGED <<screen, hidden, page, session, key, going, field, list, refreshing, load, old, stored, changes>>
          /\ due' = (due \/ (w.after = "reload" /\ page = "screen"))
          /\ writes' = [writes EXCEPT ![w] = Idle]
      BY <1>2, <2>3 DEF Done, Follows
    <3>2. due' \in BOOLEAN /\ (due => due') /\ (told' = told \/ due' \/ page # "screen")
      BY <1>2, <3>1 DEF Done, Follows
    <3>3. changes' \in changes..MaxChanges
      BY <3>1 DEF TypeOK
    <3> QED  BY <1>1, <2>1, <3>1, <3>2, <3>3, BesideKeeps DEF TypeOK
  <2> QED  BY <2>2, <2>3
<1>3. CASE NotDone(w)
  <2>1. CASE writes[w].code = "expired" /\ ToSignIn
    BY <2>1, LeavingKeeps
  <2>2. CASE ~(writes[w].code = "expired" /\ ToSignIn)
    BY <1>1, <1>3, <2>2, BesideKeeps DEF NotDone, TypeOK
  <2> QED  BY <2>1, <2>2
<1> QED  BY <1>2, <1>3

-----------------------------------------------------------------------------
\* The effect asks for what the URL names, and keeps rows that are there.
LEMMA EffectKeeps == ASSUME IInv, Effect PROVE IInv'
<1> USE ScreensAssumption DEF ScreensAssumption, IInv, Effect
<1>1. load' = Sent(key) /\ load'.code = "sent" /\ load'.key = key
  BY DEF Sent, NoLoad
<1>2. TypeOK'
  BY <1>1, BlankTypes DEF TypeOK, Codes
<1>3. SpinnerHasARequest'
  BY <1>1 DEF SpinnerHasARequest, UnderWay
<1>4. WritesKnow'
  BY DEF WritesKnow
<1>5. LoadIsCurrent'
  BY <1>1 DEF LoadIsCurrent
<1>6. RowsAreCurrent'
  BY DEF RowsAreCurrent, Unseen
<1> QED  BY <1>2, <1>3, <1>4, <1>5, <1>6

\* The server reads what it has by now, of which the screen was told no more.
LEMMA ServeKeeps == ASSUME IInv, Serve \/ ServeFails PROVE IInv'
<1> USE ScreensAssumption DEF ScreensAssumption, IInv
<1>1. UNCHANGED <<screen, hidden, page, session, key, going, field, list, refreshing, due, old, stored, changes, writes, told>>
  BY DEF Serve, ServeFails
<1>2. /\ load' \in Request /\ load'.key = load.key
      /\ load'.code \in {"ok", "expired", "failed"} /\ load.code = "sent"
      /\ load'.code = "ok" => /\ load'.answer.status = "ready" /\ load'.answer.of = load.key
                              /\ load'.answer.seen = changes
      /\ load'.code # "ok" => load'.answer = Failed
  <2>1. CASE Serve
    BY <2>1, ReplyType DEF Serve, TypeOK
  <2>2. CASE ServeFails
    BY <2>2, BlankTypes DEF ServeFails, TypeOK, Request
  <2> QED  BY <2>1, <2>2
<1>3. TypeOK'
  BY <1>1, <1>2 DEF TypeOK
<1>4. SpinnerHasARequest' /\ RowsAreCurrent' /\ WritesKnow'
  BY <1>1, <1>2 DEF SpinnerHasARequest, RowsAreCurrent, WritesKnow, UnderWay
<1>5. LoadIsCurrent'
  BY <1>1, <1>2 DEF LoadIsCurrent, UnderWay, TypeOK
<1> QED  BY <1>3, <1>4, <1>5

\* An answer is put on the screen as it is.
LEMMA ArriveKeeps == ASSUME IInv, Arrive PROVE IInv'
<1> USE ScreensAssumption DEF ScreensAssumption, IInv, Arrive, Arrived, RefreshingAfter
<1>1. list' = load.answer /\ load.code \in {"ok", "failed"} /\ UnderWay(load)
  BY DEF Answered, UnderWay, TypeOK, Request
<1>2. list' \in Resource /\ list'.status # "loading"
  BY <1>1 DEF LoadIsCurrent, TypeOK, Request, Failed, Unseen
<1>3. TypeOK'
  BY <1>2, BlankTypes DEF TypeOK
<1>4. SpinnerHasARequest' /\ WritesKnow'
  BY <1>2 DEF SpinnerHasARequest, WritesKnow
<1>5. LoadIsCurrent'
  BY DEF LoadIsCurrent, NoLoad, UnderWay
<1>6. RowsAreCurrent'
  BY <1>1 DEF RowsAreCurrent, LoadIsCurrent, Failed, Unseen
<1> QED  BY <1>3, <1>4, <1>5, <1>6

\* An aborted request changes nothing when its answer comes.
LEMMA ArriveLateKeeps == ASSUME IInv, ArriveLate PROVE IInv'
BY ScreensAssumption, BesideKeeps DEF ScreensAssumption, IInv, ArriveLate, LateAnswer, TypeOK, WritesKnow

LEMMA StepKeeps == ASSUME IInv, [Next]_vars PROVE IInv'
<1>1. CASE UNCHANGED vars
  BY <1>1 DEF vars, IInv, TypeOK, SpinnerHasARequest, WritesKnow, LoadIsCurrent, RowsAreCurrent
<1>2. CASE Effect
  BY <1>2, EffectKeeps
<1>3. CASE Serve \/ ServeFails
  BY <1>3, ServeKeeps
<1>4. CASE Arrive
  BY <1>4, ArriveKeeps
<1>5. CASE ArriveLate
  BY <1>5, ArriveLateKeeps
<1>6. CASE ArriveExpired \/ Leave
  BY <1>6, LeavingKeeps DEF ArriveExpired
<1>7. CASE Reload \/ Poll \/ Land \/ Commit \/ \E k \in Keys : GoTo(k) \/ Type(k)
  BY <1>7, NavigationKeeps
<1>8. CASE \E w \in screen.writes : Done(w) \/ NotDone(w)
  BY <1>8, AnswerToWriteKeeps
<1>9. CASE Happens \/ TurnTab \/ EndSession \/ \E w \in screen.writes : Start(w) \/ Apply(w) \/ Refuse(w)
  BY <1>9, OthersKeep
<1> QED  BY <1>1, <1>2, <1>3, <1>4, <1>5, <1>6, <1>7, <1>8, <1>9 DEF Next

\* The invariant of a screen (use-resource.ts, use-url-text-filter.ts): in
\* whatever order its requests are answered and however often its URL changes,
\* at rest it shows what the URL names with every change it was told of, and
\* whatever spins has a request or an effect to wait for.
THEOREM ScreenInvariant == Spec => []ScreensInv
<1>1. Init => IInv
  BY InitKeeps
<1>2. IInv /\ [Next]_vars => IInv'
  BY StepKeeps
<1>3. IInv => ScreensInv
  BY DEF IInv, ScreensInv, RowsAreCurrent, RestShowsTheUrl, RestShowsOwnWrites, Settled
<1> QED  BY <1>1, <1>2, <1>3, PTL DEF Spec

=============================================================================
