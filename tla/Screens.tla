-------------------------------- MODULE Screens --------------------------------
(***************************************************************************)
(* One screen of the web application and the requests behind it: the       *)
(* resource it loads when it opens and again when what it reads changes    *)
(* (lib/use-resource.ts), the text filter that is typed into an input and  *)
(* kept in the URL (lib/use-url-text-filter.ts), the writes its controls   *)
(* make (the components under routes/), and the session that may end in    *)
(* the middle of a visit (lib/api-request.ts).                             *)
(*                                                                         *)
(* React renders between two steps. An effect runs some time after the     *)
(* render that made it due, and answers may arrive before it does.         *)
(***************************************************************************)
EXTENDS Naturals, FiniteSets

CONSTANTS
    Keys, NoFilter,  \* what a list is loaded for: a project, or what a filter says
    Items,           \* what reporters send while the screen is open
    Lists,           \* the items each key lists, [Keys -> SUBSET Items]
    None,
    MaxWrites,       \* bound on the writes under way at once
    MaxChanges       \* bound on the changes made to what the server holds

ASSUME ScreensAssumption ==
    /\ NoFilter \in Keys /\ Lists \in [Keys -> SUBSET Items] /\ Lists[NoFilter] = Items
    /\ None \notin Keys /\ MaxChanges \in Nat /\ MaxWrites \in Nat

VARIABLES
    screen,    \* which component is open
    hidden,    \* nobody is looking at the tab
    page,      \* "screen", "away" (the reader left), "next" (a write moved on) or "login"
    session,   \* whether the API still knows the session
    key,       \* what the URL says is to be loaded
    going,     \* where the navigation under way goes
    field,     \* the filter's input: its draft and what its timer will commit
    list,      \* what is on the screen: a ResourceState, and when the server read it
    refreshing,
    due,       \* an effect is to run
    load, old, \* the request of the last effect, and the one that it aborted
    stored,    \* items at the server
    changes,   \* how often what the server holds has changed
    writes,    \* requests of the controls
    told       \* history: the last change the screen was told of

vars == <<screen, hidden, page, session, key, going, field, list, refreshing, due, load, old,
          stored, changes, writes, told>>

-----------------------------------------------------------------------------
(* The screens.                                                            *)

\* A control that writes: what follows when it succeeded, and whether it goes
\* through requestJson. Each is busy while its write is under way; those of
\* two rows are two controls.
Write(name, after, checked) == [name |-> name, after |-> after, checked |-> checked]

\* What loads a list, and what only writes.
Listing(actions) == [reads |-> TRUE, filters |-> FALSE, polls |-> FALSE, writes |-> actions]
Form(actions) == [Listing(actions) EXCEPT !.reads = FALSE]

Overview == Listing({})
Logs == Listing({})
Traces == Listing({})
Investigation == Listing({})
Report == Listing({})
Reports == [Listing({}) EXCEPT !.filters = TRUE, !.polls = TRUE]
Tokens == Listing({Write("issue", "reload", TRUE), Write("revoke", "reload", TRUE)})
\* (A role and the withdrawal of an invitation are written in one way.)
Members == Listing({Write("invite", "reload", TRUE), Write("role", "reload", TRUE), Write("remove", "reload", FALSE)})
Alerts == Listing({Write("create", "reload", TRUE), Write("delete", "reload", FALSE)})
Projects == Listing({Write("create", "leave", TRUE)})
ProjectSettings == Form({Write("rename", "invalidate", TRUE)})
Settings == Form({Write("rename", "invalidate", TRUE), Write("leave", "leave", FALSE)})
Organizations == Form({Write("create", "leave", TRUE)})
AcceptInvitation == Form({Write("accept", "leave", TRUE)})

AllScreens == {Overview, Logs, Traces, Investigation, Report, Reports, Tokens, Members, Alerts,
               Projects, ProjectSettings, Settings, Organizations, AcceptInvitation}

-----------------------------------------------------------------------------
(* The resource of a screen.                                               *)

Unseen == [status |-> "loading", of |-> None, rows |-> {}, seen |-> 0]

Failed == [Unseen EXCEPT !.status = "error"]
NoLoad == [key |-> None, answer |-> Unseen, code |-> "none"]
Sent(k) == [NoLoad EXCEPT !.key = k, !.code = "sent"]

Idle == [code |-> "none", change |-> 0]

UnderWay(l) == l.code # "none"
Answered(l) == l.code \notin {"none", "sent"}

\* (An effect that does not let go of the request before it.)
LatestAnswer(l) == l.answer

\* What an aborted request does to the screen when its answer comes.
LateAnswer(l) == list

\* The effect: the request before is aborted, and what is on the screen
\* stays there if it is rows.
Effect ==
    LET hasRows == list.status = "ready"
    IN  /\ page = "screen" /\ due
        /\ due' = FALSE
        /\ list' = IF hasRows THEN list ELSE Unseen
        /\ refreshing' = hasRows
        /\ old' = IF Answered(load) THEN load ELSE old
        /\ load' = Sent(key)
        /\ UNCHANGED <<screen, hidden, page, session, key, going, field, stored, changes, writes, told>>

\* What the server says to a request that is there now.
Reply(l) ==
    IF session
    THEN [l EXCEPT !.code = "ok",
                   !.answer = [status |-> "ready", of |-> l.key, rows |-> stored \cap Lists[l.key], seen |-> changes]]
    ELSE [l EXCEPT !.code = "expired", !.answer = Failed]

Serve ==
    /\ load.code = "sent" /\ load' = Reply(load)
    /\ UNCHANGED <<screen, hidden, page, session, key, going, field, list, refreshing, due, old, stored, changes, writes, told>>

\* The API is not there, or answers what the contract does not name.
ServeFails ==
    /\ load.code = "sent"
    /\ load' = [load EXCEPT !.code = "failed", !.answer = Failed]
    /\ UNCHANGED <<screen, hidden, page, session, key, going, field, list, refreshing, due, old, stored, changes, writes, told>>

\* What the answer of the last effect's request does to it.
Arrived(l) == l.answer

RefreshingAfter(l) == FALSE

Arrive ==
    /\ page = "screen" /\ Answered(load) /\ load.code # "expired"
    /\ list' = Arrived(load) /\ refreshing' = RefreshingAfter(load)
    /\ load' = NoLoad
    /\ UNCHANGED <<screen, hidden, page, session, key, going, field, due, old, stored, changes, writes, told>>

\* A hard navigation to the sign-in page: the document and all that it waited
\* for are gone.
ToSignIn ==
    /\ page' = "login"
    /\ list' = Unseen /\ refreshing' = FALSE /\ due' = FALSE /\ load' = NoLoad /\ old' = NoLoad
    /\ going' = None /\ field' = [draft |-> NoFilter, timer |-> None]
    /\ writes' = [w \in screen.writes |-> Idle] /\ told' = 0
    /\ UNCHANGED <<screen, hidden, session, key, stored, changes>>

\* An answer of 401 to a request that is still wanted.
ArriveExpired ==
    /\ page = "screen" /\ load.code = "expired" /\ ToSignIn

ArriveLate ==
    /\ page = "screen" /\ Answered(old)
    /\ list' = LateAnswer(old)
    /\ old' = NoLoad
    /\ UNCHANGED <<screen, hidden, page, session, key, going, field, refreshing, due, load, stored, changes, writes, told>>

\* The refresh button, which is off while rows are refreshed, and the retry
\* of a list that failed.
Reload ==
    /\ page = "screen" /\ screen.reads /\ ~due
    /\ list.status = "error" \/ (list.status = "ready" /\ ~refreshing)
    /\ due' = TRUE
    /\ UNCHANGED <<screen, hidden, page, session, key, going, field, list, refreshing, load, old, stored, changes, writes, told>>

\* A project that shows nothing looks again every few seconds, whether it
\* was answered meanwhile or not, while somebody looks at it.
AwaitingFirstReport == list.status = "ready" /\ list.rows = {} /\ key = NoFilter

\* (A poll that looks at the wrong side of the flag.)
PollWhileRefreshing ==
    /\ page = "screen" /\ screen.polls /\ AwaitingFirstReport /\ ~due /\ refreshing
    /\ ~hidden
    /\ due' = TRUE
    /\ UNCHANGED <<screen, hidden, page, session, key, going, field, list, refreshing, load, old, stored, changes, writes, told>>

Poll ==
    /\ page = "screen" /\ screen.polls /\ AwaitingFirstReport /\ ~due
    /\ ~hidden
    /\ due' = TRUE
    /\ UNCHANGED <<screen, hidden, page, session, key, going, field, list, refreshing, load, old, stored, changes, writes, told>>

-----------------------------------------------------------------------------
(* The URL, and the field that is kept in it.                              *)

\* The reader goes to another project of the switcher, back, or to a link;
\* one that clears the filters among them. The last to be asked for wins.
GoTo(k) ==
    /\ page = "screen" /\ screen.reads /\ k # key
    /\ going' = k
    /\ UNCHANGED <<screen, hidden, page, session, key, field, list, refreshing, due, load, old, stored, changes, writes, told>>

\* Navigation is asynchronous: the root route is asked again before it lands.
\* Both hooks see a key that changed.
Land ==
    /\ page = "screen" /\ going # None
    /\ key' = going /\ going' = None
    /\ due' = (due \/ key' # key)
    /\ field' = IF screen.filters /\ key' # key THEN [field EXCEPT !.draft = key'] ELSE field
    /\ UNCHANGED <<screen, hidden, page, session, list, refreshing, load, old, stored, changes, writes, told>>

\* A key is pressed: the draft changes at once and the timer starts over.
Type(k) ==
    /\ page = "screen" /\ screen.filters /\ k # field.draft
    /\ field' = [draft |-> k, timer |-> k]
    /\ UNCHANGED <<screen, hidden, page, session, key, going, list, refreshing, due, load, old, stored, changes, writes, told>>

Commit ==
    /\ page = "screen" /\ field.timer # None
    /\ going' = field.timer
    /\ field' = [field EXCEPT !.timer = None]
    /\ UNCHANGED <<screen, hidden, page, session, key, list, refreshing, due, load, old, stored, changes, writes, told>>

-----------------------------------------------------------------------------
(* Writes.                                                                 *)

Busy == {w \in screen.writes : writes[w].code # "none"}

\* A control is used: its handler returns at once when it is busy.
Start(w) ==
    /\ page = "screen" /\ w \notin Busy /\ Cardinality(Busy) < MaxWrites
    /\ writes' = [writes EXCEPT ![w].code = "sent"]
    /\ UNCHANGED <<screen, hidden, page, session, key, going, field, list, refreshing, due, load, old, stored, changes, told>>

\* The API does what it is asked.
Apply(w) ==
    /\ writes[w].code = "sent" /\ session /\ changes < MaxChanges
    /\ changes' = changes + 1
    /\ writes' = [writes EXCEPT ![w] = [code |-> "ok", change |-> changes']]
    /\ UNCHANGED <<screen, hidden, page, session, key, going, field, list, refreshing, due, load, old, stored, told>>

\* It refuses, is not there, or did it and the answer is lost; or it does
\* not know the session any more, which requestJson tells from the rest.
Refuse(w) ==
    /\ \/ writes[w].code \in {"sent", "ok"} /\ writes' = [writes EXCEPT ![w] = [Idle EXCEPT !.code = "failed"]]
       \/ writes[w].code = "sent" /\ ~session /\ w.checked /\ writes' = [writes EXCEPT ![w].code = "expired"]
    /\ UNCHANGED <<screen, hidden, page, session, key, going, field, list, refreshing, due, load, old, stored, changes, told>>

\* What a handler does when its write succeeded; the reader is taken to what
\* was made from wherever they are by then.
Follows(w, reload) ==
    /\ writes[w].code = "ok"
    /\ due' = (due \/ (reload /\ page = "screen"))
    /\ told' = IF w.after = "reload" /\ writes[w].change > told THEN writes[w].change ELSE told
    /\ page' = IF w.after = "leave" THEN "next" ELSE page
    /\ writes' = [writes EXCEPT ![w] = Idle]
    /\ UNCHANGED <<screen, hidden, session, key, going, field, list, refreshing, load, old, stored, changes>>

Done(w) == Follows(w, w.after = "reload")

\* It did not succeed: the screen says so, and requestJson sends a signed-out
\* browser to sign in; the calls that fetch on their own only fail.
NotDone(w) ==
    \/ writes[w].code = "expired" /\ ToSignIn
    \/ /\ writes[w].code = "failed"
       /\ writes' = [writes EXCEPT ![w] = Idle]
       /\ UNCHANGED <<screen, hidden, page, session, key, going, field, list, refreshing, due, load, old,
                      stored, changes, told>>

-----------------------------------------------------------------------------
(* The rest of the world.                                                  *)

\* Another administrator changes something, or a reporter sends something.
\* Which items are listed matters to the screen that polls; the others tell
\* lists apart by when they were read.
Happens ==
    /\ page = "screen" /\ changes < MaxChanges /\ changes' = changes + 1
    /\ \/ stored' = stored
       \/ \E i \in Items \ stored : screen.polls /\ stored' = stored \cup {i}
    /\ UNCHANGED <<screen, hidden, page, session, key, going, field, list, refreshing, due, load, old, writes, told>>

\* The reader turns to another tab, or back to this one. (Only what polls asks
\* whether it is seen.)
TurnTab ==
    /\ page = "screen" /\ screen.polls
    /\ hidden' = ~hidden
    /\ UNCHANGED <<screen, page, session, key, going, field, list, refreshing, due, load, old, stored, changes, writes, told>>

\* The session expires, or is ended in another tab.
EndSession ==
    /\ page # "login" /\ session /\ session' = FALSE
    /\ UNCHANGED <<screen, hidden, page, key, going, field, list, refreshing, due, load, old, stored, changes, writes, told>>

\* The reader leaves: what was loading is aborted and the timer cleared,
\* while writes go on.
Leave ==
    /\ page = "screen" /\ page' = "away"
    /\ list' = Unseen /\ refreshing' = FALSE /\ due' = FALSE /\ load' = NoLoad /\ old' = NoLoad
    /\ going' = None /\ field' = [draft |-> NoFilter, timer |-> None]
    /\ UNCHANGED <<screen, hidden, session, key, stored, changes, writes, told>>

Init ==
    /\ screen \in AllScreens
    /\ page = "screen" /\ session = TRUE /\ hidden = FALSE
    /\ key = NoFilter /\ going = None
    /\ field = [draft |-> NoFilter, timer |-> None]
    /\ list = Unseen /\ refreshing = FALSE /\ due = screen.reads
    /\ load = NoLoad /\ old = NoLoad
    /\ stored \in (IF screen.polls THEN SUBSET Items ELSE {{}}) /\ changes = 0
    /\ writes = [w \in screen.writes |-> Idle]
    /\ told = 0

Next ==
    \/ Effect \/ Serve \/ ServeFails \/ Arrive \/ ArriveExpired \/ ArriveLate
    \/ Reload \/ Poll \/ Land \/ Commit
    \/ \E k \in Keys : GoTo(k) \/ Type(k)
    \/ \E w \in screen.writes : Start(w) \/ Apply(w) \/ Refuse(w) \/ Done(w) \/ NotDone(w)
    \/ Happens \/ TurnTab \/ EndSession \/ Leave

\* The browser runs effects, timers and what it was answered, and the server
\* answers what it is still asked.
Fairness ==
    /\ WF_vars(Effect) /\ WF_vars(Poll)
    /\ WF_vars(Serve) /\ WF_vars(Arrive \/ ArriveExpired)

Spec == Init /\ [][Next]_vars /\ Fairness

-----------------------------------------------------------------------------
(* Properties.                                                             *)

Resource == [status : {"loading", "error", "ready"}, of : Keys \cup {None}, rows : SUBSET Items,
             seen : 0..MaxChanges]
Request == [key : Keys \cup {None}, answer : Resource, code : {"none", "sent", "ok", "failed", "expired"}]

\* Every variable has its type.
TypeOK ==
    /\ screen \in AllScreens
    /\ page \in {"screen", "away", "next", "login"}
    /\ hidden \in BOOLEAN /\ session \in BOOLEAN /\ refreshing \in BOOLEAN /\ due \in BOOLEAN
    /\ key \in Keys
    /\ going \in Keys \cup {None}
    /\ field \in [draft : Keys, timer : Keys \cup {None}]
    /\ list \in Resource /\ load \in Request /\ old \in Request
    /\ stored \subseteq Items /\ changes \in 0..MaxChanges /\ told \in 0..changes
    /\ \A w \in screen.writes : writes[w].code \in {"none", "sent", "ok", "failed", "expired"}

\* Nothing is loading and no effect is to run.
Settled == page = "screen" /\ screen.reads /\ ~due /\ ~refreshing /\ list.status # "loading"

\* A screen at rest shows what its URL names, whatever was asked before and
\* in whatever order it was answered (use-resource.ts: the flag stops a
\* response from writing into a screen that has moved on).
RestShowsTheUrl == Settled /\ list.status = "ready" => list.of = key

\* A screen at rest shows every change it was told had succeeded.
RestShowsOwnWrites == Settled /\ list.status = "ready" => list.seen >= told

\* Whatever spins has something to wait for.
SpinnerHasARequest ==
    page = "screen" /\ screen.reads /\ (refreshing \/ list.status = "loading") => due \/ UnderWay(load)

\* The invariant of a screen: at rest it shows what its URL names with every
\* change it was told of, and what spins will stop.
ScreensInv == TypeOK /\ RestShowsTheUrl /\ RestShowsOwnWrites /\ SpinnerHasARequest

\* An effect gives up a load that has not come back.
Aborts == Effect /\ UnderWay(load)

\* A project without reports shows its first one by itself (reports-setup.tsx,
\* step 3), unless its list cannot be loaded or the reader goes elsewhere; and
\* nothing else is in its way than a tab that is hidden for ever, or again and
\* again, and a server so slow that the next poll aborts one load after another.
FirstReportAppears ==
    \/ []<>hidden
    \/ []<><<Aborts>>_vars
    \/ (page = "screen" /\ screen.polls /\ AwaitingFirstReport /\ stored # {})
          ~> (page # "screen" \/ key # NoFilter \/ list.status = "error" \/ list.rows # {})

=============================================================================
