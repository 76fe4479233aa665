------------------------------ MODULE Controls ------------------------------
(***************************************************************************)
(* What the screens of the web application keep beside their lists: the    *)
(* draft of a form, the flags that disable a control, the dialog that asks *)
(* before a token is revoked, the secret that is shown once, and what a    *)
(* failure says (the components under screens/ and the handlers that the   *)
(* components under routes/ give them).  Several requests may be under way *)
(* and are answered in any order.                                          *)
(*                                                                         *)
(* How a list is loaded is in Screens: here it is read in one step.        *)
(***************************************************************************)
EXTENDS FiniteSets, Naturals

CONSTANTS
  Entries,   \* tokens, members, invitations or rules
  Calls,     \* bound on the requests under way at once
  Nothing

ASSUME ControlsAssumption == Nothing \notin Entries \cup Calls

VARIABLES
  panel,     \* the controls that the open screen has for its reader
  visit,     \* "here", "away" (left), "moved" (taken on by a write) or "login"
  draft,     \* whether the form has something typed
  flags,     \* the useState flags of the controls: <<control, row>>
  errors,    \* the places that say what failed
  saved,     \* the form says "Saved."
  target,    \* the token the dialog asks about
  reveal,    \* the secret that is shown
  calls,     \* the requests of the controls
  entries,   \* at the server
  shown,     \* the rows
  reading,   \* the list is loaded again
  confirmed, \* history: the rows whose dialog was confirmed,
  ours,      \* and those that a request of this screen ended
  unheard    \* history: the places where a failure is to be read

drawn == <<draft, flags, errors, saved, target, reveal>>
controlVars == <<panel, visit, drawn, calls, entries, shown, reading, confirmed, ours, unheard>>

-----------------------------------------------------------------------------
(* The controls, and the screens that have them.                           *)

\* A form is off while its request is under way, which begins by clearing what
\* failed before.  "checked" requests go through requestJson; "everyone" needs
\* no role.
FormOf(name, then) ==
  [name |-> name, on |-> "form", then |-> then, once |-> TRUE, clears |-> TRUE,
   tells |-> "panel", asks |-> FALSE, checked |-> TRUE, everyone |-> FALSE]

\* The control of a row: its requests are not counted.
RowOf(name) == [FormOf(name, "reload") EXCEPT !.on = "row", !.once = FALSE]

IssueToken == FormOf("issue", "reveal")
\* The dialog's button is off while any token is revoked, and nothing is cleared.
Revoke == [RowOf("revoke") EXCEPT !.once = TRUE, !.clears = FALSE, !.asks = TRUE]

Invite == FormOf("invite", "reveal")
ChangeRole == RowOf("role")
RemoveMember == [RowOf("remove") EXCEPT !.checked = FALSE]
Withdraw == RowOf("withdraw")

\* The flag is the row's own, and nothing is said of a failure.
DeleteRule == [RowOf("delete") EXCEPT !.once = TRUE, !.clears = FALSE,
                                      !.tells = "none", !.checked = FALSE]

CreateProject == FormOf("create", "leave")
CreateOrganization == [FormOf("found", "leave") EXCEPT !.everyone = TRUE]
RenameOrganization == FormOf("rename", "stay")
LeaveOrganization == [FormOf("quit", "leave") EXCEPT
                        !.on = "button", !.tells = "button", !.checked = FALSE, !.everyone = TRUE]
SaveProject == FormOf("save", "stay")

TokensPanel == {IssueToken, Revoke}
MembersPanel == {Invite, ChangeRole, RemoveMember, Withdraw}
RulesPanel == {DeleteRule}
ProjectsPanel == {CreateProject}
OrganizationsPanel == {CreateOrganization}
SettingsPanel == {RenameOrganization, LeaveOrganization}
ProjectPanel == {SaveProject}

Panels == {TokensPanel, MembersPanel, RulesPanel, ProjectsPanel, OrganizationsPanel,
           SettingsPanel, ProjectPanel}

\* What a reader who does not administer is offered.
ForMembers(controls) == {k \in controls : k.everyone}

NoRequest == [control |-> Nothing, row |-> Nothing, raised |-> {}, answer |-> "none"]

\* The flag a request raises: a row's own, or the screen's.
FlagOf(k, row) == <<k.name, IF k = DeleteRule THEN row ELSE Nothing>>

\* Radix takes the rest of the page away while a dialog is open.
ModalOpen == target # Nothing \/ reveal # Nothing
Usable == visit = "here" /\ ~ModalOpen

Here == visit = "here"
Live(e) == entries[e] \in {"made", "changed"}

\* (A handler that does not look at its flag.)
AlwaysFree(k, row) == TRUE

Free(k, row) == k.once => FlagOf(k, row) \notin flags

-----------------------------------------------------------------------------
(* What the reader does.                                                   *)

Typing ==
  /\ Usable /\ \E k \in panel : k.on = "form"
  /\ draft' = ~draft
  /\ UNCHANGED <<panel, visit, flags, errors, saved, target, reveal, calls, entries, shown, reading,
                 confirmed, ours, unheard>>

\* What a handler takes off the screen before it sends its request.
Clear(k) == errors' = (IF k.clears THEN errors \ {k.tells} ELSE errors) /\ saved' = FALSE

\* A handler begins: it raises its flag, clears, and sends.
Send(c, k, row) ==
  /\ calls[c] = NoRequest /\ k \in panel /\ Free(k, row)
  /\ LET raised == IF k.once THEN {FlagOf(k, row)} ELSE {}
     IN /\ flags' = flags \cup raised
        /\ calls' = [calls EXCEPT ![c] = [control |-> k, row |-> row, raised |-> raised,
                                         answer |-> "sent"]]
  /\ Clear(k)
  /\ unheard' = IF k.clears THEN unheard \ {k.tells} ELSE unheard

\* A form with nothing typed is not sent, but the project's (whose button is off
\* only when the slug is blank as well).
Submit(c, k) ==
  /\ Usable /\ k.on \in {"form", "button"}
  /\ k.on = "form" /\ k # SaveProject => draft
  /\ Send(c, k, Nothing)
  /\ UNCHANGED <<panel, visit, draft, target, reveal, entries, shown, reading, confirmed, ours>>

\* A control of a row that does not ask.
Press(c, k, row) ==
  /\ Usable /\ k.on = "row" /\ ~k.asks /\ row \in shown
  /\ Send(c, k, row)
  /\ UNCHANGED <<panel, visit, draft, target, reveal, entries, shown, reading, confirmed, ours>>

\* "Revoke" on a token's row opens the dialog,
Choose(row) ==
  /\ Usable /\ row \in shown /\ Revoke \in panel
  /\ target' = row
  /\ UNCHANGED <<panel, visit, draft, flags, errors, saved, reveal, calls, entries, shown, reading,
                 confirmed, ours, unheard>>

\* which "Keep" and Escape close,
Cancel ==
  /\ Here /\ target # Nothing /\ target' = Nothing
  /\ UNCHANGED <<panel, visit, draft, flags, errors, saved, reveal, calls, entries, shown, reading,
                 confirmed, ours, unheard>>

\* as does the button that revokes.
Confirm(c) ==
  /\ Here /\ target # Nothing
  /\ Send(c, Revoke, target)
  /\ target' = Nothing
  /\ confirmed' = confirmed \cup {target}
  /\ UNCHANGED <<panel, visit, draft, reveal, entries, shown, reading, ours>>

\* "I've stored it": Escape and clicks outside are swallowed.
Dismiss ==
  /\ Here /\ reveal # Nothing /\ reveal' = Nothing
  /\ UNCHANGED <<panel, visit, draft, flags, errors, saved, target, calls, entries, shown, reading,
                 confirmed, ours, unheard>>

\* The screen's own state goes with it; its requests do not.
Unmounted ==
  /\ draft' = FALSE /\ flags' = {} /\ errors' = {} /\ saved' = FALSE /\ target' = Nothing
  /\ reveal' = Nothing /\ shown' = {} /\ reading' = FALSE /\ unheard' = {}

GoAway ==
  /\ Here /\ visit' = "away" /\ Unmounted
  /\ UNCHANGED <<panel, calls, entries, confirmed, ours>>

-----------------------------------------------------------------------------
(* What is answered.                                                       *)

\* (A request that is made of the dialog's state when it leaves.)
CurrentTarget(c) == IF target # Nothing THEN target ELSE calls[c].row

\* The row a request is about: the handler has read it from the render it is of.
Subject(c) == calls[c].row

\* The API does it: a form makes an entry, the control of a row changes or ends
\* the one it names, which may be ended already.
Granted(c) ==
  /\ calls[c].answer = "sent"
  /\ LET k == calls[c].control
         Answer(e) == [calls EXCEPT ![c].answer = "ok", ![c].row = e]
     IN \/ /\ k.then = "reveal"
           /\ \E e \in Entries : /\ entries[e] = "none"
                                 /\ entries' = [entries EXCEPT ![e] = "made"] /\ calls' = Answer(e)
           /\ ours' = ours
        \/ /\ k.on = "row"
           /\ entries' = [entries EXCEPT ![Subject(c)] =
                            IF k = ChangeRole /\ @ # "ended" THEN "changed" ELSE "ended"]
           /\ ours' = IF k = ChangeRole THEN ours ELSE ours \cup {Subject(c)}
           /\ calls' = Answer(calls[c].row)
        \/ /\ k.then \in {"leave", "stay"}
           /\ calls' = Answer(Nothing) /\ UNCHANGED <<entries, ours>>
  /\ UNCHANGED <<panel, visit, drawn, shown, reading, confirmed, unheard>>

\* It refuses, or its answer is lost; or it does not know the session any more.
Denied(c) ==
  /\ \/ calls[c].answer \in {"sent", "ok"} /\ calls' = [calls EXCEPT ![c].answer = "failed"]
     \/ /\ calls[c].answer = "sent" /\ calls[c].control.checked
        /\ calls' = [calls EXCEPT ![c].answer = "expired"]
  /\ UNCHANGED <<panel, visit, drawn, entries, shown, reading, confirmed, ours, unheard>>

\* The finally block.
Lowered(c) == flags \ calls[c].raised

\* A handler goes on after its request succeeded.  The setters of a screen that is
\* gone do nothing, and the navigation is made from wherever the reader is.
Succeed(c) ==
  LET k == calls[c].control IN
  /\ calls[c].answer = "ok" /\ visit # "login"
  /\ calls' = [calls EXCEPT ![c] = NoRequest]
  /\ IF k.then = "leave" THEN visit' = "moved" /\ Unmounted
     ELSE IF ~Here THEN UNCHANGED <<visit, drawn, shown, reading, unheard>>
     ELSE /\ flags' = Lowered(c)
          /\ reveal' = IF k.then = "reveal" THEN calls[c].row ELSE reveal
          /\ draft' = (draft /\ k.then # "reveal")
          /\ target' = IF k.asks THEN Nothing ELSE target
          /\ saved' = (saved \/ k = SaveProject)
          /\ reading' = (reading \/ k.then \in {"reveal", "reload"})
          /\ UNCHANGED <<visit, errors, shown, unheard>>
  /\ UNCHANGED <<panel, entries, confirmed, ours>>

\* What the catch block puts on the screen.
Said(k) == IF k.tells = "none" THEN errors ELSE errors \cup {k.tells}

\* After it failed.
Fail(c) ==
  LET k == calls[c].control IN
  /\ calls[c].answer = "failed" /\ visit # "login"
  /\ calls' = [calls EXCEPT ![c] = NoRequest]
  /\ IF ~Here THEN UNCHANGED <<flags, errors, unheard>>
     ELSE /\ flags' = Lowered(c)
          /\ errors' = Said(k)
          /\ unheard' = IF k.tells = "none" THEN unheard ELSE unheard \cup {k.tells}
  /\ UNCHANGED <<panel, visit, draft, saved, target, reveal, entries, shown, reading, confirmed, ours>>

\* requestJson takes a signed-out browser to the sign-in page, wherever it is.
Expire(c) ==
  /\ calls[c].answer = "expired" /\ visit # "login"
  /\ visit' = "login" /\ Unmounted
  /\ calls' = [d \in Calls |-> NoRequest]
  /\ UNCHANGED <<panel, entries, confirmed, ours>>

\* The list is read.  One that fails takes its rows away, with the flags they had:
\* those that are drawn in their place know of no request.
Draw ==
  /\ Here /\ reading
  /\ shown' \in {{}, {e \in Entries : Live(e)}}
  /\ reading' = FALSE
  /\ LET lost == {f \in flags : f[2] \in Entries \ shown'}
     IN /\ flags' = flags \ lost
        /\ calls' = [c \in Calls |-> [calls[c] EXCEPT !.raised = @ \ lost]]
  /\ UNCHANGED <<panel, visit, draft, errors, saved, target, reveal, entries,
                 confirmed, ours, unheard>>

\* "Try again".
Again ==
  /\ Usable /\ ~reading /\ shown = {} /\ \E k \in panel : k.then \in {"reveal", "reload"}
  /\ reading' = TRUE
  /\ UNCHANGED <<panel, visit, drawn, calls, entries, shown, confirmed, ours, unheard>>

\* Another administrator ends an entry.
Elsewhere(e) ==
  /\ Here /\ Live(e) /\ entries' = [entries EXCEPT ![e] = "ended"]
  /\ UNCHANGED <<panel, visit, drawn, calls, shown, reading, confirmed, ours, unheard>>

ControlsInit ==
  /\ panel \in Panels \cup {ForMembers(p) : p \in Panels}
  /\ visit = "here" /\ draft = FALSE /\ flags = {} /\ errors = {} /\ saved = FALSE
  /\ target = Nothing /\ reveal = Nothing
  /\ calls = [c \in Calls |-> NoRequest]
  /\ entries \in (IF \E k \in panel : k.on = "row" THEN [Entries -> {"none", "made"}]
                                                   ELSE {[e \in Entries |-> "none"]})
  /\ shown = {} /\ reading = (\E k \in panel : k.on = "row")
  /\ confirmed = {} /\ ours = {} /\ unheard = {}

ControlsNext ==
  \/ Typing \/ Cancel \/ Dismiss \/ GoAway \/ Draw \/ Again
  \/ \E e \in Entries : Choose(e) \/ Elsewhere(e)
  \/ \E c \in Calls :
       \/ Confirm(c) \/ Granted(c) \/ Denied(c) \/ Succeed(c) \/ Fail(c) \/ Expire(c)
       \/ \E k \in panel : Submit(c, k) \/ \E e \in Entries : Press(c, k, e)

ControlsSpec == ControlsInit /\ [][ControlsNext]_controlVars

-----------------------------------------------------------------------------
(* Properties.                                                             *)

AllControls == UNION Panels

\* Every variable has its type.
ControlsTypeOK ==
  /\ panel \in Panels \cup {ForMembers(p) : p \in Panels}
  /\ visit \in {"here", "away", "moved", "login"}
  /\ draft \in BOOLEAN /\ saved \in BOOLEAN /\ reading \in BOOLEAN
  /\ flags \subseteq {k.name : k \in AllControls} \X (Entries \cup {Nothing})
  /\ errors \subseteq {"panel", "button"} /\ unheard \subseteq {"panel", "button"}
  /\ target \in Entries \cup {Nothing} /\ reveal \in Entries \cup {Nothing}
  /\ \A c \in Calls :
       /\ calls[c].control \in AllControls \cup {Nothing}
       /\ calls[c].row \in Entries \cup {Nothing} /\ Cardinality(calls[c].raised) <= 1
       /\ calls[c].answer \in {"none", "sent", "ok", "failed", "expired"}
  /\ entries \in [Entries -> {"none", "made", "changed", "ended"}]
  /\ UNION {shown, confirmed, ours} \subseteq Entries

\* A secret that is shown stays until its reader says that it is stored, or is
\* gone from the screen: no request that ends later, the form's own among them,
\* puts another in its place (TokenRevealDialog: "it will not be shown again").
SecretStays ==
  [][reveal # Nothing => reveal' = reveal \/ Dismiss \/ visit' # "here"]_controlVars

\* The tokens that this screen revokes are those whose names its dialog asked
\* about, whichever dialog is open when a request is made or answered.
OnlyConfirmedRevoked == Revoke \in panel => ours \subseteq confirmed

\* A failure is on the screen until a handler that clears it begins again: what
\* succeeds beside it does not hide it, and a form that failed does not say "Saved.".
FailureIsTold ==
  Here => unheard \subseteq errors /\ (saved => "panel" \notin unheard)

\* A control that is off has a request under way, so that none stays off when its
\* request failed.
NothingStaysOff ==
  Here => \A f \in flags : \E c \in Calls : f \in calls[c].raised

\* A form and the dialog have one request under way at most.  (A rule's row may have
\* two: its flag goes with a list that fails.)
OneAtATime ==
  Here => \A c, d \in Calls :
            /\ calls[c] # NoRequest /\ calls[d] # NoRequest /\ calls[c].control = calls[d].control
            /\ calls[c].control.once /\ calls[c].control # DeleteRule
            => c = d

\* The invariant of the controls of a screen, whatever is under way: only what was
\* asked about is revoked, a failure is told, and nothing is off for good or twice on.
ControlsInv == ControlsTypeOK /\ OnlyConfirmedRevoked /\ FailureIsTold /\ NothingStaysOff /\ OneAtATime

=============================================================================
