-------------------------- MODULE AlertEvaluation --------------------------
(***************************************************************************)
(* What receiving an error report sets in motion: ErrorReportService       *)
(* .receive stores it, and AlertEvaluationService.evaluateForReport judges *)
(* the alert rules of the project by it (apps/api/src/error-reporting and  *)
(* apps/api/src/alerts), with the rules' own administration beside them.   *)
(*                                                                         *)
(* Reporters retry, so one event may arrive in several calls; each         *)
(* statement of a call is a step and the calls interleave between them.    *)
(* A channel is notified without waiting and never again: a firing is the  *)
(* notification here.  Times are in minutes, read from one clock.          *)
(***************************************************************************)
EXTENDS Integers, Sequences, FiniteSets

CONSTANTS
  Events,       \* the eventIds reported to one project
  Calls,        \* calls of receive that may overlap
  Rules,        \* the alert rules
  Fingerprint,  \* computeFingerprint of each event's exception
  Matching,     \* the events each rule's filters let through
  Condition,    \* conditionType of each rule
  Threshold,    \* thresholdCount,
  Window,       \* thresholdWindowMinutes
  Cooldown,     \* and cooldownMinutes of each rule
  MaxNow,       \* bound: the last minute
  Null          \* no event, no rule, not yet stored, never fired

Conditions == {"filter_match", "new_fingerprint", "volume_threshold"}

ASSUME AlertAssumption ==
  /\ Matching \in [Rules -> SUBSET Events]
  /\ Condition \in [Rules -> Conditions]
  /\ Threshold \in [Rules -> Nat \ {0}]
  /\ Window \in [Rules -> Nat \ {0}]
  /\ Cooldown \in [Rules -> Nat]
  /\ MaxNow \in Nat
  /\ Null \notin Events \cup Rules \cup Int

VARIABLES
  now,          \* the clock
  receivedAt,   \* table ErrorReport: Null for an event that has no row
  rule,         \* column enabled of each rule, or that it has no row
  lastFiredAt,  \* column lastFiredAt of each rule
  call,         \* the calls under way
  verdict,      \* history: what each rule made of each event
  fired         \* history: the firings of each rule, as they were written

table   == <<receivedAt, rule, lastFiredAt>>
history == <<verdict, fired>>
vars    == <<now, table, call, history>>

\* `rules` are the rules read and not yet judged, `quietFrom` the lastFiredAt
\* read with them and `seen` how many firings of each rule that included.
NoCall == [step |-> "idle", event |-> Null, rules |-> {}, at |-> 0, firing |-> Null,
           quietFrom |-> [r \in Rules |-> Null], seen |-> [r \in Rules |-> 0]]

Init ==
  /\ now = 0
  /\ receivedAt = [e \in Events |-> Null]
  /\ rule = [r \in Rules |-> "unborn"]
  /\ lastFiredAt = [r \in Rules |-> Null]
  /\ call = [c \in Calls |-> NoCall]
  /\ verdict = [e \in Events |-> [r \in Rules |-> "none"]]
  /\ fired = [r \in Rules |-> <<>>]

Stored == {e \in Events : receivedAt[e] # Null}

Finish(c) == call' = [call EXCEPT ![c] = NoCall]

Judged(e, judged, what) ==
  verdict' = [verdict EXCEPT ![e] = [r \in Rules |-> IF r \in judged THEN what ELSE @[r]]]

\* The rules that have not judged the event will not: no later call is let in.
GiveUp(e) ==
  verdict' = [verdict EXCEPT ![e] = [r \in Rules |-> IF @[r] = "none" THEN "failed" ELSE @[r]]]

Tick ==
  /\ now < MaxNow
  /\ now' = now + 1
  /\ UNCHANGED <<table, call, history>>

-----------------------------------------------------------------------------
(* receive *)

Receive(c, e) ==
  /\ call[c].step = "idle"
  /\ call' = [call EXCEPT ![c].step = "create", ![c].event = e]
  /\ UNCHANGED <<now, table, history>>

\* The upsert receive used to be: a replay is judged like a new report.
Upsert(c) ==
  LET e == call[c].event IN
  /\ call[c].step = "create"
  /\ receivedAt' = [receivedAt EXCEPT ![e] = IF @ = Null THEN now ELSE @]
  /\ call' = [call EXCEPT ![c].step = "rules"]
  /\ UNCHANGED <<now, rule, lastFiredAt, history>>

\* The unique index on (project, eventId) tells a new report from a replay,
\* which is answered with the receipt of the first and goes no further.
Create(c) ==
  LET e == call[c].event IN
  /\ call[c].step = "create"
  /\ IF e \in Stored
     THEN Finish(c) /\ UNCHANGED receivedAt
     ELSE /\ receivedAt' = [receivedAt EXCEPT ![e] = now]
          /\ call' = [call EXCEPT ![c].step = "rules"]
  /\ UNCHANGED <<now, rule, lastFiredAt, history>>

-----------------------------------------------------------------------------
(* evaluateForReport *)

\* Without an enabled rule the evaluation is over.
ReadRules(c) ==
  LET enabled == {r \in Rules : rule[r] = "enabled"} IN
  /\ call[c].step = "rules"
  /\ IF enabled = {} THEN Finish(c)
     ELSE call' = [call EXCEPT ![c].step = "project", ![c].rules = enabled,
       ![c].quietFrom = [r \in Rules |-> IF r \in enabled THEN lastFiredAt[r] ELSE Null],
       ![c].seen = [r \in Rules |-> IF r \in enabled THEN Len(fired[r]) ELSE 0]]
  /\ Judged(call[c].event, Rules \ enabled, "unread")
  /\ UNCHANGED <<now, table, fired>>

\* The project's name is read, and then the clock, once for all the rules.
ReadClock(c) ==
  /\ call[c].step = "project"
  /\ call' = [call EXCEPT ![c].step = "judge", ![c].at = now]
  /\ UNCHANGED <<now, table, history>>

\* A rule whose last firing, as it was read, is not long enough ago.
Quiet(c, r) ==
  call[c].quietFrom[r] # Null /\ call[c].at - call[c].quietFrom[r] < Cooldown[r]

\* The filters and the cooldown, decided without a statement.
PassOver(c, r) ==
  LET e == call[c].event IN
  /\ call[c].step = "judge"
  /\ r \in call[c].rules
  /\ e \notin Matching[r] \/ Quiet(c, r)
  /\ call' = [call EXCEPT ![c].rules = @ \ {r}]
  /\ Judged(e, {r}, IF e \in Matching[r] THEN "quiet" ELSE "filtered")
  /\ UNCHANGED <<now, table, fired>>

\* The reports that came earlier, by their timestamps.
EarlierLike(e) ==
  {other \in Stored : Fingerprint[other] = Fingerprint[e] /\ receivedAt[other] < receivedAt[e]}

\* The other reports of the fingerprint, whenever they came.
OthersLike(e) == {other \in Stored \ {e} : Fingerprint[other] = Fingerprint[e]}

\* A window that stops short of the current minute.
InWindowBefore(r) ==
  {e \in Stored \cap Matching[r] : receivedAt[e] >= now - Window[r] /\ receivedAt[e] < now}

\* The matching reports of the window that ends now.
InWindow(r) == {e \in Stored \cap Matching[r] : receivedAt[e] >= now - Window[r]}

ConditionMet(r, e) ==
  CASE Condition[r] = "filter_match"     -> TRUE
    [] Condition[r] = "new_fingerprint"  -> OthersLike(e) = {}
    [] Condition[r] = "volume_threshold" -> Cardinality(InWindow(r)) >= Threshold[r]

Judge(c, r) ==
  LET e == call[c].event IN
  /\ call[c].step = "judge"
  /\ r \in call[c].rules
  /\ e \in Matching[r] /\ ~Quiet(c, r)
  /\ IF ConditionMet(r, e)
     THEN /\ call' = [call EXCEPT ![c].step = "fire", ![c].firing = r]
          /\ UNCHANGED verdict
     ELSE /\ call' = [call EXCEPT ![c].rules = @ \ {r}]
          /\ Judged(e, {r}, "unmet")
  /\ UNCHANGED <<now, table, fired>>

FiredAt(c) == call[c].at

\* lastFiredAt becomes the time the evaluation read, whatever it has become
\* since, and the channels are told.
Fire(c) ==
  LET r == call[c].firing
      e == call[c].event IN
  /\ call[c].step = "fire"
  /\ rule[r] # "deleted"
  /\ lastFiredAt' = [lastFiredAt EXCEPT ![r] = FiredAt(c)]
  /\ fired' = [fired EXCEPT ![r] =
       Append(@, [event |-> e, at |-> call[c].at, seen |-> call[c].seen[r]])]
  /\ Judged(e, {r}, "fired")
  /\ call' = [call EXCEPT ![c].step = "judge", ![c].rules = @ \ {r}, ![c].firing = Null]
  /\ UNCHANGED <<now, receivedAt, rule>>

\* The rule was deleted since it was read: the update throws, the other rules
\* are not judged and the reporter is told of an error, the report being stored.
FireDeleted(c) ==
  /\ call[c].step = "fire"
  /\ rule[call[c].firing] = "deleted"
  /\ GiveUp(call[c].event)
  /\ Finish(c)
  /\ UNCHANGED <<now, table, fired>>

Receipt(c) ==
  /\ call[c].step = "judge"
  /\ call[c].rules = {}
  /\ Finish(c)
  /\ UNCHANGED <<now, table, history>>

\* The process or its connection to the database goes between two statements.
\* What is stored stays, and what was not judged never will be.
LoseCall(c) ==
  /\ call[c].step # "idle"
  /\ IF call[c].step = "create" THEN UNCHANGED verdict ELSE GiveUp(call[c].event)
  /\ Finish(c)
  /\ UNCHANGED <<now, table, fired>>

-----------------------------------------------------------------------------
(* AlertRuleService: create, update of `enabled`, delete *)

SetRule(r, states, next) ==
  /\ rule[r] \in states
  /\ rule' = [rule EXCEPT ![r] = next]
  /\ UNCHANGED <<now, receivedAt, lastFiredAt, call, history>>

CreateRule(r)  == SetRule(r, {"unborn"}, "enabled")
EnableRule(r)  == SetRule(r, {"disabled"}, "enabled")
DisableRule(r) == SetRule(r, {"enabled"}, "disabled")
DeleteRule(r)  == SetRule(r, {"enabled", "disabled"}, "deleted")

-----------------------------------------------------------------------------

CallStep(c) ==
  \/ \E e \in Events : Receive(c, e)
  \/ Create(c)
  \/ ReadRules(c)
  \/ ReadClock(c)
  \/ \E r \in Rules : PassOver(c, r) \/ Judge(c, r)
  \/ Fire(c)
  \/ FireDeleted(c)
  \/ Receipt(c)
  \/ LoseCall(c)

RuleStep(r) == CreateRule(r) \/ EnableRule(r) \/ DisableRule(r) \/ DeleteRule(r)

Next ==
  \/ Tick
  \/ \E c \in Calls : CallStep(c)
  \/ \E r \in Rules : RuleStep(r)

Spec == Init /\ [][Next]_vars
-----------------------------------------------------------------------------
(* Properties *)

Times    == 0 .. MaxNow
Call     == [step : {"idle", "create", "rules", "project", "judge", "fire"},
             event : Events \cup {Null}, rules : SUBSET Rules, at : Times,
             firing : Rules \cup {Null}, quietFrom : [Rules -> Times \cup {Null}],
             seen : [Rules -> Nat]]
Verdicts == {"none", "unread", "filtered", "quiet", "unmet", "fired", "failed"}
Firing   == [event : Events, at : Times, seen : Nat]

\* What the step of a call says of the rest of it.
Consistent(q) ==
  /\ q.step = "idle" => q = NoCall
  /\ q.event = Null <=> q.step = "idle"
  /\ q.firing = Null <=> q.step # "fire"

\* Every variable has its type, and a call that is over has left nothing behind.
TypeOK ==
  /\ now \in Times
  /\ receivedAt \in [Events -> Times \cup {Null}]
  /\ rule \in [Rules -> {"unborn", "enabled", "disabled", "deleted"}]
  /\ lastFiredAt \in [Rules -> Times \cup {Null}]
  /\ call \in [Calls -> Call]
  /\ verdict \in [Events -> [Rules -> Verdicts]]
  /\ fired \in [Rules -> Seq(Firing)]
  /\ \A c \in Calls : Consistent(call[c])

\* However often a reporter repeats an event, whichever of its calls are lost
\* and whichever overlap, a rule fires for it once at most.
NotifiedOnce ==
  \A r \in Rules : \A i, j \in DOMAIN fired[r] :
    fired[r][i].event = fired[r][j].event => i = j

\* A rule for new fingerprints fires once for each of them, although storing a
\* report and looking for the others are two statements.
FirstSeenOnce ==
  \A r \in Rules : \A i, j \in DOMAIN fired[r] :
    /\ Condition[r] = "new_fingerprint"
    /\ Fingerprint[fired[r][i].event] = Fingerprint[fired[r][j].event]
    => i = j

\* It is silent about a report it has judged only when the fingerprint has
\* another: a new error that nobody is told of was reported at least twice.
FirstSeenMissedOnlyBeside ==
  \A r \in Rules, e \in Events :
    Condition[r] = "new_fingerprint" /\ verdict[e][r] = "unmet" => OthersLike(e) # {}

\* A threshold that was reached does not go unnoticed: of the reports of a full
\* window that were all judged by the rule, one found it met or still quiet,
\* however their evaluations overlapped.
ThresholdNoticed ==
  \A r \in Rules :
    LET judged == {e \in InWindow(r) : verdict[e][r] \in {"fired", "quiet", "unmet"}} IN
    /\ Condition[r] = "volume_threshold"
    /\ judged = InWindow(r) /\ Cardinality(judged) >= Threshold[r]
    => \E e \in judged : verdict[e][r] # "unmet"

\* A firing is a cooldown away from the last one that was recorded when its
\* evaluation read the rule.
QuietAfterSeenFiring ==
  \A r \in Rules : \A n \in DOMAIN fired[r] :
    LET last == fired[r][n].seen IN
    last > 0 => fired[r][n].at >= fired[r][last].at + Cooldown[r]

\* What overlapping evaluations may and may not miss: none keeps silent about a
\* fingerprint nobody else reported, none about a threshold they all saw
\* reached, and none speaks within a cooldown it could know of.
MissedOnlyByOverlap ==
  FirstSeenMissedOnlyBeside /\ ThresholdNoticed /\ QuietAfterSeenFiring

(* The inductive invariant behind NotifiedOnce and FirstSeenOnce. *)

\* A call that found its event new, and has something left to do for it.
Evaluating(c) == call[c].step \in {"rules", "project", "judge", "fire"}

\* The rules such a call may still get a verdict from.
Pending(c) == IF call[c].step = "rules" THEN Rules ELSE call[c].rules

\* One call evaluates an event, and it is stored.
OneEvaluation ==
  \A c \in Calls : Evaluating(c) =>
    /\ call[c].event \in Stored
    /\ \A d \in Calls : Evaluating(d) /\ call[d].event = call[c].event => c = d

\* What is not judged yet has no verdict, be it stored or not.
PendingUnjudged ==
  /\ \A e \in Events \ Stored : \A r \in Rules : verdict[e][r] = "none"
  /\ \A c \in Calls : Evaluating(c) =>
       \A r \in Pending(c) : verdict[call[c].event][r] = "none"
  /\ \A c \in Calls : call[c].step = "fire" => call[c].firing \in call[c].rules

FiringsAreVerdicts ==
  \A r \in Rules : \A n \in DOMAIN fired[r] : verdict[fired[r][n].event][r] = "fired"

\* The rule has fired for the event, or a call has decided that it will.
Claimed(r, e) ==
  \/ verdict[e][r] = "fired"
  \/ \E c \in Calls : call[c].step = "fire" /\ call[c].event = e /\ call[c].firing = r

OneClaim ==
  \A r \in Rules : Condition[r] = "new_fingerprint" =>
    \A e, other \in Events :
      /\ Claimed(r, e) /\ Claimed(r, other)
      /\ Fingerprint[e] = Fingerprint[other]
      => e = other

AlertInv ==
  /\ TypeOK
  /\ OneEvaluation
  /\ PendingUnjudged
  /\ FiringsAreVerdicts
  /\ NotifiedOnce
  /\ OneClaim

(* The inductive invariant behind MissedOnlyByOverlap, beside AlertInv. *)

\* The reports in a rule's window that it judged unmet are fewer than it waits
\* for: the last of them was counted with all the others in sight.
UnmetAreFew ==
  \A r \in Rules : Condition[r] = "volume_threshold" =>
    Cardinality({e \in InWindow(r) : verdict[e][r] = "unmet"}) < Threshold[r]

\* lastFiredAt is the time of the latest firing, and a firing has seen only
\* earlier ones.
FiringsRecorded ==
  \A r \in Rules :
    /\ lastFiredAt[r] = IF fired[r] = <<>> THEN Null ELSE fired[r][Len(fired[r])].at
    /\ \A n \in DOMAIN fired[r] : fired[r][n].seen < n

\* A call judges by the time of a firing that was written, and has found the
\* rule it fires not to be quiet.
CallsRead ==
  \A c \in Calls : call[c].step \in {"project", "judge", "fire"} =>
    /\ \A r \in call[c].rules :
         LET last == call[c].seen[r] IN
         /\ last <= Len(fired[r])
         /\ last > 0 => call[c].quietFrom[r] = fired[r][last].at
    /\ call[c].step = "fire" => ~Quiet(c, call[c].firing)

MissInv ==
  /\ FirstSeenMissedOnlyBeside
  /\ IsFiniteSet(Stored) /\ UnmetAreFew
  /\ FiringsRecorded /\ CallsRead /\ QuietAfterSeenFiring

=============================================================================
