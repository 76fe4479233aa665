----------------------------- MODULE AlertRules -----------------------------
(***************************************************************************)
(* How an alert rule comes to be and is shown: the form of the web         *)
(* application (screens/alerts/alerts.tsx), the contract of the API        *)
(* (alerts/alert.contract.ts), the row (AlertRuleService) and the line     *)
(* drawn of it, beside other clients of the API.                           *)
(*                                                                         *)
(* Of a text it matters whether it is "empty", "blank", a "word" or a      *)
(* word that is "padded", a "url" or too "long".  A number that is typed   *)
(* is what parseInt reads of it and whether more follows, as in 2.5 or     *)
(* 1e3; the bounds of numbers are scaled.  The screen is that of an owner  *)
(* or admin and shows one rule at most.                                    *)
(***************************************************************************)
EXTENDS Integers, Sequences, FiniteSets

CONSTANTS
    MaxCount,     \* MAX_THRESHOLD_COUNT, MAX_THRESHOLD_WINDOW_MINUTES, MAX_COOLDOWN_MINUTES
    MaxChannels,  \* MAX_CHANNELS
    MaxFilled,    \* bound on the fields of a draft that are not as they were given
    Missing,      \* a field that is not there, a column that is null
    NaN           \* what parseInt makes of nothing; JSON has null for it

\* The texts that are told apart, and the names of tags.
Texts == {"empty", "blank", "word", "padded", "url", "long", "tag", "environment"}

\* The choices of a cooldown, 1 and 2, are within its bound.
ASSUME AlertRulesAssumption ==
    /\ MaxCount \in Nat \ {0, 1} /\ MaxChannels \in Nat \ {0} /\ MaxFilled \in Nat
    /\ Missing \notin Int \cup Texts /\ NaN \notin Int

VARIABLES
    draft,      \* the fields of the form
    composing,
    drawn,      \* the list on the screen: its status, and whether a rule is on it
    awaited,    \* whether a load of it is under way
    post,       \* the request of the form
    kept        \* table AlertRule: the row, and history: the draft it was made from

alertRulesVars == <<draft, composing, drawn, awaited, post, kept>>

-----------------------------------------------------------------------------
(* Texts and numbers.                                                      *)

Typed == {"empty", "padded"}
Targets == {"empty", "word", "url"}
Digits == {[read |-> n, more |-> FALSE] : n \in {NaN, MaxCount, MaxCount + 1}} \cup {[read |-> 1, more |-> TRUE]}

Trim(s) == CASE s = "blank" -> "empty" [] s = "padded" -> "word" [] OTHER -> s

ParseInt(digits) == digits.read

NonEmptyText(s) == Trim(s) \notin {"empty", "long"}

\* A field that is optional is left out or valid.
Optional(value, valid) == value = Missing \/ valid

WithinBounds(n) == n \in 1..MaxCount

-----------------------------------------------------------------------------
(* alerts.tsx: from the draft to the request.                              *)

ConditionTypes == {"new_fingerprint", "filter_match", "volume_threshold"}
ChannelTypes == {"slack", "discord", "telegram", "webhook"}

DefaultAlertRuleDraft ==
    [name |-> "empty", conditionType |-> "filter_match", cooldown |-> 2,
     environment |-> "empty", serviceName |-> "empty", channelType |-> "slack", target |-> "empty",
     thresholdCount |-> [read |-> MaxCount, more |-> FALSE],
     thresholdWindow |-> [read |-> MaxCount, more |-> FALSE]]

\* The values each field may be given; the cooldown is a choice of the form.
FieldValues ==
    [name |-> Typed, conditionType |-> ConditionTypes, cooldown |-> {1, 2},
     environment |-> Typed \cup {"blank"}, serviceName |-> Typed, channelType |-> ChannelTypes,
     target |-> Targets, thresholdCount |-> Digits, thresholdWindow |-> {d \in Digits : ~d.more}]

Unless(isBlank, value) == IF isBlank THEN Missing ELSE value

ChannelFromDraft(type, target) == [type |-> type, target |-> target]

\* What the form has in its fields.
EveryField(d) ==
    [conditionType |-> d.conditionType, name |-> Trim(d.name), cooldown |-> d.cooldown,
     environment |-> Unless(Trim(d.environment) = "empty", Trim(d.environment)),
     tagKey |-> Missing, tagValue |-> Missing,
     serviceName |-> Unless(Trim(d.serviceName) = "empty", Trim(d.serviceName)),
     channels |-> <<ChannelFromDraft(d.channelType, Trim(d.target))>>,
     thresholdCount |-> ParseInt(d.thresholdCount),
     thresholdWindow |-> ParseInt(d.thresholdWindow)]

\* Only a volume threshold carries the fields of one, whatever was typed into
\* them for another condition.
ToCreateAlertRuleRequest(d) ==
    LET volume == d.conditionType = "volume_threshold"
    IN  [EveryField(d) EXCEPT !.thresholdCount = Unless(~volume, @),
                              !.thresholdWindow = Unless(~volume, @)]

-----------------------------------------------------------------------------
(* alert.contract.ts and AlertRuleService.                                 *)

\* Telegram takes any name of a chat, the others a URL.
ChannelConfig(channel) ==
    IF channel.type = "telegram" THEN NonEmptyText(channel.target) ELSE channel.target = "url"

CommonFields(body) ==
    /\ NonEmptyText(body.name)
    /\ \A f \in {"environment", "tagKey", "tagValue", "serviceName"} : Optional(body[f], NonEmptyText(body[f]))
    /\ Len(body.channels) \in 1..MaxChannels
    /\ \A i \in DOMAIN body.channels : ChannelConfig(body.channels[i])
    /\ Optional(body.cooldown, WithinBounds(body.cooldown))

CreateAlertRuleRequest(body) ==
    /\ CommonFields(body)
    /\ IF body.conditionType = "volume_threshold"
       THEN WithinBounds(body.thresholdCount) /\ WithinBounds(body.thresholdWindow)
       ELSE body.thresholdCount = Missing /\ body.thresholdWindow = Missing

TrimOr(value) == IF value = Missing THEN Missing ELSE Trim(value)

\* The row: what the contract made of the body, and the defaults.
RowOf(body) ==
    [name |-> Trim(body.name), enabled |-> TRUE, conditionType |-> body.conditionType,
     environment |-> TrimOr(body.environment), tagKey |-> TrimOr(body.tagKey),
     tagValue |-> TrimOr(body.tagValue), serviceName |-> TrimOr(body.serviceName),
     thresholdCount |-> body.thresholdCount, thresholdWindow |-> body.thresholdWindow,
     cooldown |-> IF body.cooldown = Missing THEN 2 ELSE body.cooldown,
     channels |-> [i \in DOMAIN body.channels |-> [body.channels[i] EXCEPT !.target = Trim(@)]]]

UpdateAlertRuleRequest(change) ==
    /\ change.name # Missing \/ change.enabled # Missing
    /\ Optional(change.name, NonEmptyText(change.name))

\* Name and state are all that may be changed.
Updated(row, change) ==
    [row EXCEPT !.name = IF change.name = Missing THEN @ ELSE Trim(change.name),
                !.enabled = IF change.enabled = Missing THEN @ ELSE change.enabled]

-----------------------------------------------------------------------------
(* alerts.tsx: what is drawn of a rule, and what the evaluation makes of it.*)

ConditionSummary(rule) ==
    IF rule.conditionType = "volume_threshold"
    THEN <<rule.thresholdCount, rule.thresholdWindow>> ELSE <<rule.conditionType>>

\* One key of an object, if it is there, and an object spread into another.
When(isThere, key, value) == [k \in (IF isThere THEN {key} ELSE {}) |-> value]
Over(later, earlier) ==
    [k \in DOMAIN later \cup DOMAIN earlier |-> IF k \in DOMAIN later THEN later[k] ELSE earlier[k]]

\* (A line that leaves the service out.)
EntriesWithoutService(rule) ==
    Over(When(rule.tagKey # Missing /\ rule.tagValue # Missing, rule.tagKey, rule.tagValue),
         When(rule.environment # Missing, "environment", rule.environment))

\* One object: of two filters with one key the later is drawn.
FilterEntries(rule) ==
    Over(When(rule.serviceName # Missing, "service", rule.serviceName),
         Over(When(rule.tagKey # Missing /\ rule.tagValue # Missing, rule.tagKey, rule.tagValue),
              When(rule.environment # Missing, "environment", rule.environment)))

\* Of a webhook only the host is shown, and nothing of a URL that is a secret.
FormatChannel(channel) ==
    CASE channel.type = "telegram" -> <<"telegram", channel.target>>
      [] channel.type = "webhook"  -> <<"webhook", "host">>
      [] OTHER                     -> <<channel.type>>

ToAlertRuleView(rule) ==
    [name |-> rule.name, enabled |-> rule.enabled, condition |-> ConditionSummary(rule),
     filters |-> FilterEntries(rule), cooldown |-> rule.cooldown,
     channels |-> [i \in DOMAIN rule.channels |-> FormatChannel(rule.channels[i])]]

\* matchesFilters: a tag is compared with the value even where it is null.
MatchesFilters(rule, report) ==
    /\ rule.environment # Missing => rule.environment = report.environment
    /\ rule.serviceName # Missing => rule.serviceName = report.serviceName
    /\ rule.tagKey # Missing =>
         /\ report.tags # Missing
         /\ rule.tagKey \in DOMAIN report.tags /\ report.tags[rule.tagKey] = rule.tagValue

-----------------------------------------------------------------------------
(* The screen.                                                             *)

NoPost == [step |-> "none", body |-> Missing, from |-> Missing]
Creating == post # NoPost
NoRule == [row |-> Missing, from |-> Missing]

\* The form is there while a rule is composed or some are listed; what was
\* typed goes with it.
ShowForm(isComposing, list) == isComposing \/ list.some
Mounted == ShowForm(composing, drawn)

Draws(list) ==
    /\ drawn' = list
    /\ draft' = IF ShowForm(composing, list) THEN draft ELSE DefaultAlertRuleDraft

Load ==
    /\ awaited /\ awaited' = FALSE
    /\ \/ Draws([status |-> "ready", some |-> kept # NoRule])
       \/ Draws([status |-> "error", some |-> FALSE])
    /\ UNCHANGED <<composing, post, kept>>

Retry ==
    /\ drawn.status = "error" /\ ~awaited
    /\ awaited' = TRUE /\ drawn' = [drawn EXCEPT !.status = "loading"]
    /\ UNCHANGED <<draft, composing, post, kept>>

Compose ==
    /\ ~composing /\ composing' = TRUE
    /\ UNCHANGED <<draft, drawn, awaited, post, kept>>

Filled == {f \in DOMAIN FieldValues : draft[f] # DefaultAlertRuleDraft[f]}

\* Bound: the form is typed into while no rule of it is stored or on its way.
Patch(field, value) ==
    /\ Mounted /\ value # draft[field]
    /\ field \in {"thresholdCount", "thresholdWindow"} => draft.conditionType = "volume_threshold"
    /\ post = NoPost /\ kept = NoRule /\ Cardinality(Filled \cup {field}) <= MaxFilled
    /\ draft' = [draft EXCEPT ![field] = value]
    /\ UNCHANGED <<composing, drawn, awaited, post, kept>>

\* Nothing is checked before it is sent, but that nothing is under way.
Submit ==
    /\ Mounted /\ ~Creating
    /\ post' = [step |-> "sent", body |-> ToCreateAlertRuleRequest(draft), from |-> draft]
    /\ UNCHANGED <<draft, composing, drawn, awaited, kept>>

\* The API: the contract comes first, and a rule is stored as it left it. An
\* answer may be lost on its way.
Serve ==
    /\ post.step = "sent"
    /\ \/ /\ ~CreateAlertRuleRequest(post.body)
          /\ post' = [post EXCEPT !.step = "refused"] /\ UNCHANGED kept
       \/ /\ CreateAlertRuleRequest(post.body) /\ kept = NoRule
          /\ kept' = [row |-> RowOf(post.body), from |-> post.from]
          /\ \E step \in {"ok", "failed"} : post' = [post EXCEPT !.step = step]
       \/ post' = [post EXCEPT !.step = "failed"] /\ UNCHANGED kept
    /\ UNCHANGED <<draft, composing, drawn, awaited>>

\* The draft stays in the form either way.
Told ==
    /\ post.step \in {"ok", "refused", "failed"}
    /\ awaited' = (awaited \/ post.step = "ok")
    /\ post' = NoPost
    /\ UNCHANGED <<draft, composing, drawn, kept>>

-----------------------------------------------------------------------------
(* Other clients of the API.                                               *)

\* What a client may send beyond the form.
Bodies ==
    [name : {"padded", "long"}, conditionType : ConditionTypes, cooldown : {Missing, 0},
     environment : {Missing, "word"}, tagKey : {Missing, "tag", "environment"},
     tagValue : {Missing, "word", "blank"}, serviceName : {Missing},
     channels : {<<>>, <<ChannelFromDraft("telegram", "padded")>>,
                 [i \in 1..MaxChannels + 1 |-> ChannelFromDraft("webhook", "url")]},
     thresholdCount : {Missing, NaN, MaxCount, MaxCount + 1},
     thresholdWindow : {Missing, NaN, MaxCount, MaxCount + 1}]

\* Bound: their rules are made while the form is as it was given.
CreateRuleByApi ==
    /\ kept = NoRule /\ Filled = {} /\ post = NoPost
    /\ \E body \in Bodies :
         /\ CreateAlertRuleRequest(body)
         /\ kept' = [row |-> RowOf(body), from |-> Missing]
    /\ UNCHANGED <<draft, composing, drawn, awaited, post>>

\* A rule that was renamed is no longer what its draft said.
UpdateRule(change) ==
    /\ kept # NoRule /\ UpdateAlertRuleRequest(change)
    /\ kept' = [row |-> Updated(kept.row, change),
                from |-> IF change.name = Missing THEN kept.from ELSE Missing]
    /\ UNCHANGED <<draft, composing, drawn, awaited, post>>

RemoveRule ==
    /\ kept # NoRule /\ kept' = NoRule
    /\ UNCHANGED <<draft, composing, drawn, awaited, post>>

AlertRulesInit ==
    /\ draft = DefaultAlertRuleDraft
    /\ composing = FALSE
    /\ drawn = [status |-> "loading", some |-> FALSE] /\ awaited = TRUE
    /\ post = NoPost /\ kept = NoRule

AlertRulesNext ==
    \/ Load \/ Retry \/ Compose \/ Submit \/ Serve \/ Told \/ CreateRuleByApi \/ RemoveRule
    \/ \E f \in DOMAIN FieldValues : \E value \in FieldValues[f] : Patch(f, value)
    \/ \E change \in [name : {"padded", "blank"}, enabled : {FALSE}] : UpdateRule(change)

-----------------------------------------------------------------------------
(* Properties.                                                             *)

\* Every variable has its type, and a row fits its columns.
AlertRulesTypeOK ==
    /\ \A f \in DOMAIN FieldValues : draft[f] \in FieldValues[f]
    /\ {composing, awaited} \subseteq BOOLEAN
    /\ drawn.status \in {"loading", "error", "ready"} /\ (drawn.some => drawn.status = "ready")
    /\ post.step \in {"none", "sent", "ok", "refused", "failed"}
    /\ kept # NoRule =>
         /\ kept.row.name = "word" /\ kept.row.cooldown \in 1..MaxCount
         /\ \A f \in {"environment", "tagKey", "tagValue", "serviceName"} :
              kept.row[f] \in {Missing, "word", "tag", "environment"}
         /\ {kept.row.thresholdCount, kept.row.thresholdWindow} \subseteq 1..MaxCount \cup {Missing}

\* What a reader takes a text for.
Meant(s) == IF s \in {"empty", "blank"} THEN Missing ELSE IF s = "padded" THEN "word" ELSE s

\* A draft with all that its condition and its channel need.
Complete(d) ==
    /\ Meant(d.name) # Missing
    /\ IF d.channelType = "telegram" THEN Meant(d.target) # Missing ELSE d.target = "url"
    /\ d.conditionType = "volume_threshold" =>
         {d.thresholdCount.read, d.thresholdWindow.read} \subseteq 1..MaxCount

\* A form that is filled in is not refused, whatever was typed into it on the
\* way: the fields of a condition that was chosen before are not sent with
\* another (the contract would refuse them), and blank filters are left out.
FilledFormIsTaken == post.step = "refused" => ~Complete(post.from)

\* A rule that the form made is drawn as it was filled in, after the request,
\* the contract, the row and the answer: what was left blank narrows nothing,
\* and a threshold is there for a volume and for nothing else. (A number with
\* more than digits is cut short on its way.)
RuleSaysWhatWasDrafted ==
    kept.from # Missing =>
        LET d == kept.from
            v == ToAlertRuleView(kept.row)
            Drawn(key) == IF key \in DOMAIN v.filters THEN v.filters[key] ELSE Missing
        IN  /\ v.name = Meant(d.name) /\ v.cooldown = d.cooldown
            /\ Drawn("environment") = Meant(d.environment)
            /\ Drawn("service") = Meant(d.serviceName)
            /\ DOMAIN v.filters \subseteq {"environment", "service"}
            /\ Len(v.channels) = 1 /\ v.channels[1][1] = d.channelType
            /\ v.condition = IF d.conditionType = "volume_threshold"
                             THEN <<d.thresholdCount.read, d.thresholdWindow.read>>
                             ELSE <<d.conditionType>>

\* What a report says that a filter may look at.
Said == {Missing, "word", "other"}
Seen == [environment : Said, serviceName : Said,
         tags : {Missing} \cup [{"tag", "environment"} -> {"word", "other"}]]

\* The line drawn of a rule tells which reports it watches: a report has all
\* the filters on it exactly when the evaluation lets it through. The tag
\* comes as a pair, and is not named like another filter.
FiltersDrawnAreApplied ==
    LET rule == kept.row
        pills == FilterEntries(rule)
    IN  kept # NoRule /\ (rule.tagKey = Missing <=> rule.tagValue = Missing)
                      /\ rule.tagKey # "environment" =>
          \A report \in Seen :
              MatchesFilters(rule, report) <=>
              \A key \in DOMAIN pills :
                  pills[key] =
                      CASE key = "environment" -> report.environment
                        [] key = "service"     -> report.serviceName
                        [] OTHER -> IF report.tags = Missing THEN Missing ELSE report.tags[key]

\* The invariant of a rule on its way from the form to the evaluation: taken
\* when it is filled in, drawn as it was filled in, and applied as it is drawn.
AlertRulesInv ==
    AlertRulesTypeOK /\ FilledFormIsTaken /\ RuleSaysWhatWasDrafted /\ FiltersDrawnAreApplied

=============================================================================
