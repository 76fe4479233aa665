----------------------- MODULE AlertEvaluationProofs -----------------------
(***************************************************************************)
(* Proofs about AlertEvaluation, for any number of events, rules and       *)
(* overlapping calls: a rule fires once at most for an event, and a rule   *)
(* for new fingerprints once at most for a fingerprint.  And about         *)
(* Notifications, for any number of firings and channels: a channel takes  *)
(* a firing once at most.  And about AlertRules, for any bounds of its     *)
(* numbers: a rule is drawn as its form was filled in, and applied as it   *)
(* is drawn.  And about Dashboard, for any number of rows and days: the    *)
(* summary counts its window and agrees with itself.  And about            *)
(* StoredReports, for any exceptions: a stored one is grouped, listed and  *)
(* shown in detail as one and the same.  Reports, which runs them side by  *)
(* side, keeps all of this.                                                *)
(***************************************************************************)
EXTENDS Reports, FunctionTheorems, FiniteSetTheorems, NaturalsInduction, SequenceTheorems, TLAPS

\* What a call that is over has left, and what the types of a call contain.
LEMMA NoCallTyped == NoCall \in Call
  <1>1. 0 \in Times
    BY AlertAssumption DEF AlertAssumption, Times
  <1> QED BY <1>1 DEF NoCall, Call

\* Ending a call changes no other.
LEMMA FinishEffect ==
  ASSUME TypeOK, NEW c \in Calls, Finish(c)
  PROVE  /\ call' \in [Calls -> Call]
         /\ call'[c] = NoCall
         /\ \A d \in Calls : d # c => call'[d] = call[d]
  BY NoCallTyped DEF TypeOK, Finish

\* A verdict is given to one event by the rules that judge it.
LEMMA JudgedEffect ==
  ASSUME TypeOK, NEW e \in Events, NEW judged \in SUBSET Rules, NEW what \in Verdicts,
         Judged(e, judged, what)
  PROVE  /\ verdict' \in [Events -> [Rules -> Verdicts]]
         /\ \A f \in Events, r \in Rules :
              verdict'[f][r] = IF f = e /\ r \in judged THEN what ELSE verdict[f][r]
  <1> DEFINE given == [r \in Rules |-> IF r \in judged THEN what ELSE verdict[e][r]]
  <1>1. verdict \in [Events -> [Rules -> Verdicts]]
    BY DEF TypeOK
  <1>2. verdict' = [verdict EXCEPT ![e] = given]
    BY DEF Judged
  <1>3. given \in [Rules -> Verdicts]
    BY <1>1
  <1>4. \A r \in Rules : given[r] = IF r \in judged THEN what ELSE verdict[e][r]
    OBVIOUS
  <1> HIDE DEF given
  <1> QED BY <1>1, <1>2, <1>3, <1>4

\* An evaluating call has an event, which is not Null.
LEMMA EvaluatingHasEvent ==
  ASSUME TypeOK, OneEvaluation, NEW c \in Calls, Evaluating(c)
  PROVE  call[c].event \in Events /\ call[c].event \in Stored
  BY DEF OneEvaluation, Stored

\* The recorded firings are records of events.
LEMMA FiringTyped ==
  ASSUME TypeOK, NEW r \in Rules, NEW n \in DOMAIN fired[r]
  PROVE  fired[r][n] \in Firing /\ fired[r][n].event \in Events
  <1>1. fired[r] \in Seq(Firing)
    BY DEF TypeOK
  <1>2. fired[r][n] \in Firing
    BY <1>1
  <1> QED BY <1>2 DEF Firing

\* In the initial state nothing is stored, judged or under way.
LEMMA AlertInitInv == Init => AlertInv
  <1> SUFFICES ASSUME Init PROVE AlertInv
    OBVIOUS
  <1> USE DEF Init
  <1>1. \A c \in Calls : /\ call[c] = NoCall /\ call[c].step = "idle"
                         /\ call[c].firing = Null /\ call[c].event = Null
    BY DEF NoCall
  <1>2. TypeOK
    <2>1. now \in Times
      BY AlertAssumption DEF AlertAssumption, Times
    <2>2. fired \in [Rules -> Seq(Firing)]
      OBVIOUS
    <2>3. call \in [Calls -> Call]
      BY NoCallTyped
    <2>4. verdict \in [Events -> [Rules -> Verdicts]]
      BY DEF Verdicts
    <2> QED BY <1>1, <2>1, <2>2, <2>3, <2>4 DEF TypeOK, Consistent
  <1>3. OneEvaluation
    BY <1>1 DEF OneEvaluation, Evaluating
  <1>4. PendingUnjudged
    BY <1>1 DEF PendingUnjudged, Evaluating
  <1>5. FiringsAreVerdicts /\ NotifiedOnce
    BY DEF FiringsAreVerdicts, NotifiedOnce
  <1>6. OneClaim
    BY <1>1 DEF OneClaim, Claimed
  <1> QED BY <1>2, <1>3, <1>4, <1>5, <1>6 DEF AlertInv

\* A step that fires nothing and decides no firing: calls only move on or end,
\* and the verdicts given are of rules no call has still to judge.
LEMMA NothingFired ==
  ASSUME AlertInv, UNCHANGED <<receivedAt, fired>>,
         \A d \in Calls : Evaluating(d)' =>
           /\ Evaluating(d) /\ call'[d].event = call[d].event /\ Pending(d)' \subseteq Pending(d),
         \A d \in Calls : call'[d].step = "fire" =>
           /\ call[d].step = "fire" /\ call'[d].event = call[d].event
           /\ call'[d].firing = call[d].firing /\ call[d].firing \in call'[d].rules,
         \A e \in Events, r \in Rules :
           \/ verdict'[e][r] = verdict[e][r]
           \/ /\ verdict[e][r] = "none" /\ verdict'[e][r] # "fired" /\ e \in Stored
              /\ \A d \in Calls : Evaluating(d)' /\ call'[d].event = e => r \notin Pending(d)'
  PROVE  /\ OneEvaluation' /\ PendingUnjudged'
         /\ FiringsAreVerdicts' /\ NotifiedOnce' /\ OneClaim'
  <1> USE DEF AlertInv
  <1>1. Stored' = Stored
    BY DEF Stored
  <1>2. OneEvaluation'
    BY <1>1 DEF OneEvaluation
  <1>3. PendingUnjudged'
    <2>1. \A e \in Events \ Stored' : \A r \in Rules : verdict'[e][r] = "none"
      BY <1>1 DEF PendingUnjudged
    <2>2. ASSUME NEW c \in Calls, Evaluating(c)', NEW r \in Pending(c)'
          PROVE  verdict'[call'[c].event][r] = "none"
      <3>1. Evaluating(c) /\ call'[c].event = call[c].event /\ r \in Pending(c)
        BY <2>2
      <3>2. call[c].event \in Events /\ r \in Rules
        BY <3>1 DEF OneEvaluation, Stored, Pending, TypeOK, Call
      <3>3. verdict[call[c].event][r] = "none"
        BY <3>1 DEF PendingUnjudged
      <3> QED BY <2>2, <3>1, <3>2, <3>3
    <2> QED BY <2>1, <2>2 DEF PendingUnjudged
  <1>4. ASSUME NEW e \in Events, NEW r \in Rules
        PROVE  verdict'[e][r] = "fired" <=> verdict[e][r] = "fired"
    OBVIOUS
  <1>5. FiringsAreVerdicts'
    <2>1. \A r \in Rules : \A n \in DOMAIN fired[r] : fired[r][n].event \in Events
      BY FiringTyped
    <2> QED BY <1>4, <2>1 DEF FiringsAreVerdicts
  <1>6. NotifiedOnce'
    BY DEF NotifiedOnce
  <1>7. \A r \in Rules, e \in Events : Claimed(r, e)' => Claimed(r, e)
    BY <1>4 DEF Claimed
  <1>8. OneClaim'
    BY <1>7 DEF OneClaim
  <1> QED BY <1>2, <1>3, <1>5, <1>6, <1>8

\* TypeOK of the next state when a step changes no more than one call and the
\* verdicts.
LEMMA TypeByCall ==
  ASSUME TypeOK, UNCHANGED <<now, receivedAt, rule, lastFiredAt, fired>>,
         NEW c \in Calls, NEW new \in Call, call' = [call EXCEPT ![c] = new],
         Consistent(new),
         verdict' \in [Events -> [Rules -> Verdicts]]
  PROVE  TypeOK'
  <1>1. call' \in [Calls -> Call] /\ \A d \in Calls : call'[d] = IF d = c THEN new ELSE call[d]
    BY DEF TypeOK
  <1>2. \A d \in Calls : Consistent(call'[d])
    BY <1>1 DEF TypeOK
  <1>3. \A d \in Calls : Consistent(call[d])'
    BY <1>2 DEF Consistent, NoCall
  <1> QED BY <1>1, <1>3 DEF TypeOK

\* The invariant of the next state when a step of one call fires nothing: it
\* keeps its event, has no more to judge than before, and the verdicts given
\* are of rules it had to judge and has not any more.
LEMMA QuietStep ==
  ASSUME AlertInv, UNCHANGED <<now, receivedAt, rule, lastFiredAt, fired>>,
         NEW c \in Calls, NEW new \in Call, call' = [call EXCEPT ![c] = new],
         Consistent(new),
         Evaluating(c)' => /\ Evaluating(c) /\ new.event = call[c].event
                           /\ Pending(c)' \subseteq Pending(c),
         new.step = "fire" => call[c].step = "fire" /\ new = call[c],
         verdict' \in [Events -> [Rules -> Verdicts]],
         \A e \in Events, r \in Rules :
           \/ verdict'[e][r] = verdict[e][r]
           \/ /\ verdict[e][r] = "none" /\ verdict'[e][r] # "fired"
              /\ Evaluating(c) /\ e = call[c].event
              /\ Evaluating(c)' => r \notin Pending(c)'
  PROVE  AlertInv'
  <1> USE DEF AlertInv
  <1>1. TypeOK'
    BY TypeByCall
  <1>2. call'[c] = new /\ \A d \in Calls : d # c => call'[d] = call[d]
    BY DEF TypeOK
  <1>3. ASSUME NEW d \in Calls, Evaluating(d)'
        PROVE  /\ Evaluating(d) /\ call'[d].event = call[d].event
               /\ Pending(d)' \subseteq Pending(d)
    <2>1. CASE d = c
      BY <1>2, <1>3, <2>1
    <2>2. CASE d # c
      BY <1>2, <1>3, <2>2 DEF Evaluating, Pending
    <2> QED BY <2>1, <2>2
  <1>4. ASSUME NEW d \in Calls, call'[d].step = "fire"
        PROVE  /\ call[d].step = "fire" /\ call'[d].event = call[d].event
               /\ call'[d].firing = call[d].firing /\ call[d].firing \in call'[d].rules
    <2>1. call[d].step = "fire" /\ call'[d] = call[d]
      BY <1>2, <1>4
    <2> QED BY <2>1 DEF PendingUnjudged
  <1>5. ASSUME NEW e \in Events, NEW r \in Rules
        PROVE  \/ verdict'[e][r] = verdict[e][r]
               \/ /\ verdict[e][r] = "none" /\ verdict'[e][r] # "fired" /\ e \in Stored
                  /\ \A d \in Calls : Evaluating(d)' /\ call'[d].event = e => r \notin Pending(d)'
    <2>1. CASE verdict'[e][r] = verdict[e][r]
      BY <2>1
    <2>2. CASE verdict'[e][r] # verdict[e][r]
      <3>1. /\ verdict[e][r] = "none" /\ verdict'[e][r] # "fired"
            /\ Evaluating(c) /\ e = call[c].event
            /\ Evaluating(c)' => r \notin Pending(c)'
        BY <2>2
      <3>2. e \in Stored
        BY <3>1 DEF OneEvaluation
      <3>3. ASSUME NEW d \in Calls, Evaluating(d)', call'[d].event = e
            PROVE  r \notin Pending(d)'
        <4>1. Evaluating(d) /\ call[d].event = e
          BY <1>3, <3>3
        <4>2. d = c
          BY <3>1, <4>1 DEF OneEvaluation
        <4> QED BY <3>1, <3>3, <4>2
      <3> QED BY <3>1, <3>2, <3>3
    <2> QED BY <2>1, <2>2
  <1>6. OneEvaluation' /\ PendingUnjudged' /\ FiringsAreVerdicts' /\ NotifiedOnce' /\ OneClaim'
    BY <1>3, <1>4, <1>5, NothingFired
  <1> QED BY <1>1, <1>6

\* A call that ends, leaving verdicts behind only for what it had to judge.
LEMMA EndKeepsInv ==
  ASSUME AlertInv, NEW c \in Calls, Finish(c),
         UNCHANGED <<now, receivedAt, rule, lastFiredAt, fired>>,
         verdict' \in [Events -> [Rules -> Verdicts]],
         \A e \in Events, r \in Rules :
           \/ verdict'[e][r] = verdict[e][r]
           \/ /\ verdict[e][r] = "none" /\ verdict'[e][r] # "fired"
              /\ Evaluating(c) /\ e = call[c].event
  PROVE  AlertInv'
  <1>1. /\ NoCall \in Call /\ call' = [call EXCEPT ![c] = NoCall]
        /\ NoCall.step = "idle" /\ Consistent(NoCall)
    BY NoCallTyped DEF Finish, NoCall, Consistent
  <1>2. call'[c] = NoCall /\ ~Evaluating(c)'
    BY <1>1 DEF AlertInv, TypeOK, Evaluating
  <1> QED BY <1>1, <1>2, QuietStep

\* Giving up on an event: the rules without a verdict get the one of a failure.
LEMMA GiveUpEffect ==
  ASSUME TypeOK, NEW e \in Events, GiveUp(e)
  PROVE  /\ verdict' \in [Events -> [Rules -> Verdicts]]
         /\ \A f \in Events, r \in Rules :
              \/ verdict'[f][r] = verdict[f][r]
              \/ verdict[f][r] = "none" /\ verdict'[f][r] = "failed" /\ f = e
  <1> DEFINE given == [r \in Rules |-> IF verdict[e][r] = "none" THEN "failed" ELSE verdict[e][r]]
  <1>1. verdict \in [Events -> [Rules -> Verdicts]]
    BY DEF TypeOK
  <1>2. verdict' = [verdict EXCEPT ![e] = given]
    BY DEF GiveUp
  <1>3. given \in [Rules -> Verdicts]
    BY <1>1 DEF Verdicts
  <1>4. \A r \in Rules : given[r] = IF verdict[e][r] = "none" THEN "failed" ELSE verdict[e][r]
    OBVIOUS
  <1> HIDE DEF given
  <1> QED BY <1>1, <1>2, <1>3, <1>4

LEMMA ReceiveKeepsInv ==
  ASSUME AlertInv, NEW c \in Calls, NEW e \in Events, Receive(c, e)
  PROVE  AlertInv'
  <1>1. call[c] \in Call /\ call[c].step = "idle" /\ call[c].firing = Null
    BY DEF Receive, AlertInv, TypeOK, Consistent
  <1>2. PICK new \in Call : /\ call' = [call EXCEPT ![c] = new]
                            /\ new.step = "create" /\ Consistent(new)
    <2> DEFINE begun == [call[c] EXCEPT !.step = "create", !.event = e]
    <2>1. begun \in Call /\ begun.step = "create" /\ Consistent(begun)
      BY <1>1, AlertAssumption DEF Call, Consistent, AlertAssumption
    <2>2. call' = [call EXCEPT ![c] = begun]
      BY DEF Receive
    <2> QED BY <2>1, <2>2
  <1>3. ~Evaluating(c)'
    BY <1>2 DEF Evaluating, AlertInv, TypeOK
  <1>4. UNCHANGED <<now, receivedAt, rule, lastFiredAt, fired>> /\ UNCHANGED verdict
    BY DEF Receive, table, history
  <1>5. verdict' \in [Events -> [Rules -> Verdicts]]
    BY <1>4 DEF AlertInv, TypeOK
  <1>6. \A f \in Events, r \in Rules : verdict'[f][r] = verdict[f][r]
    BY <1>4
  <1> QED BY <1>2, <1>3, <1>4, <1>5, <1>6, QuietStep

\* Both branches of the create: a replay ends the call; a new report is stored
\* without a verdict and is no other call's event.
LEMMA CreateKeepsInv ==
  ASSUME AlertInv, NEW c \in Calls, Create(c)
  PROVE  AlertInv'
  <1> DEFINE e == call[c].event
  <1> USE DEF AlertInv
  <1>1. UNCHANGED <<now, rule, lastFiredAt, fired, verdict>>
    BY DEF Create, history
  <1>2. CASE e \in Stored
    <2>1. Finish(c) /\ UNCHANGED receivedAt
      BY <1>2 DEF Create
    <2> QED BY <1>1, <2>1, EndKeepsInv DEF TypeOK
  <1>3. CASE e \notin Stored
    <2>1. call[c] \in Call /\ call[c].step = "create" /\ call[c].firing = Null
      BY DEF Create, TypeOK, Consistent
    <2>2. PICK new \in Call : /\ call' = [call EXCEPT ![c] = new]
                              /\ new.step = "rules" /\ new.event = e /\ new.firing = Null
      <3>1. [call[c] EXCEPT !.step = "rules"] \in Call
        BY <2>1 DEF Call
      <3> QED BY <1>3, <2>1, <3>1 DEF Create, Call
    <2>3. receivedAt' = [receivedAt EXCEPT ![e] = now] /\ now # Null
      BY <1>3, AlertAssumption DEF Create, TypeOK, Times, AlertAssumption
    <2>4. /\ call' \in [Calls -> Call] /\ call'[c] = new
          /\ \A d \in Calls : d # c => call'[d] = call[d]
      BY <2>2 DEF TypeOK
    <2>5. e \in Events
      BY <2>1 DEF Call, Create, TypeOK, Consistent
    <2>6. Stored' = Stored \cup {e}
      BY <2>3, <2>5 DEF Stored, TypeOK
    <2>7. TypeOK'
      <3>1. receivedAt' \in [Events -> Times \cup {Null}]
        BY <2>3 DEF TypeOK
      <3>2. \A d \in Calls : Consistent(call'[d])
        BY <2>1, <2>2, <2>4, <2>5 DEF TypeOK, Consistent
      <3> QED BY <1>1, <2>4, <3>1, <3>2 DEF TypeOK
    <2>8. OneEvaluation'
      BY <1>3, <2>2, <2>4, <2>6 DEF OneEvaluation, Evaluating
    <2>9. PendingUnjudged'
      <3>1. \A r \in Rules : verdict[e][r] = "none"
        BY <1>3, <2>5 DEF PendingUnjudged
      <3> QED BY <1>1, <2>2, <2>4, <2>6, <3>1 DEF PendingUnjudged, Evaluating, Pending
    <2>10. FiringsAreVerdicts' /\ NotifiedOnce'
      BY <1>1 DEF FiringsAreVerdicts, NotifiedOnce
    <2>11. OneClaim'
      BY <1>1, <2>2, <2>4 DEF OneClaim, Claimed
    <2> QED BY <2>7, <2>8, <2>9, <2>10, <2>11
  <1> QED BY <1>2, <1>3

\* A rule deleted in the middle, the receipt and a lost call end the call.
LEMMA FireDeletedKeepsInv ==
  ASSUME AlertInv, NEW c \in Calls, FireDeleted(c) PROVE AlertInv'
  <1>1. /\ Evaluating(c) /\ Finish(c) /\ GiveUp(call[c].event)
        /\ UNCHANGED <<now, receivedAt, rule, lastFiredAt, fired>>
    BY DEF FireDeleted, Evaluating, table
  <1>2. call[c].event \in Events
    BY <1>1, EvaluatingHasEvent DEF AlertInv
  <1> QED BY <1>1, <1>2, GiveUpEffect, EndKeepsInv DEF AlertInv

LEMMA ReceiptKeepsInv ==
  ASSUME AlertInv, NEW c \in Calls, Receipt(c) PROVE AlertInv'
  <1>1. /\ Finish(c) /\ UNCHANGED <<now, receivedAt, rule, lastFiredAt, fired>>
        /\ UNCHANGED verdict
    BY DEF Receipt, table, history
  <1> QED BY <1>1, EndKeepsInv DEF AlertInv, TypeOK

LEMMA LoseCallKeepsInv ==
  ASSUME AlertInv, NEW c \in Calls, LoseCall(c) PROVE AlertInv'
  <1>1. Finish(c) /\ UNCHANGED <<now, receivedAt, rule, lastFiredAt, fired>>
    BY DEF LoseCall, table
  <1>2. CASE call[c].step = "create"
    <2>1. UNCHANGED verdict
      BY <1>2 DEF LoseCall
    <2> QED BY <1>1, <2>1, EndKeepsInv DEF AlertInv, TypeOK
  <1>3. CASE call[c].step # "create"
    <2>1. Evaluating(c) /\ GiveUp(call[c].event)
      BY <1>3 DEF LoseCall, Evaluating, AlertInv, TypeOK, Call
    <2>2. call[c].event \in Events
      BY <2>1, EvaluatingHasEvent DEF AlertInv
    <2> QED BY <1>1, <2>1, <2>2, GiveUpEffect, EndKeepsInv DEF AlertInv
  <1> QED BY <1>2, <1>3

\* The rules that were read are all still to be judged; the others never are.
LEMMA ReadRulesKeepsInv ==
  ASSUME AlertInv, NEW c \in Calls, ReadRules(c) PROVE AlertInv'
  <1> DEFINE enabled == {r \in Rules : rule[r] = "enabled"}
  <1> USE DEF AlertInv
  <1>1. /\ call[c].step = "rules" /\ Evaluating(c) /\ call[c].event \in Events
        /\ UNCHANGED <<now, receivedAt, rule, lastFiredAt, fired>>
    BY EvaluatingHasEvent DEF ReadRules, Evaluating, table
  <1>2. PICK e \in Events, unread \in SUBSET Rules :
          e = call[c].event /\ unread = Rules \ enabled /\ Judged(e, unread, "unread")
    BY <1>1 DEF ReadRules, Judged
  <1>3. /\ verdict' \in [Events -> [Rules -> Verdicts]]
        /\ \A f \in Events, r \in Rules :
             verdict'[f][r] = IF f = e /\ r \in unread THEN "unread" ELSE verdict[f][r]
    <2>1. "unread" \in Verdicts
      BY DEF Verdicts
    <2> QED BY <1>1, <1>2, <2>1, JudgedEffect
  <1>4. \A r \in Rules : verdict[e][r] = "none"
    BY <1>1, <1>2 DEF PendingUnjudged, Pending
  <1>5. CASE enabled = {}
    <2>1. Finish(c)
      BY <1>5 DEF ReadRules
    <2> QED BY <1>1, <1>2, <1>3, <1>4, <2>1, EndKeepsInv
  <1>6. CASE enabled # {}
    <2>1. call[c] \in Call /\ Consistent(call[c])
      BY DEF TypeOK
    <2>2. PICK new \in Call : /\ call' = [call EXCEPT ![c] = new] /\ Consistent(new)
                              /\ new.step = "project" /\ new.event = e /\ new.rules = enabled
      <3> DEFINE quietFrom == [r \in Rules |-> IF r \in enabled THEN lastFiredAt[r] ELSE Null]
                 seen == [r \in Rules |-> IF r \in enabled THEN Len(fired[r]) ELSE 0]
                 read == [call[c] EXCEPT !.step = "project", !.rules = enabled,
                                         !.quietFrom = quietFrom, !.seen = seen]
      <3>1. quietFrom \in [Rules -> Times \cup {Null}]
        BY DEF TypeOK
      <3>2. seen \in [Rules -> Nat]
        BY DEF TypeOK
      <3>3. call' = [call EXCEPT ![c] = read]
        BY <1>6 DEF ReadRules
      <3> HIDE DEF quietFrom, seen
      <3>4. read \in Call /\ Consistent(read) /\ read.step = "project" /\ read.event = e
            /\ read.rules = enabled
        BY <1>1, <1>2, <2>1, <3>1, <3>2 DEF Call, Consistent
      <3> QED BY <3>3, <3>4
    <2>3. call'[c] = new /\ Pending(c)' = enabled
      BY <2>2 DEF TypeOK, Pending
    <2>4. Pending(c) = Rules
      BY <1>1 DEF Pending
    <2>5. \A f \in Events, r \in Rules :
            \/ verdict'[f][r] = verdict[f][r]
            \/ /\ verdict[f][r] = "none" /\ verdict'[f][r] # "fired"
               /\ Evaluating(c) /\ f = call[c].event
               /\ Evaluating(c)' => r \notin Pending(c)'
      BY <1>1, <1>2, <1>3, <1>4, <2>3
    <2>6. Pending(c)' \subseteq Pending(c)
      BY <2>3, <2>4
    <2>7. new.event = call[c].event /\ new.step # "fire"
      BY <1>2, <2>2
    <2> HIDE DEF enabled
    <2> QED BY <1>1, <1>3, <2>2, <2>5, <2>6, <2>7, QuietStep
  <1> QED BY <1>5, <1>6

LEMMA ReadClockKeepsInv ==
  ASSUME AlertInv, NEW c \in Calls, ReadClock(c) PROVE AlertInv'
  <1> USE DEF AlertInv
  <1>1. /\ call[c].step = "project" /\ Evaluating(c) /\ call[c] \in Call /\ Consistent(call[c])
        /\ UNCHANGED <<now, receivedAt, rule, lastFiredAt, fired>> /\ UNCHANGED verdict
    BY DEF ReadClock, Evaluating, table, history, TypeOK
  <1>2. PICK new \in Call : /\ call' = [call EXCEPT ![c] = new] /\ Consistent(new)
                            /\ new.step = "judge" /\ new.event = call[c].event
                            /\ new.rules = call[c].rules
    <2> DEFINE timed == [call[c] EXCEPT !.step = "judge", !.at = now]
    <2>1. timed \in Call /\ Consistent(timed) /\ timed.step = "judge"
          /\ timed.event = call[c].event /\ timed.rules = call[c].rules
      BY <1>1 DEF Call, Consistent, TypeOK
    <2>2. call' = [call EXCEPT ![c] = timed]
      BY DEF ReadClock
    <2> QED BY <2>1, <2>2
  <1>3. call'[c] = new /\ Pending(c)' = Pending(c)
    BY <1>1, <1>2 DEF TypeOK, Pending
  <1>4. verdict' \in [Events -> [Rules -> Verdicts]]
    BY <1>1 DEF TypeOK
  <1> QED BY <1>1, <1>2, <1>3, <1>4, QuietStep

\* A verdict of one rule.
LEMMA JudgedByOne ==
  ASSUME TypeOK, NEW e \in Events, NEW r \in Rules, NEW what \in Verdicts,
         Judged(e, {r}, what)
  PROVE  /\ verdict' \in [Events -> [Rules -> Verdicts]]
         /\ \A f \in Events, q \in Rules :
              verdict'[f][q] = IF f = e /\ q = r THEN what ELSE verdict[f][q]
  <1> DEFINE given == [q \in Rules |-> IF q = r THEN what ELSE verdict[e][q]]
  <1>1. verdict \in [Events -> [Rules -> Verdicts]]
    BY DEF TypeOK
  <1>2. verdict' = [verdict EXCEPT ![e] = given]
    BY DEF Judged
  <1>3. given \in [Rules -> Verdicts]
    BY <1>1
  <1>4. \A q \in Rules : given[q] = IF q = r THEN what ELSE verdict[e][q]
    OBVIOUS
  <1> HIDE DEF given
  <1> QED BY <1>1, <1>2, <1>3, <1>4

\* A rule is judged not to fire: it is filtered, quiet or its condition unmet.
LEMMA DropKeepsInv ==
  ASSUME AlertInv, NEW c \in Calls, NEW r \in Rules, NEW what \in Verdicts, what # "fired",
         call[c].step = "judge", r \in call[c].rules,
         call' = [call EXCEPT ![c].rules = @ \ {r}],
         verdict' \in [Events -> [Rules -> Verdicts]],
         \A f \in Events, q \in Rules :
           verdict'[f][q] = IF f = call[c].event /\ q = r THEN what ELSE verdict[f][q],
         UNCHANGED <<now, receivedAt, rule, lastFiredAt, fired>>
  PROVE  AlertInv'
  <1> USE DEF AlertInv
  <1>1. Evaluating(c) /\ call[c] \in Call /\ Consistent(call[c]) /\ Pending(c) = call[c].rules
    BY DEF Evaluating, TypeOK, Pending
  <1>2. PICK e \in Events : e = call[c].event
    BY <1>1, EvaluatingHasEvent
  <1>3. /\ verdict' \in [Events -> [Rules -> Verdicts]]
        /\ \A f \in Events, q \in Rules :
             verdict'[f][q] = IF f = e /\ q = r THEN what ELSE verdict[f][q]
    BY <1>2
  <1>4. PICK new \in Call : /\ call' = [call EXCEPT ![c] = new] /\ Consistent(new)
                            /\ new.step = "judge" /\ new.event = call[c].event
                            /\ new.rules = call[c].rules \ {r}
    <2> DEFINE less == [call[c] EXCEPT !.rules = @ \ {r}]
    <2>1. less \in Call /\ Consistent(less) /\ less.step = "judge"
          /\ less.event = call[c].event /\ less.rules = call[c].rules \ {r}
      BY <1>1 DEF Call, Consistent
    <2>2. call' = [call EXCEPT ![c] = less]
      OBVIOUS
    <2> QED BY <2>1, <2>2
  <1>5. call'[c] = new /\ Pending(c)' = call[c].rules \ {r}
    BY <1>4 DEF TypeOK, Pending
  <1>6. verdict[e][r] = "none"
    BY <1>1, <1>2 DEF PendingUnjudged
  <1>7. \A f \in Events, q \in Rules :
          \/ verdict'[f][q] = verdict[f][q]
          \/ /\ verdict[f][q] = "none" /\ verdict'[f][q] # "fired"
             /\ Evaluating(c) /\ f = call[c].event
             /\ Evaluating(c)' => q \notin Pending(c)'
    BY <1>1, <1>2, <1>3, <1>5, <1>6
  <1>8. Evaluating(c)' => Evaluating(c) /\ new.event = call[c].event /\ Pending(c)' \subseteq Pending(c)
    BY <1>1, <1>4, <1>5
  <1>9. new.step # "fire"
    BY <1>4
  <1> QED BY ONLY AlertInv, c \in Calls, new \in Call, <1>3, <1>4, <1>7, <1>8, <1>9, QuietStep,
                  UNCHANGED <<now, receivedAt, rule, lastFiredAt, fired>>

LEMMA PassOverKeepsInv ==
  ASSUME AlertInv, NEW c \in Calls, NEW r \in Rules, PassOver(c, r) PROVE AlertInv'
  <1>1. /\ call[c].step = "judge" /\ r \in call[c].rules
        /\ call' = [call EXCEPT ![c].rules = @ \ {r}]
        /\ UNCHANGED <<now, receivedAt, rule, lastFiredAt, fired>>
    BY DEF PassOver, table
  <1>2. PICK e \in Events : e = call[c].event
    BY <1>1, EvaluatingHasEvent DEF AlertInv, Evaluating
  <1>3. PICK what \in Verdicts : what # "fired" /\ Judged(e, {r}, what)
    <2>1. CASE e \in Matching[r]
      BY <1>2, <2>1 DEF PassOver, Judged, Verdicts
    <2>2. CASE e \notin Matching[r]
      BY <1>2, <2>2 DEF PassOver, Judged, Verdicts
    <2> QED BY <2>1, <2>2
  <1>4. /\ verdict' \in [Events -> [Rules -> Verdicts]]
        /\ \A f \in Events, q \in Rules :
             verdict'[f][q] = IF f = e /\ q = r THEN what ELSE verdict[f][q]
    BY <1>3, JudgedByOne DEF AlertInv
  <1>5. \A f \in Events, q \in Rules :
          verdict'[f][q] = IF f = call[c].event /\ q = r THEN what ELSE verdict[f][q]
    BY <1>2, <1>4
  <1> QED BY <1>1, <1>3, <1>4, <1>5, DropKeepsInv

\* A rule for new fingerprints that will fire found no other report like this
\* one, and every event it has been claimed for is stored.
LEMMA JudgeKeepsInv ==
  ASSUME AlertInv, NEW c \in Calls, NEW r \in Rules, Judge(c, r) PROVE AlertInv'
  <1> DEFINE e == call[c].event
  <1> USE DEF AlertInv
  <1>1. /\ call[c].step = "judge" /\ r \in call[c].rules
        /\ UNCHANGED <<now, receivedAt, rule, lastFiredAt, fired>>
    BY DEF Judge, table
  <1>2. CASE ~ConditionMet(r, e)
    <2>1. PICK ev \in Events : ev = e
      BY <1>1, EvaluatingHasEvent DEF Evaluating
    <2>2. call' = [call EXCEPT ![c].rules = @ \ {r}] /\ Judged(ev, {r}, "unmet")
      BY <1>2, <2>1 DEF Judge, Judged
    <2>3. "unmet" \in Verdicts /\ "unmet" # "fired"
      BY DEF Verdicts
    <2>4. /\ verdict' \in [Events -> [Rules -> Verdicts]]
          /\ \A f \in Events, q \in Rules :
               verdict'[f][q] = IF f = ev /\ q = r THEN "unmet" ELSE verdict[f][q]
      BY <2>2, <2>3, JudgedByOne
    <2>5. \A f \in Events, q \in Rules :
            verdict'[f][q] = IF f = call[c].event /\ q = r THEN "unmet" ELSE verdict[f][q]
      BY <2>1, <2>4
    <2> QED BY <1>1, <2>2, <2>3, <2>4, <2>5, DropKeepsInv
  <1>3. CASE ConditionMet(r, e)
    <2>1. Evaluating(c) /\ call[c] \in Call /\ Consistent(call[c])
      BY <1>1 DEF Evaluating, TypeOK
    <2>2. e \in Events /\ e \in Stored
      BY <2>1, EvaluatingHasEvent
    <2>3. PICK new \in Call : /\ call' = [call EXCEPT ![c] = new] /\ Consistent(new)
                              /\ new.step = "fire" /\ new.event = e
                              /\ new.rules = call[c].rules /\ new.firing = r
      <3> DEFINE decided == [call[c] EXCEPT !.step = "fire", !.firing = r]
      <3>1. decided \in Call /\ Consistent(decided) /\ decided.step = "fire"
            /\ decided.event = e /\ decided.rules = call[c].rules /\ decided.firing = r
        BY <1>1, <2>1, AlertAssumption DEF Call, Consistent, AlertAssumption
      <3>2. call' = [call EXCEPT ![c] = decided]
        BY <1>3 DEF Judge
      <3> QED BY <3>1, <3>2
    <2>4. /\ call' \in [Calls -> Call] /\ call'[c] = new
          /\ \A d \in Calls : d # c => call'[d] = call[d]
      BY <2>3 DEF TypeOK
    <2>5. UNCHANGED verdict /\ Stored' = Stored
      BY <1>1, <1>3 DEF Judge, Stored
    <2>6. TypeOK'
      <3>1. verdict' \in [Events -> [Rules -> Verdicts]]
        BY <2>5 DEF TypeOK
      <3> QED BY <1>1, <2>3, <3>1, TypeByCall
    <2>7. OneEvaluation'
      BY <1>1, <2>3, <2>4, <2>5 DEF OneEvaluation, Evaluating
    <2>8. PendingUnjudged'
      BY <1>1, <2>3, <2>4, <2>5 DEF PendingUnjudged, Evaluating, Pending
    <2>9. FiringsAreVerdicts' /\ NotifiedOnce'
      BY <1>1, <2>5 DEF FiringsAreVerdicts, NotifiedOnce
    <2>10. ASSUME NEW q \in Rules, NEW f \in Events, Claimed(q, f)'
           PROVE  Claimed(q, f) \/ (q = r /\ f = e)
      BY <2>3, <2>4, <2>5, <2>10 DEF Claimed
    <2>11. \A q \in Rules, f \in Events : Claimed(q, f) => f \in Stored
      BY DEF Claimed, PendingUnjudged, OneEvaluation, Evaluating
    <2>12. Condition[r] = "new_fingerprint" =>
             \A f \in Stored : Fingerprint[f] = Fingerprint[e] => f = e
      BY <1>3 DEF ConditionMet, OthersLike
    <2>13. OneClaim'
      BY <2>2, <2>10, <2>11, <2>12 DEF OneClaim
    <2> QED BY <2>6, <2>7, <2>8, <2>9, <2>13
  <1> QED BY <1>2, <1>3

\* The firing is appended for an event the rule had no verdict about, so that
\* none of the earlier ones is of this event.
LEMMA FireKeepsInv ==
  ASSUME AlertInv, NEW c \in Calls, Fire(c) PROVE AlertInv'
  <1> USE DEF AlertInv
  <1>1. /\ call[c].step = "fire" /\ Evaluating(c) /\ call[c] \in Call /\ Consistent(call[c])
        /\ UNCHANGED <<now, receivedAt, rule>>
    BY DEF Fire, Evaluating, TypeOK
  <1>2. PICK e \in Events, r \in Rules : /\ e = call[c].event /\ r = call[c].firing
                                         /\ e \in Stored /\ r \in call[c].rules
    BY <1>1, EvaluatingHasEvent DEF PendingUnjudged, Call, Consistent
  <1>3. PICK f \in Firing : f.event = e /\ fired' = [fired EXCEPT ![r] = Append(fired[r], f)]
    <2> DEFINE firing == [event |-> e, at |-> call[c].at, seen |-> call[c].seen[r]]
    <2>1. firing \in Firing /\ firing.event = e
      BY <1>1 DEF Firing, Call
    <2>2. fired' = [fired EXCEPT ![r] = Append(fired[r], firing)]
      BY <1>2 DEF Fire
    <2> QED BY <2>1, <2>2
  <1>4. /\ fired' \in [Rules -> Seq(Firing)]
        /\ fired'[r] = Append(fired[r], f)
        /\ \A q \in Rules : q # r => fired'[q] = fired[q]
    BY <1>3 DEF TypeOK
  <1>5. /\ verdict' \in [Events -> [Rules -> Verdicts]]
        /\ \A g \in Events, q \in Rules :
             verdict'[g][q] = IF g = e /\ q = r THEN "fired" ELSE verdict[g][q]
    <2>1. "fired" \in Verdicts /\ Judged(e, {r}, "fired")
      BY <1>2 DEF Fire, Judged, Verdicts
    <2> QED BY <2>1, JudgedByOne
  <1>6. PICK new \in Call : /\ call' = [call EXCEPT ![c] = new] /\ Consistent(new)
                            /\ new.step = "judge" /\ new.event = e
                            /\ new.rules = call[c].rules \ {r}
    <2> DEFINE done == [call[c] EXCEPT !.step = "judge", !.rules = @ \ {r}, !.firing = Null]
    <2>1. done \in Call /\ Consistent(done) /\ done.step = "judge"
          /\ done.event = e /\ done.rules = call[c].rules \ {r}
      BY <1>1, <1>2 DEF Call, Consistent
    <2>2. call' = [call EXCEPT ![c] = done]
      BY <1>2 DEF Fire
    <2> QED BY <2>1, <2>2
  <1>7. /\ call' \in [Calls -> Call] /\ call'[c] = new
        /\ \A d \in Calls : d # c => call'[d] = call[d]
    BY <1>6 DEF TypeOK
  <1>8. Stored' = Stored /\ verdict[e][r] = "none"
    BY <1>1, <1>2 DEF Stored, PendingUnjudged, Pending
  <1>9. TypeOK'
    <2>1. \A d \in Calls : Consistent(call'[d])
      BY <1>6, <1>7 DEF TypeOK
    <2>2. \A d \in Calls : Consistent(call[d])'
      BY <2>1 DEF Consistent, NoCall
    <2>3. lastFiredAt' \in [Rules -> Times \cup {Null}]
      BY <1>1, <1>2 DEF Fire, FiredAt, TypeOK, Call
    <2> QED BY <1>1, <1>4, <1>5, <1>7, <2>2, <2>3 DEF TypeOK
  <1>10. OneEvaluation'
    BY <1>1, <1>2, <1>6, <1>7, <1>8 DEF OneEvaluation, Evaluating
  <1>11. PendingUnjudged'
    <2>1. \A g \in Events \ Stored' : \A q \in Rules : verdict'[g][q] = "none"
      BY <1>2, <1>5, <1>8 DEF PendingUnjudged
    <2>2. ASSUME NEW d \in Calls, Evaluating(d)', NEW q \in Pending(d)'
          PROVE  verdict'[call'[d].event][q] = "none"
      <3>1. CASE d = c
        BY <1>1, <1>2, <1>5, <1>6, <1>7, <2>2, <3>1 DEF PendingUnjudged, Evaluating, Pending, Call
      <3>2. CASE d # c
        <4>1. /\ Evaluating(d) /\ q \in Pending(d) /\ call'[d] = call[d]
              /\ call[d].event # e
          BY <1>1, <1>2, <1>7, <2>2, <3>2 DEF OneEvaluation, Evaluating, Pending
        <4>2. call[d].event \in Events /\ q \in Rules /\ verdict[call[d].event][q] = "none"
          BY <4>1 DEF PendingUnjudged, OneEvaluation, Stored, Pending, TypeOK, Call
        <4> QED BY <1>5, <4>1, <4>2
      <3> QED BY <3>1, <3>2
    <2>3. \A d \in Calls : call'[d].step = "fire" => call'[d].firing \in call'[d].rules
      BY <1>6, <1>7 DEF PendingUnjudged
    <2> QED BY <2>1, <2>2, <2>3 DEF PendingUnjudged
  <1>12. \A n \in DOMAIN fired[r] : fired[r][n].event \in Events /\ fired[r][n].event # e
    BY <1>8, FiringTyped DEF FiringsAreVerdicts
  <1>13. /\ DOMAIN fired'[r] = DOMAIN fired[r] \cup {Len(fired[r]) + 1}
         /\ Len(fired[r]) + 1 \notin DOMAIN fired[r]
         /\ fired'[r][Len(fired[r]) + 1] = f
         /\ \A n \in DOMAIN fired[r] : fired'[r][n] = fired[r][n]
    <2>1. fired[r] \in Seq(Firing)
      BY DEF TypeOK
    <2> QED BY <1>4, <2>1
  <1>14. FiringsAreVerdicts'
    <2>1. ASSUME NEW q \in Rules, NEW n \in DOMAIN fired'[q]
          PROVE  verdict'[fired'[q][n].event][q] = "fired"
      <3>1. CASE q = r
        BY <1>3, <1>5, <1>12, <1>13, <2>1, <3>1 DEF FiringsAreVerdicts
      <3>2. CASE q # r
        <4>1. n \in DOMAIN fired[q] /\ fired'[q][n] = fired[q][n]
          BY <1>4, <2>1, <3>2
        <4>2. fired[q][n].event \in Events
          BY <4>1, FiringTyped
        <4>3. verdict[fired[q][n].event][q] = "fired"
          BY <4>1 DEF FiringsAreVerdicts
        <4> QED BY <1>5, <3>2, <4>1, <4>2, <4>3
      <3> QED BY <3>1, <3>2
    <2> QED BY <2>1 DEF FiringsAreVerdicts
  <1>15. NotifiedOnce'
    <2>1. ASSUME NEW q \in Rules, NEW i \in DOMAIN fired'[q], NEW j \in DOMAIN fired'[q],
                 fired'[q][i].event = fired'[q][j].event
          PROVE  i = j
      <3>1. CASE q = r
        BY <1>3, <1>12, <1>13, <2>1, <3>1 DEF NotifiedOnce
      <3>2. CASE q # r
        BY <1>4, <2>1, <3>2 DEF NotifiedOnce
      <3> QED BY <3>1, <3>2
    <2> QED BY <2>1 DEF NotifiedOnce
  <1>16. \A q \in Rules, g \in Events : Claimed(q, g)' => Claimed(q, g)
    <2>1. Claimed(r, e)
      BY <1>1, <1>2 DEF Claimed
    <2>2. ASSUME NEW q \in Rules, NEW g \in Events, Claimed(q, g)', ~(q = r /\ g = e)
          PROVE  Claimed(q, g)
      BY <1>5, <1>6, <1>7, <2>2 DEF Claimed
    <2> QED BY <2>1, <2>2
  <1>17. OneClaim'
    BY <1>16 DEF OneClaim
  <1> QED BY <1>9, <1>10, <1>11, <1>14, <1>15, <1>17

\* The clock and the administration of the rules touch nothing but the types.
LEMMA OutsideCallsKeepsInv ==
  ASSUME AlertInv, UNCHANGED <<receivedAt, lastFiredAt, call, verdict, fired>>, TypeOK'
  PROVE  AlertInv'
  <1> USE DEF AlertInv
  <1>1. \A d \in Calls : /\ Evaluating(d)' => Evaluating(d)
                         /\ Pending(d)' = Pending(d) /\ call'[d] = call[d]
    BY DEF Evaluating, Pending
  <1>2. \A d \in Calls : call[d].step = "fire" => call[d].firing \in call[d].rules
    BY DEF PendingUnjudged
  <1>3. OneEvaluation' /\ PendingUnjudged' /\ FiringsAreVerdicts' /\ NotifiedOnce' /\ OneClaim'
    BY <1>1, <1>2, NothingFired
  <1> QED BY <1>3

LEMMA TickKeepsInv ==
  ASSUME AlertInv, Tick PROVE AlertInv'
  <1>1. UNCHANGED <<receivedAt, rule, lastFiredAt, call, verdict, fired>>
    BY DEF Tick, table, history
  <1>2. now' \in Times
    BY AlertAssumption DEF Tick, AlertInv, TypeOK, Times, AlertAssumption
  <1>3. TypeOK'
    BY <1>1, <1>2 DEF AlertInv, TypeOK, Consistent, NoCall
  <1> QED BY <1>1, <1>3, OutsideCallsKeepsInv

LEMMA RuleStepKeepsInv ==
  ASSUME AlertInv, NEW r \in Rules, RuleStep(r) PROVE AlertInv'
  <1>1. UNCHANGED <<now, receivedAt, lastFiredAt, call, verdict, fired>>
    BY DEF RuleStep, CreateRule, EnableRule, DisableRule, DeleteRule, SetRule, history
  <1>2. PICK next \in {"enabled", "disabled", "deleted"} : rule' = [rule EXCEPT ![r] = next]
    BY DEF RuleStep, CreateRule, EnableRule, DisableRule, DeleteRule, SetRule
  <1>3. TypeOK'
    BY <1>1, <1>2 DEF AlertInv, TypeOK, Consistent, NoCall
  <1> QED BY <1>1, <1>3, OutsideCallsKeepsInv

LEMMA StutterKeepsInv ==
  ASSUME AlertInv, UNCHANGED vars PROVE AlertInv'
  <1>1. UNCHANGED <<now, receivedAt, rule, lastFiredAt, call, verdict, fired>>
    BY DEF vars, table, history
  <1>2. TypeOK'
    BY <1>1 DEF AlertInv, TypeOK, Consistent, NoCall
  <1> QED BY <1>1, <1>2, OutsideCallsKeepsInv

LEMMA NextKeepsInv == AlertInv /\ [Next]_vars => AlertInv'
  <1> SUFFICES ASSUME AlertInv, [Next]_vars PROVE AlertInv'
    OBVIOUS
  <1>1. ASSUME NEW c \in Calls, CallStep(c) PROVE AlertInv'
    <2>1. ASSUME NEW e \in Events, Receive(c, e) PROVE AlertInv'
      BY <2>1, ReceiveKeepsInv
    <2>2. ASSUME NEW r \in Rules, PassOver(c, r) PROVE AlertInv'
      BY <2>2, PassOverKeepsInv
    <2>3. ASSUME NEW r \in Rules, Judge(c, r) PROVE AlertInv'
      BY <2>3, JudgeKeepsInv
    <2>4. CASE Create(c)
      BY <2>4, CreateKeepsInv
    <2>5. CASE ReadRules(c)
      BY <2>5, ReadRulesKeepsInv
    <2>6. CASE ReadClock(c)
      BY <2>6, ReadClockKeepsInv
    <2>7. CASE Fire(c)
      BY <2>7, FireKeepsInv
    <2>8. CASE FireDeleted(c)
      BY <2>8, FireDeletedKeepsInv
    <2>9. CASE Receipt(c)
      BY <2>9, ReceiptKeepsInv
    <2>10. CASE LoseCall(c)
      BY <2>10, LoseCallKeepsInv
    <2> QED BY <1>1, <2>1, <2>2, <2>3, <2>4, <2>5, <2>6, <2>7, <2>8, <2>9, <2>10 DEF CallStep
  <1>2. ASSUME NEW r \in Rules, RuleStep(r) PROVE AlertInv'
    BY <1>2, RuleStepKeepsInv
  <1>3. CASE Tick
    BY <1>3, TickKeepsInv
  <1>4. CASE UNCHANGED vars
    BY <1>4, StutterKeepsInv
  <1> QED BY <1>1, <1>2, <1>3, <1>4 DEF Next

\* Two firings for one fingerprint are two events of it that a rule has fired
\* for, which are one event, for which it has fired once.
LEMMA FirstSeenOfInv ==
  ASSUME AlertInv PROVE FirstSeenOnce
  <1> SUFFICES ASSUME NEW r \in Rules, NEW i \in DOMAIN fired[r], NEW j \in DOMAIN fired[r],
                      Condition[r] = "new_fingerprint",
                      Fingerprint[fired[r][i].event] = Fingerprint[fired[r][j].event]
               PROVE  i = j
    BY DEF FirstSeenOnce
  <1> USE DEF AlertInv
  <1>1. PICK e \in Events, other \in Events :
          e = fired[r][i].event /\ other = fired[r][j].event
    BY FiringTyped
  <1>2. Claimed(r, e) /\ Claimed(r, other)
    BY <1>1 DEF FiringsAreVerdicts, Claimed
  <1>3. e = other
    BY <1>1, <1>2 DEF OneClaim
  <1> QED BY <1>1, <1>3 DEF NotifiedOnce

\* What holds of every reachable state of the evaluation.
THEOREM AlertInvariant == Spec => []AlertInv
  BY AlertInitInv, NextKeepsInv, PTL DEF Spec

\* Every variable keeps its type and every call its shape.
THEOREM AlertTypeCorrect == Spec => []TypeOK
  <1>1. AlertInv => TypeOK
    BY DEF AlertInv
  <1> QED BY <1>1, AlertInvariant, PTL

\* No retry, overlap or lost call makes a rule fire twice for one event:
\* receive evaluates only where it created the row.
THEOREM NotifiedAtMostOnce == Spec => []NotifiedOnce
  <1>1. AlertInv => NotifiedOnce
    BY DEF AlertInv
  <1> QED BY <1>1, AlertInvariant, PTL

\* A rule for new fingerprints never fires twice for one of them: each call
\* stores its report before it looks for others, so of two none is alone.
THEOREM FirstSeenFiresOnce == Spec => []FirstSeenOnce
  <1>1. AlertInv => FirstSeenOnce
    BY FirstSeenOfInv
  <1> QED BY <1>1, AlertInvariant, PTL

-----------------------------------------------------------------------------
(* A rule is passed over only beside another call. *)

\* A verdict of "unmet" is given by Judge alone, which found the condition
\* unmet in the state it read; nothing is stored in that step.
LEMMA UnmetEffect ==
  ASSUME AlertInv, [Next]_vars, NEW e \in Events, NEW r \in Rules,
         verdict'[e][r] = "unmet", verdict[e][r] # "unmet"
  PROVE  ~ConditionMet(r, e) /\ UNCHANGED <<now, receivedAt>>
  <1> USE DEF AlertInv
  <1>2. ASSUME NEW f \in Events, GiveUp(f) PROVE FALSE
    BY <1>2, GiveUpEffect
  <1>3. ASSUME NEW f \in Events, NEW judged \in SUBSET Rules,
               NEW what \in Verdicts, what # "unmet", Judged(f, judged, what)
        PROVE  FALSE
    <2>1. \A g \in Events, q \in Rules :
            verdict'[g][q] = IF g = f /\ q \in judged THEN what ELSE verdict[g][q]
      BY <1>3, JudgedEffect
    <2>2. verdict'[e][r] = IF e = f /\ r \in judged THEN what ELSE verdict[e][r]
      BY <2>1
    <2> QED BY <1>3, <2>2
  <1>4. ASSUME NEW c \in Calls, CallStep(c)
        PROVE  ~ConditionMet(r, e) /\ UNCHANGED <<now, receivedAt>>
    <2>1. \A f \in Events : ~Receive(c, f)
      BY DEF Receive, history
    <2>2. ~Create(c)
      BY DEF Create, history
    <2>3. ~ReadRules(c)
      <3> SUFFICES ASSUME ReadRules(c) PROVE FALSE
        OBVIOUS
      <3>1. call[c].event \in Events
        BY EvaluatingHasEvent DEF ReadRules, Evaluating
      <3>2. PICK unread \in SUBSET Rules : Judged(call[c].event, unread, "unread")
        BY DEF ReadRules
      <3>3. "unread" \in Verdicts \ {"unmet"}
        BY DEF Verdicts
      <3> QED BY <1>3, <3>1, <3>2, <3>3
    <2>4. ~ReadClock(c) /\ ~Receipt(c)
      BY DEF ReadClock, Receipt, history
    <2>5. \A q \in Rules : ~PassOver(c, q)
      <3> SUFFICES ASSUME NEW q \in Rules, PassOver(c, q) PROVE FALSE
        OBVIOUS
      <3>1. call[c].event \in Events
        BY EvaluatingHasEvent DEF PassOver, Evaluating
      <3>2. PICK what \in Verdicts \ {"unmet"} : Judged(call[c].event, {q}, what)
        BY DEF PassOver, Verdicts
      <3> QED BY <1>3, <3>1, <3>2
    <2>6. ~Fire(c)
      <3> SUFFICES ASSUME Fire(c) PROVE FALSE
        OBVIOUS
      <3>1. call[c].event \in Events /\ call[c].firing \in Rules
        BY EvaluatingHasEvent DEF Fire, Evaluating, PendingUnjudged, TypeOK, Call
      <3>2. Judged(call[c].event, {call[c].firing}, "fired") /\ "fired" \in Verdicts \ {"unmet"}
        BY DEF Fire, Verdicts
      <3> QED BY <1>3, <3>1, <3>2
    <2>7. ~FireDeleted(c)
      <3> SUFFICES ASSUME FireDeleted(c) PROVE FALSE
        OBVIOUS
      <3>1. call[c].event \in Events
        BY EvaluatingHasEvent DEF FireDeleted, Evaluating
      <3> QED BY <1>2, <3>1 DEF FireDeleted
    <2>8. ~LoseCall(c)
      <3> SUFFICES ASSUME LoseCall(c) PROVE FALSE
        OBVIOUS
      <3>1. CASE call[c].step = "create"
        BY <3>1 DEF LoseCall
      <3>2. CASE call[c].step # "create"
        <4>1. call[c].event \in Events
          BY <3>2, EvaluatingHasEvent DEF LoseCall, Evaluating, TypeOK, Call
        <4> QED BY <1>2, <3>2, <4>1 DEF LoseCall
      <3> QED BY <3>1, <3>2
    <2>9. ASSUME NEW q \in Rules, Judge(c, q)
          PROVE  ~ConditionMet(r, e) /\ UNCHANGED <<now, receivedAt>>
      <3>1. call[c].event \in Events
        BY <2>9, EvaluatingHasEvent DEF Judge, Evaluating
      <3>2. UNCHANGED <<now, receivedAt>>
        BY <2>9 DEF Judge, table
      <3>3. ~ConditionMet(q, call[c].event) /\ Judged(call[c].event, {q}, "unmet")
        BY <2>9 DEF Judge
      <3>4. "unmet" \in Verdicts
        BY DEF Verdicts
      <3>5. verdict'[e][r] = IF e = call[c].event /\ r = q THEN "unmet" ELSE verdict[e][r]
        BY <3>1, <3>3, <3>4, JudgedByOne
      <3>6. e = call[c].event /\ r = q
        BY <3>5
      <3> QED BY <3>2, <3>3, <3>6
    <2> QED BY <1>4, <2>1, <2>2, <2>3, <2>4, <2>5, <2>6, <2>7, <2>8, <2>9 DEF CallStep
  <1>5. ~Tick /\ ~UNCHANGED vars
    BY DEF Tick, vars, history
  <1>6. \A q \in Rules : ~RuleStep(q)
    BY DEF RuleStep, CreateRule, EnableRule, DisableRule, DeleteRule, SetRule, history
  <1> QED BY <1>4, <1>5, <1>6 DEF Next

\* A report is stored once, at the time of the step; the clock goes forward.
LEMMA StoreEffect ==
  ASSUME AlertInv, [Next]_vars
  PROVE  /\ now' >= now
         /\ \/ UNCHANGED receivedAt
            \/ \E e \in Events \ Stored : receivedAt' = [receivedAt EXCEPT ![e] = now]
  <1> USE DEF AlertInv
  <1>0. now \in Int
    BY AlertAssumption DEF TypeOK, Times, AlertAssumption
  <1>1. ASSUME NEW c \in Calls, Create(c)
        PROVE  /\ UNCHANGED now
               /\ \/ UNCHANGED receivedAt
                  \/ \E e \in Events \ Stored : receivedAt' = [receivedAt EXCEPT ![e] = now]
    <2>1. call[c].event \in Events
      BY <1>1 DEF Create, TypeOK, Call, Consistent
    <2> QED BY <1>1, <2>1 DEF Create
  <1>2. ASSUME NEW c \in Calls, CallStep(c), ~Create(c) PROVE UNCHANGED <<now, receivedAt>>
    BY <1>2 DEF CallStep, Receive, ReadRules, ReadClock, PassOver, Judge, Fire, FireDeleted,
                Receipt, LoseCall, table
  <1>3. ASSUME NEW r \in Rules, RuleStep(r) PROVE UNCHANGED <<now, receivedAt>>
    BY <1>3 DEF RuleStep, CreateRule, EnableRule, DisableRule, DeleteRule, SetRule
  <1>4. ASSUME Tick PROVE now' >= now /\ UNCHANGED receivedAt
    BY <1>0, <1>4 DEF Tick, table
  <1>5. ASSUME UNCHANGED vars PROVE UNCHANGED <<now, receivedAt>>
    BY <1>5 DEF vars, table
  <1> QED BY <1>0, <1>1, <1>2, <1>3, <1>4, <1>5 DEF Next

\* What is stored stays, when it was received.
LEMMA StoredStays ==
  ASSUME AlertInv, [Next]_vars, NEW e \in Stored
  PROVE  e \in Stored' /\ receivedAt'[e] = receivedAt[e]
  BY StoreEffect DEF Stored, AlertInv, TypeOK

LEMMA FewStored ==
  ASSUME AlertInv, [Next]_vars, IsFiniteSet(Stored)
  PROVE  IsFiniteSet(Stored')
  <1>1. CASE UNCHANGED receivedAt
    BY <1>1 DEF Stored
  <1>2. ASSUME NEW e \in Events \ Stored, receivedAt' = [receivedAt EXCEPT ![e] = now]
        PROVE  IsFiniteSet(Stored')
    <2>1. now # Null
      BY AlertAssumption DEF AlertInv, TypeOK, Times, AlertAssumption
    <2>2. Stored' = Stored \cup {e}
      BY <1>2, <2>1 DEF Stored, AlertInv, TypeOK
    <2> QED BY <2>2, FS_AddElement
  <1> QED BY <1>1, <1>2, StoreEffect

\* An event judged unmet has been stored beside another one like it.
LEMMA FirstSeenKept ==
  ASSUME AlertInv, FirstSeenMissedOnlyBeside, [Next]_vars
  PROVE  FirstSeenMissedOnlyBeside'
  <1> SUFFICES ASSUME NEW r \in Rules, NEW e \in Events,
                      Condition[r] = "new_fingerprint", verdict'[e][r] = "unmet"
               PROVE  OthersLike(e)' # {}
    BY DEF FirstSeenMissedOnlyBeside
  <1>1. OthersLike(e) # {}
    <2>1. CASE verdict[e][r] = "unmet"
      BY <2>1 DEF FirstSeenMissedOnlyBeside
    <2>2. CASE verdict[e][r] # "unmet"
      BY <2>2, UnmetEffect DEF ConditionMet
    <2> QED BY <2>1, <2>2
  <1> QED BY <1>1, StoredStays DEF OthersLike

\* Of the reports in the window, those judged unmet are the earlier ones, or
\* all of them were counted in this step and found too few.
LEMMA UnmetKept ==
  ASSUME AlertInv, IsFiniteSet(Stored), UnmetAreFew, [Next]_vars
  PROVE  UnmetAreFew'
  <1> SUFFICES ASSUME NEW r \in Rules, Condition[r] = "volume_threshold"
               PROVE  Cardinality({e \in InWindow(r)' : verdict'[e][r] = "unmet"}) < Threshold[r]
    BY DEF UnmetAreFew
  <1> USE DEF AlertInv
  <1> DEFINE unmet == {e \in InWindow(r) : verdict[e][r] = "unmet"}
             next  == {e \in InWindow(r)' : verdict'[e][r] = "unmet"}
  <1>1. /\ IsFiniteSet(InWindow(r)) /\ IsFiniteSet(unmet)
        /\ Cardinality(unmet) \in Nat /\ Cardinality(InWindow(r)) \in Nat
    <2>1. InWindow(r) \subseteq Stored /\ unmet \subseteq InWindow(r)
      BY DEF InWindow
    <2> QED BY <2>1, FS_Subset, FS_CardinalityType
  <1>2. Threshold[r] \in Nat
    BY AlertAssumption DEF AlertAssumption
  <1>3. ASSUME NEW e \in Events, verdict'[e][r] = "unmet", verdict[e][r] # "unmet"
        PROVE  Cardinality(next) < Threshold[r]
    <2>1. ~ConditionMet(r, e) /\ UNCHANGED <<now, receivedAt>>
      BY <1>3, UnmetEffect
    <2>2. Cardinality(InWindow(r)) < Threshold[r]
      BY <1>1, <1>2, <2>1 DEF ConditionMet
    <2>3. next \subseteq InWindow(r)
      BY <2>1 DEF InWindow, Stored
    <2>4. Cardinality(next) <= Cardinality(InWindow(r)) /\ Cardinality(next) \in Nat
      BY <1>1, <2>3, FS_Subset, FS_CardinalityType
    <2> QED BY <1>1, <1>2, <2>2, <2>4
  <1>4. ASSUME \A e \in Events : verdict'[e][r] = "unmet" => verdict[e][r] = "unmet"
        PROVE  Cardinality(next) < Threshold[r]
    <2>1. ASSUME NEW e \in next PROVE e \in unmet
      <3>1. e \in Events /\ e \in Stored' /\ e \in Matching[r] /\ verdict'[e][r] = "unmet"
            /\ receivedAt'[e] >= now' - Window[r]
        BY DEF InWindow, Stored
      <3>2. verdict[e][r] = "unmet"
        BY <1>4, <3>1
      <3>3. e \in Stored
        BY <3>1, <3>2 DEF PendingUnjudged
      <3>4. receivedAt'[e] = receivedAt[e] /\ now' >= now
        BY <3>3, StoredStays, StoreEffect
      <3>5. receivedAt[e] \in Int /\ now \in Int /\ now' \in Int /\ Window[r] \in Int
        <4>1. AlertInv'
          BY NextKeepsInv
        <4> QED BY <3>3, <4>1, AlertAssumption DEF Stored, TypeOK, Times, AlertAssumption
      <3>6. receivedAt[e] >= now - Window[r]
        BY <3>1, <3>4, <3>5
      <3> QED BY <3>1, <3>2, <3>3, <3>6 DEF InWindow
    <2>2. Cardinality(next) <= Cardinality(unmet) /\ Cardinality(next) \in Nat
      BY <1>1, <2>1, FS_Subset, FS_CardinalityType
    <2>3. Cardinality(unmet) < Threshold[r]
      BY DEF UnmetAreFew
    <2> QED BY <1>1, <1>2, <2>2, <2>3
  <1> QED BY <1>3, <1>4

\* What a step does to the firings: nothing, or it appends one by Fire.
LEMMA FiredEffect ==
  ASSUME AlertInv, [Next]_vars
  PROVE  \/ UNCHANGED <<lastFiredAt, fired>>
         \/ \E c \in Calls : Fire(c)
  <1>1. ASSUME NEW c \in Calls, CallStep(c), ~Fire(c) PROVE UNCHANGED <<lastFiredAt, fired>>
    BY <1>1 DEF CallStep, Receive, Create, ReadRules, ReadClock, PassOver, Judge, FireDeleted,
                Receipt, LoseCall, table, history
  <1>2. ASSUME NEW r \in Rules, RuleStep(r) PROVE UNCHANGED <<lastFiredAt, fired>>
    BY <1>2 DEF RuleStep, CreateRule, EnableRule, DisableRule, DeleteRule, SetRule, history
  <1>3. ASSUME Tick \/ UNCHANGED vars PROVE UNCHANGED <<lastFiredAt, fired>>
    BY <1>3 DEF Tick, vars, table, history
  <1> QED BY <1>1, <1>2, <1>3 DEF Next

\* What Fire writes.
LEMMA FireEffect ==
  ASSUME AlertInv, NEW c \in Calls, Fire(c)
  PROVE  \E r \in Rules : \E f \in Firing :
           /\ call[c].step = "fire" /\ r = call[c].firing /\ r \in call[c].rules
           /\ f.at = call[c].at /\ f.seen = call[c].seen[r]
           /\ fired' = [fired EXCEPT ![r] = Append(fired[r], f)]
           /\ lastFiredAt' = [lastFiredAt EXCEPT ![r] = f.at]
  <1> USE DEF AlertInv
  <1>1. /\ call[c].step = "fire" /\ Evaluating(c) /\ call[c] \in Call
    BY DEF Fire, Evaluating, TypeOK
  <1>2. PICK e \in Events, r \in Rules :
          e = call[c].event /\ r = call[c].firing /\ r \in call[c].rules
    BY <1>1, EvaluatingHasEvent DEF PendingUnjudged, Call
  <1> DEFINE f == [event |-> e, at |-> call[c].at, seen |-> call[c].seen[r]]
  <1>3. f \in Firing /\ f.at = call[c].at /\ f.seen = call[c].seen[r]
    BY <1>1 DEF Firing, Call
  <1>4. /\ fired' = [fired EXCEPT ![r] = Append(fired[r], f)]
        /\ lastFiredAt' = [lastFiredAt EXCEPT ![r] = f.at]
    BY <1>2 DEF Fire, FiredAt
  <1> HIDE DEF f
  <1> QED BY <1>1, <1>2, <1>3, <1>4

\* Firings are never taken back or rewritten.
LEMMA FiredGrows ==
  ASSUME AlertInv, [Next]_vars, NEW r \in Rules
  PROVE  /\ Len(fired[r]) \in Nat /\ Len(fired'[r]) \in Nat
         /\ Len(fired[r]) <= Len(fired'[r])
         /\ \A n \in 1 .. Len(fired[r]) : fired'[r][n] = fired[r][n]
  <1>1. fired \in [Rules -> Seq(Firing)]
    BY DEF AlertInv, TypeOK
  <1>2. CASE UNCHANGED fired
    BY <1>1, <1>2
  <1>3. ASSUME NEW c \in Calls, Fire(c)
        PROVE  /\ Len(fired'[r]) \in Nat
               /\ Len(fired[r]) <= Len(fired'[r])
               /\ \A n \in 1 .. Len(fired[r]) : fired'[r][n] = fired[r][n]
    <2>1. PICK q \in Rules, f \in Firing : fired' = [fired EXCEPT ![q] = Append(fired[q], f)]
      BY <1>3, FireEffect
    <2>2. fired'[r] = fired[r] \/ fired'[r] = Append(fired[r], f)
      BY <1>1, <2>1
    <2> QED BY <1>1, <2>2
  <1> QED BY <1>1, <1>2, <1>3, FiredEffect

\* What a call has read of the firings still holds after a step in which it
\* keeps what it read, or lets go of it.
LEMMA ReadKept ==
  ASSUME AlertInv, [Next]_vars, CallsRead, NEW d \in Calls,
         call'[d].step \in {"project", "judge", "fire"},
         call[d].step \in {"project", "judge", "fire"},
         call'[d].rules \subseteq call[d].rules,
         call'[d].seen = call[d].seen, call'[d].quietFrom = call[d].quietFrom,
         NEW r \in call'[d].rules
  PROVE  LET last == call'[d].seen[r] IN
         /\ last <= Len(fired'[r])
         /\ last > 0 => call'[d].quietFrom[r] = fired'[r][last].at
  <1>1. r \in Rules /\ r \in call[d].rules /\ call[d].seen[r] \in Nat
    BY DEF AlertInv, TypeOK, Call
  <1>2. /\ call[d].seen[r] <= Len(fired[r])
        /\ call[d].seen[r] > 0 => call[d].quietFrom[r] = fired[r][call[d].seen[r]].at
    BY <1>1 DEF CallsRead
  <1>3. /\ Len(fired[r]) \in Nat /\ Len(fired'[r]) \in Nat /\ Len(fired[r]) <= Len(fired'[r])
        /\ \A n \in 1 .. Len(fired[r]) : fired'[r][n] = fired[r][n]
    BY <1>1, FiredGrows
  <1> QED BY <1>1, <1>2, <1>3

\* What ReadRules takes is the time of the latest firing.
LEMMA ReadRulesReads ==
  ASSUME AlertInv, FiringsRecorded, NEW c \in Calls, ReadRules(c),
         call'[c].step # "idle"
  PROVE  /\ call'[c].step = "project"
         /\ \A r \in call'[c].rules :
              LET last == call'[c].seen[r] IN
              /\ last <= Len(fired'[r])
              /\ last > 0 => call'[c].quietFrom[r] = fired'[r][last].at
  <1> USE DEF AlertInv
  <1> DEFINE enabled == {r \in Rules : rule[r] = "enabled"}
             quietFrom == [r \in Rules |-> IF r \in enabled THEN lastFiredAt[r] ELSE Null]
             seen == [r \in Rules |-> IF r \in enabled THEN Len(fired[r]) ELSE 0]
             read == [call[c] EXCEPT !.step = "project", !.rules = enabled,
                                     !.quietFrom = quietFrom, !.seen = seen]
  <1>1. ~Finish(c)
    BY DEF Finish, TypeOK, NoCall
  <1>2. call' = [call EXCEPT ![c] = read] /\ UNCHANGED fired
    BY <1>1 DEF ReadRules
  <1>3. call[c] \in Call
    BY DEF TypeOK
  <1>4. /\ \A r \in enabled : quietFrom[r] = lastFiredAt[r] /\ seen[r] = Len(fired[r])
        /\ enabled \subseteq Rules
    OBVIOUS
  <1> HIDE DEF quietFrom, seen, enabled
  <1>5. /\ call'[c].step = "project" /\ call'[c].rules = enabled
        /\ call'[c].quietFrom = quietFrom /\ call'[c].seen = seen
    BY <1>2, <1>3 DEF TypeOK, Call
  <1>6. ASSUME NEW r \in enabled
        PROVE  /\ seen[r] <= Len(fired[r])
               /\ seen[r] > 0 => quietFrom[r] = fired[r][seen[r]].at
    <2>1. fired[r] \in Seq(Firing) /\ r \in Rules
      BY <1>4 DEF TypeOK
    <2>2. lastFiredAt[r] = IF fired[r] = <<>> THEN Null ELSE fired[r][Len(fired[r])].at
      BY <2>1 DEF FiringsRecorded
    <2> QED BY <1>4, <2>1, <2>2
  <1> QED BY <1>2, <1>5, <1>6

LEMMA CallsReadKept ==
  ASSUME AlertInv, FiringsRecorded, CallsRead, [Next]_vars
  PROVE  CallsRead'
  <1> USE DEF AlertInv
  <1> DEFINE Reading(q) == q.step \in {"project", "judge", "fire"}
             Kept(d) == /\ Reading(call[d]) /\ call'[d].rules \subseteq call[d].rules
                        /\ call'[d].seen = call[d].seen /\ call'[d].quietFrom = call[d].quietFrom
             Sure(d) == call'[d].step = "fire" => ~Quiet(d, call[d].firing)'
  <1>1. ASSUME NEW d \in Calls, call'[d] = call[d], Reading(call'[d])
        PROVE  Kept(d) /\ Sure(d)
    BY <1>1 DEF CallsRead, Quiet
  <1>2. ASSUME NEW c \in Calls, CallStep(c), NEW d \in Calls, d # c
        PROVE  call'[d] = call[d]
    BY <1>2 DEF CallStep, Receive, Create, ReadRules, ReadClock, PassOver, Judge, Fire,
                FireDeleted, Receipt, LoseCall, Finish, TypeOK
  <1>3. ASSUME NEW c \in Calls, CallStep(c), ~ReadRules(c), Reading(call'[c])
        PROVE  Kept(c) /\ Sure(c)
    <2>0. call[c] \in Call /\ ~Finish(c)
      BY <1>3 DEF TypeOK, Finish, NoCall
    <2>1. ASSUME NEW e \in Events PROVE ~Receive(c, e)
      BY <1>3, <2>0 DEF Receive, TypeOK, Call
    <2>2. ~Create(c)
      BY <1>3, <2>0 DEF Create, TypeOK, Call
    <2>3. CASE ReadClock(c)
      BY <2>0, <2>3 DEF ReadClock, TypeOK, Call
    <2>4. ASSUME NEW r \in Rules, PassOver(c, r) PROVE Kept(c) /\ Sure(c)
      BY <2>0, <2>4 DEF PassOver, TypeOK, Call
    <2>5. ASSUME NEW r \in Rules, Judge(c, r) PROVE Kept(c) /\ Sure(c)
      <3>1. CASE ConditionMet(r, call[c].event)
        <4>1. call' = [call EXCEPT ![c].step = "fire", ![c].firing = r] /\ ~Quiet(c, r)
              /\ call[c].step = "judge"
          BY <2>5, <3>1 DEF Judge
        <4>2. /\ call'[c].firing = r /\ call'[c].rules = call[c].rules
              /\ call'[c].at = call[c].at /\ call'[c].seen = call[c].seen
              /\ call'[c].quietFrom = call[c].quietFrom
          BY <2>0, <4>1 DEF TypeOK, Call
        <4>3. ~Quiet(c, call[c].firing)'
          BY <4>1, <4>2 DEF Quiet
        <4> QED BY <4>1, <4>2, <4>3
      <3>2. CASE ~ConditionMet(r, call[c].event)
        <4>1. call' = [call EXCEPT ![c].rules = @ \ {r}] /\ call[c].step = "judge"
          BY <2>5, <3>2 DEF Judge
        <4> QED BY <2>0, <4>1 DEF TypeOK, Call
      <3> QED BY <3>1, <3>2
    <2>6. CASE Fire(c)
      BY <2>0, <2>6 DEF Fire, TypeOK, Call
    <2> QED BY <1>3, <2>0, <2>1, <2>2, <2>3, <2>4, <2>5, <2>6
            DEF CallStep, FireDeleted, Receipt, LoseCall
  <1>4. ASSUME NEW d \in Calls, Reading(call'[d]), Kept(d), Sure(d)
        PROVE  /\ \A r \in call'[d].rules :
                    LET last == call'[d].seen[r] IN
                    /\ last <= Len(fired'[r])
                    /\ last > 0 => call'[d].quietFrom[r] = fired'[r][last].at
               /\ Sure(d)
    BY <1>4, ReadKept
  <1>5. ASSUME NEW d \in Calls, Reading(call'[d])
        PROVE  /\ \A r \in call'[d].rules :
                    LET last == call'[d].seen[r] IN
                    /\ last <= Len(fired'[r])
                    /\ last > 0 => call'[d].quietFrom[r] = fired'[r][last].at
               /\ Sure(d)
    <2>1. CASE call'[d] = call[d]
      BY <1>1, <1>4, <1>5, <2>1
    <2>2. CASE call'[d] # call[d]
      <3>1. PICK c \in Calls : CallStep(c)
        BY <2>2 DEF Next, Tick, RuleStep, CreateRule, EnableRule, DisableRule, DeleteRule,
                    SetRule, vars
      <3>2. d = c
        BY <1>2, <2>2, <3>1
      <3>3. CASE ReadRules(c)
        <4>1. call'[c].step # "idle"
          BY <1>5, <3>2
        <4> QED BY <3>2, <3>3, <4>1, ReadRulesReads
      <3>4. CASE ~ReadRules(c)
        BY <1>3, <1>4, <1>5, <3>1, <3>2, <3>4
      <3> QED BY <3>3, <3>4
    <2> QED BY <2>1, <2>2
  <1> QED BY <1>5 DEF CallsRead

\* lastFiredAt is written with the firing, from the same call.
LEMMA FiringsRecordedKept ==
  ASSUME AlertInv, FiringsRecorded, CallsRead, [Next]_vars
  PROVE  FiringsRecorded'
  <1> USE DEF AlertInv
  <1>1. CASE UNCHANGED <<lastFiredAt, fired>>
    BY <1>1 DEF FiringsRecorded
  <1>2. ASSUME NEW c \in Calls, Fire(c) PROVE FiringsRecorded'
    <2>1. PICK r \in Rules, f \in Firing :
            /\ call[c].step = "fire" /\ r \in call[c].rules
            /\ f.seen = call[c].seen[r]
            /\ fired' = [fired EXCEPT ![r] = Append(fired[r], f)]
            /\ lastFiredAt' = [lastFiredAt EXCEPT ![r] = f.at]
      BY <1>2, FireEffect
    <2>2. f.seen <= Len(fired[r]) /\ f.seen \in Nat
      BY <2>1 DEF CallsRead, Firing
    <2>3. fired[r] \in Seq(Firing)
      BY DEF TypeOK
    <2>4. fired'[r] = Append(fired[r], f) /\ lastFiredAt'[r] = f.at
      BY <2>1 DEF TypeOK
    <2>5. /\ lastFiredAt'[r] = IF fired'[r] = <<>> THEN Null ELSE fired'[r][Len(fired'[r])].at
          /\ \A n \in DOMAIN fired'[r] : fired'[r][n].seen < n
      <3>1. \A n \in 1 .. Len(fired[r]) : fired[r][n].seen < n
        BY <2>3 DEF FiringsRecorded
      <3> QED BY <2>2, <2>3, <2>4, <3>1
    <2>6. ASSUME NEW q \in Rules, q # r
          PROVE  fired'[q] = fired[q] /\ lastFiredAt'[q] = lastFiredAt[q]
      BY <2>1, <2>6 DEF TypeOK
    <2> QED BY <2>5, <2>6 DEF FiringsRecorded
  <1> QED BY <1>1, <1>2, FiredEffect

\* The call that fires found the rule not quiet since the firing it had seen.
LEMMA QuietKept ==
  ASSUME AlertInv, FiringsRecorded, CallsRead, QuietAfterSeenFiring, [Next]_vars
  PROVE  QuietAfterSeenFiring'
  <1> USE DEF AlertInv
  <1>1. CASE UNCHANGED <<lastFiredAt, fired>>
    BY <1>1 DEF QuietAfterSeenFiring
  <1>2. ASSUME NEW c \in Calls, Fire(c) PROVE QuietAfterSeenFiring'
    <2>1. PICK r \in Rules, f \in Firing :
            /\ call[c].step = "fire" /\ r = call[c].firing /\ r \in call[c].rules
            /\ f.at = call[c].at /\ f.seen = call[c].seen[r]
            /\ fired' = [fired EXCEPT ![r] = Append(fired[r], f)]
      BY <1>2, FireEffect
    <2>2. fired[r] \in Seq(Firing) /\ call[c] \in Call
      BY DEF TypeOK
    <2>3. f.seen <= Len(fired[r]) /\ f.seen \in Nat /\ f.at \in Int
          /\ (f.seen > 0 => call[c].quietFrom[r] = fired[r][f.seen].at)
      <3>1. f.seen \in Nat /\ f.at \in Int
        BY AlertAssumption DEF Firing, Times, AlertAssumption
      <3>2. /\ call[c].seen[r] <= Len(fired[r])
            /\ call[c].seen[r] > 0 => call[c].quietFrom[r] = fired[r][call[c].seen[r]].at
        BY <2>1 DEF CallsRead
      <3> QED BY <2>1, <3>1, <3>2
    <2>4. f.seen > 0 => f.at >= fired[r][f.seen].at + Cooldown[r]
      <3> SUFFICES ASSUME f.seen > 0 PROVE f.at >= fired[r][f.seen].at + Cooldown[r]
        OBVIOUS

      <3>1. ~Quiet(c, r)
        BY <2>1 DEF CallsRead
      <3>2. fired[r][f.seen] \in Firing
        BY <2>2, <2>3
      <3>3. fired[r][f.seen].at \in Int /\ Cooldown[r] \in Int /\ fired[r][f.seen].at # Null
        BY <3>2, AlertAssumption DEF Firing, Times, AlertAssumption
      <3>4. ~(call[c].at - call[c].quietFrom[r] < Cooldown[r])
        BY <2>3, <3>1, <3>3 DEF Quiet
      <3>5. call[c].at = f.at /\ call[c].quietFrom[r] = fired[r][f.seen].at
        BY <2>1, <2>3
      <3>6. ~(f.at - fired[r][f.seen].at < Cooldown[r])
        BY <3>4, <3>5
      <3> DEFINE was == fired[r][f.seen].at
                 is  == f.at
                 gap == Cooldown[r]
      <3>7. was \in Int /\ is \in Int /\ gap \in Int /\ ~(is - was < gap)
        BY <2>3, <3>3, <3>6
      <3> HIDE DEF was, is, gap
      <3>8. is >= was + gap
        BY <3>7
      <3> QED BY <3>8 DEF was, is, gap
    <2>5. fired'[r] = Append(fired[r], f)
      BY <2>1 DEF TypeOK
    <2>6. ASSUME NEW n \in DOMAIN fired'[r], fired'[r][n].seen > 0
          PROVE  fired'[r][n].at >= fired'[r][fired'[r][n].seen].at + Cooldown[r]
      <3>1. CASE n = Len(fired[r]) + 1
        <4>1. fired'[r][n] = f
          BY <2>2, <2>5, <3>1
        <4>2. fired'[r][f.seen] = fired[r][f.seen]
          BY <2>2, <2>3, <2>5, <2>6, <4>1
        <4> QED BY <2>4, <2>6, <4>1, <4>2
      <3>2. CASE n # Len(fired[r]) + 1
        <4>1. n \in DOMAIN fired[r] /\ fired'[r][n] = fired[r][n]
          BY <2>2, <2>5, <2>6, <3>2
        <4>2. fired[r][n].seen < n /\ fired[r][n].seen \in Nat
          BY <4>1, FiringTyped DEF FiringsRecorded, Firing
        <4>3. fired'[r][fired[r][n].seen] = fired[r][fired[r][n].seen]
          BY <2>2, <2>5, <2>6, <4>1, <4>2
        <4> QED BY <2>6, <4>1, <4>3 DEF QuietAfterSeenFiring
      <3> QED BY <3>1, <3>2
    <2>7. ASSUME NEW q \in Rules, q # r
          PROVE  fired'[q] = fired[q]
      BY <2>1, <2>7 DEF TypeOK
    <2> QED BY <2>6, <2>7 DEF QuietAfterSeenFiring
  <1> QED BY <1>1, <1>2, FiredEffect

LEMMA MissInitInv == Init => MissInv
  <1> SUFFICES ASSUME Init PROVE MissInv
    OBVIOUS
  <1> USE DEF Init
  <1>1. Stored = {}
    BY DEF Stored
  <1>2. IsFiniteSet(Stored)
    BY <1>1, FS_EmptySet
  <1>3. UnmetAreFew
    <2>1. \A r \in Rules : {e \in InWindow(r) : verdict[e][r] = "unmet"} = {}
      BY <1>1 DEF InWindow
    <2>2. \A r \in Rules : Threshold[r] > 0 /\ Threshold[r] \in Nat
      BY AlertAssumption DEF AlertAssumption
    <2> QED BY <2>1, <2>2, FS_EmptySet DEF UnmetAreFew
  <1>4. FiringsRecorded /\ QuietAfterSeenFiring /\ FirstSeenMissedOnlyBeside
    BY DEF FiringsRecorded, QuietAfterSeenFiring, FirstSeenMissedOnlyBeside
  <1>5. CallsRead
    BY DEF CallsRead, NoCall
  <1> QED BY <1>2, <1>3, <1>4, <1>5 DEF MissInv

\* Were every report in the window judged unmet, they would be fewer than the
\* threshold.
LEMMA MissedOfInv ==
  ASSUME AlertInv, MissInv PROVE MissedOnlyByOverlap
  <1> USE DEF AlertInv, MissInv
  <1>1. ThresholdNoticed
    <2> SUFFICES ASSUME NEW r \in Rules, Condition[r] = "volume_threshold",
                        NEW judged, judged \subseteq InWindow(r), judged = InWindow(r),
                        Cardinality(judged) >= Threshold[r],
                        \A e \in judged : verdict[e][r] = "unmet"
                 PROVE  FALSE
      BY DEF ThresholdNoticed
    <2>1. {e \in InWindow(r) : verdict[e][r] = "unmet"} = judged
      OBVIOUS
    <2>2. Cardinality(judged) < Threshold[r]
      BY <2>1 DEF UnmetAreFew
    <2>3. IsFiniteSet(judged) /\ Cardinality(judged) \in Nat /\ Threshold[r] \in Nat
      <3>1. judged \subseteq Stored
        BY DEF InWindow
      <3> QED BY <3>1, FS_Subset, FS_CardinalityType, AlertAssumption DEF AlertAssumption
    <2> QED BY <2>2, <2>3
  <1> QED BY <1>1 DEF MissedOnlyByOverlap

\* A report whose fingerprint is new, a threshold that is reached, a firing
\* within the cooldown: a rule misses the first two, or repeats itself, only
\* beside an evaluation that overlaps this one and that it has not seen.
THEOREM MissedOnlyByOverlapping == Spec => []MissedOnlyByOverlap
  <1>1. AlertInv /\ MissInv /\ [Next]_vars => MissInv'
    BY FirstSeenKept, FewStored, UnmetKept, CallsReadKept, FiringsRecordedKept, QuietKept
       DEF MissInv
  <1>2. AlertInv /\ MissInv => MissedOnlyByOverlap
    BY MissedOfInv
  <1> QED BY <1>1, <1>2, MissInitInv, AlertInvariant, PTL DEF Spec

-----------------------------------------------------------------------------
(* The channels of a firing.                                               *)

\* A channel that is still to be asked, or asked again, has taken nothing.
UntakenUntilAnswered ==
  \A m \in Notice :
    /\ taken[m] \in 0..1
    /\ sending[m].step \in {"unsent", "posting", "waiting", "reposting"} => taken[m] = 0

Message == [step : Settled \cup {"posting", "waiting", "reposting", "rejected"}, wait : Int]

ChannelsInv ==
  /\ NotificationsTypeOK /\ AskedAgainSoon /\ UntakenUntilAnswered
  /\ sending \in [Notice -> Message]

\* Whatever a channel names as a delay, it is between now and the time one
\* request may take.
LEMMA RetryIsSoon ==
  ASSUME NEW body \in Delays \cup {Silent}, NEW header \in Delays \cup {Silent}
  PROVE  RetryAfter(body, header) \in 0 .. SendTimeout
<1> USE NotificationAssumption DEF NotificationAssumption, RetryAfter, Lesser, Greater
<1>1. CASE body # Silent
  <2>1. body \in Int
    BY <1>1
  <2> QED  BY <1>1, <2>1
<1>2. CASE body = Silent /\ header # Silent
  <2>1. header \in Int
    BY <1>2
  <2> QED  BY <1>2, <2>1
<1>3. CASE body = Silent /\ header = Silent
  BY <1>3
<1> QED  BY <1>1, <1>2, <1>3

LEMMA ChannelsInitInv == NotificationInit => ChannelsInv
<1> SUFFICES ASSUME NotificationInit PROVE ChannelsInv
  OBVIOUS
<1> USE NotificationAssumption DEF NotificationInit, NotificationAssumption
<1>1. sending \in [Notice -> Message]
  BY DEF Message, Settled
<1>2. NotificationsTypeOK
  BY DEF NotificationsTypeOK, Settled
<1>3. AskedAgainSoon /\ UntakenUntilAnswered
  BY DEF AskedAgainSoon, UntakenUntilAnswered
<1> QED  BY <1>1, <1>2, <1>3 DEF ChannelsInv

\* One message that moves on, and the others as they were.
LEMMA BecomesKeeps ==
  ASSUME ChannelsInv, NEW m \in Notice, NEW step, NEW wait \in 0..SendTimeout, Becomes(m, step, wait),
         UNCHANGED <<adapter, botToken>>,
         step \in Settled \cup {"posting", "waiting", "reposting", "rejected"},
         step = "waiting" => Adapter(m) = "discord", step # "waiting" => wait = 0,
         taken' \in [Notice -> Nat], \A n \in Notice : n # m => taken'[n] = taken[n],
         taken'[m] \in 0..1,
         step \in {"unsent", "posting", "waiting", "reposting"} => taken'[m] = 0
  PROVE  ChannelsInv'
<1> USE NotificationAssumption DEF NotificationAssumption, ChannelsInv
<1>1. /\ sending'[m] = [step |-> step, wait |-> wait]
      /\ \A n \in Notice : n # m => sending'[n] = sending[n]
  BY DEF Becomes
<1>2. sending' \in [Notice -> Message]
  <2>1. [step |-> step, wait |-> wait] \in Message
    BY DEF Message
  <2> QED  BY <2>1 DEF Becomes
<1>3. \A n \in Notice : Adapter(n)' = Adapter(n)
  BY DEF Adapter
<1>4. NotificationsTypeOK'
  BY <1>1, <1>3 DEF NotificationsTypeOK
<1>5. AskedAgainSoon'
  BY <1>1 DEF AskedAgainSoon
<1>6. UntakenUntilAnswered'
  BY <1>1 DEF UntakenUntilAnswered
<1> QED  BY <1>2, <1>4, <1>5, <1>6

LEMMA AnsweredKeeps ==
  ASSUME ChannelsInv, NEW m \in Notice, NEW answer \in {"taken", "refused", "too_many", "silence"},
         Answered(m, answer)
  PROVE  ChannelsInv'
<1> USE NotificationAssumption DEF NotificationAssumption
<1>1. /\ sending[m].step \in {"posting", "reposting"} /\ UNCHANGED <<adapter, botToken>>
      /\ taken[m] = 0 /\ taken \in [Notice -> Nat]
  BY DEF Answered, ChannelsInv, UntakenUntilAnswered, NotificationsTypeOK
<1>2. /\ taken' \in [Notice -> Nat] /\ \A n \in Notice : n # m => taken'[n] = taken[n]
      /\ taken'[m] \in 0..1 /\ (answer \notin {"taken", "silence"} => taken'[m] = 0)
  <2>1. CASE taken' = [taken EXCEPT ![m] = @ + 1] /\ answer \in {"taken", "silence"}
    BY <1>1, <2>1
  <2>2. CASE UNCHANGED taken
    BY <1>1, <2>2
  <2> QED  BY <2>1, <2>2 DEF Answered
<1>3. CASE AsksAgain(m, answer)
  <2>4. answer # "taken"
    BY <1>3 DEF AsksAgain
  <2>1. PICK body \in Delays \cup {Silent}, header \in Delays \cup {Silent} :
          Becomes(m, "waiting", RetryAfter(body, header))
    BY <1>3, <2>4 DEF Answered
  <2>2. RetryAfter(body, header) \in 0..SendTimeout
    BY RetryIsSoon
  <2>3. Adapter(m) = "discord" /\ taken'[m] = 0
    BY <1>2, <1>3 DEF AsksAgain
  <2> HIDE DEF RetryAfter
  <2> QED  BY <1>1, <1>2, <2>1, <2>2, <2>3, BecomesKeeps DEF Settled
<1>4. CASE ~AsksAgain(m, answer)
  <2>1. Becomes(m, "sent", 0) \/ Becomes(m, "rejected", 0)
    BY <1>4 DEF Answered
  <2>2. 0 \in 0..SendTimeout
    OBVIOUS
  <2> QED  BY <1>1, <1>2, <2>1, <2>2, BecomesKeeps DEF Settled
<1> QED  BY <1>3, <1>4

LEMMA NotificationStepKeeps == ASSUME ChannelsInv, [NotificationNext]_notificationVars PROVE ChannelsInv'
<1> USE NotificationAssumption DEF NotificationAssumption
<1>1. CASE UNCHANGED notificationVars
  BY <1>1 DEF notificationVars, ChannelsInv, NotificationsTypeOK, AskedAgainSoon, UntakenUntilAnswered,
              Adapter
<1>2. ASSUME NEW f \in Firings, Notify(f) PROVE ChannelsInv'
  <2> USE DEF ChannelsInv
  <2>1. UNCHANGED <<adapter, botToken, taken>>
    BY <1>2 DEF Notify
  <2>2. \A m \in Notice : IF m[1] # f THEN sending'[m] = sending[m]
                          ELSE /\ sending'[m].step \in {"rejected", "posting"} /\ sending'[m].wait = 0
                               /\ sending'[m] \in Message /\ sending[m].step = "unsent"
    <3>1. \A m \in Notice : m[1] = f => m = <<f, m[2]>> /\ m[2] \in Channels
      BY DEF Notice
    <3>2. \A m \in Notice : m[1] = f => sending[m].step = "unsent"
      BY <1>2, <3>1 DEF Notify
    <3> QED  BY <1>2, <3>2 DEF Notify, Message
  <2>3. sending' \in [Notice -> Message]
    BY <1>2, <2>2 DEF Notify
  <2>4. \A n \in Notice : Adapter(n)' = Adapter(n)
    BY <2>1 DEF Adapter
  <2>5. NotificationsTypeOK'
    BY <2>1, <2>2, <2>4 DEF NotificationsTypeOK
  <2>6. AskedAgainSoon'
    BY <2>2 DEF AskedAgainSoon
  <2>7. UntakenUntilAnswered'
    BY <2>1, <2>2 DEF UntakenUntilAnswered
  <2> QED  BY <2>3, <2>5, <2>6, <2>7
<1>3. ASSUME NEW m \in Notice, Answer(m) PROVE ChannelsInv'
  BY <1>3, AnsweredKeeps DEF Answer
<1>4. ASSUME NEW m \in Notice, Repost(m) \/ Warn(m) PROVE ChannelsInv'
  <2>1. /\ (Becomes(m, "reposting", 0) /\ taken[m] = 0) \/ Becomes(m, "warned", 0)
        /\ UNCHANGED <<adapter, botToken, taken>>
        /\ taken \in [Notice -> Nat] /\ taken[m] \in 0..1
    BY <1>4 DEF Repost, Warn, ChannelsInv, UntakenUntilAnswered, NotificationsTypeOK
  <2>2. 0 \in 0..SendTimeout
    OBVIOUS
  <2> QED  BY <2>1, <2>2, BecomesKeeps DEF Settled
<1>5. ASSUME Restart PROVE ChannelsInv'
  <2> USE DEF ChannelsInv
  <2>1. UNCHANGED <<adapter, botToken, taken>>
    BY <1>5 DEF Restart
  <2>2. \A m \in Notice : sending'[m] = IF sending[m].step \in Settled THEN sending[m]
                                        ELSE [step |-> "lost", wait |-> 0]
    BY <1>5 DEF Restart
  <2>3. sending' \in [Notice -> Message]
    <3>1. [step |-> "lost", wait |-> 0] \in Message
      BY DEF Message, Settled
    <3> QED  BY <1>5, <3>1 DEF Restart
  <2>4. \A n \in Notice : Adapter(n)' = Adapter(n)
    BY <2>1 DEF Adapter
  <2>5. NotificationsTypeOK'
    BY <2>1, <2>2, <2>4 DEF NotificationsTypeOK, Settled
  <2>6. AskedAgainSoon'
    BY <2>2 DEF AskedAgainSoon
  <2>7. UntakenUntilAnswered'
    BY <2>1, <2>2 DEF UntakenUntilAnswered, Settled
  <2> QED  BY <2>3, <2>5, <2>6, <2>7
<1> QED  BY <1>1, <1>2, <1>3, <1>4, <1>5 DEF NotificationNext

NotificationSpec == NotificationInit /\ [][NotificationNext]_notificationVars

\* The channels (notification.service.ts and its adapters): one takes a firing
\* once at most, whatever it answers, whatever is lost and however often the
\* process ends, and is asked again within the time one request may take.
THEOREM NotificationsInvariant == NotificationSpec => []NotificationsInv
<1>1. ChannelsInv => NotificationsInv
  <2>1. ChannelsInv => NeverToldTwice
    BY DEF ChannelsInv, UntakenUntilAnswered, NeverToldTwice
  <2> QED  BY <2>1 DEF ChannelsInv, NotificationsInv
<1> QED  BY <1>1, ChannelsInitInv, NotificationStepKeeps, PTL DEF NotificationSpec

-----------------------------------------------------------------------------
(* Alert rules.                                                             *)

\* What may be typed into the form, and what a client may send.
Drafts ==
  [name : Typed, conditionType : ConditionTypes, cooldown : {1, 2}, environment : Typed \cup {"blank"},
   serviceName : Typed, channelType : ChannelTypes, target : Targets, thresholdCount : Digits,
   thresholdWindow : {d \in Digits : ~d.more}]

Requests ==
  [name : {"empty", "word", "padded", "long"}, conditionType : ConditionTypes, cooldown : {Missing, 0, 1, 2},
   environment : {Missing, "word"}, tagKey : {Missing, "tag", "environment"},
   tagValue : {Missing, "word", "blank"}, serviceName : {Missing, "word"},
   channels : Seq([type : ChannelTypes, target : {"empty", "word", "padded", "url"}]),
   thresholdCount : Int \cup {Missing, NaN}, thresholdWindow : Int \cup {Missing, NaN}]

\* What a row may hold.
Rows ==
  [name : {"word"}, enabled : BOOLEAN, conditionType : ConditionTypes,
   environment : {Missing, "word"}, tagKey : {Missing, "tag", "environment"}, tagValue : {Missing, "word"},
   serviceName : {Missing, "word"}, thresholdCount : 1..MaxCount \cup {Missing},
   thresholdWindow : 1..MaxCount \cup {Missing}, cooldown : 1..MaxCount,
   channels : Seq([type : ChannelTypes, target : {"word", "url"}])]

\* The request under way carries its draft and is refused by the contract only.
PostTells ==
  \/ post = NoPost
  \/ \E d \in Drafts, step \in {"sent", "ok", "refused", "failed"} :
       /\ post = [step |-> step, body |-> ToCreateAlertRuleRequest(d), from |-> d]
       /\ step = "refused" => ~CreateAlertRuleRequest(post.body)

\* A row is what the contract let in; until it is renamed it is that of its draft.
KeptTells ==
  \/ kept = NoRule
  \/ kept.row \in Rows /\ kept = [row |-> kept.row, from |-> Missing]
  \/ \E d \in Drafts, on \in BOOLEAN :
       /\ kept = [row |-> [RowOf(ToCreateAlertRuleRequest(d)) EXCEPT !.enabled = on], from |-> d]
       /\ CreateAlertRuleRequest(ToCreateAlertRuleRequest(d))

RulesIInv ==
  /\ draft \in Drafts /\ composing \in BOOLEAN /\ awaited \in BOOLEAN
  /\ drawn \in [status : {"loading", "error", "ready"}, some : BOOLEAN] /\ (drawn.some => drawn.status = "ready")
  /\ PostTells /\ KeptTells

\* The request of a draft, by its fields.
LEMMA RequestOfDraft ==
  ASSUME NEW d \in Drafts
  PROVE  LET body == ToCreateAlertRuleRequest(d)
             volume == d.conditionType = "volume_threshold" IN
         /\ body \in Requests
         /\ body.name = Trim(d.name) /\ body.conditionType = d.conditionType /\ body.cooldown = d.cooldown
         /\ body.environment = Unless(Trim(d.environment) = "empty", Trim(d.environment))
         /\ body.serviceName = Unless(Trim(d.serviceName) = "empty", Trim(d.serviceName))
         /\ body.tagKey = Missing /\ body.tagValue = Missing
         /\ body.channels = <<ChannelFromDraft(d.channelType, Trim(d.target))>>
         /\ body.thresholdCount = (IF volume THEN d.thresholdCount.read ELSE Missing)
         /\ body.thresholdWindow = (IF volume THEN d.thresholdWindow.read ELSE Missing)
<1> DEFINE body == ToCreateAlertRuleRequest(d)
           volume == d.conditionType = "volume_threshold"
<1>1. /\ d.name \in Typed /\ d.conditionType \in ConditionTypes /\ d.cooldown \in {1, 2}
      /\ d.environment \in Typed \cup {"blank"} /\ d.serviceName \in Typed
      /\ d.channelType \in ChannelTypes /\ d.target \in Targets
      /\ d.thresholdCount \in Digits /\ d.thresholdWindow \in Digits
  BY DEF Drafts
<1>2. /\ Trim(d.name) \in {"empty", "word"}
      /\ Trim(d.environment) \in {"empty", "word"} /\ Trim(d.serviceName) \in {"empty", "word"}
      /\ Trim(d.target) \in {"empty", "word", "url"}
  BY <1>1 DEF Trim, Typed, Targets
<1>3. d.thresholdCount.read \in Int \cup {NaN} /\ d.thresholdWindow.read \in Int \cup {NaN}
  BY <1>1, AlertRulesAssumption DEF Digits, AlertRulesAssumption
<1>9. /\ EveryField(d).name = Trim(d.name) /\ EveryField(d).conditionType = d.conditionType
      /\ EveryField(d).cooldown = d.cooldown
      /\ EveryField(d).environment = Unless(Trim(d.environment) = "empty", Trim(d.environment))
      /\ EveryField(d).serviceName = Unless(Trim(d.serviceName) = "empty", Trim(d.serviceName))
      /\ EveryField(d).tagKey = Missing /\ EveryField(d).tagValue = Missing
      /\ EveryField(d).channels = <<ChannelFromDraft(d.channelType, Trim(d.target))>>
      /\ EveryField(d).thresholdCount = d.thresholdCount.read
      /\ EveryField(d).thresholdWindow = d.thresholdWindow.read
  BY DEF EveryField, ParseInt
<1>10. PICK e : e = EveryField(d)
  OBVIOUS
<1>11. /\ body = [e EXCEPT !.thresholdCount = Unless(~volume, e.thresholdCount),
                           !.thresholdWindow = Unless(~volume, e.thresholdWindow)]
       /\ DOMAIN e = {"conditionType", "name", "cooldown", "environment", "tagKey", "tagValue",
                      "serviceName", "channels", "thresholdCount", "thresholdWindow"}
       /\ e = [x \in DOMAIN e |-> e[x]]
  BY <1>10 DEF ToCreateAlertRuleRequest, EveryField
<1>4. /\ body.name = Trim(d.name) /\ body.conditionType = d.conditionType /\ body.cooldown = d.cooldown
      /\ body.environment = Unless(Trim(d.environment) = "empty", Trim(d.environment))
      /\ body.serviceName = Unless(Trim(d.serviceName) = "empty", Trim(d.serviceName))
      /\ body.tagKey = Missing /\ body.tagValue = Missing
      /\ body.channels = <<ChannelFromDraft(d.channelType, Trim(d.target))>>
      /\ body.thresholdCount = (IF volume THEN d.thresholdCount.read ELSE Missing)
      /\ body.thresholdWindow = (IF volume THEN d.thresholdWindow.read ELSE Missing)
      /\ body = [conditionType |-> body.conditionType, name |-> body.name, cooldown |-> body.cooldown,
                 environment |-> body.environment, tagKey |-> body.tagKey, tagValue |-> body.tagValue,
                 serviceName |-> body.serviceName, channels |-> body.channels,
                 thresholdCount |-> body.thresholdCount, thresholdWindow |-> body.thresholdWindow]
  <2>1. body.name = e.name /\ body.conditionType = e.conditionType /\ body.cooldown = e.cooldown
        /\ body.environment = e.environment /\ body.serviceName = e.serviceName /\ body.tagKey = e.tagKey
        /\ body.tagValue = e.tagValue /\ body.channels = e.channels
        /\ body.thresholdCount = Unless(~volume, e.thresholdCount)
        /\ body.thresholdWindow = Unless(~volume, e.thresholdWindow)
        /\ DOMAIN body = DOMAIN e /\ body = [x \in DOMAIN body |-> body[x]]
    BY <1>11
  <2> QED  BY <1>9, <1>10, <1>11, <2>1 DEF Unless
<1>5. body.environment \in {Missing, "word"} /\ body.serviceName \in {Missing, "word"}
  BY <1>2, <1>4 DEF Unless
<1>6. body.channels \in Seq([type : ChannelTypes, target : {"empty", "word", "padded", "url"}])
  BY <1>1, <1>2, <1>4 DEF ChannelFromDraft
<1>7. body.thresholdCount \in Int \cup {Missing, NaN} /\ body.thresholdWindow \in Int \cup {Missing, NaN}
  BY <1>3, <1>4
<1> HIDE DEF body
<1>8. body \in Requests
  BY <1>1, <1>2, <1>4, <1>5, <1>6, <1>7 DEF Requests
<1> QED  BY <1>4, <1>8 DEF body

\* A form that is filled in makes a request that the contract takes.
LEMMA CompleteIsTaken ==
  ASSUME NEW d \in Drafts, Complete(d) PROVE CreateAlertRuleRequest(ToCreateAlertRuleRequest(d))
<1> USE AlertRulesAssumption DEF AlertRulesAssumption
<1>0. PICK body \in Requests : body = ToCreateAlertRuleRequest(d)
  BY RequestOfDraft
<1>1. /\ d.name \in Typed /\ d.conditionType \in ConditionTypes /\ d.cooldown \in {1, 2}
      /\ d.environment \in Typed \cup {"blank"} /\ d.serviceName \in Typed
      /\ d.channelType \in ChannelTypes /\ d.target \in Targets
  BY DEF Drafts
<1>2. /\ body.name = Trim(d.name) /\ body.conditionType = d.conditionType /\ body.cooldown = d.cooldown
      /\ body.tagKey = Missing /\ body.tagValue = Missing
      /\ body.channels = <<ChannelFromDraft(d.channelType, Trim(d.target))>>
      /\ body.thresholdCount = (IF d.conditionType = "volume_threshold" THEN d.thresholdCount.read ELSE Missing)
      /\ body.thresholdWindow = (IF d.conditionType = "volume_threshold" THEN d.thresholdWindow.read ELSE Missing)
  BY <1>0, RequestOfDraft
<1>3. NonEmptyText(body.name)
  BY <1>1, <1>2 DEF Complete, Meant, Typed, Trim, NonEmptyText
<1>4. \A f \in {"environment", "tagKey", "tagValue", "serviceName"} : Optional(body[f], NonEmptyText(body[f]))
  <2>1. \A value \in {Missing, "word"} : Optional(value, NonEmptyText(value))
    BY DEF Optional, NonEmptyText, Trim
  <2>2. body["environment"] \in {Missing, "word"} /\ body["serviceName"] \in {Missing, "word"}
    BY DEF Requests
  <2> QED  BY <1>2, <2>1, <2>2
<1>5. ChannelConfig(ChannelFromDraft(d.channelType, Trim(d.target)))
  BY <1>1 DEF Complete, Meant, Targets, Trim, NonEmptyText, ChannelConfig, ChannelFromDraft
<1>6. Len(body.channels) \in 1..MaxChannels /\ \A i \in DOMAIN body.channels : ChannelConfig(body.channels[i])
  BY <1>2, <1>5
<1>7. Optional(body.cooldown, WithinBounds(body.cooldown))
  BY <1>1, <1>2 DEF Optional, WithinBounds
<1>8. IF body.conditionType = "volume_threshold"
      THEN WithinBounds(body.thresholdCount) /\ WithinBounds(body.thresholdWindow)
      ELSE body.thresholdCount = Missing /\ body.thresholdWindow = Missing
  BY <1>2 DEF Complete, WithinBounds
<1>9. CommonFields(body)
  BY <1>3, <1>4, <1>6, <1>7 DEF CommonFields
<1> QED  BY <1>0, <1>8, <1>9 DEF CreateAlertRuleRequest

\* The row of a request that was taken.
LEMMA RowTyped ==
  ASSUME NEW body \in Requests, CreateAlertRuleRequest(body)
  PROVE  RowOf(body) \in Rows
<1> USE AlertRulesAssumption DEF AlertRulesAssumption
<1>1. Trim(body.name) = "word"
  BY DEF CreateAlertRuleRequest, CommonFields, NonEmptyText, Trim, Requests
<1>2. /\ TrimOr(body.environment) \in {Missing, "word"} /\ TrimOr(body.serviceName) \in {Missing, "word"}
      /\ TrimOr(body.tagKey) \in {Missing, "tag", "environment"}
  BY DEF Requests, TrimOr, Trim
<1>3. TrimOr(body.tagValue) \in {Missing, "word"}
  <2>1. Optional(body["tagValue"], NonEmptyText(body["tagValue"])) /\ body.tagValue \in {Missing, "word", "blank"}
    BY DEF CreateAlertRuleRequest, CommonFields, Requests
  <2>2. ~NonEmptyText("blank")
    BY DEF NonEmptyText, Trim
  <2>3. body.tagValue \in {Missing, "word"}
    BY <2>1, <2>2 DEF Optional
  <2> QED  BY <2>3 DEF TrimOr, Trim
<1>4. /\ body.thresholdCount \in 1..MaxCount \cup {Missing} /\ body.thresholdWindow \in 1..MaxCount \cup {Missing}
      /\ body.conditionType \in ConditionTypes
  BY DEF CreateAlertRuleRequest, WithinBounds, Requests
<1>5. (IF body.cooldown = Missing THEN 2 ELSE body.cooldown) \in 1..MaxCount
  BY DEF CreateAlertRuleRequest, CommonFields, Optional, WithinBounds
<1>6. [i \in DOMAIN body.channels |-> [body.channels[i] EXCEPT !.target = Trim(@)]]
        \in Seq([type : ChannelTypes, target : {"word", "url"}])
  <2>1. body.channels \in Seq([type : ChannelTypes, target : {"empty", "word", "padded", "url"}])
    BY DEF Requests
  <2>2. PICK n \in Nat : n = Len(body.channels) /\ DOMAIN body.channels = 1..n
    BY <2>1, LenProperties
  <2>3. ASSUME NEW i \in 1..n
        PROVE  [body.channels[i] EXCEPT !.target = Trim(@)] \in [type : ChannelTypes, target : {"word", "url"}]
    <3>1. body.channels[i] \in [type : ChannelTypes, target : {"empty", "word", "padded", "url"}]
      BY <2>1, <2>2, ElementOfSeq
    <3>2. ChannelConfig(body.channels[i])
      BY <2>2 DEF CreateAlertRuleRequest, CommonFields
    <3> QED  BY <3>1, <3>2 DEF ChannelConfig, NonEmptyText, Trim
  <2>4. [i \in 1..n |-> [body.channels[i] EXCEPT !.target = Trim(@)]]
           \in [1..n -> [type : ChannelTypes, target : {"word", "url"}]]
    BY <2>3
  <2> QED  BY <2>2, <2>4, IsASeq
<1> QED  BY <1>1, <1>2, <1>3, <1>4, <1>5, <1>6 DEF RowOf, Rows

LEMMA RulesInitKeeps == AlertRulesInit => RulesIInv
<1> SUFFICES ASSUME AlertRulesInit PROVE RulesIInv
  OBVIOUS
<1> USE DEF AlertRulesInit
<1>1. DefaultAlertRuleDraft \in Drafts
  <2>1. [read |-> MaxCount, more |-> FALSE] \in {d \in Digits : ~d.more}
    BY DEF Digits
  <2> QED  BY <2>1 DEF DefaultAlertRuleDraft, Drafts, Typed, ConditionTypes, ChannelTypes, Targets
<1> QED  BY <1>1 DEF RulesIInv, PostTells, KeptTells

LEMMA DefaultIsADraft == DefaultAlertRuleDraft \in Drafts
<1>1. [read |-> MaxCount, more |-> FALSE] \in {d \in Digits : ~d.more}
  BY DEF Digits
<1> QED  BY <1>1 DEF DefaultAlertRuleDraft, Drafts, Typed, ConditionTypes, ChannelTypes, Targets

\* What is typed into one field leaves a draft a draft.
LEMMA PatchedIsADraft ==
  ASSUME NEW d \in Drafts, NEW f \in DOMAIN FieldValues, NEW value \in FieldValues[f]
  PROVE  [d EXCEPT ![f] = value] \in Drafts
<1>1. DOMAIN FieldValues = {"name", "conditionType", "cooldown", "environment", "serviceName", "channelType",
                            "target", "thresholdCount", "thresholdWindow"}
  BY DEF FieldValues
<1>2. CASE f = "name"
  BY <1>2 DEF FieldValues, Drafts
<1>3. CASE f = "conditionType"
  BY <1>3 DEF FieldValues, Drafts
<1>4. CASE f = "cooldown"
  BY <1>4 DEF FieldValues, Drafts
<1>5. CASE f = "environment"
  BY <1>5 DEF FieldValues, Drafts
<1>6. CASE f = "serviceName"
  BY <1>6 DEF FieldValues, Drafts
<1>7. CASE f = "channelType"
  BY <1>7 DEF FieldValues, Drafts
<1>8. CASE f = "target"
  BY <1>8 DEF FieldValues, Drafts
<1>9. CASE f = "thresholdCount"
  BY <1>9 DEF FieldValues, Drafts
<1>10. CASE f = "thresholdWindow"
  BY <1>10 DEF FieldValues, Drafts
<1> QED  BY <1>1, <1>2, <1>3, <1>4, <1>5, <1>6, <1>7, <1>8, <1>9, <1>10

LEMMA DrawsKeeps ==
  ASSUME RulesIInv, NEW list \in [status : {"loading", "error", "ready"}, some : BOOLEAN],
         list.some => list.status = "ready", Draws(list)
  PROVE  /\ draft' \in Drafts
         /\ drawn' \in [status : {"loading", "error", "ready"}, some : BOOLEAN] /\ (drawn'.some => drawn'.status = "ready")
  BY DefaultIsADraft DEF Draws, RulesIInv

\* What a client may send beside the form.
LEMMA BodyIsARequest == ASSUME NEW body \in Bodies PROVE body \in Requests
<1> DEFINE C == [type : ChannelTypes, target : {"empty", "word", "padded", "url"}]
<1>1. ChannelFromDraft("telegram", "padded") \in C /\ ChannelFromDraft("webhook", "url") \in C
  BY DEF ChannelFromDraft, ChannelTypes
<1> HIDE DEF C
<1>2. MaxChannels + 1 \in Nat /\ MaxCount \in Int /\ MaxCount + 1 \in Int
  BY AlertRulesAssumption DEF AlertRulesAssumption
<1>3. [i \in 1..MaxChannels + 1 |-> ChannelFromDraft("webhook", "url")] \in Seq(C)
  BY <1>1, <1>2, IsASeq
<1>4. <<>> \in Seq(C) /\ <<ChannelFromDraft("telegram", "padded")>> \in Seq(C)
  BY <1>1
<1>5. body.channels \in Seq(C)
  BY <1>3, <1>4 DEF Bodies
<1>6. body.channels \in Seq([type : ChannelTypes, target : {"empty", "word", "padded", "url"}])
  BY <1>5 DEF C
<1> QED  BY <1>2, <1>6 DEF Bodies, Requests

LEMMA RulesStepKeeps == ASSUME RulesIInv, [AlertRulesNext]_alertRulesVars PROVE RulesIInv'
<1> USE DEF RulesIInv
<1>1. CASE Load
  <2>1. /\ awaited' \in BOOLEAN /\ UNCHANGED <<composing, post, kept>>
        /\ \E list \in [status : {"loading", "error", "ready"}, some : BOOLEAN] :
             (list.some => list.status = "ready") /\ Draws(list)
    BY <1>1 DEF Load
  <2> QED  BY <2>1, DrawsKeeps DEF PostTells, KeptTells
<1>2. CASE Retry
  BY <1>2 DEF Retry, PostTells, KeptTells
<1>3. CASE Compose
  BY <1>3 DEF Compose, PostTells, KeptTells
<1>4. CASE Submit
  BY <1>4 DEF Submit, PostTells, KeptTells
<1>5. CASE Serve
  <2>1. post.step = "sent" /\ UNCHANGED <<draft, composing, drawn, awaited>>
    BY <1>5 DEF Serve
  <2>2. PICK d \in Drafts : post = [step |-> "sent", body |-> ToCreateAlertRuleRequest(d), from |-> d]
    BY <2>1 DEF PostTells, NoPost
  <2>3. CASE ~CreateAlertRuleRequest(post.body) /\ post' = [post EXCEPT !.step = "refused"] /\ kept' = kept
    <3>1. post' = [step |-> "refused", body |-> ToCreateAlertRuleRequest(d), from |-> d]
      BY <2>2, <2>3
    <3>2. ~CreateAlertRuleRequest(post'.body)
      BY <2>2, <2>3, <3>1
    <3>3. PostTells'
      BY <3>1, <3>2 DEF PostTells
    <3> QED  BY <2>1, <2>3, <3>3 DEF KeptTells
  <2>4. ASSUME NEW step \in {"ok", "failed"}, CreateAlertRuleRequest(post.body),
               kept' = [row |-> RowOf(post.body), from |-> post.from], post' = [post EXCEPT !.step = step]
        PROVE  RulesIInv'
    <3>1. post' = [step |-> step, body |-> ToCreateAlertRuleRequest(d), from |-> d]
      BY <2>2, <2>4
    <3>2. PostTells'
      BY <3>1 DEF PostTells
    <3>3. PICK r : r = RowOf(post.body)
      OBVIOUS
    <3>4. r = [x \in DOMAIN r |-> r[x]] /\ r.enabled = TRUE /\ "enabled" \in DOMAIN r
      BY <3>3 DEF RowOf
    <3>5. r = [r EXCEPT !.enabled = TRUE]
      BY <3>4
    <3>6. kept' = [row |-> [RowOf(ToCreateAlertRuleRequest(d)) EXCEPT !.enabled = TRUE], from |-> d]
      BY <2>2, <2>4, <3>3, <3>5
    <3>7. KeptTells'
      BY <2>2, <2>4, <3>6 DEF KeptTells
    <3> QED  BY <2>1, <3>2, <3>7
  <2>5. CASE post' = [post EXCEPT !.step = "failed"] /\ kept' = kept
    <3>1. post' = [step |-> "failed", body |-> ToCreateAlertRuleRequest(d), from |-> d]
      BY <2>2, <2>5
    <3>2. PostTells'
      BY <3>1 DEF PostTells
    <3> QED  BY <2>1, <2>5, <3>2 DEF KeptTells
  <2> QED  BY <1>5, <2>3, <2>4, <2>5 DEF Serve
<1>6. CASE Told
  BY <1>6 DEF Told, PostTells, KeptTells
<1>7. CASE CreateRuleByApi
  <2>1. PICK body \in Bodies : CreateAlertRuleRequest(body) /\ kept' = [row |-> RowOf(body), from |-> Missing]
    BY <1>7 DEF CreateRuleByApi
  <2>2. RowOf(body) \in Rows
    BY <2>1, BodyIsARequest, RowTyped
  <2>3. KeptTells'
    BY <2>1, <2>2 DEF KeptTells
  <2> QED  BY <1>7, <2>3 DEF CreateRuleByApi, PostTells
<1>8. CASE RemoveRule
  BY <1>8 DEF RemoveRule, PostTells, KeptTells
<1>9. ASSUME NEW f \in DOMAIN FieldValues, NEW value \in FieldValues[f], Patch(f, value) PROVE RulesIInv'
  BY <1>9, PatchedIsADraft DEF Patch, PostTells, KeptTells
<1>10. ASSUME NEW change \in [name : {"padded", "blank"}, enabled : {FALSE}], UpdateRule(change) PROVE RulesIInv'
  <2>1. /\ kept # NoRule /\ UpdateAlertRuleRequest(change)
        /\ kept' = [row |-> Updated(kept.row, change),
                    from |-> IF change.name = Missing THEN kept.from ELSE Missing]
        /\ UNCHANGED <<draft, composing, drawn, awaited, post>>
    BY <1>10 DEF UpdateRule
  <2>2. /\ change.name # Missing /\ change.name \in {"padded", "blank"} /\ NonEmptyText(change.name)
        /\ change.enabled = FALSE
    <3>1. change.name \in {"padded", "blank"} /\ change.enabled = FALSE
      OBVIOUS
    <3>3. change.name # Missing
      BY <3>1, AlertRulesAssumption DEF AlertRulesAssumption, Texts
    <3> QED  BY <2>1, <3>1, <3>3 DEF UpdateAlertRuleRequest, Optional
  <2>3. Trim(change.name) = "word"
    BY <2>2 DEF NonEmptyText, Trim
  <2>4. kept.row \in Rows
    <3>1. ASSUME NEW d \in Drafts, NEW on \in BOOLEAN, CreateAlertRuleRequest(ToCreateAlertRuleRequest(d)),
                 kept = [row |-> [RowOf(ToCreateAlertRuleRequest(d)) EXCEPT !.enabled = on], from |-> d]
          PROVE  kept.row \in Rows
      <4>1. RowOf(ToCreateAlertRuleRequest(d)) \in Rows
        BY <3>1, RequestOfDraft, RowTyped
      <4> QED  BY <3>1, <4>1 DEF Rows
    <3> QED  BY <2>1, <3>1 DEF KeptTells
  <2>5. Updated(kept.row, change) \in Rows
    <3>1. change.enabled # Missing => change.enabled \in BOOLEAN
      BY <2>2
    <3> QED  BY <2>2, <2>3, <2>4, <3>1 DEF Updated, Rows
  <2>6. KeptTells'
    BY <2>1, <2>2, <2>5 DEF KeptTells
  <2> QED  BY <2>1, <2>6 DEF PostTells
<1>11. CASE UNCHANGED alertRulesVars
  BY <1>11 DEF alertRulesVars, PostTells, KeptTells
<1> QED  BY <1>1, <1>2, <1>3, <1>4, <1>5, <1>6, <1>7, <1>8, <1>9, <1>10, <1>11 DEF AlertRulesNext

\* A row that is kept has its type, whoever made it.
LEMMA KeptRow == ASSUME RulesIInv, kept # NoRule PROVE kept.row \in Rows
<1>1. ASSUME NEW d \in Drafts, NEW on \in BOOLEAN, CreateAlertRuleRequest(ToCreateAlertRuleRequest(d)),
             kept = [row |-> [RowOf(ToCreateAlertRuleRequest(d)) EXCEPT !.enabled = on], from |-> d]
      PROVE  kept.row \in Rows
  <2>1. RowOf(ToCreateAlertRuleRequest(d)) \in Rows
    BY <1>1, RequestOfDraft, RowTyped
  <2> QED  BY <1>1, <2>1 DEF Rows
<1> QED  BY <1>1 DEF RulesIInv, KeptTells

LEMMA RulesAreTyped == ASSUME RulesIInv PROVE AlertRulesTypeOK
<1>1. \A f \in DOMAIN FieldValues : draft[f] \in FieldValues[f]
  <2>1. PICK d \in Drafts : d = draft
    BY DEF RulesIInv
  <2>2. /\ d["name"] \in Typed /\ d["conditionType"] \in ConditionTypes /\ d["cooldown"] \in {1, 2}
        /\ d["environment"] \in Typed \cup {"blank"} /\ d["serviceName"] \in Typed
        /\ d["channelType"] \in ChannelTypes /\ d["target"] \in Targets
        /\ d["thresholdCount"] \in Digits /\ d["thresholdWindow"] \in {x \in Digits : ~x.more}
    BY DEF Drafts
  <2>3. PICK t1, t2, t3, t4, t5, t6 :
          /\ t1 = Typed /\ t2 = ConditionTypes /\ t3 = ChannelTypes /\ t4 = Targets /\ t5 = Digits
          /\ t6 = {x \in Digits : ~x.more}
    OBVIOUS
  <2>4. FieldValues = [name |-> t1, conditionType |-> t2, cooldown |-> {1, 2},
                       environment |-> t1 \cup {"blank"}, serviceName |-> t1, channelType |-> t3,
                       target |-> t4, thresholdCount |-> t5, thresholdWindow |-> t6]
    BY <2>3 DEF FieldValues
  <2> QED  BY <2>1, <2>2, <2>3, <2>4
<1>2. post.step \in {"none", "sent", "ok", "refused", "failed"}
  BY DEF RulesIInv, PostTells, NoPost
<1>3. ASSUME kept # NoRule
      PROVE  /\ kept.row.name = "word" /\ kept.row.cooldown \in 1..MaxCount
             /\ \A f \in {"environment", "tagKey", "tagValue", "serviceName"} :
                  kept.row[f] \in {Missing, "word", "tag", "environment"}
             /\ {kept.row.thresholdCount, kept.row.thresholdWindow} \subseteq 1..MaxCount \cup {Missing}
  BY <1>3, KeptRow DEF Rows
<1> QED  BY <1>1, <1>2, <1>3 DEF RulesIInv, AlertRulesTypeOK

LEMMA FilledIsTaken == ASSUME RulesIInv PROVE FilledFormIsTaken
<1>1. ASSUME NEW d \in Drafts, NEW step \in {"sent", "ok", "refused", "failed"},
             post = [step |-> step, body |-> ToCreateAlertRuleRequest(d), from |-> d],
             step = "refused" => ~CreateAlertRuleRequest(post.body)
      PROVE  FilledFormIsTaken
  BY <1>1, CompleteIsTaken DEF FilledFormIsTaken
<1> QED  BY <1>1 DEF RulesIInv, PostTells, NoPost, FilledFormIsTaken

\* A filter on its own.
LEMMA OnePill ==
  ASSUME NEW there \in BOOLEAN, NEW k, NEW value
  PROVE  /\ DOMAIN When(there, k, value) = IF there THEN {k} ELSE {}
         /\ there => When(there, k, value)[k] = value
BY DEF When

LEMMA RuleSays == ASSUME RulesIInv PROVE RuleSaysWhatWasDrafted
<1> SUFFICES ASSUME NEW d \in Drafts, NEW on \in BOOLEAN, CreateAlertRuleRequest(ToCreateAlertRuleRequest(d)),
                    kept = [row |-> [RowOf(ToCreateAlertRuleRequest(d)) EXCEPT !.enabled = on], from |-> d]
             PROVE  RuleSaysWhatWasDrafted
  <2>1. CASE kept.from = Missing
    BY <2>1 DEF RuleSaysWhatWasDrafted
  <2> QED  BY <2>1 DEF RulesIInv, KeptTells, NoRule
<1> DEFINE v == ToAlertRuleView(kept.row)
           Drawn(key) == IF key \in DOMAIN v.filters THEN v.filters[key] ELSE Missing
<1>1. PICK body \in Requests : body = ToCreateAlertRuleRequest(d)
  BY RequestOfDraft
<1>2. /\ body.name = Trim(d.name) /\ body.conditionType = d.conditionType /\ body.cooldown = d.cooldown
      /\ body.environment = Unless(Trim(d.environment) = "empty", Trim(d.environment))
      /\ body.serviceName = Unless(Trim(d.serviceName) = "empty", Trim(d.serviceName))
      /\ body.tagKey = Missing /\ body.tagValue = Missing
      /\ body.channels = <<ChannelFromDraft(d.channelType, Trim(d.target))>>
      /\ body.thresholdCount = (IF d.conditionType = "volume_threshold" THEN d.thresholdCount.read ELSE Missing)
      /\ body.thresholdWindow = (IF d.conditionType = "volume_threshold" THEN d.thresholdWindow.read ELSE Missing)
  BY <1>1, RequestOfDraft
<1>3. PICK made : made = kept.row
  OBVIOUS
<1>4. /\ made.name = Trim(body.name) /\ made.conditionType = body.conditionType
      /\ made.environment = TrimOr(body.environment) /\ made.serviceName = TrimOr(body.serviceName)
      /\ made.tagKey = TrimOr(body.tagKey) /\ made.tagValue = TrimOr(body.tagValue)
      /\ made.thresholdCount = body.thresholdCount /\ made.thresholdWindow = body.thresholdWindow
      /\ made.cooldown = (IF body.cooldown = Missing THEN 2 ELSE body.cooldown)
      /\ made.channels = [i \in DOMAIN body.channels |-> [body.channels[i] EXCEPT !.target = Trim(@)]]
  BY <1>1, <1>3 DEF RowOf
<1>5. /\ d.name \in Typed /\ d.conditionType \in ConditionTypes /\ d.cooldown \in {1, 2}
      /\ d.environment \in Typed \cup {"blank"} /\ d.serviceName \in Typed
      /\ d.channelType \in ChannelTypes /\ d.target \in Targets
  BY DEF Drafts
<1>6. v.name = Meant(d.name) /\ v.cooldown = d.cooldown
  <2>1. NonEmptyText(body.name)
    BY <1>1 DEF CreateAlertRuleRequest, CommonFields
  <2>2. made.name = Meant(d.name)
    BY <1>2, <1>4, <1>5, <2>1 DEF NonEmptyText, Trim, Meant, Typed
  <2>3. made.cooldown = d.cooldown
    BY <1>2, <1>4, <1>5, AlertRulesAssumption DEF AlertRulesAssumption
  <2> QED  BY <1>3, <2>2, <2>3 DEF ToAlertRuleView
<1>7. made.environment = Meant(d.environment) /\ made.serviceName = Meant(d.serviceName)
  BY <1>2, <1>4, <1>5 DEF Unless, TrimOr, Trim, Meant, Typed
<1>8. made.tagKey = Missing /\ made.tagValue = Missing
  BY <1>2, <1>4 DEF TrimOr
<1>9. /\ DOMAIN v.filters \subseteq {"environment", "service"}
      /\ Drawn("environment") = Meant(d.environment) /\ Drawn("service") = Meant(d.serviceName)
  <2>1. v.filters = FilterEntries(made)
    BY <1>3 DEF ToAlertRuleView
  <2>2. PICK a, b, c : /\ a = When(made.serviceName # Missing, "service", made.serviceName)
                       /\ b = When(made.tagKey # Missing /\ made.tagValue # Missing, made.tagKey, made.tagValue)
                       /\ c = When(made.environment # Missing, "environment", made.environment)
    OBVIOUS
  <2>3. /\ DOMAIN b = {}
        /\ DOMAIN a = (IF made.serviceName # Missing THEN {"service"} ELSE {})
        /\ made.serviceName # Missing => a["service"] = made.serviceName
        /\ DOMAIN c = (IF made.environment # Missing THEN {"environment"} ELSE {})
        /\ made.environment # Missing => c["environment"] = made.environment
    BY <1>8, <2>2, OnePill
  <2>4. /\ DOMAIN v.filters = DOMAIN a \cup DOMAIN b \cup DOMAIN c
        /\ \A key \in DOMAIN v.filters :
             v.filters[key] = IF key \in DOMAIN a THEN a[key] ELSE IF key \in DOMAIN b THEN b[key] ELSE c[key]
    <3>1. v.filters = Over(a, Over(b, c))
      BY <2>1, <2>2 DEF FilterEntries
    <3>2. PICK bc : bc = Over(b, c)
      OBVIOUS
    <3>3. /\ DOMAIN bc = DOMAIN b \cup DOMAIN c
          /\ \A key \in DOMAIN bc : bc[key] = IF key \in DOMAIN b THEN b[key] ELSE c[key]
      BY <3>2 DEF Over
    <3>4. /\ DOMAIN v.filters = DOMAIN a \cup DOMAIN bc
          /\ \A key \in DOMAIN v.filters : v.filters[key] = IF key \in DOMAIN a THEN a[key] ELSE bc[key]
      BY <3>1, <3>2 DEF Over
    <3> QED  BY <3>3, <3>4
  <2> QED  BY <1>7, <2>3, <2>4
<1>10. Len(v.channels) = 1 /\ v.channels[1][1] = d.channelType
  <2>1. PICK ch : ch = [ChannelFromDraft(d.channelType, Trim(d.target)) EXCEPT !.target = Trim(@)]
    OBVIOUS
  <2>2. DOMAIN body.channels = 1..1 /\ made.channels = [i \in 1..1 |-> ch]
    BY <1>2, <1>4, <2>1
  <2>3. v.channels = [i \in 1..1 |-> FormatChannel(ch)]
    BY <1>3, <2>2 DEF ToAlertRuleView
  <2>4. ch.type = d.channelType
    BY <2>1 DEF ChannelFromDraft
  <2>5. FormatChannel(ch)[1] = d.channelType
    BY <2>4, <1>5 DEF FormatChannel, ChannelTypes
  <2> QED  BY <2>3, <2>5
<1>11. v.condition = IF d.conditionType = "volume_threshold"
                     THEN <<d.thresholdCount.read, d.thresholdWindow.read>> ELSE <<d.conditionType>>
  BY <1>2, <1>3, <1>4 DEF ToAlertRuleView, ConditionSummary
<1> QED  BY <1>6, <1>9, <1>10, <1>11 DEF RuleSaysWhatWasDrafted

LEMMA FiltersApplied == ASSUME RulesIInv PROVE FiltersDrawnAreApplied
<1> SUFFICES ASSUME kept # NoRule, kept.row.tagKey = Missing <=> kept.row.tagValue = Missing,
                    kept.row.tagKey # "environment", NEW report \in Seen
             PROVE  MatchesFilters(kept.row, report) <=>
                    \A key \in DOMAIN FilterEntries(kept.row) :
                        FilterEntries(kept.row)[key] =
                            CASE key = "environment" -> report.environment
                              [] key = "service"     -> report.serviceName
                              [] OTHER -> IF report.tags = Missing THEN Missing ELSE report.tags[key]
  BY DEF FiltersDrawnAreApplied
<1>1. PICK made \in Rows : made = kept.row
  BY KeptRow
<1>2. PICK a, b, c, pills :
        /\ a = When(made.serviceName # Missing, "service", made.serviceName)
        /\ b = When(made.tagKey # Missing /\ made.tagValue # Missing, made.tagKey, made.tagValue)
        /\ c = When(made.environment # Missing, "environment", made.environment)
        /\ pills = FilterEntries(made)
  OBVIOUS
<1>3. /\ made.tagKey \in {Missing, "tag"} /\ made.tagValue \in {Missing, "word"}
      /\ made.tagKey = Missing <=> made.tagValue = Missing
  BY <1>1 DEF Rows
<1>4. "tag" # Missing /\ "word" # Missing
  BY AlertRulesAssumption DEF AlertRulesAssumption, Texts
<1>5. /\ DOMAIN a = (IF made.serviceName # Missing THEN {"service"} ELSE {})
      /\ made.serviceName # Missing => a["service"] = made.serviceName
      /\ DOMAIN b = (IF made.tagKey = "tag" THEN {"tag"} ELSE {})
      /\ made.tagKey = "tag" => b["tag"] = made.tagValue
      /\ DOMAIN c = (IF made.environment # Missing THEN {"environment"} ELSE {})
      /\ made.environment # Missing => c["environment"] = made.environment
  <2>1. /\ DOMAIN a = (IF made.serviceName # Missing THEN {"service"} ELSE {})
        /\ made.serviceName # Missing => a["service"] = made.serviceName
    BY <1>2, OnePill
  <2>2. PICK there \in BOOLEAN : there <=> made.tagKey # Missing /\ made.tagValue # Missing
    OBVIOUS
  <2>3. DOMAIN b = (IF there THEN {made.tagKey} ELSE {}) /\ (there => b[made.tagKey] = made.tagValue)
    BY <1>2, <2>2, OnePill
  <2>4. DOMAIN b = (IF made.tagKey = "tag" THEN {"tag"} ELSE {}) /\ (made.tagKey = "tag" => b["tag"] = made.tagValue)
    BY <1>3, <1>4, <2>2, <2>3
  <2>5. /\ DOMAIN c = (IF made.environment # Missing THEN {"environment"} ELSE {})
        /\ made.environment # Missing => c["environment"] = made.environment
    BY <1>2, OnePill
  <2> QED  BY <2>1, <2>4, <2>5
<1>6. /\ DOMAIN pills = DOMAIN a \cup DOMAIN b \cup DOMAIN c
      /\ \A key \in DOMAIN pills :
           pills[key] = IF key \in DOMAIN a THEN a[key] ELSE IF key \in DOMAIN b THEN b[key] ELSE c[key]
  <2>1. pills = Over(a, Over(b, c))
    BY <1>2 DEF FilterEntries
  <2>2. PICK bc : bc = Over(b, c)
    OBVIOUS
  <2>3. /\ DOMAIN bc = DOMAIN b \cup DOMAIN c
        /\ \A key \in DOMAIN bc : bc[key] = IF key \in DOMAIN b THEN b[key] ELSE c[key]
    BY <2>2 DEF Over
  <2>4. /\ DOMAIN pills = DOMAIN a \cup DOMAIN bc
        /\ \A key \in DOMAIN pills : pills[key] = IF key \in DOMAIN a THEN a[key] ELSE bc[key]
    BY <2>1, <2>2 DEF Over
  <2> QED  BY <2>3, <2>4
<1>7. /\ made.serviceName # Missing => "service" \in DOMAIN pills /\ pills["service"] = made.serviceName
      /\ made.environment # Missing => "environment" \in DOMAIN pills /\ pills["environment"] = made.environment
      /\ made.tagKey # Missing => "tag" \in DOMAIN pills /\ pills["tag"] = made.tagValue
      /\ \A key \in DOMAIN pills : \/ key = "service" /\ made.serviceName # Missing
                                   \/ key = "environment" /\ made.environment # Missing
                                   \/ key = "tag" /\ made.tagKey # Missing
  BY <1>3, <1>4, <1>5, <1>6
<1>8. /\ report.tags # Missing => DOMAIN report.tags = {"tag", "environment"}
      /\ made.tagKey # Missing => made.tagKey = "tag" /\ made.tagValue # Missing
  BY <1>3 DEF Seen
<1>9. MatchesFilters(made, report) <=>
        /\ made.environment # Missing => made.environment = report.environment
        /\ made.serviceName # Missing => made.serviceName = report.serviceName
        /\ made.tagKey # Missing => report.tags # Missing /\ report.tags["tag"] = made.tagValue
  BY <1>8 DEF MatchesFilters
<1>10. (\A key \in DOMAIN pills :
          pills[key] = CASE key = "environment" -> report.environment
                         [] key = "service"     -> report.serviceName
                         [] OTHER -> IF report.tags = Missing THEN Missing ELSE report.tags[key])
       <=>
        /\ made.environment # Missing => made.environment = report.environment
        /\ made.serviceName # Missing => made.serviceName = report.serviceName
        /\ made.tagKey # Missing => report.tags # Missing /\ report.tags["tag"] = made.tagValue
  BY <1>7, <1>8
<1> QED  BY <1>1, <1>2, <1>9, <1>10

AlertRulesSpec == AlertRulesInit /\ [][AlertRulesNext]_alertRulesVars

\* A rule on its way from the form to the evaluation, in every behaviour of the
\* screen, the contract and the other clients of the API: a form that is filled
\* in is not refused, the rule is drawn as it was filled in, and it watches the
\* reports that its line tells.
THEOREM AlertRulesInvariant == AlertRulesSpec => []AlertRulesInv
<1>1. AlertRulesInit => RulesIInv
  BY RulesInitKeeps
<1>2. RulesIInv /\ [AlertRulesNext]_alertRulesVars => RulesIInv'
  BY RulesStepKeeps
<1>3. RulesIInv => AlertRulesInv
  BY RulesAreTyped, FilledIsTaken, RuleSays, FiltersApplied DEF AlertRulesInv
<1> QED  BY <1>1, <1>2, <1>3, PTL DEF AlertRulesSpec

-----------------------------------------------------------------------------
(* The summary of a project.                                               *)

\* A whole number of times a divisor, and what is left.
LEMMA Quotient ==
  ASSUME NEW x \in Int, NEW d \in Nat \ {0}
  PROVE  /\ x \div d \in Int
         /\ x \div d > 0 => x >= d
         /\ x \div d < 0 => x < 0
OBVIOUS

\* The words of a trend never say the opposite of its arrow, whatever was
\* counted: a change is told as "no change" only because it rounds to nothing.
THEOREM TrendNeverContradicts ==
  \A total \in Nat, previous \in Nat :
    DescribeTrend(total, previous) \in {"flat", TrendDirection(total, previous)}
<1> SUFFICES ASSUME NEW total \in Nat, NEW previous \in Nat
             PROVE  DescribeTrend(total, previous) \in {"flat", TrendDirection(total, previous)}
  OBVIOUS
<1>1. CASE previous = 0
  BY <1>1 DEF DescribeTrend, TrendDirection
<1>2. CASE previous # 0
  <2>1. PICK h, change : h \in Nat \ {0} /\ h = Hundred /\ change = Round(Hundred * (total - previous), previous)
    BY DashboardAssumption DEF DashboardAssumption
  <2>2. PICK x \in Int : x = 2 * (h * (total - previous)) + previous
    BY <2>1
  <2>3. PICK d \in Nat \ {0} : d = 2 * previous
    BY <1>2
  <2>4. change = x \div d
    BY <2>1, <2>2, <2>3 DEF Round
  <2>5. change \in Int /\ (change > 0 => x >= d) /\ (change < 0 => x < 0)
    BY <2>2, <2>3, <2>4, Quotient
  <2>6. ASSUME change > 0 PROVE total > previous
    <3>1. h * (total - previous) > 0
      <4>1. PICK p \in Int : p = h * (total - previous)
        BY <2>1
      <4> QED  BY <1>2, <2>2, <2>3, <2>5, <2>6, <4>1
    <3> QED  BY <2>1, <3>1
  <2>7. ASSUME change < 0 PROVE total < previous
    <3>1. h * (total - previous) < 0
      <4>1. PICK p \in Int : p = h * (total - previous)
        BY <2>1
      <4> QED  BY <1>2, <2>2, <2>3, <2>5, <2>7, <4>1
    <3> QED  BY <2>1, <3>1
  <2> QED  BY <1>2, <2>1, <2>5, <2>6, <2>7 DEF DescribeTrend, TrendDirection
<1> QED  BY <1>1, <1>2

\* As many elements as numbers to give them: each can have one of its own.
LEMMA InjectDown ==
  ASSUME NEW S, IsFiniteSet(S), NEW n \in Nat, Cardinality(S) <= n
  PROVE  Injection(S, 1..n) # {}
<1>1. Cardinality(S) \in Nat /\ ExistsBijection(1..Cardinality(S), S)
  BY FS_CardinalityType
<1>2. ExistsBijection(S, 1..Cardinality(S))
  BY <1>1, Fun_ExistsBijSymmetric
<1>3. PICK f \in Bijection(S, 1..Cardinality(S)) : TRUE
  BY <1>2 DEF ExistsBijection
<1>4. f \in [S -> 1..Cardinality(S)] /\ \A x, y \in S : f[x] = f[y] => x = y
  BY <1>3 DEF Bijection, Injection, IsInjective
<1>5. 1..Cardinality(S) \subseteq 1..n
  BY <1>1
<1>6. f \in [S -> 1..n]
  BY <1>4, <1>5
<1> QED  BY <1>4, <1>6 DEF Injection, IsInjective

LEMMA InjectUp ==
  ASSUME NEW S, IsFiniteSet(S), NEW n \in Nat, n <= Cardinality(S)
  PROVE  Injection(1..n, S) # {}
<1>1. Cardinality(S) \in Nat /\ ExistsBijection(1..Cardinality(S), S)
  BY FS_CardinalityType
<1>3. PICK f \in Bijection(1..Cardinality(S), S) : TRUE
  BY <1>1 DEF ExistsBijection
<1>4. f \in [1..Cardinality(S) -> S] /\ \A x, y \in 1..Cardinality(S) : f[x] = f[y] => x = y
  BY <1>3 DEF Bijection, Injection, IsInjective
<1>5. 1..n \subseteq 1..Cardinality(S)
  BY <1>1
<1>6. PICK g : g = [k \in 1..n |-> f[k]]
  OBVIOUS
<1>7. g \in [1..n -> S]
  BY <1>4, <1>5, <1>6
<1>8. \A x, y \in 1..n : g[x] = g[y] => x = y
  BY <1>4, <1>5, <1>6
<1>9. DOMAIN g = 1..n
  BY <1>6
<1> QED  BY <1>7, <1>8, <1>9 DEF Injection, IsInjective

\* The places of counts are finitely many.
LEMMA PlacesAreFinite ==
  ASSUME NEW counts, IsFiniteSet(DOMAIN counts), \A key \in DOMAIN counts : counts[key] \in Nat
  PROVE  IsFiniteSet(Places(counts)) /\ SumOf(counts) \in Nat
<1> DEFINE Own == [key \in DOMAIN counts |-> {key} \X (1 .. counts[key])]
           All == {{key} \X (1 .. counts[key]) : key \in DOMAIN counts}
<1>1. Own \in Surjection(DOMAIN counts, All)
  BY DEF Surjection
<1>2. IsFiniteSet(All)
  BY <1>1, FS_Surjection
<1>3. ASSUME NEW key \in DOMAIN counts PROVE IsFiniteSet({key} \X (1 .. counts[key]))
  <2>1. PICK n \in Nat : n = counts[key]
    BY <1>3
  <2>2. IsFiniteSet(1 .. n)
    BY FS_Interval
  <2>3. IsFiniteSet({key})
    BY FS_Singleton
  <2> QED  BY <2>1, <2>2, <2>3, FS_Product
<1>4. IsFiniteSet(UNION All)
  BY <1>2, <1>3, FS_UNION
<1> QED  BY <1>4, FS_CardinalityType DEF Places, SumOf

\* A sum counts no less than a set whose elements each have one of its keys,
\* when no key has more elements than its count.
LEMMA SumAtLeast ==
  ASSUME NEW counts, IsFiniteSet(DOMAIN counts), \A key \in DOMAIN counts : counts[key] \in Nat,
         NEW W, IsFiniteSet(W), NEW keyOf \in [W -> DOMAIN counts],
         \A key \in DOMAIN counts : Cardinality({w \in W : keyOf[w] = key}) <= counts[key]
  PROVE  Cardinality(W) <= SumOf(counts)
<1> DEFINE Class(key) == {w \in W : keyOf[w] = key}
<1>1. ASSUME NEW key \in DOMAIN counts PROVE Injection(Class(key), 1..counts[key]) # {}
  <2>1. IsFiniteSet(Class(key)) /\ Cardinality(Class(key)) <= counts[key] /\ counts[key] \in Nat
    BY FS_Subset
  <2> QED  BY <2>1, InjectDown
<1> DEFINE place == [key \in DOMAIN counts |-> CHOOSE f : f \in Injection(Class(key), 1..counts[key])]
           sit == [w \in W |-> <<keyOf[w], place[keyOf[w]][w]>>]
<1>2. ASSUME NEW key \in DOMAIN counts
      PROVE  /\ \A w \in Class(key) : place[key][w] \in 1..counts[key]
             /\ \A v, w \in Class(key) : place[key][v] = place[key][w] => v = w
  BY <1>1 DEF Injection, IsInjective
<1>3. sit \in [W -> Places(counts)]
  <2> SUFFICES ASSUME NEW w \in W PROVE <<keyOf[w], place[keyOf[w]][w]>> \in Places(counts)
    OBVIOUS
  <2>1. keyOf[w] \in DOMAIN counts /\ w \in Class(keyOf[w])
    OBVIOUS
  <2>2. place[keyOf[w]][w] \in 1..counts[keyOf[w]]
    BY <1>2, <2>1
  <2> HIDE DEF place
  <2> QED  BY <2>1, <2>2 DEF Places
<1>4. ASSUME NEW v \in W, NEW w \in W, sit[v] = sit[w] PROVE v = w
  <2> HIDE DEF place
  <2>3. PICK a, b, c, d : a = keyOf[v] /\ b = place[keyOf[v]][v] /\ c = keyOf[w] /\ d = place[keyOf[w]][w]
    OBVIOUS
  <2>4. sit[v] = <<a, b>> /\ sit[w] = <<c, d>>
    BY <2>3
  <2>5. a = c /\ b = d
    BY <1>4, <2>4
  <2>1. keyOf[v] = keyOf[w] /\ place[keyOf[v]][v] = place[keyOf[v]][w]
    BY <2>3, <2>5
  <2>2. keyOf[v] \in DOMAIN counts /\ v \in Class(keyOf[v]) /\ w \in Class(keyOf[v])
    BY <2>1
  <2> QED  BY <1>2, <2>1, <2>2
<1> HIDE DEF sit, place
<1>5. sit \in Injection(W, Places(counts))
  BY <1>3, <1>4 DEF Injection, IsInjective
<1> QED  BY <1>5, PlacesAreFinite, FS_Injection DEF SumOf

\* And no more, when no key has fewer elements than its count.
LEMMA SumAtMost ==
  ASSUME NEW counts, IsFiniteSet(DOMAIN counts), \A key \in DOMAIN counts : counts[key] \in Nat,
         NEW W, IsFiniteSet(W), NEW keyOf \in [W -> DOMAIN counts],
         \A key \in DOMAIN counts : counts[key] <= Cardinality({w \in W : keyOf[w] = key})
  PROVE  SumOf(counts) <= Cardinality(W)
<1> DEFINE Class(key) == {w \in W : keyOf[w] = key}
<1>1. ASSUME NEW key \in DOMAIN counts PROVE Injection(1..counts[key], Class(key)) # {}
  <2>1. IsFiniteSet(Class(key)) /\ counts[key] <= Cardinality(Class(key)) /\ counts[key] \in Nat
    BY FS_Subset
  <2> QED  BY <2>1, InjectUp
<1> DEFINE chosen == [key \in DOMAIN counts |-> CHOOSE f : f \in Injection(1..counts[key], Class(key))]
           seat == [p \in Places(counts) |-> chosen[p[1]][p[2]]]
<1>2. ASSUME NEW key \in DOMAIN counts
      PROVE  /\ \A k \in 1..counts[key] : chosen[key][k] \in Class(key)
             /\ \A j, k \in 1..counts[key] : chosen[key][j] = chosen[key][k] => j = k
  BY <1>1 DEF Injection, IsInjective
<1>3. ASSUME NEW p \in Places(counts)
      PROVE  p[1] \in DOMAIN counts /\ p[2] \in 1..counts[p[1]] /\ p = <<p[1], p[2]>>
  BY <1>3 DEF Places
<1> HIDE DEF chosen
<1>4. ASSUME NEW p \in Places(counts) PROVE seat[p] \in W /\ keyOf[seat[p]] = p[1]
  BY <1>2, <1>3
<1>5. ASSUME NEW p \in Places(counts), NEW q \in Places(counts), seat[p] = seat[q] PROVE p = q
  <2>1. p[1] = q[1]
    BY <1>4, <1>5
  <2>2. chosen[p[1]][p[2]] = chosen[p[1]][q[2]]
    BY <1>5, <2>1
  <2>3. p[2] = q[2]
    BY <1>2, <1>3, <2>1, <2>2
  <2> QED  BY <1>3, <2>1, <2>3
<1>6. seat \in [Places(counts) -> W]
  BY <1>4
<1> HIDE DEF seat
<1>7. seat \in Injection(Places(counts), W)
  BY <1>5, <1>6 DEF Injection, IsInjective
<1> QED  BY <1>7, FS_Injection DEF SumOf

LEMMA SumExact ==
  ASSUME NEW counts, IsFiniteSet(DOMAIN counts), NEW W, IsFiniteSet(W), NEW keyOf \in [W -> DOMAIN counts],
         \A key \in DOMAIN counts : counts[key] = Cardinality({w \in W : keyOf[w] = key})
  PROVE  SumOf(counts) = Cardinality(W)
<1>1. ASSUME NEW key \in DOMAIN counts PROVE counts[key] \in Nat
  <2>1. IsFiniteSet({w \in W : keyOf[w] = key})
    BY FS_Subset
  <2> QED  BY <2>1, FS_CardinalityType
<1>2. SumOf(counts) \in Nat /\ Cardinality(W) \in Nat
  BY <1>1, PlacesAreFinite, FS_CardinalityType
<1>3. Cardinality(W) <= SumOf(counts)
  BY <1>1, SumAtLeast
<1>4. SumOf(counts) <= Cardinality(W)
  BY <1>1, SumAtMost
<1> QED  BY <1>2, <1>3, <1>4

\* The image of a finite set is finite.
LEMMA ImageIsFinite ==
  ASSUME NEW W, IsFiniteSet(W), NEW f, DOMAIN f = W
  PROVE  IsFiniteSet({f[w] : w \in W})
<1>1. [w \in W |-> f[w]] \in Surjection(W, {f[w] : w \in W})
  BY DEF Surjection
<1> QED  BY <1>1, FS_Surjection

\* Rows counted by a key and folded by the names of the keys add up to the rows.
LEMMA FoldAddsUp ==
  ASSUME NEW W, IsFiniteSet(W), NEW keyOf, DOMAIN keyOf = W
  PROVE  SumOf(FoldGroupCounts(CountBy(W, keyOf))) = Cardinality(W)
<1> DEFINE Keys == {keyOf[n] : n \in W}
           Names == {NameOf(key) : key \in Keys}
<1>1. PICK counts : counts = CountBy(W, keyOf)
  OBVIOUS
<1>2. DOMAIN counts = Keys /\ \A key \in Keys : counts[key] = Cardinality({n \in W : keyOf[n] = key})
  BY <1>1 DEF CountBy
<1>3. PICK folded : folded = FoldGroupCounts(counts)
  OBVIOUS
<1>4. DOMAIN folded = Names
  BY <1>2, <1>3 DEF FoldGroupCounts
<1>5. PICK nameOf : nameOf = [n \in W |-> NameOf(keyOf[n])]
  OBVIOUS
<1>6. nameOf \in [W -> DOMAIN folded]
  BY <1>4, <1>5
<1>7. IsFiniteSet(Keys)
  BY ImageIsFinite
<1>8. IsFiniteSet(DOMAIN folded)
  <2>1. Names = {nameOf[n] : n \in W} /\ DOMAIN nameOf = W
    BY <1>5
  <2> QED  BY <1>4, <2>1, ImageIsFinite
<1>9. ASSUME NEW name \in DOMAIN folded PROVE folded[name] = Cardinality({n \in W : nameOf[n] = name})
  <2>1. PICK group : group = [key \in {k \in Keys : NameOf(k) = name} |-> counts[key]]
    OBVIOUS
  <2>2. folded[name] = SumOf(group)
    BY <1>2, <1>3, <1>4, <2>1 DEF FoldGroupCounts
  <2>3. PICK V : V = {n \in W : nameOf[n] = name}
    OBVIOUS
  <2>4. IsFiniteSet(V) /\ IsFiniteSet(DOMAIN group)
    BY <1>7, <2>1, <2>3, FS_Subset
  <2>5. PICK own : own = [n \in V |-> keyOf[n]]
    OBVIOUS
  <2>6. own \in [V -> DOMAIN group]
    BY <1>5, <2>1, <2>3, <2>5
  <2>7. ASSUME NEW key \in DOMAIN group PROVE group[key] = Cardinality({n \in V : own[n] = key})
    <3>1. key \in Keys /\ NameOf(key) = name
      BY <2>1, <2>7
    <3>2. {n \in V : own[n] = key} = {n \in W : keyOf[n] = key}
      BY <1>5, <2>3, <2>5, <3>1
    <3> QED  BY <1>2, <2>1, <3>1, <3>2
  <2>8. SumOf(group) = Cardinality(V)
    BY <2>4, <2>6, <2>7, SumExact
  <2> QED  BY <2>2, <2>3, <2>8
<1>10. SumOf(folded) = Cardinality(W)
  BY <1>6, <1>8, <1>9, SumExact
<1> QED  BY <1>1, <1>3, <1>10

\* The buckets are finitely many, and every moment of the window is in one.
LEMMA BucketsAreFinite ==
  ASSUME NEW day \in Int PROVE IsFiniteSet(BuildDailyBuckets(day))
<1>1. Days \in Nat
  BY DashboardAssumption DEF DashboardAssumption
<1>2. PICK bucket : bucket = [i \in 1..Days |-> [start |-> day - i, end |-> day - i + 1]]
  OBVIOUS
<1>3. IsFiniteSet({bucket[i] : i \in 1..Days})
  <2>1. IsFiniteSet(1..Days) /\ DOMAIN bucket = 1..Days
    BY <1>1, <1>2, FS_Interval
  <2> QED  BY <2>1, ImageIsFinite
<1>4. {bucket[i] : i \in 1..Days} = BuildDailyBuckets(day)
  BY <1>2 DEF BuildDailyBuckets
<1> QED  BY <1>3, <1>4

BucketOf(day, rows) == [n \in rows |-> [start |-> row[n].at, end |-> row[n].at + 1]]

LEMMA BucketsCoverTheWindow ==
  ASSUME NEW day \in Int, NEW rows, \A n \in rows : row[n].at \in Int
  PROVE  LET W == InRange(rows, SummaryWindow(day)) IN
         /\ BucketOf(day, W) \in [W -> BuildDailyBuckets(day)]
         /\ \A range \in BuildDailyBuckets(day) :
              {n \in W : BucketOf(day, W)[n] = range} = InRange(rows, range)
<1>0. PICK W : W = InRange(rows, SummaryWindow(day))
  OBVIOUS
<1>1. Days \in Nat \ {0}
  BY DashboardAssumption DEF DashboardAssumption
<1>2. \A n \in rows : n \in W <=> day - Days <= row[n].at /\ row[n].at < day
  BY <1>0 DEF InRange, SummaryWindow
<1>3. W \subseteq rows
  BY <1>0 DEF InRange
<1>4. ASSUME NEW n \in W PROVE [start |-> row[n].at, end |-> row[n].at + 1] \in BuildDailyBuckets(day)
  <2>1. PICK at \in Int : at = row[n].at
    BY <1>3
  <2>2. day - at \in 1..Days /\ day - (day - at) = at
    BY <1>1, <1>2, <1>3, <2>1
  <2>3. PICK i \in 1..Days : i = day - at
    BY <2>2
  <2>4. day - i = row[n].at /\ day - i + 1 = row[n].at + 1
    BY <1>1, <2>1, <2>3
  <2>5. [start |-> row[n].at, end |-> row[n].at + 1] = [start |-> day - i, end |-> day - i + 1]
    BY <2>4
  <2> QED  BY <2>5 DEF BuildDailyBuckets
<1>5. ASSUME NEW range \in BuildDailyBuckets(day)
      PROVE  {n \in W : BucketOf(day, W)[n] = range} = InRange(rows, range)
  <2>1. PICK i \in 1..Days : range = [start |-> day - i, end |-> day - i + 1]
    BY DEF BuildDailyBuckets
  <2>2. PICK a \in Int : a = day - i
    BY <1>1
  <2>3. range = [start |-> a, end |-> a + 1] /\ day - Days <= a /\ a < day
    BY <1>1, <2>1, <2>2
  <2>4. ASSUME NEW n \in rows
        PROVE  n \in InRange(rows, range) <=> row[n].at = a
    <3>1. row[n].at \in Int
      OBVIOUS
    <3> QED  BY <2>3, <3>1 DEF InRange
  <2>5. ASSUME NEW n \in W PROVE BucketOf(day, W)[n] = range <=> row[n].at = a
    <3>1. BucketOf(day, W)[n] = [start |-> row[n].at, end |-> row[n].at + 1]
      BY DEF BucketOf
    <3> QED  BY <2>3, <3>1
  <2>6. \A n \in rows : row[n].at = a => n \in W
    BY <1>2, <2>3
  <2>7. InRange(rows, range) \subseteq rows
    BY DEF InRange
  <2> QED  BY <1>3, <2>4, <2>5, <2>6, <2>7
<1>6. BucketOf(day, W) \in [W -> BuildDailyBuckets(day)]
  BY <1>4 DEF BucketOf
<1> QED  BY <1>0, <1>5, <1>6

LEMMA LatestThere ==
  ASSUME NEW n \in Nat, NEW T \in SUBSET (0..n), T # {}
  PROVE  Max(T) \in T /\ \A y \in T : Max(T) >= y
<1> DEFINE R == {ss \in Nat \X Nat : ss[1] < ss[2]}
           U == {m \in 0..n : n - m \in T}
<1>1. OpToRel(<, Nat) = R
  BY DEF OpToRel
<1>2. IsWellFoundedOn(R, Nat)
  BY <1>1, NatLessThanWellFounded
<1>3. U \in SUBSET Nat /\ U # {}
  <2>1. PICK x \in T : TRUE
    OBVIOUS
  <2>2. x \in 0..n
    OBVIOUS
  <2>3. n - x \in 0..n /\ n - (n - x) = x
    BY <2>2
  <2>4. n - x \in {m \in 0..n : n - m \in T}
    BY <2>3
  <2>5. U \subseteq Nat
    OBVIOUS
  <2> QED  BY <2>4, <2>5
<1> HIDE DEF R, U
<1>4. PICK m \in U : \A y \in U : <<y, m>> \notin R
  BY <1>2, <1>3, WFMin
<1>5. \A y \in U : m <= y
  <2>1. \A x, y \in Nat : <<y, x>> \notin R => x <= y
    BY DEF R
  <2> QED  BY <1>3, <1>4, <2>1
<1>6. n - m \in T /\ m \in 0..n
  BY DEF U
<1>7. ASSUME NEW y \in T PROVE n - m >= y
  <2>1. n - y \in 0..n /\ n - (n - y) = y /\ y \in 0..n
    OBVIOUS
  <2>2. n - y \in U
    BY <2>1 DEF U
  <2>3. m <= n - y
    BY <1>5, <2>2
  <2> QED  BY <1>6, <2>1, <2>3
<1> QED  BY <1>6, <1>7 DEF Max

\* The rows are numbered as they were written, and dated.
RowsShape ==
  /\ Cardinality(DOMAIN row) \in Nat /\ DOMAIN row = 1..Cardinality(DOMAIN row)
  /\ present \subseteq DOMAIN row /\ throughout \subseteq sometime /\ sometime \subseteq DOMAIN row
  /\ \A n \in DOMAIN row : row[n].at \in 0..MaxDay

\* While a request reads, what was there all along is there, and what is there
\* was there at some time.
RequestShape ==
  /\ request.step \in {"idle", "reading", "shown"} /\ request.now \in Int /\ request.now <= today
  /\ request.step = "idle" => request = NoRequest /\ throughout = {} /\ sometime = {}
  /\ request.step = "reading" => throughout \subseteq present /\ present \subseteq sometime
  /\ request.step # "idle" => DOMAIN request.found = Statements(request.now)
  /\ request.step = "shown" => Unread = {}

\* What a statement found is what it finds in the table of one moment: with all
\* the rows that were there throughout, and none that was there at no time.
EachIsOfAMoment ==
  \A s \in DOMAIN request.found : request.found[s] # Nothing =>
    \E held \in SUBSET sometime :
      throughout \subseteq held /\ request.found[s] = [is |-> Find(s, held)]

DashboardIInv ==
  /\ signal \in {"reports", "logs", "spans"} /\ today \in 0..MaxDay
  /\ RowsShape /\ RequestShape /\ EachIsOfAMoment

LEMMA RowsAreFinite ==
  ASSUME RowsShape PROVE IsFiniteSet(present) /\ IsFiniteSet(sometime) /\ IsFiniteSet(throughout)
<1>1. IsFiniteSet(DOMAIN row)
  BY FS_Interval DEF RowsShape
<1> QED  BY <1>1, FS_Subset DEF RowsShape

\* Counting more rows counts no less.
LEMMA CountGrows ==
  ASSUME NEW S, NEW T, IsFiniteSet(T), S \subseteq T, NEW range
  PROVE  /\ IsFiniteSet(InRange(S, range)) /\ IsFiniteSet(InRange(T, range))
         /\ Cardinality(InRange(S, range)) \in Nat /\ Cardinality(InRange(T, range)) \in Nat
         /\ Cardinality(InRange(S, range)) <= Cardinality(InRange(T, range))
<1>1. InRange(S, range) \subseteq InRange(T, range) /\ InRange(T, range) \subseteq T
  BY DEF InRange
<1>2. IsFiniteSet(InRange(T, range))
  BY <1>1, FS_Subset
<1>3. IsFiniteSet(InRange(S, range))
  BY <1>1, <1>2, FS_Subset
<1> QED  BY <1>1, <1>2, <1>3, FS_Subset, FS_CardinalityType

\* What a statement finds depends on the rows of its table alone.
LEMMA FindStays ==
  ASSUME NEW s, NEW held, \A n \in held : row'[n] = row[n]
  PROVE  Find(s, held)' = Find(s, held)
<1>1. PICK rows : rows = InRange(held, s[2])
  OBVIOUS
<1>2. InRange(held, s[2])' = rows
  BY <1>1 DEF InRange
<1>3. rows \subseteq held
  BY <1>1 DEF InRange
<1>4. [n \in rows |-> row'[n].environment] = [n \in rows |-> row[n].environment]
  BY <1>3
<1>5. {row'[n].at : n \in held} = {row[n].at : n \in held}
  OBVIOUS
<1>6. PICK places, dates : places = [n \in rows |-> row[n].environment] /\ dates = {row[n].at : n \in held}
  OBVIOUS
<1>7. Find(s, held) = CASE s[1] = "count" -> Cardinality(rows)
                         [] s[1] = "environment" -> CountBy(rows, places)
                         [] s[1] = "runtime" -> CountBy(rows, [n \in rows |-> "runtime"])
                         [] s[1] = "last" -> IF held = {} THEN Nothing ELSE Max(dates)
  BY <1>1, <1>6 DEF Find
<1>8. Find(s, held)' = CASE s[1] = "count" -> Cardinality(rows)
                         [] s[1] = "environment" -> CountBy(rows, places)
                         [] s[1] = "runtime" -> CountBy(rows, [n \in rows |-> "runtime"])
                         [] s[1] = "last" -> IF held = {} THEN Nothing ELSE Max(dates)
  BY <1>2, <1>4, <1>5, <1>6 DEF Find
<1> QED  BY <1>7, <1>8

LEMMA DashboardInitKeeps == DashboardInit => DashboardIInv
<1> SUFFICES ASSUME DashboardInit PROVE DashboardIInv
  OBVIOUS
<1>1. DOMAIN row = {} /\ Cardinality(DOMAIN row) = 0 /\ 1..0 = {}
  BY FS_EmptySet DEF DashboardInit
<1>2. DOMAIN request.found = {}
  BY DEF DashboardInit, NoRequest
<1> QED  BY <1>1, <1>2, DashboardAssumption
         DEF DashboardInit, DashboardIInv, RowsShape, RequestShape, EachIsOfAMoment, NoRequest, DashboardAssumption

\* What was found stays of its moment: rows that are written later are in none
\* of its tables, and fewer are to be in all of them.
LEMMA MomentsStay ==
  ASSUME DashboardIInv, request'.found = request.found,
         throughout' \subseteq throughout, sometime \subseteq sometime',
         \A n \in sometime : row'[n] = row[n]
  PROVE  EachIsOfAMoment'
<1> SUFFICES ASSUME NEW s \in DOMAIN request.found, request.found[s] # Nothing
             PROVE  \E held \in SUBSET sometime' :
                      throughout' \subseteq held /\ request.found[s] = [is |-> Find(s, held)']
  BY DEF EachIsOfAMoment
<1>1. PICK held \in SUBSET sometime : throughout \subseteq held /\ request.found[s] = [is |-> Find(s, held)]
  BY DEF DashboardIInv, EachIsOfAMoment
<1>2. Find(s, held)' = Find(s, held)
  BY <1>1, FindStays
<1> QED  BY <1>1, <1>2

LEMMA DashboardStepKeeps ==
  ASSUME DashboardIInv, [DashboardNext]_dashboardVars PROVE DashboardIInv'
<1>1. CASE Summarize
  <2>1. /\ request' = [step |-> "reading", now |-> today, found |-> [s \in Statements(today) |-> Nothing]]
        /\ throughout' = present /\ sometime' = present /\ UNCHANGED <<signal, today, row, present>>
    BY <1>1 DEF Summarize
  <2>2. RowsShape'
    BY <2>1 DEF DashboardIInv, RowsShape
  <2>3. (DOMAIN request.found = Statements(request.now))'
    BY <2>1 DEF Statements, BuildDailyBuckets, SummaryWindow, PreviousWindow
  <2>4. RequestShape'
    BY <2>1, <2>3 DEF DashboardIInv, RequestShape
  <2>5. EachIsOfAMoment'
    BY <2>1 DEF EachIsOfAMoment
  <2> QED  BY <2>1, <2>2, <2>4, <2>5 DEF DashboardIInv
<1>2. ASSUME NEW s \in DOMAIN request.found, Read(s) PROVE DashboardIInv'
  <2>1. /\ request.step = "reading" /\ request' = [request EXCEPT !.found[s] = [is |-> Find(s, present)]]
        /\ UNCHANGED <<signal, today, row, present, throughout, sometime>>
    BY <1>2 DEF Read
  <2>2. RowsShape'
    BY <2>1 DEF DashboardIInv, RowsShape
  <2>3. /\ request'.step = request.step /\ request'.now = request.now
        /\ DOMAIN request'.found = DOMAIN request.found
        /\ \A x \in DOMAIN request.found :
             request'.found[x] = IF x = s THEN [is |-> Find(s, present)] ELSE request.found[x]
    BY <2>1 DEF DashboardIInv, RequestShape
  <2>4. RequestShape'
    BY <2>1, <2>3 DEF DashboardIInv, RequestShape, Statements, BuildDailyBuckets, SummaryWindow, PreviousWindow
  <2>5. EachIsOfAMoment'
    <3> SUFFICES ASSUME NEW x \in DOMAIN request.found, request'.found[x] # Nothing
                 PROVE  \E held \in SUBSET sometime :
                          throughout \subseteq held /\ request'.found[x] = [is |-> Find(x, held)']
      BY <2>1, <2>3 DEF EachIsOfAMoment
    <3>1. PICK held \in SUBSET sometime : throughout \subseteq held /\ request'.found[x] = [is |-> Find(x, held)]
      <4>1. CASE x = s
        BY <2>1, <2>3, <4>1 DEF DashboardIInv, RequestShape
      <4>2. CASE x # s
        BY <2>3, <4>2 DEF DashboardIInv, EachIsOfAMoment
      <4> QED  BY <4>1, <4>2
    <3>2. Find(x, held)' = Find(x, held)
      BY <2>1, FindStays
    <3> QED  BY <3>1, <3>2
  <2> QED  BY <2>1, <2>2, <2>4, <2>5 DEF DashboardIInv
<1>3. CASE ReadFails
  <2>1. DOMAIN request'.found = {}
    BY <1>3 DEF ReadFails, NoRequest
  <2>2. EachIsOfAMoment'
    BY <2>1 DEF EachIsOfAMoment
  <2>3. RowsShape'
    BY <1>3 DEF ReadFails, DashboardIInv, RowsShape
  <2>4. RequestShape'
    BY <1>3 DEF ReadFails, DashboardIInv, RequestShape, NoRequest
  <2> QED  BY <1>3, <2>2, <2>3, <2>4 DEF ReadFails, DashboardIInv
<1>4. CASE Respond
  <2>1. /\ request'.step = "shown" /\ request'.now = request.now /\ request'.found = request.found
        /\ request.step = "reading" /\ Unread = {}
        /\ UNCHANGED <<signal, today, row, present, throughout, sometime>>
    BY <1>4 DEF Respond, DashboardIInv, RequestShape
  <2>2. RowsShape'
    BY <2>1 DEF DashboardIInv, RowsShape
  <2>3. RequestShape'
    BY <2>1 DEF DashboardIInv, RequestShape, Unread, Statements, BuildDailyBuckets, SummaryWindow, PreviousWindow
  <2>4. EachIsOfAMoment'
    BY <2>1, MomentsStay
  <2> QED  BY <2>1, <2>2, <2>3, <2>4 DEF DashboardIInv
<1>5. CASE Write
  <2>0. PICK at \in Written, environment \in IF signal = "reports" THEN {Nothing, "unspecified"} ELSE {Nothing} :
          row' = [k \in 1 .. (Cardinality(DOMAIN row) + 1) |->
                   IF k = Cardinality(DOMAIN row) + 1 THEN [at |-> at, environment |-> environment] ELSE row[k]]
    BY <1>5 DEF Write
  <2>1. PICK n \in Nat \ {0} : n = Cardinality(DOMAIN row) + 1
    BY DEF DashboardIInv, RowsShape
  <2>2. row' = [k \in 1 .. n |-> IF k = n THEN [at |-> at, environment |-> environment] ELSE row[k]]
    BY <2>0, <2>1
  <2>3. /\ present' = present \cup {n} /\ UNCHANGED <<signal, today, request, throughout>>
        /\ sometime' = IF request.step = "reading" THEN sometime \cup {n} ELSE sometime
    BY <1>5, <2>1 DEF Write
  <2>4. DOMAIN row = 1..(n - 1) /\ DOMAIN row' = 1..n
    BY <2>1, <2>2 DEF DashboardIInv, RowsShape
  <2>5. Cardinality(DOMAIN row') = n
    BY <2>4, FS_Interval
  <2>6. RowsShape'
    <3>1. Cardinality(DOMAIN row') \in Nat /\ DOMAIN row' = 1..Cardinality(DOMAIN row')
      BY <2>4, <2>5
    <3>2. present' \subseteq 1..n /\ throughout' \subseteq sometime' /\ sometime' \subseteq 1..n
      BY <2>3, <2>4 DEF DashboardIInv, RowsShape
    <3>3. at \in 0..MaxDay
      BY DashboardAssumption DEF DashboardIInv, Written, DashboardAssumption
    <3>4. ASSUME NEW k \in 1..n PROVE row'[k].at \in 0..MaxDay
      BY <2>2, <2>4, <3>3 DEF DashboardIInv, RowsShape
    <3> QED  BY <2>4, <3>1, <3>2, <3>4 DEF RowsShape
  <2>7. RequestShape'
    BY <2>3, DashboardAssumption
       DEF DashboardIInv, RequestShape, Unread, Statements, BuildDailyBuckets, SummaryWindow, PreviousWindow
  <2>8. \A m \in sometime : row'[m] = row[m]
    BY <2>2, <2>4 DEF DashboardIInv, RowsShape
  <2>9. EachIsOfAMoment'
    BY <2>3, <2>8, MomentsStay
  <2> QED  BY <2>3, <2>6, <2>7, <2>9 DEF DashboardIInv
<1>6. CASE Retain
  <2>1. PICK old : /\ present' = present \ old
                   /\ throughout' = IF request.step = "reading" THEN throughout \ old ELSE throughout
    BY <1>6 DEF Retain
  <2>2. UNCHANGED <<signal, today, row, request, sometime>>
    BY <1>6 DEF Retain
  <2>3. RowsShape'
    BY <2>1, <2>2 DEF DashboardIInv, RowsShape
  <2>4. RequestShape'
    BY <2>1, <2>2
       DEF DashboardIInv, RequestShape, Unread, Statements, BuildDailyBuckets, SummaryWindow, PreviousWindow
  <2>5. EachIsOfAMoment'
    BY <2>1, <2>2, MomentsStay
  <2> QED  BY <2>2, <2>3, <2>4, <2>5 DEF DashboardIInv
<1>7. CASE NextDay
  <2>1. today < MaxDay /\ today' = today + 1 /\ UNCHANGED <<signal, row, present, request, throughout, sometime>>
    BY <1>7 DEF NextDay
  <2>2. RowsShape'
    BY <2>1 DEF DashboardIInv, RowsShape
  <2>3. RequestShape'
    BY <2>1, DashboardAssumption
       DEF DashboardIInv, RequestShape, Unread, Statements, BuildDailyBuckets, SummaryWindow, PreviousWindow
  <2>4. EachIsOfAMoment'
    BY <2>1, MomentsStay
  <2> QED  BY <2>1, <2>2, <2>3, <2>4, DashboardAssumption DEF DashboardIInv, DashboardAssumption
<1>8. CASE UNCHANGED dashboardVars
  <2>1. UNCHANGED <<signal, today, row, present, request, throughout, sometime>>
    BY <1>8 DEF dashboardVars
  <2>2. RowsShape'
    BY <2>1 DEF DashboardIInv, RowsShape
  <2>3. RequestShape'
    BY <2>1 DEF DashboardIInv, RequestShape, Unread, Statements, BuildDailyBuckets, SummaryWindow, PreviousWindow
  <2>4. EachIsOfAMoment'
    BY <2>1, MomentsStay
  <2> QED  BY <2>1, <2>2, <2>3, <2>4 DEF DashboardIInv
<1> QED  BY <1>1, <1>2, <1>3, <1>4, <1>5, <1>6, <1>7, <1>8 DEF DashboardNext

-----------------------------------------------------------------------------
\* What a summary shows is what its statements find, each at its moment.
LEMMA ShownIsFound ==
  ASSUME DashboardIInv, request.step = "shown", NEW kind, NEW range,
         <<kind, range>> \in Statements(request.now)
  PROVE  \E held \in SUBSET sometime :
           throughout \subseteq held /\ Of(kind, range) = Find(<<kind, range>>, held)
<1>1. PICK s : s = <<kind, range>>
  OBVIOUS
<1>2. s \in DOMAIN request.found /\ request.found[s] # Nothing
  BY <1>1 DEF DashboardIInv, RequestShape, Unread
<1>3. PICK held \in SUBSET sometime : throughout \subseteq held /\ request.found[s] = [is |-> Find(s, held)]
  BY <1>2 DEF DashboardIInv, EachIsOfAMoment
<1>4. request.found[s].is = Find(s, held)
  BY <1>3
<1> QED  BY <1>1, <1>3, <1>4 DEF Of

\* A count is of all the rows of its range that were there throughout, and of
\* none that never was.
LEMMA CountIsBetween ==
  ASSUME DashboardIInv, request.step = "shown", NEW range,
         <<"count", range>> \in Statements(request.now)
  PROVE  Of("count", range) \in Nat /\ Between(Of("count", range), range)
<1>1. PICK held \in SUBSET sometime :
        throughout \subseteq held /\ Of("count", range) = Find(<<"count", range>>, held)
  BY ShownIsFound
<1>2. Find(<<"count", range>>, held) = Cardinality(InRange(held, range))
  BY DEF Find
<1>3. IsFiniteSet(sometime) /\ IsFiniteSet(held)
  BY RowsAreFinite, FS_Subset DEF DashboardIInv
<1>4. /\ Cardinality(InRange(held, range)) \in Nat
      /\ Cardinality(InRange(throughout, range)) <= Cardinality(InRange(held, range))
      /\ Cardinality(InRange(held, range)) <= Cardinality(InRange(sometime, range))
  BY <1>1, <1>3, CountGrows
<1> QED  BY <1>1, <1>2, <1>4 DEF Between

LEMMA TotalIsBetween ==
  ASSUME DashboardIInv, request.step = "shown"
  PROVE  Total \in Nat /\ Between(Total, SummaryWindow(request.now))
<1>1. PICK day \in Int : day = request.now
  BY DEF DashboardIInv, RequestShape
<1>2. CASE signal = "spans"
  <2>1. <<"count", SummaryWindow(day)>> \in Statements(day)
    BY <1>2 DEF Statements
  <2> QED  BY <1>1, <1>2, <2>1, CountIsBetween DEF Total
<1>3. CASE signal # "spans"
  <2>1. \A range \in BuildDailyBuckets(day) : <<"count", range>> \in Statements(day)
    BY <1>3 DEF Statements, DashboardIInv
  <2>2. PICK counts : counts = [range \in BuildDailyBuckets(day) |-> Of("count", range)]
    OBVIOUS
  <2>3. ASSUME NEW range \in DOMAIN counts PROVE counts[range] \in Nat /\ Between(counts[range], range)
    BY <1>1, <2>1, <2>2, CountIsBetween
  <2>4. IsFiniteSet(DOMAIN counts)
    BY <2>2, BucketsAreFinite
  <2>5. Total = SumOf(counts)
    BY <1>1, <1>3, <2>2 DEF Total
  <2>6. Total \in Nat
    BY <2>3, <2>4, <2>5, PlacesAreFinite
  <2>7. IsFiniteSet(throughout) /\ IsFiniteSet(sometime)
    BY RowsAreFinite DEF DashboardIInv
  <2>8. \A n \in sometime : row[n].at \in Int
    BY DashboardAssumption DEF DashboardIInv, RowsShape, DashboardAssumption
  <2>9. Cardinality(InRange(throughout, SummaryWindow(day))) <= Total
    <3>1. PICK W : W = InRange(throughout, SummaryWindow(day))
      OBVIOUS
    <3>2. IsFiniteSet(W)
      BY <2>7, <3>1, CountGrows
    <3>3. PICK keyOf : keyOf = BucketOf(day, W)
      OBVIOUS
    <3>4. \A n \in throughout : row[n].at \in Int
      BY <2>8 DEF DashboardIInv, RowsShape
    <3>5. /\ keyOf \in [W -> DOMAIN counts]
          /\ \A range \in DOMAIN counts : {n \in W : keyOf[n] = range} = InRange(throughout, range)
      BY <2>2, <3>1, <3>3, <3>4, BucketsCoverTheWindow
    <3>6. \A range \in DOMAIN counts : Cardinality({n \in W : keyOf[n] = range}) <= counts[range]
      BY <2>3, <3>5 DEF Between
    <3>7. Cardinality(W) <= SumOf(counts)
      BY <2>3, <2>4, <3>2, <3>5, <3>6, SumAtLeast
    <3> QED  BY <2>5, <3>1, <3>7
  <2>10. Total <= Cardinality(InRange(sometime, SummaryWindow(day)))
    <3>1. PICK W : W = InRange(sometime, SummaryWindow(day))
      OBVIOUS
    <3>2. IsFiniteSet(W)
      BY <2>7, <3>1, CountGrows
    <3>3. PICK keyOf : keyOf = BucketOf(day, W)
      OBVIOUS
    <3>5. /\ keyOf \in [W -> DOMAIN counts]
          /\ \A range \in DOMAIN counts : {n \in W : keyOf[n] = range} = InRange(sometime, range)
      BY <2>2, <2>8, <3>1, <3>3, BucketsCoverTheWindow
    <3>6. \A range \in DOMAIN counts : counts[range] <= Cardinality({n \in W : keyOf[n] = range})
      BY <2>3, <3>5 DEF Between
    <3>7. SumOf(counts) <= Cardinality(W)
      BY <2>3, <2>4, <3>2, <3>5, <3>6, SumAtMost
    <3> QED  BY <2>5, <3>1, <3>7
  <2> QED  BY <1>1, <2>6, <2>9, <2>10 DEF Between
<1> QED  BY <1>2, <1>3

LEMMA PreviousIsBetween ==
  ASSUME DashboardIInv, request.step = "shown", signal = "reports"
  PROVE  Previous \in Nat /\ Between(Previous, PreviousWindow(request.now))
<1>1. <<"count", PreviousWindow(request.now)>> \in Statements(request.now)
  BY DEF Statements
<1> QED  BY <1>1, CountIsBetween DEF Previous

\* A breakdown of what was there all along adds up to the rows of the window.
LEMMA BreakdownAddsUp ==
  ASSUME DashboardIInv, request.step = "shown", signal = "reports", throughout = sometime,
         NEW kind \in {"environment", "runtime"}
  PROVE  ByName(kind) = Cardinality(InRange(sometime, SummaryWindow(request.now)))
<1>1. PICK window : window = SummaryWindow(request.now)
  OBVIOUS
<1>2. <<kind, window>> \in Statements(request.now)
  BY <1>1 DEF Statements
<1>3. Of(kind, window) = Find(<<kind, window>>, sometime)
  <2>1. PICK held \in SUBSET sometime :
          throughout \subseteq held /\ Of(kind, window) = Find(<<kind, window>>, held)
    BY <1>2, ShownIsFound
  <2>2. held = sometime
    BY <2>1
  <2> QED  BY <2>1, <2>2
<1>4. PICK rows : rows = InRange(sometime, window)
  OBVIOUS
<1>5. IsFiniteSet(rows)
  BY <1>4, RowsAreFinite, CountGrows DEF DashboardIInv
<1>6. CASE kind = "environment"
  <2>1. PICK keyOf : keyOf = [n \in rows |-> row[n].environment]
    OBVIOUS
  <2>2. Of(kind, window) = CountBy(rows, keyOf)
    BY <1>3, <1>4, <1>6, <2>1 DEF Find
  <2>3. DOMAIN keyOf = rows
    BY <2>1
  <2> QED  BY <1>1, <1>4, <1>5, <2>2, <2>3, FoldAddsUp DEF ByName
<1>7. CASE kind = "runtime"
  <2>1. PICK keyOf : keyOf = [n \in rows |-> "runtime"]
    OBVIOUS
  <2>2. Of(kind, window) = CountBy(rows, keyOf)
    BY <1>3, <1>4, <1>7, <2>1 DEF Find
  <2>3. DOMAIN keyOf = rows
    BY <2>1
  <2> QED  BY <1>1, <1>4, <1>5, <2>2, <2>3, FoldAddsUp DEF ByName
<1> QED  BY <1>6, <1>7

LEMMA SummaryAddsUp == ASSUME DashboardIInv PROVE AddsUpAtRest
<1> SUFFICES ASSUME request.step = "shown", throughout = sometime
             PROVE  LET last == Of("last", SummaryWindow(request.now)) IN
                    /\ signal = "reports" => Total = ByName("environment") /\ Total = ByName("runtime")
                    /\ last = Nothing <=> sometime = {}
                    /\ Total > 0 => last >= request.now - Days
  BY DEF AddsUpAtRest
<1>1. PICK window, last, rows :
        window = SummaryWindow(request.now) /\ last = Of("last", window) /\ rows = InRange(sometime, window)
  OBVIOUS
<1>2. IsFiniteSet(rows) /\ Cardinality(rows) \in Nat
  BY <1>1, RowsAreFinite, CountGrows DEF DashboardIInv
<1>3. Total \in Nat /\ Total = Cardinality(rows)
  BY <1>1, <1>2, TotalIsBetween DEF Between
<1>4. signal = "reports" => Total = ByName("environment") /\ Total = ByName("runtime")
  BY <1>1, <1>3, BreakdownAddsUp
<1>5. <<"last", window>> \in Statements(request.now)
  BY <1>1 DEF Statements, DashboardIInv
<1>6. last = Find(<<"last", window>>, sometime)
  <2>1. PICK held \in SUBSET sometime :
          throughout \subseteq held /\ Of("last", window) = Find(<<"last", window>>, held)
    BY <1>5, ShownIsFound
  <2>2. held = sometime
    BY <2>1
  <2> QED  BY <1>1, <2>1, <2>2
<1>7. PICK dates : dates = {row[n].at : n \in sometime}
  OBVIOUS
<1>8. last = IF sometime = {} THEN Nothing ELSE Max(dates)
  BY <1>6, <1>7 DEF Find
<1>9. dates \in SUBSET (0..MaxDay) /\ MaxDay \in Nat
  BY <1>7, DashboardAssumption DEF DashboardIInv, RowsShape, DashboardAssumption
<1>10. sometime # {} => last \in dates /\ \A date \in dates : last >= date
  BY <1>7, <1>8, <1>9, LatestThere
<1>11. last = Nothing <=> sometime = {}
  <2>1. Nothing \notin 0..MaxDay
    BY <1>9, DashboardAssumption DEF DashboardAssumption
  <2>2. sometime # {} => last \in 0..MaxDay
    BY <1>9, <1>10
  <2> QED  BY <1>8, <2>1, <2>2
<1>12. ASSUME Total > 0 PROVE last >= request.now - Days
  <2>1. rows # {}
    BY <1>2, <1>3, <1>12, FS_EmptySet
  <2>2. PICK n \in rows : n \in sometime /\ request.now - Days <= row[n].at
    BY <1>1, <2>1 DEF InRange, SummaryWindow
  <2>3. row[n].at \in dates /\ last \in dates /\ last >= row[n].at
    BY <1>7, <1>10, <2>2
  <2>4. PICK date \in 0..MaxDay : date = row[n].at
    BY <1>9, <2>3
  <2>5. last \in 0..MaxDay /\ request.now - Days \in Int
    BY <1>9, <2>3, DashboardAssumption DEF DashboardIInv, RequestShape, DashboardAssumption
  <2> QED  BY <1>9, <2>2, <2>3, <2>4, <2>5
<1> QED  BY <1>1, <1>4, <1>11, <1>12

DashboardSpec == DashboardInit /\ [][DashboardNext]_dashboardVars

\* The summary of a project, whatever is written or deleted between its
\* statements: it counts every row of its window that was there all along once
\* and none that never was, it agrees with itself when nothing changed, and its
\* words fit its arrow.
THEOREM DashboardInvariant == DashboardSpec => []DashboardInv
<1>1. DashboardInit => DashboardIInv
  BY DashboardInitKeeps
<1>2. DashboardIInv /\ [DashboardNext]_dashboardVars => DashboardIInv'
  BY DashboardStepKeeps
<1>3. ASSUME DashboardIInv PROVE DashboardInv
  <2>1. DashboardTypeOK
    BY <1>3 DEF DashboardIInv, RowsShape, RequestShape, DashboardTypeOK
  <2>2. CountsItsWindow
    BY <1>3, TotalIsBetween, PreviousIsBetween DEF CountsItsWindow
  <2>3. AddsUpAtRest
    BY <1>3, SummaryAddsUp
  <2>4. TrendSpeaksOnce
    BY <1>3, TotalIsBetween, PreviousIsBetween, TrendNeverContradicts DEF TrendSpeaksOnce
  <2> QED  BY <2>1, <2>2, <2>3, <2>4 DEF DashboardInv
<1> QED  BY <1>1, <1>2, <1>3, PTL DEF DashboardSpec

-----------------------------------------------------------------------------
(* A stored exception.                                                     *)

LEMMA Apart ==
    /\ Absent # Odd
    /\ Absent \notin {"blank", "text", "long", "huge", "full"} /\ Odd \notin {"blank", "text", "long", "huge", "full"}
    /\ Absent \notin Nat /\ Odd \notin Nat
    /\ Absent \notin Place /\ Odd \notin Place
    /\ Absent \notin Frame /\ Odd \notin Frame
    /\ Absent \notin Value /\ Odd \notin Value
    /\ Absent \notin KeptFrames /\ Odd \notin KeptFrames
    /\ Absent \notin Shown /\ Odd \notin Shown
    /\ MaxDepth \in Nat /\ MaxFrames \in Nat /\ MaxFrames >= 1 /\ MaxChildren \in Nat
BY ApartAssumption, StoredAssumption DEF KeptFrames

\* What is left of a string once it is bounded, and of one kept as it is.
Short == {Absent, "text", "long", "full"}

LEMMA StringsBounded ==
    ASSUME NEW s \in Strings
    PROVE  /\ AsBoundedString(s) \in Short /\ AsText(s) \in Short \cup {"blank"}
           /\ AsBoundedString(AsBoundedString(s)) = AsBoundedString(s)
           /\ AsBoundedString(AsText(s)) = AsBoundedString(s)
           /\ Bounded(s) => AsBoundedString(s) = s /\ AsText(s) = s
           /\ s = "blank" => AsText(s) = s /\ AsBoundedString(s) = Absent
BY Apart DEF Strings, Short, AsBoundedString, AsText, Bounded

LEMMA NumbersBounded ==
    ASSUME NEW n \in Numbers
    PROVE  /\ AsPositiveInt(n) \in {Absent} \cup (Nat \ {0})
           /\ AsPositiveInt(AsPositiveInt(n)) = AsPositiveInt(n)
           /\ n \in {Absent} \cup (Nat \ {0}) => AsPositiveInt(n) = n
BY Apart DEF Numbers, AsPositiveInt

\* What is read of a place is a place within its bounds, and is read as it is.
ReadPlace == [file : Short, line : {Absent} \cup (Nat \ {0}), function : Short]
ReadRest  == [file : Short, line : {Absent} \cup (Nat \ {0}), function : Short, rest : Short]

LEMMA ReadIsTyped == ReadPlace \subseteq Place /\ ReadRest \subseteq Frame
BY DEF ReadPlace, ReadRest, Place, Frame, Strings, Short, Numbers

LEMMA PlaceRead ==
    ASSUME NEW c \in {Absent, Odd} \cup Place
    PROVE  /\ DeriveSourceLocation(c) \in ReadPlace
           /\ c \in Place /\ LocationFits(c) => DeriveSourceLocation(c) = c
           /\ DeriveSourceLocation(DeriveSourceLocation(c)) = DeriveSourceLocation(c)
<1>1. DeriveSourceLocation(c) \in ReadPlace
  BY Apart, StringsBounded, NumbersBounded
     DEF DeriveSourceLocation, IsRecord, ReadPlace, Place, NoPlace, Short
<1>2. ASSUME NEW p \in Place, LocationFits(p) PROVE DeriveSourceLocation(p) = p
  BY <1>2, Apart, StringsBounded, NumbersBounded DEF DeriveSourceLocation, IsRecord, Place, LocationFits
<1>3. ASSUME NEW p \in ReadPlace PROVE p \in Place /\ LocationFits(p)
  BY <1>3, ReadIsTyped DEF ReadPlace, LocationFits, Bounded, Short
<1> QED BY <1>1, <1>2, <1>3

\* A frame that is read says where it is as the stored one does.
LEMMA FrameRead ==
    ASSUME NEW f \in {Absent, Odd} \cup Frame
    PROVE  /\ ReadFrame(f) \in ReadRest
           /\ f \in Frame /\ FrameFits(f) => ReadFrame(f) = f
           /\ DeriveSourceLocation(ReadFrame(f)) = DeriveSourceLocation(f)
           /\ ReadFrame(f) = NoFrame => DeriveSourceLocation(f) = NoPlace
           /\ ReadFrame(f) \in Frame /\ FrameFits(ReadFrame(f))
<1>1. ReadFrame(f) \in ReadRest
  BY Apart, StringsBounded, NumbersBounded DEF ReadFrame, IsRecord, ReadRest, Frame, NoFrame, Short
<1>2. f \in Frame /\ FrameFits(f) => ReadFrame(f) = f
  BY Apart, StringsBounded, NumbersBounded DEF ReadFrame, IsRecord, Frame, FrameFits, LocationFits
<1>3. ReadFrame(f) \in Frame /\ FrameFits(ReadFrame(f))
  BY <1>1, ReadIsTyped, Apart DEF ReadRest, FrameFits, LocationFits, Bounded, Short, IsRecord
<1>4. DeriveSourceLocation(ReadFrame(f)) = DeriveSourceLocation(f)
  <2>1. CASE f \in Frame
    BY <1>3, <2>1, Apart, StringsBounded, NumbersBounded DEF ReadFrame, DeriveSourceLocation, IsRecord, Frame
  <2>2. CASE f \in {Absent, Odd}
    <3>1. ReadFrame(f) = NoFrame /\ DeriveSourceLocation(f) = NoPlace
      BY <2>2 DEF ReadFrame, IsRecord, DeriveSourceLocation
    <3>2. AsBoundedString(Absent) = Absent /\ AsPositiveInt(Absent) = Absent
      BY Apart DEF AsBoundedString, AsPositiveInt
    <3> QED BY <1>3, <3>1, <3>2, Apart DEF DeriveSourceLocation, IsRecord, NoFrame, NoPlace
  <2> QED BY <2>1, <2>2
<1>5. ReadFrame(f) = NoFrame => DeriveSourceLocation(f) = NoPlace
  <2>1. NoFrame \in Frame /\ DeriveSourceLocation(NoFrame) = NoPlace
    BY Apart DEF Frame, NoFrame, NoPlace, Strings, Numbers, DeriveSourceLocation, IsRecord,
                 AsBoundedString, AsPositiveInt
  <2> QED BY <1>4, <2>1
<1> QED BY <1>1, <1>2, <1>3, <1>4, <1>5
LEMMA UpToIsFinite ==
    ASSUME NEW n \in Nat
    PROVE  IsFiniteSet(1 .. n) /\ Cardinality(1 .. n) = n
BY FS_Interval

\* What the frames of a node may be, and what stands at their places.
FrameList == {Absent, Odd} \cup Seq({Odd} \cup Frame)

LEMMA FramesStand ==
    ASSUME NEW frames \in FrameList
    PROVE  /\ PlacesOf(frames) \subseteq Nat \ {0}
           /\ \A i \in PlacesOf(frames) : frames[i] \in {Odd} \cup Frame
           /\ PlacesOf(frames) # {} => 1 \in PlacesOf(frames) /\ PlacesOf(frames) = DOMAIN frames
<1>1. CASE frames \in {Absent, Odd}
  BY <1>1 DEF PlacesOf
<1>2. CASE frames \notin {Absent, Odd}
  <2>1. frames \in Seq({Odd} \cup Frame) /\ PlacesOf(frames) = DOMAIN frames
    BY <1>2 DEF FrameList, PlacesOf
  <2>2. DOMAIN frames = 1 .. Len(frames) /\ Len(frames) \in Nat
    BY <2>1, LenProperties
  <2>3. \A i \in DOMAIN frames : frames[i] \in {Odd} \cup Frame
    BY <2>1, <2>2, ElementOfSeq
  <2>4. DOMAIN frames \subseteq Nat \ {0} /\ (DOMAIN frames # {} => 1 \in DOMAIN frames)
    BY <2>2
  <2> QED BY <2>1, <2>3, <2>4
<1> QED BY <1>1, <1>2

LEMMA FirstIs ==
    ASSUME NEW frames, PlacesOf(frames) \subseteq Nat \ {0}, 1 \in PlacesOf(frames)
    PROVE  First(frames) = frames[1]
<1>1. PlacesOf(frames) = DOMAIN frames /\ PlacesOf(frames) # {}
  BY DEF PlacesOf
<1>2. 1 \in DOMAIN frames /\ \A j \in DOMAIN frames : 1 <= j
  BY <1>1
<1>3. \A i \in DOMAIN frames : (\A j \in DOMAIN frames : i <= j) => i = 1
  BY <1>1, <1>2
<1>4. (CHOOSE i \in DOMAIN frames : \A j \in DOMAIN frames : i <= j) = 1
  BY <1>2, <1>3
<1> QED BY <1>1, <1>4 DEF First

\* What is read of the frames is a list of its own, no longer than the bound.
LEMMA FramesRead ==
    ASSUME NEW frames \in FrameList
    PROVE  LET read == ReadFrames(frames) IN
           /\ read \in KeptFrames /\ read # Absent /\ read # Odd /\ PlacesOf(read) = DOMAIN read
           /\ DOMAIN read = {i \in PlacesOf(frames) : i <= MaxFrames /\ ReadFrame(frames[i]) # NoFrame}
           /\ \A i \in DOMAIN read : read[i] = ReadFrame(frames[i]) /\ read[i] \in Frame /\ FrameFits(read[i])
           /\ Cardinality(DOMAIN read) <= MaxFrames
<1> DEFINE read == ReadFrames(frames)
           places == {i \in PlacesOf(frames) : i <= MaxFrames /\ ReadFrame(frames[i]) # NoFrame}
<1>1. read = [i \in places |-> ReadFrame(frames[i])]
  BY DEF ReadFrames, Legible
<1>2. places \in SUBSET (1 .. MaxFrames)
  BY FramesStand, Apart
<1>3. \A i \in places : ReadFrame(frames[i]) \in Frame /\ FrameFits(ReadFrame(frames[i]))
  BY FramesStand, FrameRead
<1>4. read \in [places -> Frame]
  BY <1>1, <1>3
<1>5. read \in KeptFrames /\ read # Absent /\ read # Odd
  <2>1. read \in KeptFrames
    BY <1>2, <1>4 DEF KeptFrames
  <2> QED BY <2>1, Apart
<1>6. Cardinality(places) <= MaxFrames
  <2>1. IsFiniteSet(1 .. MaxFrames) /\ Cardinality(1 .. MaxFrames) = MaxFrames
    BY Apart, UpToIsFinite
  <2> QED BY <1>2, <2>1, FS_Subset
<1> QED BY <1>1, <1>3, <1>5, <1>6 DEF PlacesOf

LEMMA FirstRead ==
    ASSUME NEW frames \in FrameList, ReadFrame(First(frames)) # NoFrame
    PROVE  /\ First(ReadFrames(frames)) = ReadFrame(First(frames))
           /\ First(frames) \in {Odd} \cup Frame
<1>1. PlacesOf(frames) # {}
  <2>1. ReadFrame(Absent) = NoFrame
    BY DEF ReadFrame, IsRecord
  <2> QED BY <2>1 DEF First
<1>2. 1 \in PlacesOf(frames) /\ First(frames) = frames[1]
  BY <1>1, FramesStand, FirstIs
<1>3. 1 \in DOMAIN ReadFrames(frames) /\ ReadFrames(frames)[1] = ReadFrame(frames[1])
  BY <1>2, Apart, FramesRead
<1>4. First(ReadFrames(frames)) = ReadFrames(frames)[1]
  <2>1. PlacesOf(ReadFrames(frames)) \subseteq Nat \ {0} /\ 1 \in PlacesOf(ReadFrames(frames))
    BY <1>3, FramesRead, FramesStand
  <2> QED BY <2>1, FirstIs
<1> QED BY <1>2, <1>3, <1>4, FramesStand
\* No more frames than the bound, and each within its bounds: none is lost but
\* one that says nothing.
LEMMA FramesSame ==
    ASSUME NEW frames \in FrameList, Cardinality(PlacesOf(frames)) <= MaxFrames,
           \A i \in PlacesOf(frames) : FrameFits(frames[i])
    PROVE  ReadFrames(frames) = [i \in {j \in PlacesOf(frames) : frames[j] # NoFrame} |-> frames[i]]
<1>1. \A i \in PlacesOf(frames) : frames[i] \in Frame /\ ReadFrame(frames[i]) = frames[i]
  BY FramesStand, FrameRead DEF FrameFits, IsRecord
<1>2. \A i \in PlacesOf(frames) : i <= MaxFrames
  <2>1. CASE PlacesOf(frames) = {}
    BY <2>1
  <2>2. CASE PlacesOf(frames) # {}
    <3>1. frames \in Seq({Odd} \cup Frame) /\ PlacesOf(frames) = DOMAIN frames
      BY <2>2 DEF FrameList, PlacesOf
    <3>2. DOMAIN frames = 1 .. Len(frames) /\ Len(frames) \in Nat
      BY <3>1, LenProperties
    <3>3. Cardinality(1 .. Len(frames)) = Len(frames)
      BY <3>2, UpToIsFinite
    <3>4. Len(frames) <= MaxFrames
      BY <3>1, <3>2, <3>3
    <3> QED BY <3>1, <3>2, <3>4, Apart
  <2> QED BY <2>1, <2>2
<1>3. {i \in PlacesOf(frames) : i <= MaxFrames} = PlacesOf(frames)
  BY <1>2
<1>4. ReadFrames(frames) = Legible(frames, PlacesOf(frames))
  BY <1>3 DEF ReadFrames
<1>5. {j \in PlacesOf(frames) : ReadFrame(frames[j]) # NoFrame}
        = {j \in PlacesOf(frames) : frames[j] # NoFrame}
  BY <1>1
<1> DEFINE places == {j \in PlacesOf(frames) : frames[j] # NoFrame}
<1>6. ReadFrames(frames) = [i \in places |-> ReadFrame(frames[i])]
  BY <1>4, <1>5 DEF Legible
<1>7. \A i \in places : ReadFrame(frames[i]) = frames[i]
  BY <1>1
<1> QED BY <1>6, <1>7

\* A thrown value whose type is past the bound of the answer is left out of account.
PastThrown(node) ==
    [node EXCEPT !.value = IF @ # Absent /\ @.type \in {"long", "full"} THEN Absent ELSE @]

LEMMA ThrownRead ==
    ASSUME NEW v \in {Absent, Odd} \cup Value
    PROVE  /\ ReadThrown(v) # Absent =>
                /\ ReadThrown(v) \in Value
                /\ ReadThrown(v).type \in {"text", "long", "full"}
                /\ Bounded(ReadThrown(v).representation) \/ ReadThrown(v).representation = "blank"
           /\ v \in Value /\ v.type = "text" /\ (Bounded(v.representation) \/ v.representation = "blank")
                => ReadThrown(v) = v
           /\ v = Absent => ReadThrown(v) = Absent
BY Apart, StringsBounded DEF ReadThrown, IsRecord, Value, Short, Bounded, Strings

LEMMA ChildrenRead ==
    ASSUME NEW node
    PROVE  ChildrenOf(node) \in Nat
BY DEF ChildrenOf

LEMMA NothingKept == <<>> \in KeptFrames
<1>1. <<>> \in [{} -> Frame] /\ {} \in SUBSET (1 .. MaxFrames)
  OBVIOUS
<1> QED BY <1>1 DEF KeptFrames

\* What is made of a node keeps the bounds of the answer.
LEMMA NodeFits ==
    ASSUME NEW node \in {Odd} \cup Node, NEW depth
    PROVE  FieldsFit(PastThrown(ReadAt(node, depth)))
<1>1. CASE ~IsRecord(node) \/ depth > MaxDepth
  <2>1. PastThrown(ReadAt(node, depth)) = Empty
    BY <1>1 DEF ReadAt, PastThrown, Empty
  <2>2. PlacesOf(<<>>) = {} /\ Cardinality({}) = 0
    BY FS_EmptySet DEF PlacesOf
  <2>3. IsRecord(NoPlace) /\ LocationFits(NoPlace)
    BY Apart DEF IsRecord, NoPlace, LocationFits, Bounded, Place, Strings, Numbers
  <2>4. <<>> # Odd
    BY NothingKept, Apart
  <2>5. /\ Empty.type = Absent /\ Empty.message = Absent /\ Empty.code = Absent /\ Empty.frames = <<>>
        /\ Empty.source = NoPlace /\ Empty.value = Absent /\ Empty.children = 0
    BY DEF Empty
  <2>6. Empty.children # Odd /\ ChildrenOf(Empty) = 0
    BY <2>5, Apart DEF ChildrenOf
  <2>7. FieldsFit(Empty)
    <3>1. Bounded(Empty.type) /\ Bounded(Empty.message) /\ Bounded(Empty.code)
      BY <2>5 DEF Bounded
    <3>2. Empty.frames # Odd /\ PlacesOf(Empty.frames) = {} /\ Cardinality(PlacesOf(Empty.frames)) = 0
      BY <2>2, <2>4, <2>5
    <3>3. Cardinality(PlacesOf(Empty.frames)) <= MaxFrames /\ ChildrenOf(Empty) <= MaxChildren
      BY <2>6, <3>2, Apart
    <3>4. IsRecord(Empty.source) /\ LocationFits(Empty.source) /\ Empty.value = Absent
      BY <2>3, <2>5
    <3> QED BY <2>6, <3>1, <3>2, <3>3, <3>4 DEF FieldsFit
  <2> QED BY <2>1, <2>7
<1>2. CASE IsRecord(node) /\ ~(depth > MaxDepth)
  <2> DEFINE shown == ReadAt(node, depth)
             past == PastThrown(shown)
             count == IF ChildrenOf(node) < MaxChildren THEN ChildrenOf(node) ELSE MaxChildren
  <2>1. node \in Node
    BY <1>2 DEF IsRecord
  <2>2. /\ node.type \in Strings /\ node.message \in Strings /\ node.code \in Strings
        /\ node.frames \in FrameList /\ node.source \in {Absent, Odd} \cup Place
        /\ node.value \in {Absent, Odd} \cup Value
    BY <2>1 DEF Node, FrameList
  <2>3. shown = [type |-> AsBoundedString(node.type), message |-> AsText(node.message),
                 code |-> AsBoundedString(node.code), frames |-> ReadFrames(node.frames),
                 source |-> DeriveSourceLocation(node.source), value |-> ReadThrown(node.value),
                 children |-> count]
    BY <1>2 DEF ReadAt
  <2> HIDE DEF shown
  <2>4. /\ past.type = AsBoundedString(node.type) /\ past.message = AsText(node.message)
        /\ past.code = AsBoundedString(node.code) /\ past.frames = ReadFrames(node.frames)
        /\ past.source = DeriveSourceLocation(node.source) /\ past.children = count
        /\ past.value = IF ReadThrown(node.value) # Absent /\ ReadThrown(node.value).type \in {"long", "full"}
                         THEN Absent ELSE ReadThrown(node.value)
    BY <2>3 DEF PastThrown
  <2> HIDE DEF past, count
  <2>5. Bounded(past.type) /\ (Bounded(past.message) \/ past.message = "blank") /\ Bounded(past.code)
    BY <2>2, <2>4, StringsBounded DEF Bounded, Short
  <2>6. /\ past.frames # Odd /\ Cardinality(PlacesOf(past.frames)) <= MaxFrames
        /\ \A i \in PlacesOf(past.frames) : FrameFits(past.frames[i])
    BY <2>2, <2>4, FramesRead
  <2>7. IsRecord(past.source) /\ LocationFits(past.source)
    <3>1. past.source \in ReadPlace
      BY <2>2, <2>4, PlaceRead
    <3> QED BY <3>1, ReadIsTyped, Apart DEF ReadPlace, IsRecord, LocationFits, Bounded, Short
  <2>8. past.value # Absent =>
          /\ IsRecord(past.value) /\ past.value.type = "text"
          /\ Bounded(past.value.representation) \/ past.value.representation = "blank"
    BY <2>2, <2>4, ThrownRead, Apart DEF IsRecord
  <2>9. past.children # Odd /\ ChildrenOf(past) <= MaxChildren
    <3>1. count \in Nat /\ count <= MaxChildren
      BY ChildrenRead, Apart DEF count
    <3>2. past.children = count
      BY <2>4
    <3>3. ChildrenOf(past) = count
      BY <3>1, <3>2 DEF ChildrenOf
    <3>4. count # Odd
      BY <3>1, Apart
    <3> QED BY <3>1, <3>2, <3>3, <3>4
  <2>10. FieldsFit(past)
    BY <2>5, <2>6, <2>7, <2>8, <2>9 DEF FieldsFit
  <2> QED BY <2>10 DEF past, shown
<1> QED BY <1>1, <1>2

LEMMA NodeIsShown ==
    ASSUME NEW node \in {Odd} \cup Node, NEW depth
    PROVE  ReadAt(node, depth) \in Shown /\ IsRecord(ReadAt(node, depth))
<1>1. ASSUME ~IsRecord(node) \/ depth > MaxDepth PROVE ReadAt(node, depth) \in Shown
  <2>1. ReadAt(node, depth) = Empty
    BY <1>1 DEF ReadAt
  <2>2. NoPlace \in Place
    BY DEF NoPlace, Place, Strings, Numbers
  <2> QED BY <2>1, <2>2, NothingKept DEF Empty, Shown, Strings
<1>2. ASSUME IsRecord(node), ~(depth > MaxDepth) PROVE ReadAt(node, depth) \in Shown
  <2> DEFINE count == IF ChildrenOf(node) < MaxChildren THEN ChildrenOf(node) ELSE MaxChildren
  <2>1. /\ node.type \in Strings /\ node.message \in Strings /\ node.code \in Strings
        /\ node.frames \in FrameList /\ node.source \in {Absent, Odd} \cup Place
        /\ node.value \in {Absent, Odd} \cup Value
    BY <1>2 DEF Node, FrameList, IsRecord
  <2>2. /\ AsBoundedString(node.type) \in Strings /\ AsText(node.message) \in Strings
        /\ AsBoundedString(node.code) \in Strings
    BY <2>1, StringsBounded DEF Short, Strings
  <2>3. ReadFrames(node.frames) \in KeptFrames
    BY <2>1, FramesRead
  <2>4. DeriveSourceLocation(node.source) \in Place
    BY <2>1, PlaceRead, ReadIsTyped
  <2>5. ReadThrown(node.value) \in {Absent} \cup Value
    BY <2>1, ThrownRead
  <2>6. count \in Nat
    BY ChildrenRead, Apart
  <2> QED BY <1>2, <2>2, <2>3, <2>4, <2>5, <2>6 DEF ReadAt, Shown
<1> QED BY <1>1, <1>2, Apart DEF IsRecord

\* Whatever was stored, what is shown of it keeps the contract of the answer.
LEMMA ReadKeepsItsContract ==
    ASSUME NEW e, IsException(e), NEW p \in DOMAIN ReadStoredException(e)
    PROVE  FieldsFit(PastThrown(ReadStoredException(e)[p]))
<1>1. p \in DOMAIN e /\ ReadStoredException(e)[p] = ReadAt(e[p], Len(p))
  BY DEF ReadStoredException, Reached
<1>2. e[p] \in {Odd} \cup Node
  BY <1>1 DEF IsException
<1> QED BY <1>1, <1>2, NodeFits
\* What the contract has taken is shown as it was.
LEMMA NodeSame ==
    ASSUME NEW node \in Node, IsRecord(node), FieldsFit(node), NEW depth, ~(depth > MaxDepth)
    PROVE  SameNode(ReadAt(node, depth), node)
<1> DEFINE shown == ReadAt(node, depth)
           count == IF ChildrenOf(node) < MaxChildren THEN ChildrenOf(node) ELSE MaxChildren
<1>1. /\ node.type \in Strings /\ node.message \in Strings /\ node.code \in Strings
      /\ node.frames \in FrameList /\ node.source \in {Absent, Odd} \cup Place
      /\ node.value \in {Absent, Odd} \cup Value
  BY DEF Node, FrameList
<1>2. /\ Bounded(node.type)
      /\ Bounded(node.message) \/ node.message = "blank"
      /\ Bounded(node.code) \/ node.code = "blank"
      /\ Cardinality(PlacesOf(node.frames)) <= MaxFrames
      /\ \A i \in PlacesOf(node.frames) : FrameFits(node.frames[i])
      /\ node.source # Absent => IsRecord(node.source) /\ LocationFits(node.source)
      /\ node.value # Absent =>
           /\ IsRecord(node.value) /\ node.value.type = "text"
           /\ Bounded(node.value.representation) \/ node.value.representation = "blank"
      /\ ChildrenOf(node) <= MaxChildren
  BY DEF FieldsFit
<1>3. shown = [type |-> AsBoundedString(node.type), message |-> AsText(node.message),
               code |-> AsBoundedString(node.code), frames |-> ReadFrames(node.frames),
               source |-> DeriveSourceLocation(node.source), value |-> ReadThrown(node.value),
               children |-> count]
  BY DEF ReadAt
<1> HIDE DEF shown
<1>4. /\ shown.type = AsBoundedString(node.type) /\ shown.message = AsText(node.message)
      /\ shown.code = AsBoundedString(node.code) /\ shown.frames = ReadFrames(node.frames)
      /\ shown.source = DeriveSourceLocation(node.source) /\ shown.children = count
      /\ shown.value = ReadThrown(node.value)
  BY <1>3
<1> HIDE DEF count
<1>5. shown.type = node.type /\ shown.message = node.message
  BY <1>1, <1>2, <1>4, StringsBounded
<1>6. shown.code = IF node.code = "blank" THEN Absent ELSE node.code
  BY <1>1, <1>2, <1>4, StringsBounded, Apart DEF Bounded
<1>7. shown.source = IF node.source = Absent THEN NoPlace ELSE node.source
  <2>1. CASE node.source = Absent
    BY <1>4, <2>1 DEF DeriveSourceLocation, IsRecord
  <2>2. CASE node.source # Absent
    <3>1. node.source \in Place /\ LocationFits(node.source)
      BY <1>1, <1>2, <2>2 DEF IsRecord
    <3> QED BY <1>4, <2>2, <3>1, PlaceRead
  <2> QED BY <2>1, <2>2
<1>8. shown.value = node.value
  <2>1. CASE node.value = Absent
    BY <1>4, <2>1 DEF ReadThrown, IsRecord
  <2>2. CASE node.value # Absent
    <3>1. node.value \in Value
      BY <1>1, <1>2, <2>2 DEF IsRecord
    <3> QED BY <1>2, <1>4, <2>2, <3>1, ThrownRead
  <2> QED BY <2>1, <2>2
<1>9. shown.children = ChildrenOf(node)
  <2>1. ChildrenOf(node) \in Nat /\ MaxChildren \in Nat /\ ChildrenOf(node) <= MaxChildren
    BY <1>2, ChildrenRead, Apart
  <2>2. count = ChildrenOf(node)
    BY <2>1 DEF count
  <2> QED BY <1>4, <2>2
<1>10. shown.frames = [i \in {j \in PlacesOf(node.frames) : node.frames[j] # NoFrame} |-> node.frames[i]]
  <2>1. ReadFrames(node.frames)
          = [i \in {j \in PlacesOf(node.frames) : node.frames[j] # NoFrame} |-> node.frames[i]]
    BY <1>1, <1>2, FramesSame
  <2> QED BY <1>4, <2>1
<1>11. SameNode(shown, node)
  BY <1>5, <1>6, <1>7, <1>8, <1>9, <1>10 DEF SameNode
<1> QED BY <1>11 DEF shown
LEMMA TakenIsShown ==
    ASSUME NEW e, IsException(e), Taken(e)
    PROVE  Same(ReadStoredException(e), e)
<1>1. ASSUME NEW p \in DOMAIN e
      PROVE  /\ p \in Seq(Nat) /\ Len(p) <= MaxDepth
             /\ e[p] \in {Odd} \cup Node /\ IsRecord(e[p]) /\ FieldsFit(e[p])
  BY DEF Taken, Fits, Within, IsException
<1>2. ASSUME NEW p \in DOMAIN e PROVE p \in Reached(e)
  <2>1. Len(p) \in Nat /\ Len(p) <= MaxDepth + 1
    <3>1. Len(p) \in Nat /\ Len(p) <= MaxDepth /\ MaxDepth \in Nat
      BY <1>1, LenProperties, Apart
    <3> QED BY <3>1
  <2>2. ASSUME NEW i \in 1 .. Len(p) PROVE p[i] <= MaxChildren
    <3> DEFINE above == SubSeq(p, 1, i - 1)
    <3>1. above \in DOMAIN e /\ p[i] <= ChildrenOf(e[above])
      BY DEF IsException
    <3>2. FieldsFit(e[above])
      BY <1>1, <3>1
    <3>3. ChildrenOf(e[above]) <= MaxChildren
      BY <3>2 DEF FieldsFit
    <3>4. p[i] \in Nat
      BY <1>1, ElementOfSeq
    <3> HIDE DEF above
    <3>5. ChildrenOf(e[above]) \in Nat /\ MaxChildren \in Nat
      BY ChildrenRead, Apart
    <3> QED BY <3>1, <3>3, <3>4, <3>5
  <2> QED BY <2>1, <2>2 DEF Reached
<1>3. Reached(e) = DOMAIN e
  BY <1>2 DEF Reached
<1>4. ASSUME NEW p \in DOMAIN e PROVE SameNode(ReadAt(e[p], Len(p)), e[p])
  <2>1. e[p] \in Node /\ IsRecord(e[p]) /\ FieldsFit(e[p])
    BY <1>1 DEF IsRecord
  <2>2. ~(Len(p) > MaxDepth)
    <3>1. Len(p) \in Nat /\ Len(p) <= MaxDepth /\ MaxDepth \in Nat
      BY <1>1, LenProperties, Apart
    <3> QED BY <3>1
  <2> QED BY <2>1, <2>2, NodeSame
<1> QED BY <1>3, <1>4 DEF Same, ReadStoredException

\* What the list says of what is stored, the detail of it says, unless the first
\* frame says nothing.
LEMMA ListAndDetail ==
    ASSUME NEW e, IsException(e)
    PROVE  \/ SummarizeException(e) = SummarizeException(ReadStoredException(e))
           \/ ReadFrame(First(e[<<>>].frames)) = NoFrame /\ SummarizeException(e).source = NoPlace
<1> DEFINE root == e[<<>>]
           detail == ReadStoredException(e)
           shown == ReadAt(root, 0)
<1>1. root \in {Odd} \cup Node
  BY DEF IsException
<1>2. detail[<<>>] = shown
  <2>1. Len(<<>>) = 0 /\ <<>> \in DOMAIN e
    BY DEF IsException
  <2>2. 0 <= MaxDepth + 1
    BY Apart
  <2>3. <<>> \in Reached(e)
    BY <2>1, <2>2 DEF Reached
  <2> QED BY <2>1, <2>3 DEF ReadStoredException
<1> HIDE DEF detail
<1>3. CASE ~IsRecord(root)
  <2>1. shown = Empty
    BY <1>3 DEF ReadAt
  <2>2. SummarizeException(e) = [type |-> Absent, message |-> Absent, source |-> NoPlace]
    BY <1>3 DEF SummarizeException
  <2>3. AsBoundedString(Absent) = Absent /\ AsPositiveInt(Absent) = Absent
    BY Apart DEF AsBoundedString, AsPositiveInt
  <2>4. DeriveSourceLocation(NoPlace) = NoPlace /\ DeriveSourceLocation(Absent) = NoPlace
    <3>1. NoPlace \in Place
      BY DEF NoPlace, Place, Strings, Numbers
    <3>2. IsRecord(NoPlace)
      BY <3>1, Apart DEF IsRecord
    <3> QED BY <2>3, <3>2 DEF DeriveSourceLocation, IsRecord, NoPlace
  <2>5. First(<<>>) = Absent
    BY DEF First, PlacesOf
  <2>6. PlaceOf(Empty) = NoPlace
    BY <2>4, <2>5 DEF PlaceOf, Empty
  <2>7. SummarizeException(detail) = [type |-> Absent, message |-> Absent, source |-> NoPlace]
    <3>1. IsRecord(Empty) /\ Empty.type = Absent /\ Empty.message = Absent
      BY <1>1, <2>1, NodeIsShown DEF Empty
    <3>2. detail[<<>>] = Empty
      BY <1>2, <2>1
    <3> QED BY <2>3, <2>6, <3>1, <3>2 DEF SummarizeException
  <2> QED BY <2>2, <2>7 DEF detail
<1>4. CASE IsRecord(root)
  <2>1. /\ root.type \in Strings /\ root.message \in Strings
        /\ root.frames \in FrameList /\ root.source \in {Absent, Odd} \cup Place
    BY <1>1, <1>4 DEF Node, FrameList, IsRecord
  <2>2. /\ shown.type = AsBoundedString(root.type) /\ shown.message = AsText(root.message)
        /\ shown.source = DeriveSourceLocation(root.source) /\ shown.frames = ReadFrames(root.frames)
    <3>1. ~(0 > MaxDepth)
      BY Apart
    <3> QED BY <1>4, <3>1 DEF ReadAt
  <2> DEFINE own == DeriveSourceLocation(root.source)
             place == PlaceOf(root)
  <2>3. SummarizeException(e) = [type |-> AsBoundedString(root.type), message |-> AsBoundedString(root.message),
                                 source |-> place]
    BY <1>4 DEF SummarizeException
  <2>4. SummarizeException(detail) = [type |-> AsBoundedString(shown.type), message |-> AsBoundedString(shown.message),
                                      source |-> PlaceOf(shown)]
    <3>1. IsRecord(shown)
      BY <1>1, NodeIsShown
    <3> QED BY <1>2, <3>1 DEF SummarizeException
  <2>5. /\ AsBoundedString(shown.type) = AsBoundedString(root.type)
        /\ AsBoundedString(shown.message) = AsBoundedString(root.message)
    BY <2>1, <2>2, StringsBounded
  <2>6. DeriveSourceLocation(shown.source) = own
    BY <2>1, <2>2, PlaceRead
  <2>7. place = IF own # NoPlace THEN own ELSE DeriveSourceLocation(First(root.frames))
    BY DEF PlaceOf
  <2>8. PlaceOf(shown) = IF own # NoPlace THEN own ELSE DeriveSourceLocation(First(shown.frames))
    BY <2>6 DEF PlaceOf
  <2> HIDE DEF own, place, shown
  <2>9. ASSUME own # NoPlace PROVE SummarizeException(e) = SummarizeException(detail)
    BY <2>3, <2>4, <2>5, <2>7, <2>8, <2>9
  <2>10. ASSUME own = NoPlace, ReadFrame(First(root.frames)) # NoFrame
         PROVE  SummarizeException(e) = SummarizeException(detail)
    <3>1. First(shown.frames) = ReadFrame(First(root.frames)) /\ First(root.frames) \in {Odd} \cup Frame
      BY <2>1, <2>2, <2>10, FirstRead
    <3>2. DeriveSourceLocation(First(shown.frames)) = DeriveSourceLocation(First(root.frames))
      BY <2>10, <3>1, FrameRead
    <3> QED BY <2>3, <2>4, <2>5, <2>7, <2>8, <2>10, <3>2
  <2>11. ASSUME own = NoPlace, ReadFrame(First(root.frames)) = NoFrame
         PROVE  SummarizeException(e).source = NoPlace
    <3>1. First(root.frames) \in {Absent, Odd} \cup Frame
      <4>1. CASE PlacesOf(root.frames) = {}
        BY <4>1 DEF First
      <4>2. CASE PlacesOf(root.frames) # {}
        BY <2>1, <4>2, FramesStand, FirstIs
      <4> QED BY <4>1, <4>2
    <3>2. DeriveSourceLocation(First(root.frames)) = NoPlace
      BY <2>11, <3>1, FrameRead
    <3> QED BY <2>3, <2>7, <2>11, <3>2
  <2> QED BY <2>9, <2>10, <2>11 DEF detail
<1> QED BY <1>3, <1>4
\* What a report is grouped by when the list shows a place for it, and when not.
LEMMA GroupedAlike ==
    ASSUME NEW e, IsException(e), Taken(e), NEW m, Taken([e EXCEPT ![<<>>].message = m])
    PROVE  LET other == [e EXCEPT ![<<>>].message = m]
               s == SummarizeException(e)
           IN ComputeFingerprint(other) = ComputeFingerprint(e) <=>
                \/ s.source.file # Absent \/ s.source.function # Absent
                \/ SummarizeException(other).message = s.message
<1> DEFINE other == [e EXCEPT ![<<>>].message = m]
           root == e[<<>>]
           s == SummarizeException(e)
           t == SummarizeException(other)
<1>1. <<>> \in DOMAIN e /\ root \in Node /\ IsRecord(root)
  BY DEF IsException, Taken, Fits, IsRecord
<1>2. other[<<>>] = [root EXCEPT !.message = m] /\ IsRecord(other[<<>>])
  BY <1>1 DEF Taken, Fits
<1>3. /\ other[<<>>].type = root.type /\ other[<<>>].source = root.source
      /\ other[<<>>].frames = root.frames
  BY <1>1, <1>2 DEF Node
<1>4. s = [type |-> AsBoundedString(root.type), message |-> AsBoundedString(root.message),
           source |-> PlaceOf(root)]
  BY <1>1 DEF SummarizeException
<1>5. PlaceOf(other[<<>>]) = PlaceOf(root)
  BY <1>3 DEF PlaceOf
<1>6. t = [type |-> AsBoundedString(root.type), message |-> AsBoundedString(other[<<>>].message),
           source |-> PlaceOf(root)]
  BY <1>2, <1>3, <1>5 DEF SummarizeException
<1>7. t.type = s.type /\ t.source = s.source
  BY <1>4, <1>6
<1>8. ComputeFingerprint(other) = IF s.source.file # Absent \/ s.source.function # Absent
                                  THEN <<s.type, s.source.file, s.source.line, s.source.function>>
                                  ELSE <<s.type, t.message>>
  BY <1>7 DEF ComputeFingerprint
<1>9. ComputeFingerprint(e) = IF s.source.file # Absent \/ s.source.function # Absent
                              THEN <<s.type, s.source.file, s.source.line, s.source.function>>
                              ELSE <<s.type, s.message>>
  BY DEF ComputeFingerprint
<1> HIDE DEF s, t, other
<1>10. ComputeFingerprint(other) = ComputeFingerprint(e) <=>
         \/ s.source.file # Absent \/ s.source.function # Absent
         \/ t.message = s.message
  BY <1>8, <1>9
<1> QED BY <1>10 DEF s, t, other

\* What is known of a stored report between any two of the calls about it.
SInv ==
    /\ column = NoException => fingerprint = Absent /\ view = [list |-> Absent, detail |-> NoException]
    /\ column # NoException => IsException(column)
    /\ fingerprint # Absent =>
         column # NoException /\ Taken(column) /\ fingerprint = ComputeFingerprint(column)
    /\ view \in [list : {Absent, SummarizeException(column)},
                 detail : {NoException, ReadStoredException(column)}]

LEMMA StoredStep == SInv /\ [StoredNext]_storedVars => SInv'
<1> SUFFICES ASSUME SInv, [StoredNext]_storedVars PROVE SInv'
  OBVIOUS
<1>0. ASSUME NEW e \in Exceptions PROVE IsException(e) /\ e # NoException
  <2>1. IsException(e)
    BY StoredAssumption
  <2>2. <<>> \in DOMAIN e
    BY <2>1 DEF IsException
  <2>3. DOMAIN NoException = {}
    BY DEF NoException
  <2> QED BY <2>1, <2>2, <2>3
<1>1. ASSUME column = NoException, NEW e \in Exceptions, Store(e) PROVE SInv'
  <2>1. /\ Taken(e) /\ column' = e /\ fingerprint' = ComputeFingerprint(e)
        /\ view' = [list |-> Absent, detail |-> NoException]
    BY <1>1 DEF Store, SInv
  <2> QED BY <1>0, <2>1 DEF SInv
<1>2. ASSUME column = NoException, NEW e \in Exceptions, Inherit(e) PROVE SInv'
  <2>1. /\ column' = e /\ fingerprint' = Absent
        /\ view' = [list |-> Absent, detail |-> NoException]
    BY <1>2 DEF Inherit, SInv
  <2> QED BY <1>0, <2>1 DEF SInv
<1>3. CASE List
  BY <1>3 DEF List, SInv
<1>4. CASE Get
  BY <1>4 DEF Get, SInv
<1>5. CASE UNCHANGED storedVars
  BY <1>5 DEF storedVars, SInv
<1> QED BY <1>1, <1>2, <1>3, <1>4, <1>5 DEF StoredNext

LEMMA StoredHolds == SInv => StoredInv
<1> SUFFICES ASSUME SInv PROVE StoredInv
  OBVIOUS
<1>1. StoredTypeOK
  BY DEF SInv, StoredTypeOK, Taken
<1>2. view.list \in {Absent, SummarizeException(column)} /\ view.detail \in {NoException, ReadStoredException(column)}
  BY DEF SInv
<1>3. view.detail # NoException => column # NoException /\ IsException(column)
  BY DEF SInv
<1>4. DetailKeepsItsContract
  <2>1. CASE view.detail = NoException
    BY <2>1 DEF NoException, DetailKeepsItsContract
  <2>2. CASE view.detail # NoException
    BY <1>2, <1>3, <2>2, ReadKeepsItsContract DEF DetailKeepsItsContract, PastThrown
  <2> QED BY <2>1, <2>2
<1>5. TakenComesBack
  BY <1>2, <1>3, TakenIsShown DEF SInv, TakenComesBack
<1>6. ListAgreesWithDetail
  BY <1>2, <1>3, ListAndDetail DEF ListAgreesWithDetail
<1>7. GroupedByPlace
  BY <1>2, GroupedAlike DEF SInv, GroupedByPlace
<1> QED BY <1>1, <1>4, <1>5, <1>6, <1>7 DEF StoredInv

\* Whatever is in the column, and for any bounds: the detail keeps the contract of
\* the answer, what the contract took is shown as it was, the list and the detail
\* name one failure at one place, and a report is grouped by what the list shows.
THEOREM StoredInvariant == StoredSpec => []StoredInv
<1>1. StoredInit => SInv
  BY DEF StoredInit, SInv
<1>2. SInv /\ [StoredNext]_storedVars => SInv'
  BY StoredStep
<1>3. SInv => StoredInv
  BY StoredHolds
<1> QED BY <1>1, <1>2, <1>3, PTL DEF StoredSpec

-----------------------------------------------------------------------------
(* Together.                                                               *)

\* A step of one part is no step of the others: what each keeps by itself, the
\* API keeps (error-reporting, alerts and dashboard of apps/api).
THEOREM ReportsKeepAll ==
    ReportsSpec => /\ [](NotifiedOnce /\ FirstSeenOnce /\ MissedOnlyByOverlap)
                   /\ [](NotificationsInv /\ DashboardInv /\ StoredInv /\ AlertRulesInv)
<1>1. ReportsInit => Init /\ NotificationInit /\ DashboardInit /\ StoredInit /\ AlertRulesInit
  BY DEF ReportsInit
<1>2. [ReportsNext]_reportsVars =>
        /\ [Next]_vars
        /\ [NotificationNext]_notificationVars
        /\ [DashboardNext]_dashboardVars
        /\ [StoredNext]_storedVars
        /\ [AlertRulesNext]_alertRulesVars
  BY DEF ReportsNext, reportsVars
<1>3. ReportsSpec => Spec /\ NotificationSpec /\ DashboardSpec /\ StoredSpec /\ AlertRulesSpec
  BY <1>1, <1>2, PTL DEF ReportsSpec, Spec, NotificationSpec, DashboardSpec, StoredSpec, AlertRulesSpec
<1> QED
  BY <1>3, NotifiedAtMostOnce, FirstSeenFiresOnce, MissedOnlyByOverlapping, NotificationsInvariant,
     DashboardInvariant, StoredInvariant, AlertRulesInvariant, PTL

=============================================================================
