---------------------------- MODULE Notifications ----------------------------
(***************************************************************************)
(* What becomes of a firing of AlertEvaluation: notify hands it to one     *)
(* adapter for each channel of the rule (apps/api/src/alerts) and waits    *)
(* for none of them.  A channel answers, refuses, asks to be asked again   *)
(* later or is not heard of before the request times out, in which case it *)
(* may have taken the message all the same.  Times are in seconds.         *)
(***************************************************************************)
EXTENDS Integers

CONSTANTS
    Firings,        \* the firings of a rule
    Channels,       \* its channels
    SendTimeout,    \* SEND_TIMEOUT_MILLISECONDS
    Delays,         \* what a channel may name as a delay
    Silent          \* nothing usable in the body or in the header

ASSUME NotificationAssumption ==
    /\ SendTimeout \in Nat \ {0}
    /\ Delays \subseteq Int
    /\ Silent \notin Int

VARIABLES
    adapter,    \* the type of each channel
    botToken,   \* is TELEGRAM_BOT_TOKEN set?
    sending,    \* the state of each message
    taken       \* history: how often a channel has taken it

notificationVars == <<adapter, botToken, sending, taken>>

Notice == Firings \X Channels

NotificationInit ==
    /\ adapter \in [Channels -> {"slack", "webhook", "discord", "telegram"}]
    /\ botToken \in BOOLEAN
    /\ sending = [m \in Notice |-> [step |-> "unsent", wait |-> 0]]
    /\ taken = [m \in Notice |-> 0]

Adapter(m) == adapter[m[2]]

Becomes(m, step, wait) == sending' = [sending EXCEPT ![m] = [step |-> step, wait |-> wait]]

\* All channels of the rule are asked at once; without a token Telegram is not.
Notify(f) ==
    /\ \A c \in Channels : sending[<<f, c>>].step = "unsent"
    /\ sending' = [m \in Notice |->
        IF m[1] # f THEN sending[m]
        ELSE [step |-> IF Adapter(m) = "telegram" /\ ~botToken THEN "rejected" ELSE "posting",
              wait |-> 0]]
    /\ UNCHANGED <<adapter, botToken, taken>>

Lesser(a, b) == IF a < b THEN a ELSE b
Greater(a, b)  == IF a < b THEN b ELSE a

\* The delay of the body, else of the header, else a second: never negative, and
\* never more than a request may take.
RetryAfter(body, header) ==
    CASE body # Silent                                   -> Lesser(Greater(body, 0), SendTimeout)
      [] body = Silent /\ header # Silent /\ header >= 0 -> Lesser(header, SendTimeout)
      [] OTHER                                           -> 1

\* Whatever failed once is tried again.
AsksAfterSilence(m, answer) ==
    answer # "taken" /\ Adapter(m) = "discord" /\ sending[m].step = "posting"

\* Discord alone is asked again, once, when it says it had too much.
AsksAgain(m, answer) ==
    /\ answer = "too_many"
    /\ Adapter(m) = "discord"
    /\ sending[m].step = "posting"

Answered(m, answer) ==
    /\ sending[m].step \in {"posting", "reposting"}
    /\ CASE AsksAgain(m, answer) ->
              \E body, header \in Delays \cup {Silent} :
                Becomes(m, "waiting", RetryAfter(body, header))
         [] answer = "taken" -> Becomes(m, "sent", 0)
         [] OTHER            -> Becomes(m, "rejected", 0)
    /\ \/ answer \in {"taken", "silence"} /\ taken' = [taken EXCEPT ![m] = @ + 1]
       \/ answer # "taken" /\ UNCHANGED taken
    /\ UNCHANGED <<adapter, botToken>>

Answer(m) == \E answer \in {"taken", "refused", "too_many", "silence"} : Answered(m, answer)

Repost(m) ==
    /\ sending[m].step = "waiting"
    /\ Becomes(m, "reposting", 0)
    /\ UNCHANGED <<adapter, botToken, taken>>

\* The rejection is caught and logged, and nothing else is done about it.
Warn(m) ==
    /\ sending[m].step = "rejected"
    /\ Becomes(m, "warned", 0)
    /\ UNCHANGED <<adapter, botToken, taken>>

Settled == {"unsent", "sent", "warned", "lost"}

\* The process ends: what is under way is lost, and nobody starts it again.
Restart ==
    /\ \E m \in Notice : sending[m].step \notin Settled
    /\ sending' = [m \in Notice |->
        IF sending[m].step \in Settled THEN sending[m] ELSE [step |-> "lost", wait |-> 0]]
    /\ UNCHANGED <<adapter, botToken, taken>>

NotificationNext ==
    \/ \E f \in Firings : Notify(f)
    \/ \E m \in Notice : Answer(m) \/ Repost(m) \/ Warn(m)
    \/ Restart
-----------------------------------------------------------------------------
\* Every message is in one of its states, and waits only for Discord.
NotificationsTypeOK ==
    /\ \A m \in Notice :
        /\ sending[m].step \in Settled \cup {"posting", "waiting", "reposting", "rejected"}
        /\ sending[m].step = "waiting" => Adapter(m) = "discord"
        /\ sending[m].step # "waiting" => sending[m].wait = 0
    /\ taken \in [Notice -> Nat]

\* A channel takes a firing once at most: what may have been taken is not posted
\* again, whatever the answer was and however often the process starts.
NeverToldTwice == \A m \in Notice : taken[m] <= 1

\* Whatever a channel names as a delay, below zero and far away included, it is
\* asked again within the time one request may take.
AskedAgainSoon == \A m \in Notice : sending[m].wait \in 0 .. SendTimeout

\* The invariant of the channels: a firing is told once, and soon if again.
NotificationsInv == NotificationsTypeOK /\ NeverToldTwice /\ AskedAgainSoon

=============================================================================
