------------------------------ MODULE Dashboard ------------------------------
(***************************************************************************)
(* The summary of a project (apps/api/src/dashboard) and the trend the     *)
(* overview draws from it: a dozen statements over one table that start    *)
(* together and end in any order, each on a snapshot of its own, while     *)
(* reporters write rows and retention deletes them.                        *)
(*                                                                         *)
(* The signals share nothing but the time of the request, so a behaviour   *)
(* has one of them.  Time is in days, the width of a bucket.               *)
(***************************************************************************)
EXTENDS Integers, FiniteSets, FiniteSetsExt

CONSTANTS
    MaxRows,        \* bound: the rows ever written
    MaxDay,         \* bound: the last day
    Days,           \* DASHBOARD_SUMMARY_WINDOW_DAYS
    Retention,      \* the days a log record or a span is kept
    Hundred,        \* 100, scaled so that a change may round to nothing
    Nothing         \* no environment, no row, not read yet

ASSUME DashboardAssumption ==
    /\ {MaxRows, MaxDay, Days, Retention, Hundred} \subseteq Nat \ {0}
    /\ Nothing \notin Int

VARIABLES
    signal,     \* "reports", "logs" or "spans"
    today,      \* the clock
    row,        \* the rows ever written
    present,    \* those that are in the table
    request,    \* the request, with what each statement found
    throughout, \* history: the rows that were there since the request began,
    sometime    \* history: and those that were at some time

dashboardVars == <<signal, today, row, present, request, throughout, sometime>>

NoRequest == [step |-> "idle", now |-> 0, found |-> <<>>]

DashboardInit ==
    /\ signal \in {"reports", "logs", "spans"}
    /\ today = 0
    /\ row = <<>>
    /\ present = {}
    /\ request = NoRequest
    /\ throughout = {} /\ sometime = {}

-----------------------------------------------------------------------------
(* dashboard-summary.math.ts and the statements *)

\* buildDailyBuckets, from the first day of the window to the day before `now`.
BuildDailyBuckets(now) == {[start |-> now - i, end |-> now - i + 1] : i \in 1 .. Days}
SummaryWindow(now)  == [start |-> now - Days, end |-> now]
PreviousWindow(now) == [start |-> now - 2 * Days, end |-> now - Days]

InRange(rows, range) == {n \in rows : range.start <= row[n].at /\ row[n].at < range.end}

Statements(now) ==
    LET buckets == {<<"count", range>> : range \in BuildDailyBuckets(now)}
        window  == SummaryWindow(now)
        last    == {<<"last", window>>}
    IN CASE signal = "reports" -> buckets \cup last \cup
              {<<"count", PreviousWindow(now)>>, <<"environment", window>>, <<"runtime", window>>}
         [] signal = "logs"    -> buckets \cup last
         [] signal = "spans"   -> {<<"count", window>>} \cup last

\* GROUP BY "environment", which may be null, or by "runtimeName", which may not.
\* keyOf gives each of the rows its key.
CountBy(rows, keyOf) ==
    [key \in {keyOf[n] : n \in rows} |-> Cardinality({n \in rows : keyOf[n] = key})]

\* What a statement finds when the table holds these rows.
Find(statement, table) ==
    LET rows == InRange(table, statement[2]) IN
    CASE statement[1] = "count"       -> Cardinality(rows)
      [] statement[1] = "environment" -> CountBy(rows, [n \in rows |-> row[n].environment])
      [] statement[1] = "runtime"     -> CountBy(rows, [n \in rows |-> "runtime"])
      [] statement[1] = "last"        ->
           IF table = {} THEN Nothing ELSE Max({row[n].at : n \in table})

\* sum: as many as there are places, so many for each key.
Places(counts) == UNION {{key} \X (1 .. counts[key]) : key \in DOMAIN counts}
SumOf(counts) == Cardinality(Places(counts))

NameOf(key) == IF key = Nothing THEN "unspecified" ELSE key

\* The count of one key in place of the other's.
FoldKeepsOne(counts) ==
    [name \in {NameOf(key) : key \in DOMAIN counts} |->
        counts[CHOOSE key \in DOMAIN counts : key \in {name, IF name = "unspecified" THEN Nothing ELSE name}]]

\* foldGroupCounts: a row without the key is counted under "unspecified", beside
\* those that have that very name.
FoldGroupCounts(counts) ==
    [name \in {NameOf(key) : key \in DOMAIN counts} |->
        SumOf([key \in {k \in DOMAIN counts : NameOf(k) = name} |-> counts[key]])]

-----------------------------------------------------------------------------
(* summarize *)

Summarize ==
    /\ request.step = "idle"
    /\ request' = [step |-> "reading", now |-> today,
                   found |-> [s \in Statements(today) |-> Nothing]]
    /\ throughout' = present /\ sometime' = present
    /\ UNCHANGED <<signal, today, row, present>>

Unread == {s \in DOMAIN request.found : request.found[s] = Nothing}

\* One result behind Promise.all; `last` may find Nothing, and is then read.
Read(s) ==
    /\ request.step = "reading"
    /\ s \in Unread
    /\ request' = [request EXCEPT !.found[s] = [is |-> Find(s, present)]]
    /\ UNCHANGED <<signal, today, row, present, throughout, sometime>>

\* One statement fails, and the request with it.
ReadFails ==
    /\ request.step = "reading"
    /\ request' = NoRequest
    /\ throughout' = {} /\ sometime' = {}
    /\ UNCHANGED <<signal, today, row, present>>

Respond ==
    /\ request.step = "reading"
    /\ Unread = {}
    /\ request' = [request EXCEPT !.step = "shown"]
    /\ UNCHANGED <<signal, today, row, present, throughout, sometime>>

-----------------------------------------------------------------------------
(* Reporters, retention and the clock *)

\* A report or a record is dated by the server when its statement begins, which
\* may be the day before it is committed; a span is dated by its reporter.
Written ==
    CASE signal = "spans" -> 0 .. MaxDay
      [] OTHER            -> {day \in {today - 1, today} : day >= 0}

\* Bound: one row is written in the course of a request.
Write ==
    LET n == Cardinality(DOMAIN row) + 1 IN
    /\ n <= MaxRows
    /\ request.step = "reading" => sometime = throughout
    /\ \E at \in Written,
          environment \in IF signal = "reports" THEN {Nothing, "unspecified"} ELSE {Nothing} :
         row' = [k \in 1 .. n |->
            IF k = n THEN [at |-> at, environment |-> environment] ELSE row[k]]
    /\ present' = present \cup {n}
    /\ sometime' = IF request.step = "reading" THEN sometime \cup {n} ELSE sometime
    /\ UNCHANGED <<signal, today, request, throughout>>

\* Error reports are kept for good.
Retain ==
    LET old == {n \in present : row[n].at < today - Retention} IN
    /\ signal # "reports"
    /\ old # {}
    /\ present' = present \ old
    /\ throughout' = IF request.step = "reading" THEN throughout \ old ELSE throughout
    /\ UNCHANGED <<signal, today, row, request, sometime>>

NextDay ==
    /\ today < MaxDay
    /\ today' = today + 1
    /\ UNCHANGED <<signal, row, present, request, throughout, sometime>>

\* Bound: one summary is shown, and the behaviour ends with it.
DashboardNext ==
    /\ request.step # "shown"
    /\ \/ Summarize
       \/ \E s \in DOMAIN request.found : Read(s)
       \/ ReadFails
       \/ Respond
       \/ Write
       \/ Retain
       \/ NextDay
-----------------------------------------------------------------------------
(* What is shown *)

Of(kind, range) == request.found[<<kind, range>>].is

Total ==
    IF signal = "spans" THEN Of("count", SummaryWindow(request.now))
    ELSE SumOf([range \in BuildDailyBuckets(request.now) |-> Of("count", range)])

Previous == Of("count", PreviousWindow(request.now))

ByName(kind) == SumOf(FoldGroupCounts(Of(kind, SummaryWindow(request.now))))

\* Math.round: a half goes up, below zero as well.
Round(n, d) == (2 * n + d) \div (2 * d)

\* describeTrend, the direction of its words alone.
DescribeTrend(total, previous) ==
    LET change == Round(Hundred * (total - previous), previous) IN
    CASE previous = 0 -> IF total = 0 THEN "flat" ELSE "up"
      [] previous # 0 /\ change = 0 -> "flat"
      [] previous # 0 /\ change > 0 -> "up"
      [] OTHER -> "down"

\* trendDirection, which draws the arrow and its tone.
TrendDirection(total, previous) ==
    CASE total = previous -> "flat"
      [] total > previous -> "up"
      [] OTHER            -> "down"
-----------------------------------------------------------------------------
(* Properties *)

\* What is shown was read in full, within a time the clock has passed.
DashboardTypeOK ==
    /\ today \in 0 .. MaxDay /\ DOMAIN row = 1 .. Cardinality(DOMAIN row)
    /\ present \subseteq DOMAIN row
    /\ throughout \subseteq sometime /\ sometime \subseteq DOMAIN row
    /\ request.now <= today
    /\ request.step = "shown" => Unread = {}

Between(count, range) ==
    Cardinality(InRange(throughout, range)) <= count /\ count <= Cardinality(InRange(sometime, range))

\* Whatever is written or deleted between its statements, a total counts each row
\* of its window that was there all along once, and none that never was: the
\* buckets neither overlap nor leave a gap, nor do the two windows.
CountsItsWindow ==
    request.step = "shown" =>
      /\ Between(Total, SummaryWindow(request.now))
      /\ signal = "reports" => Between(Previous, PreviousWindow(request.now))

\* When nothing changed meanwhile the summary agrees with itself: its totals with
\* its breakdowns, and what was received with when the last of it was.
AddsUpAtRest ==
    request.step = "shown" /\ throughout = sometime =>
      LET last == Of("last", SummaryWindow(request.now)) IN
      /\ signal = "reports" => Total = ByName("environment") /\ Total = ByName("runtime")
      /\ last = Nothing <=> sometime = {}
      /\ Total > 0 => last >= request.now - Days

\* The words of the trend never say the opposite of its arrow.
TrendSpeaksOnce ==
    request.step = "shown" /\ signal = "reports" =>
      DescribeTrend(Total, Previous) \in {"flat", TrendDirection(Total, Previous)}

\* The invariant of a summary whose statements are of different moments: it
\* counts its window, agrees with itself at rest, and is told in words that fit.
DashboardInv == DashboardTypeOK /\ CountsItsWindow /\ AddsUpAtRest /\ TrendSpeaksOnce

=============================================================================
