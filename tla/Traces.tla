------------------------------- MODULE Traces -------------------------------
(***************************************************************************)
(* Reading traces (trace.service.ts): the list of the newest, which asks   *)
(* for the roots and then for the counts while spans arrive and expire,    *)
(* and one trace as the waterfall draws it.                                *)
(*                                                                         *)
(* Instances of Ingestion that take spans are read by the list. An         *)
(* instance whose signal is "trace" holds one trace already, of any shape, *)
(* and is read in detail.                                                  *)
(***************************************************************************)
EXTENDS Ingestion, SpanOrder

CONSTANTS
    ListLimit,      \* TRACE_LIST_LIMIT
    MaxTraceSpans,  \* MAX_TRACE_SPANS
    Timings         \* when the spans of the trace read in detail ran

ASSUME TracesAssumption ==
    /\ ListLimit \in Nat \ {0} /\ MaxTraceSpans \in Nat \ {0}
    /\ Timings \subseteq [1..MaxTraceSpans -> [start : Nat, duration : Nat]]

VARIABLES
    shape,   \* what each span says: its trace, parent, start and status
    stored,  \* the rows of the trace read in detail
    viewer   \* the request that reads

tracesVars == <<ingestionVars, orderVars, shape, stored, viewer>>

-----------------------------------------------------------------------------
(* The list.                                                               *)

\* SpanRepository.listRootSpans: the newest roots; of those that start
\* together the database returns any.
RootSpans(p) == {i \in Ids : rows[p][i] # None /\ shape[i].parent = NoParent}
Newest(p) == {S \in SUBSET RootSpans(p) :
    /\ Cardinality(S) = IF Cardinality(RootSpans(p)) < ListLimit THEN Cardinality(RootSpans(p)) ELSE ListLimit
    /\ \A i \in S, j \in RootSpans(p) \ S : shape[i].start >= shape[j].start}

Counted(p, trace) == {i \in Ids : rows[p][i] # None /\ shape[i].trace = trace}
Failing(p, trace) == {i \in Counted(p, trace) : shape[i].failed}

\* toSummary: where no count came back the root is all that is known.
Summary(p, root) ==
    LET counted == Counted(p, shape[root].trace)
    IN  [root |-> root,
         spanCount |-> IF counted = {} THEN 1 ELSE Cardinality(counted),
         errorSpanCount |-> Cardinality(Failing(p, shape[root].trace))]

Unread == [pc |-> "idle", roots |-> {}, swept |-> FALSE, summaries |-> {},
           truncated |-> FALSE, start |-> 0, duration |-> 0]

ListRoots(S) ==
    /\ signal = "spans" /\ viewer.pc = "idle"
    /\ viewer' = [Unread EXCEPT !.pc = "listed", !.roots = S]
    /\ UNCHANGED <<ingestionVars, orderVars, shape, stored>>

ListCounts(p) ==
    /\ viewer.pc = "listed"
    /\ viewer' = [viewer EXCEPT !.pc = "answered", !.summaries = {Summary(p, i) : i \in viewer.roots}]
    /\ UNCHANGED <<ingestionVars, orderVars, shape, stored>>

-----------------------------------------------------------------------------
(* One trace.                                                              *)

\* The database orders by the start cut to milliseconds, here two of the
\* nanoseconds, and leaves the order of what starts in the same one open.
Millisecond(span) == span.start \div 2
Reads(S) == {o \in SetToSeqs(S) :
    \A j, k \in DOMAIN o : j < k => Millisecond(o[j]) <= Millisecond(o[k])}

\* What a read keeps: one more than the bound is asked for.
Kept(read) == SubSeq(read, 1, Min({Len(read), MaxTraceSpans}))

TraceStart(kept) == Min({s.start : s \in Range(kept)})
TraceEnd(kept) == Max({s.start + s.duration : s \in Range(kept)})

\* TraceService.detail: no span at all is an empty trace.
Detail ==
    /\ signal = "trace" /\ viewer.pc = "idle"
    /\ \E read \in Reads(stored) :
        IF read = <<>>
        THEN viewer' = [viewer EXCEPT !.pc = "drawn"] /\ UNCHANGED orderVars
        ELSE /\ viewer' = [viewer EXCEPT !.pc = "drawing",
                     !.truncated = Len(read) > MaxTraceSpans,
                     !.start = TraceStart(Kept(read)),
                     !.duration = TraceEnd(Kept(read)) - TraceStart(Kept(read))]
             /\ Begin(Kept(read))
    /\ UNCHANGED <<ingestionVars, shape, stored>>

Draw ==
    /\ viewer.pc = "drawing"
    /\ \/ Round /\ UNCHANGED viewer
       \/ Finish /\ viewer' = [viewer EXCEPT !.pc = "drawn"]
    /\ UNCHANGED <<ingestionVars, shape, stored>>

-----------------------------------------------------------------------------
\* Spans of the listed traces.
Shapes == {f \in [Ids -> [trace : {1, 2}, parent : {NoParent, 1}, start : {1, 2}, failed : BOOLEAN]] :
            f[1].trace = 1 /\ f[1].parent = NoParent /\ f[1].start = 1}

\* The traces read in detail: of each span the parent is none, any span of
\* the trace, itself among them, or the last one, which started after all of
\* the others and may have been stored or not.
Size == MaxTraceSpans
StoredTraces ==
    {{[spanId |-> i, parent |-> up[i], start |-> t[i].start, duration |-> t[i].duration] : i \in 1..Size}
        \cup late :
        up \in [1..Size -> 0..(Size + 1)], t \in Timings,
        late \in {{}, {[spanId |-> Size + 1, parent |-> NoParent, start |-> 9, duration |-> 1]}}}

Quiet == [i \in Ids |-> [trace |-> 1, parent |-> NoParent, start |-> 1, failed |-> FALSE]]

Init ==
    /\ spans = <<>> /\ stack = <<>> /\ ordered = <<>>
    /\ viewer = Unread
    /\ \/ /\ IngestionInit
          /\ shape \in IF signal = "spans" THEN Shapes ELSE {Quiet}
          /\ stored = {}
       \/ /\ signal = "trace" /\ settings \in {s \in Settings : ~s.legacy /\ ~s.production}
          /\ Empty
          /\ shape = Quiet
          /\ stored \in StoredTraces \cup {{}}

Next ==
    \/ /\ signal # "trace" /\ IngestionNext
       /\ viewer' = [viewer EXCEPT !.swept = @ \/ (viewer.pc = "listed" /\ \E p \in Projects, i \in Ids :
                                                      rows[p][i] # None /\ rows'[p][i] = None)]
       /\ UNCHANGED <<orderVars, shape, stored>>
    \/ \E S \in Newest(DefaultProject) : ListRoots(S)
    \/ ListCounts(DefaultProject)
    \/ Detail \/ Draw

-----------------------------------------------------------------------------
(* Properties.                                                             *)

Drawn == Range(spans)

\* What a list answers of a trace.
TraceSummary == [root : Ids, spanCount : Nat, errorSpanCount : Nat]

\* The request that reads: its list, and its one trace beside the spans.
Viewer == [pc : {"idle", "listed", "answered", "drawing", "drawn"}, roots : SUBSET Ids, swept : BOOLEAN,
           summaries : SUBSET TraceSummary, truncated : BOOLEAN, start : Nat, duration : Nat]

\* What is answered has its type: the contract takes no number below zero.
TracesTypeOK == viewer \in Viewer /\ ordered \in Seq(Line)

\* A waterfall is the tree of the spans: each once, under its parent, in the
\* order they started, orphans after the true roots, cycles at the end,
\* whatever order the database returned. Only what started last is cut, and
\* the answer says so.
WaterfallIsTheTree ==
    viewer.pc = "drawn" =>
        /\ IsWaterfall(ordered)
        /\ Drawn \subseteq stored
        /\ viewer.truncated = (Drawn # stored)
        /\ \A s \in Drawn, t \in stored \ Drawn : Millisecond(s) <= Millisecond(t)

\* The bar of every span lies inside that of the trace, which is no longer
\* than they need, although the first row read need not be the earliest.
WindowCoversTheSpans ==
    viewer.pc = "drawn" /\ Drawn # {} =>
        LET end(s) == s.start - viewer.start + s.duration
        IN  /\ \A s \in Drawn : s.start >= viewer.start /\ end(s) <= viewer.duration
            /\ \E s \in Drawn : s.start = viewer.start
            /\ \E s \in Drawn : end(s) = viewer.duration

\* "A root always counts itself": what is listed counts the roots of its
\* trace, and the failed ones among its failures, unless retention ran
\* between the two queries (toSummary's comment).
RootCountsItself ==
    viewer.pc = "answered" /\ ~viewer.swept =>
        \A s \in viewer.summaries :
            LET listed == {i \in viewer.roots : shape[i].trace = shape[s.root].trace}
            IN  /\ s.spanCount >= Cardinality(listed)
                /\ s.errorSpanCount >= Cardinality({i \in listed : shape[i].failed})
                /\ s.errorSpanCount <= s.spanCount

\* The invariant of what is drawn of the stored spans: a waterfall is their
\* tree, inside its window, and its loop ends; and a list counts its roots.
TracesInv == TracesTypeOK /\ WaterfallIsTheTree /\ WindowCoversTheSpans /\ EachOnce /\ RootCountsItself

Spec == Init /\ [][Next]_tracesVars
=============================================================================
