------------------------------ MODULE SpanOrder ------------------------------
(***************************************************************************)
(* The order in which a waterfall draws the spans of a trace               *)
(* (order-spans.ts), one round of its loop a step. Spans are records of an *)
(* id, the id of the parent (0: none) and a start in nanoseconds. Ids are  *)
(* numbers, compared as the code compares their hexadecimal digits.        *)
(***************************************************************************)
EXTENDS Naturals, Sequences, FiniteSets, SequencesExt

VARIABLES
    spans,   \* the spans to draw, in the order given
    stack,   \* spans that wait, each with its depth; the last one is the top
    ordered  \* the lines drawn so far

orderVars == <<spans, stack, ordered>>

NoParent == 0

\* A line of the waterfall: a span and how many of its ancestors are here.
Line == [span : Range(spans), depth : Nat]

\* Older first, and of two that start together the smaller id.
ByStart(l, r) == l.start < r.start \/ (l.start = r.start /\ l.spanId < r.spanId)

\* The spans of a set, sorted: there is one such sequence.
Sorted(S) == {o \in SetToSeqs(S) : \A j, k \in DOMAIN o : j < k => ByStart(o[j], o[k])}

Present == {s.spanId : s \in Range(spans)}

Roots == {s \in Range(spans) : s.parent = NoParent}

\* A span whose parent is not here, or is itself.
Orphans == {s \in Range(spans) :
    s.parent # NoParent /\ (s.parent \notin Present \/ s.parent = s.spanId)}

ChildrenOf(id) == {s \in Range(spans) \ (Roots \cup Orphans) : s.parent = id}

\* Pushed in reverse, for the stack pops from its end.
Stacked(depth, list) == [k \in DOMAIN list |-> [span |-> list[Len(list) + 1 - k], depth |-> depth]]

Emitted == {ordered[k].span.spanId : k \in DOMAIN ordered}

Begin(given) ==
    /\ spans' = given /\ ordered' = <<>>
    /\ \E roots \in Sorted(Roots)', orphans \in Sorted(Orphans)' : stack' = Stacked(0, roots \o orphans)

\* A round of the loop: what is popped is drawn unless it was, and its
\* children that were not yet are put on the stack, youngest first.
Round ==
    LET next == Last(stack)
    IN  /\ stack # <<>>
        /\ IF next.span.spanId \in Emitted
           THEN stack' = Front(stack) /\ UNCHANGED ordered
           ELSE /\ ordered' = Append(ordered, next)
                /\ \E children \in Sorted({c \in ChildrenOf(next.span.spanId) : c.spanId \notin Emitted'}) :
                       stack' = Front(stack) \o Stacked(next.depth + 1, children)
        /\ UNCHANGED spans

\* (Nothing but what the loop drew.)
NoneLeft == {}

\* What no root leads to: a cycle and what hangs from it.
Unreached == {s \in Range(spans) : s.spanId \notin Emitted}

GivenBefore(s, t) == \E j, k \in DOMAIN spans : j < k /\ spans[j] = s /\ spans[k] = t

\* They come last, in the order given.
Finish ==
    /\ stack = <<>>
    /\ \E rest \in SetToSeqs(Unreached) :
           /\ \A j, k \in DOMAIN rest : j < k => GivenBefore(rest[j], rest[k])
           /\ ordered' = ordered \o [k \in DOMAIN rest |-> [span |-> rest[k], depth |-> 0]]
    /\ UNCHANGED <<spans, stack>>

-----------------------------------------------------------------------------
(* What the order is to be, said without the stack.                        *)

\* Ids that lead to no root: each one's parent is another of them.
Unrooted == UNION {U \in SUBSET Present :
    \A s \in Range(spans) : s.spanId \in U => s.parent \in U \ {s.spanId}}

Hangs(s) == s.spanId \notin Unrooted

\* True roots, then orphans, then cycles.
Rank(s) == IF ~Hangs(s) THEN 2 ELSE IF s.parent = NoParent THEN 0 ELSE 1

\* Of two lines without a parent line, or with the same, which is the first:
\* the older one, and among cycles the one given first.
Follows(l, m) ==
    l.depth = m.depth =>
        IF l.depth = 0
        THEN \/ Rank(l.span) < Rank(m.span)
             \/ /\ Rank(l.span) = Rank(m.span)
                /\ IF Hangs(l.span) THEN ByStart(l.span, m.span) ELSE GivenBefore(l.span, m.span)
        ELSE l.span.parent = m.span.parent => ByStart(l.span, m.span)

\* A waterfall reads the tree off the depths alone: the parent of a line is
\* the last line above it that is less deep.
ParentLine(lines, k, j) ==
    /\ j < k /\ lines[j].span.spanId = lines[k].span.parent
    /\ lines[k].depth = lines[j].depth + 1
    /\ \A i \in j + 1..k - 1 : lines[i].depth >= lines[k].depth

IsWaterfall(lines) ==
    /\ {l.span : l \in Range(lines)} = Range(spans)
    /\ \A j, k \in DOMAIN lines : lines[j].span.spanId = lines[k].span.spanId => j = k
    /\ \A k \in DOMAIN lines :
        IF lines[k].depth = 0 THEN lines[k].span \in Roots \cup Orphans \/ ~Hangs(lines[k].span)
        ELSE Hangs(lines[k].span) /\ \E j \in DOMAIN lines : ParentLine(lines, k, j)
    /\ \A j, k \in DOMAIN lines : j < k => Follows(lines[j], lines[k])

\* No span is put on the stack, or drawn, a second time, so that every round
\* of the loop draws one and the loop ends, whatever names what its parent.
EachOnce ==
    /\ \A j, k \in DOMAIN stack : stack[j].span.spanId = stack[k].span.spanId => j = k
    /\ \A j, k \in DOMAIN ordered : ordered[j].span.spanId = ordered[k].span.spanId => j = k
    /\ \A k \in DOMAIN stack : stack[k].span.spanId \notin Emitted
=============================================================================
