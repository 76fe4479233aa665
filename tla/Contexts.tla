------------------------------- MODULE Contexts -------------------------------
(***************************************************************************)
(* Where the reporters keep the active span and the active scope of the    *)
(* code that is running: a ContextVar in Python (dolshoe/scope.py), an     *)
(* AsyncLocalStorage in Node, Deno and Bun (scope.ts and span-scope.ts of  *)
(* each), and one variable in a client that is built by hand (scope.ts and *)
(* span-scope.ts of core).                                                 *)
(*                                                                         *)
(* A chain is a thread, a task or a chain of awaits. It is inside the      *)
(* blocks it entered, with_span and with_scope, and has not left.          *)
(***************************************************************************)
EXTENDS Naturals, Sequences, SequencesExt, FiniteSetsExt

CONSTANTS
    Chains, Main,
    SpanNames,
    Bags, Root,   \* objects that hold tags; Root is the one made with the client
    None,
    MaxBlocks     \* bound on the blocks a chain is inside at once

ASSUME ContextsAssumption ==
    /\ Main \in Chains /\ Root \in Bags /\ MaxBlocks \in Nat
    /\ None \notin Chains \cup SpanNames \cup Bags

VARIABLES
    store,     \* which of the three keeps what is active
    view,      \* what is active, of each context
    blocks,    \* what each chain is inside of, the outermost first
    born,      \* what a chain began with, and the chains its context is of
    spans,     \* how far a span is, the chain that started it, its parent
    tags,      \* the chains that put their tag in a bag
    running,   \* the chain that holds the one variable's thread
    astray     \* history: chains a block was left in or of, out of order

contextVars == <<store, view, blocks, born, spans, tags, running, astray>>

-----------------------------------------------------------------------------
Stores == {"contextvar", "asynclocal", "variable"}

\* The one variable has one context, whatever runs.
ContextOf(c) == IF store = "variable" THEN Main ELSE c

\* A new ContextVar holds nothing; the others begin with the client's bag.
Empty == [span |-> None, bag |-> IF store = "contextvar" THEN None ELSE Root]

Living == {c \in Chains : born[c].line # {}}

\* One chain at a time where there is one thread; it is away at its awaits.
Acts(c) ==
    /\ c \in Living
    /\ store = "variable" => running \in {None, c}
    /\ running' = IF store = "variable" THEN c ELSE None

ActiveSpan(c) == view[ContextOf(c)].span
ActiveBag(c) == view[ContextOf(c)].bag

\* A bag nothing refers to, as an allocation returns.
Held(c) == {view[c].bag, born[c].view.bag}
           \cup UNION {{blocks[c][i].own, blocks[c][i].was} : i \in DOMAIN blocks[c]}
FreshBags == Bags \ ({Root} \cup UNION {Held(c) : c \in Chains})
NewBag == CHOOSE b \in FreshBags : TRUE

\* A task copies the context of the one that creates it, the objects in it
\* shared; so does every callback of a chain of awaits. A thread starts empty.
BirthView(c, copied) == IF copied THEN view[ContextOf(c)] ELSE Empty

Spawn(c, d, copied) ==
    /\ Acts(c) /\ d \notin Living
    /\ copied \/ store = "contextvar"
    /\ born' = [born EXCEPT ![d] = [line |-> {d} \cup (IF copied THEN born[c].line ELSE {}),
                                   view |-> BirthView(c, copied)]]
    /\ view' = IF store = "variable" THEN view ELSE [view EXCEPT ![d] = BirthView(c, copied)]
    /\ UNCHANGED <<store, blocks, spans, tags, astray>>

-----------------------------------------------------------------------------
(* Blocks.                                                                 *)

Enter(c, kind, value) ==
    /\ Len(blocks[c]) < MaxBlocks
    /\ blocks' = [blocks EXCEPT ![c] =
           Append(@, [kind |-> kind, own |-> value, was |-> view[ContextOf(c)][kind], unwound |-> FALSE])]
    /\ view' = [view EXCEPT ![ContextOf(c)][kind] = value]

NewSpans == {s \in SpanNames : spans[s].state = "none"}
NewSpan == CHOOSE s \in NewSpans : TRUE

\* resolve_parent: what is active, unless the span is to start a trace.
ParentOf(c, detached) == IF detached THEN None ELSE ActiveSpan(c)

\* with_span starts a span and makes it active.
WithSpan(c, detached) ==
    /\ Acts(c) /\ NewSpans # {}
    /\ spans' = [spans EXCEPT ![NewSpan] = [state |-> "open", by |-> c, parent |-> ParentOf(c, detached)]]
    /\ Enter(c, "span", NewSpan)
    /\ UNCHANGED <<store, born, tags, astray>>

\* with_scope binds a bag that is new and empty.
WithScope(c) ==
    /\ Acts(c) /\ FreshBags # {}
    /\ tags' = [tags EXCEPT ![NewBag] = {}]
    /\ Enter(c, "bag", NewBag)
    /\ UNCHANGED <<store, born, spans, astray>>

\* Resetting a ContextVar takes back what it held at the entry; a token of
\* another context is refused, and what is there is cleared.
Reset(c, d, b) ==
    IF d = c THEN [view EXCEPT ![c][b.kind] = b.was] ELSE [view EXCEPT ![d][b.kind] = None]

\* (A block that leaves its scope behind.)
NotRestored(c, b) == IF b.kind = "bag" THEN view ELSE [view EXCEPT ![ContextOf(c)][b.kind] = b.was]

\* run puts back what it found; the one variable was put back already if the
\* callback has awaited.
Restored(c, b) ==
    IF b.unwound THEN view ELSE [view EXCEPT ![ContextOf(c)][b.kind] = b.was]

\* A block is left: the last one by the chain itself, or in Python any of
\* them by anyone it was handed to (a generator, an exit stack). The span
\* ends once it is no longer active.
Leave(c, i, d) ==
    LET b == blocks[c][i]
        inner == {j \in i + 1 .. Len(blocks[c]) : blocks[c][j].kind = b.kind}
    IN  /\ Acts(d) /\ c \in Living
        /\ (i = Len(blocks[c]) /\ d = c) \/ store = "contextvar"
        /\ view' = IF store = "contextvar" THEN Reset(c, d, b) ELSE Restored(c, b)
        /\ spans' = IF b.kind = "span" THEN [spans EXCEPT ![b.own].state = "ended"] ELSE spans
        /\ astray' = astray \cup (IF d # c \/ inner # {} THEN {c, d} ELSE {})
        /\ blocks' = [blocks EXCEPT ![c] = RemoveAt(@, i)]
        /\ UNCHANGED <<store, born, tags>>

\* The callbacks of the blocks the chain is inside of return their promises,
\* the innermost first, and put the one variable back.
Await(c) ==
    LET held(k) == {i \in DOMAIN blocks[c] : blocks[c][i].kind = k /\ ~blocks[c][i].unwound}
        back(k) == IF held(k) = {} THEN view[Main][k] ELSE blocks[c][Min(held(k))].was
    IN  /\ store = "variable" /\ running = c /\ running' = None
        /\ view' = [view EXCEPT ![Main] = [span |-> back("span"), bag |-> back("bag")]]
        /\ blocks' = [blocks EXCEPT ![c] = [i \in DOMAIN @ |-> [@[i] EXCEPT !.unwound = TRUE]]]
        /\ UNCHANGED <<store, born, spans, tags, astray>>

\* active_scope: what is there, or a fresh bag that stays there.
ScopeOf(c) == IF ActiveBag(c) = None THEN NewBag ELSE ActiveBag(c)

\* setTag and its kind, in the bag that is active; a new one is empty.
Tagged(b, c, sets) ==
    (IF b \in FreshBags THEN {} ELSE tags[b]) \cup (IF sets THEN {c} ELSE {})

\* Setting a tag, and a capture, which reads the scope.
Touch(c, sets) ==
    LET b == ScopeOf(c)
    IN  /\ Acts(c) /\ (ActiveBag(c) = None => FreshBags # {})
        /\ view' = [view EXCEPT ![ContextOf(c)].bag = b]
        /\ tags' = [tags EXCEPT ![b] = Tagged(b, c, sets)]
        /\ UNCHANGED <<store, blocks, born, spans, astray>>

-----------------------------------------------------------------------------
ContextsInit ==
    /\ store \in Stores
    /\ view = [c \in Chains |-> Empty]
    /\ blocks = [c \in Chains |-> <<>>]
    /\ born = [c \in Chains |-> [line |-> {Main} \cap {c}, view |-> Empty]]
    /\ spans = [s \in SpanNames |-> [state |-> "none", by |-> None, parent |-> None]]
    /\ tags = [b \in Bags |-> {}]
    /\ running = None /\ astray = {}

ContextsNext ==
    \E c \in Chains :
        \/ \E d \in Chains, copied \in BOOLEAN : Spawn(c, d, copied)
        \/ \E detached \in BOOLEAN : WithSpan(c, detached)
        \/ WithScope(c)
        \/ \E i \in DOMAIN blocks[c], d \in Chains : Leave(c, i, d)
        \/ Await(c)
        \/ \E sets \in BOOLEAN : Touch(c, sets)

-----------------------------------------------------------------------------
(* Properties.                                                             *)

View == [span : SpanNames \cup {None}, bag : Bags \cup {None}]

\* Every variable has its type, and what is active in a reporter of JavaScript
\* always has a bag.
ContextsTypeOK ==
    /\ store \in Stores
    /\ view \in [Chains -> View]
    /\ store # "contextvar" => \A c \in Chains : view[c].bag # None
    /\ born \in [Chains -> [line : SUBSET Chains, view : View]]
    /\ \A c \in Chains : Len(blocks[c]) <= MaxBlocks /\ \A i \in DOMAIN blocks[c] :
           blocks[c][i] \in [kind : {"span", "bag"}, own : SpanNames \cup Bags,
                             was : SpanNames \cup Bags \cup {None}, unwound : BOOLEAN]
    /\ spans \in [SpanNames -> [state : {"none", "open", "ended"}, by : Chains \cup {None},
                            parent : SpanNames \cup {None}]]
    /\ tags \in [Bags -> SUBSET Chains]
    /\ running \in Chains \cup {None} /\ astray \subseteq Chains

\* What the block a chain is innermost in made active, or what the chain began
\* with.
InnermostOf(c, kind) ==
    LET inside == {i \in DOMAIN blocks[c] : blocks[c][i].kind = kind}
    IN  IF inside = {} THEN born[c].view[kind] ELSE blocks[c][Max(inside)].own

\* Whatever other threads and tasks enter and leave meanwhile, the parent of a
\* chain's next span is the span it is inside of, and its tags go to the scope
\* it is inside of; a Python chain loses that only by blocks that were left
\* out of order or in another context.
ActiveIsInnermost ==
    store # "variable" => \A c \in Living \ astray :
        /\ ActiveSpan(c) = InnermostOf(c, "span")
        /\ (\E i \in DOMAIN blocks[c] : blocks[c][i].kind = "bag")
               => ActiveBag(c) = InnermostOf(c, "bag")

\* However blocks are left, the span that is active, which becomes the parent
\* of the next, was started by the same chain or by one whose context it was
\* copied from: a block left in another context does not make its span, or the
\* one around it, the parent of what runs there afterwards.
ParentIsOfItsLine ==
    store # "variable" =>
        /\ \A c \in Living : ActiveSpan(c) # None => spans[ActiveSpan(c)].by \in born[c].line
        /\ \A s \in SpanNames :
               spans[s].parent # None => spans[spans[s].parent].by \in born[spans[s].by].line

\* However blocks are left, a chain reports the tags of chains that have their
\* context from a common one only; never those of another thread.
TagsStayInLine ==
    store # "variable" => \A c \in Living :
        ActiveBag(c) # None => \A d \in tags[ActiveBag(c)] : born[d].line \cap born[c].line # {}

\* A scope of its own holds the tags of the chain that entered it and of those
\* it created inside, whatever runs beside it.
TagsStayInside ==
    store # "variable" => \A c \in Living : \A i \in DOMAIN blocks[c] :
        blocks[c][i].kind = "bag" => \A d \in tags[blocks[c][i].own] : c \in born[d].line

\* The invariant of what is active where, however blocks are left: parents and
\* tags are a chain's own, or of those it has its context from.
ContextsInv ==
    ContextsTypeOK /\ ActiveIsInnermost /\ ParentIsOfItsLine /\ TagsStayInLine /\ TagsStayInside

=============================================================================
