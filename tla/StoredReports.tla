---------------------------- MODULE StoredReports ----------------------------
(***************************************************************************)
(* What is made of an exception once it is stored                          *)
(* (apps/api/src/error-reporting): the fingerprint it is grouped by when   *)
(* it comes, the summary the list shows and the tree the detail shows.     *)
(* The column is JSON: it may have been written by a reporter and a        *)
(* contract of another version, so that any field may be missing, of the   *)
(* wrong type or longer than today's contract has it.                      *)
(*                                                                         *)
(* A string is told apart by what the code does to it: "blank" has nothing *)
(* but white space, "long" fits every bound but that of a thrown value's   *)
(* type, "huge" fits none and is cut to the bound, which makes it "full".  *)
(* An exception is what each of its nodes holds: <<>> is the exception,    *)
(* <<0>> its cause and <<2, 0>> the cause of its second child; a cause and *)
(* a context are read alike, and are one here. Of the frames shown only    *)
(* the order is told apart: they keep the places they had when stored.     *)
(* The depth and the numbers of frames and children are scaled.            *)
(***************************************************************************)
EXTENDS Naturals, Sequences, FiniteSets

CONSTANTS
    MaxDepth,       \* MAX_EXCEPTION_DEPTH
    MaxFrames,      \* MAX_STACK_FRAMES
    MaxChildren,    \* MAX_EXCEPTION_CHILDREN
    Absent,         \* no such field, or no such value
    Odd,            \* a value of another type
    Exceptions      \* what may come to be stored

Strings == {Absent, Odd, "blank", "text", "long", "full", "huge"}
Numbers == {Absent, Odd} \cup Nat

Place == [file : Strings, line : Numbers, function : Strings]
Frame == [file : Strings, line : Numbers, function : Strings, rest : Strings]
Value == [type : Strings, representation : Strings]
Node  == [type : Strings, message : Strings, code : Strings,
          frames : {Absent, Odd} \cup Seq({Odd} \cup Frame), source : {Absent, Odd} \cup Place,
          value : {Absent, Odd} \cup Value, children : Numbers]

\* What is shown of a node.
KeptFrames == UNION {[places -> Frame] : places \in SUBSET (1 .. MaxFrames)}
Shown == [type : Strings, message : Strings, code : Strings, frames : KeptFrames, source : Place,
          value : {Absent} \cup Value, children : Nat]

ChildrenOf(node) == IF node.children \in Nat THEN node.children ELSE 0

\* Each step of a path leads from a node to its cause or to one of its children,
\* and each child is there.
IsException(e) ==
    /\ <<>> \in DOMAIN e
    /\ \A p \in DOMAIN e :
        /\ p \in Seq(Nat)
        /\ e[p] \in {Odd} \cup Node
        /\ \A i \in 1 .. Len(p) : LET above == SubSeq(p, 1, i - 1) IN
             above \in DOMAIN e /\ e[above] \in Node /\ p[i] <= ChildrenOf(e[above])
        /\ e[p] \in Node => \A i \in 1 .. ChildrenOf(e[p]) : Append(p, i) \in DOMAIN e

ASSUME StoredAssumption ==
    /\ {MaxDepth, MaxFrames, MaxChildren} \subseteq Nat \ {0}
    /\ \A e \in Exceptions : IsException(e)

\* What is missing or of another type is no string, number, record or list.
ASSUME ApartAssumption ==
    /\ Absent # Odd
    /\ \A x \in {Absent, Odd} :
        /\ x \notin {"blank", "text", "long", "full", "huge"} \cup Nat
        /\ x \notin Place /\ x \notin Frame /\ x \notin Value
        /\ \A places \in SUBSET (1 .. MaxFrames) : x \notin [places -> Frame]
        /\ x \notin Shown

VARIABLES
    column,         \* the exception as it is stored
    fingerprint,    \* the column beside it; Absent for a row of another version
    view            \* what the list and the detail were answered, once read

storedVars == <<column, fingerprint, view>>

-----------------------------------------------------------------------------
(* summarize-exception.ts *)

\* asBoundedString: trimmed, cut, and nothing rather than blank.
AsBoundedString(s) ==
    CASE s \in {Absent, Odd, "blank"} -> Absent
      [] s = "huge"                     -> "full"
      [] OTHER                          -> s

\* Kept as it is, blank or not, and cut.
AsText(s) ==
    CASE s \in {Absent, Odd} -> Absent
      [] s = "huge"            -> "full"
      [] OTHER                 -> s

\* asPositiveInt.
AsPositiveInt(n) == IF n \in Nat \ {0} THEN n ELSE Absent

IsRecord(value) == value \notin {Absent, Odd}

\* Where a frame or the exception itself says it is. A column goes with the line;
\* `rest` is what a frame has besides, as the name of a module.
NoPlace == [file |-> Absent, line |-> Absent, function |-> Absent]
NoFrame == [file |-> Absent, line |-> Absent, function |-> Absent, rest |-> Absent]

DeriveSourceLocation(candidate) ==
    IF ~IsRecord(candidate) THEN NoPlace
    ELSE [file     |-> AsBoundedString(candidate.file),
          line     |-> AsPositiveInt(candidate.line),
          function |-> AsBoundedString(candidate.function)]

PlacesOf(frames) == IF frames \in {Absent, Odd} THEN {} ELSE DOMAIN frames

First(frames) ==
    IF PlacesOf(frames) = {} THEN Absent
    ELSE frames[CHOOSE i \in DOMAIN frames : \A j \in DOMAIN frames : i <= j]

\* The exception's own place, or that of its first frame.
PlaceOf(node) ==
    LET own == DeriveSourceLocation(node.source) IN
    IF own # NoPlace THEN own ELSE DeriveSourceLocation(First(node.frames))

SummarizeException(e) ==
    LET root == e[<<>>] IN
    IF ~IsRecord(root) THEN [type |-> Absent, message |-> Absent, source |-> NoPlace]
    ELSE [type    |-> AsBoundedString(root.type),
          message |-> AsBoundedString(root.message),
          source  |-> PlaceOf(root)]

-----------------------------------------------------------------------------
(* compute-fingerprint.ts *)

\* What is hashed: the place, when it names a file or a function, or else the
\* message, and never the two together.
ComputeFingerprint(e) ==
    LET s == SummarizeException(e) IN
    IF s.source.file # Absent \/ s.source.function # Absent
    THEN <<s.type, s.source.file, s.source.line, s.source.function>>
    ELSE <<s.type, s.message>>

-----------------------------------------------------------------------------
(* read-stored-exception.ts *)

ReadFrame(frame) ==
    IF ~IsRecord(frame) THEN NoFrame
    ELSE [file |-> AsBoundedString(frame.file), line |-> AsPositiveInt(frame.line),
          function |-> AsBoundedString(frame.function), rest |-> AsBoundedString(frame.rest)]

\* Of the frames at these places, those that say something.
Legible(frames, places) ==
    [i \in {j \in places : ReadFrame(frames[j]) # NoFrame} |-> ReadFrame(frames[i])]

\* As many frames as there are.
ReadEveryFrame(frames) == Legible(frames, PlacesOf(frames))

ReadFrames(frames) == Legible(frames, {i \in PlacesOf(frames) : i <= MaxFrames})

\* A thrown value is nothing without its type.
ReadThrown(value) ==
    IF ~IsRecord(value) \/ AsBoundedString(value.type) = Absent THEN Absent
    ELSE [type |-> AsBoundedString(value.type), representation |-> AsText(value.representation)]

Empty == [type |-> Absent, message |-> Absent, code |-> Absent, frames |-> <<>>,
          source |-> NoPlace, value |-> Absent, children |-> 0]

\* A node is read field by field.
ReadAt(node, depth) ==
    IF ~IsRecord(node) \/ depth > MaxDepth THEN Empty
    ELSE [type |-> AsBoundedString(node.type), message |-> AsText(node.message),
          code |-> AsBoundedString(node.code), frames |-> ReadFrames(node.frames),
          source |-> DeriveSourceLocation(node.source), value |-> ReadThrown(node.value),
          children |-> IF ChildrenOf(node) < MaxChildren THEN ChildrenOf(node) ELSE MaxChildren]

\* Only the first children are read, and below the last depth nothing is.
Reached(e) ==
    {p \in DOMAIN e : Len(p) <= MaxDepth + 1 /\ \A i \in 1 .. Len(p) : p[i] <= MaxChildren}

ReadStoredException(e) == [p \in Reached(e) |-> ReadAt(e[p], Len(p))]

-----------------------------------------------------------------------------
(* error-report.contract.ts: what is let in, and what is promised of an answer *)

Bounded(s) == s \in {Absent, "text", "long", "full"}

LocationFits(p) == Bounded(p.file) /\ Bounded(p.function) /\ p.line \in {Absent} \cup (Nat \ {0})

FrameFits(f) == IsRecord(f) /\ LocationFits(f) /\ Bounded(f.rest)

\* normalizedExceptionSchema: its fields and their bounds,
FieldsFit(node) ==
    /\ Bounded(node.type)
    /\ Bounded(node.message) \/ node.message = "blank"
    /\ Bounded(node.code) \/ node.code = "blank"
    /\ node.frames # Odd
    /\ Cardinality(PlacesOf(node.frames)) <= MaxFrames
    /\ \A i \in PlacesOf(node.frames) : FrameFits(node.frames[i])
    /\ node.source # Absent => IsRecord(node.source) /\ LocationFits(node.source)
    /\ node.value # Absent =>
         /\ IsRecord(node.value) /\ node.value.type = "text"
         /\ Bounded(node.value.representation) \/ node.value.representation = "blank"
    /\ node.children # Odd /\ ChildrenOf(node) <= MaxChildren

\* and the schema again below.
Fits(e) == \A p \in DOMAIN e : IsRecord(e[p]) /\ FieldsFit(e[p])

Within(e, depth) == \A p \in DOMAIN e : IsRecord(e[p]) => Len(p) <= depth

\* errorReportRequestSchema, of its exception: the nesting is counted as well.
Taken(e) == Fits(e) /\ Within(e, MaxDepth)

-----------------------------------------------------------------------------
(* ErrorReportService *)

\* Before anything is stored, or shown.
NoException == <<>>

StoredInit ==
    /\ column = NoException
    /\ fingerprint = Absent
    /\ view = [list |-> Absent, detail |-> NoException]

\* receive: what the contract takes is stored as it is, with its fingerprint.
Store(e) ==
    /\ Taken(e)
    /\ column' = e
    /\ fingerprint' = ComputeFingerprint(e)
    /\ UNCHANGED view

\* A row that another version of the program has written, whatever it has taken.
Inherit(e) ==
    /\ ~Taken(e)
    /\ column' = e
    /\ UNCHANGED <<fingerprint, view>>

List ==
    /\ column # NoException
    /\ view' = [view EXCEPT !.list = SummarizeException(column)]
    /\ UNCHANGED <<column, fingerprint>>

Get ==
    /\ column # NoException
    /\ view' = [view EXCEPT !.detail = ReadStoredException(column)]
    /\ UNCHANGED <<column, fingerprint>>

StoredNext ==
    \/ column = NoException /\ \E e \in Exceptions : Store(e) \/ Inherit(e)
    \/ List
    \/ Get

StoredSpec == StoredInit /\ [][StoredNext]_storedVars

-----------------------------------------------------------------------------
(* Properties *)

\* A row with a fingerprint was taken by the contract, its nesting included, and
\* only what is stored is read.
StoredTypeOK ==
    /\ column = NoException => fingerprint = Absent /\ view = [list |-> Absent, detail |-> NoException]
    /\ fingerprint # Absent => column # NoException /\ Within(column, MaxDepth)

\* Whatever is in the column, the detail of it is what the published contract of
\* the answer promises, except that a thrown value's type may be longer: it is cut
\* to the bound of an exception's type.
DetailKeepsItsContract ==
    \A p \in DOMAIN view.detail :
      FieldsFit([view.detail[p] EXCEPT !.value =
                   IF @ # Absent /\ @.type \in {"long", "full"} THEN Absent ELSE @])

\* The detail of a report the contract has taken is that report: what is lost on
\* the way is a code of nothing but white space, and a frame that says nothing.
SameNode(shown, taken) ==
    /\ shown.type = taken.type /\ shown.message = taken.message /\ shown.value = taken.value
    /\ shown.code = IF taken.code = "blank" THEN Absent ELSE taken.code
    /\ shown.source = IF taken.source = Absent THEN NoPlace ELSE taken.source
    /\ shown.frames = [i \in {j \in PlacesOf(taken.frames) : taken.frames[j] # NoFrame} |-> taken.frames[i]]
    /\ shown.children = ChildrenOf(taken)

Same(shown, taken) ==
    DOMAIN shown = DOMAIN taken /\ \A p \in DOMAIN taken : SameNode(shown[p], taken[p])

TakenComesBack ==
    view.detail # NoException /\ fingerprint # Absent => Same(view.detail, column)

\* The list and the detail of a report, which are read by two functions, show the
\* same failure at the same place, unless the first frame cannot be read: the
\* detail then starts with the next, and the list has no place.
ListAgreesWithDetail ==
    view.list # Absent /\ view.detail # NoException =>
      \/ view.list = SummarizeException(view.detail)
      \/ ReadFrame(First(column[<<>>].frames)) = NoFrame /\ view.list.source = NoPlace

\* Two reports that differ in their message are one group when the list shows a
\* file or a function for them, and else when it shows them alike.
GroupedByPlace ==
    view.list # Absent /\ fingerprint # Absent =>
      \A m \in Strings : LET other == [column EXCEPT ![<<>>].message = m] IN
        Taken(other) =>
          (ComputeFingerprint(other) = fingerprint <=>
             \/ view.list.source.file # Absent \/ view.list.source.function # Absent
             \/ SummarizeException(other).message = view.list.message)

\* The invariant of a stored report: grouped, listed and shown in detail by
\* three functions, whatever the column holds, it is one and the same.
StoredInv ==
    StoredTypeOK /\ DetailKeepsItsContract /\ TakenComesBack /\ ListAgreesWithDetail /\ GroupedByPlace

=============================================================================
