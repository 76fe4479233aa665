---------------------------- MODULE WireContract ----------------------------
(***************************************************************************)
(* What the two reporters make of what an application hands them, and what *)
(* the server takes.  normalize.ts and normalize.py bound every report, log*)
(* record and span so that the server's schemas take it; the schemas count *)
(* in their own way, and one field they do not take costs the whole        *)
(* request.  Sizes are scaled down: a text longer than MaxText stands for  *)
(* one longer than the limit of its field.                                 *)
(***************************************************************************)
EXTENDS Integers, Sequences, FiniteSets, SequencesExt, FiniteSetsExt

CONSTANTS
  Errors,         \* exceptions of the application
  MaxText,        \* every limit on the length of a text
  MaxNesting,     \* MAX_DEPTH and MAX_EXCEPTION_DEPTH
  MaxFrames,      \* MAX_FRAMES and MAX_STACK_FRAMES
  MaxTags,        \* MAX_TAGS
  MaxTrail,       \* MAX_BREADCRUMBS
  MaxData,        \* MAX_BREADCRUMB_DATA_DEPTH
  MaxDepth,       \* MAX_ATTRIBUTE_DEPTH
  MaxPerCall,     \* MAX_ATTRIBUTE_ITEMS: attributes of one call
  MaxAttributes,  \* MAX_ATTRIBUTES of one span on the wire
  MaxBatch,       \* records of one request
  MaxBody,        \* bulky records that fit the body of a request
  MaxCalls        \* bound: calls on one scope

ASSUME WireAssumption ==
  /\ {MaxText, MaxNesting, MaxFrames, MaxTags, MaxTrail, MaxData, MaxDepth,
      MaxPerCall, MaxAttributes, MaxBatch, MaxBody, MaxCalls} \subseteq Nat \ {0}
  /\ MaxPerCall < MaxAttributes

VARIABLES
  sdk,       \* the reporter: "js" or "py"
  uses,      \* what the application uses it for
  service,   \* the service it is configured with
  tags,      \* tags of the scope
  trail,     \* breadcrumbs of the scope
  recorded,  \* history: every breadcrumb it was given
  batch,     \* log records of the next request, each with what was logged
  span,      \* the span being measured
  outcome    \* history: the last request, what went into it and what became of it

scope == <<tags, trail, recorded>>
wireVars == <<sdk, uses, service, scope, batch, span, outcome>>

-----------------------------------------------------------------------------
(* Texts, in UTF-16 units and in code points *)

Text(units, points, blank) == [units |-> units, points |-> points, blank |-> blank]

NoText == Text(0, 0, FALSE)
Short == Text(1, 1, FALSE)
Blank == Text(1, 1, TRUE)
Full  == Text(MaxText, MaxText, FALSE)
Long  == Text(MaxText + 1, MaxText + 1, FALSE)
Wide  == Text(2 * MaxText, MaxText, FALSE)  \* as many code points as the limit
Texts == {NoText, Short, Blank, Full, Long, Wide}

Strip(t) == IF t.blank THEN NoText ELSE t

Clip(t) == IF t.units <= MaxText THEN t ELSE Full

\* nonEmptyText of the schemas: trimmed, then measured in UTF-16 units.
NonEmpty(t) == Strip(t).units \in 1..MaxText

\* A key or a category segment, as each reporter measures it.
KeyFits(t) == (IF sdk = "py" THEN t.points ELSE t.units) \in 1..MaxText

Least(n, bound) == IF n < bound THEN n ELSE bound

-----------------------------------------------------------------------------
(* The scope *)

\* sanitize_tags that measures its keys as the server does.
JsTag(tag) ==
  IF tag.key.units \notin 1..MaxText \/ tag.value.units = 0 THEN {}
  ELSE {[key |-> tag.key, value |-> Clip(tag.value)]}

PyTag(tag) ==
  IF Strip(tag.key).points \notin 1..MaxText \/ Strip(tag.value).units = 0 THEN {}
  ELSE {[key |-> Strip(tag.key), value |-> Clip(Strip(tag.value))]}

Tag(tag) == IF sdk = "js" THEN JsTag(tag) ELSE PyTag(tag)

\* A tag replaces the value its key has, or comes last.
Merge(ts, tag) ==
  IF \E i \in DOMAIN ts : ts[i].key = tag.key
  THEN [i \in DOMAIN ts |-> IF ts[i].key = tag.key THEN tag ELSE ts[i]]
  ELSE Append(ts, tag)

First(n, s) == SubSeq(s, 1, Least(Len(s), n))

\* The first MaxTags that are usable.
PyKept(ts) ==
  LET usable == {i \in DOMAIN ts : PyTag(ts[i]) # {}} IN
  {i \in usable : Cardinality(usable \cap 1..i - 1) < MaxTags}

\* What a report carries: of the first MaxTags in JavaScript, the usable ones; the
\* first MaxTags usable ones in Python.
SentTags(ts) ==
  IF sdk = "js" THEN UNION {JsTag(ts[i]) : i \in 1..Least(Len(ts), MaxTags)}
  ELSE UNION {PyTag(ts[i]) : i \in PyKept(ts)}

NoData == {}

\* A bag of one value: its key, how many containers are around its leaf, whether
\* it is small, a good part of a request's body ("bulky") or over its own limit
\* ("heavy"), and whether it holds half of a surrogate pair.
Bag(key, depth, weight, lone) == {[key |-> key, depth |-> depth, weight |-> weight, lone |-> lone]}

\* The bag of a breadcrumb counts as a container of its own for the server and for
\* Python.  Too heavy a bag is left out.
JsData(data) ==
  {[d EXCEPT !.depth = Least(@, MaxData)] : d \in {x \in data : KeyFits(x.key) /\ x.weight # "heavy"}}

PyData(data) ==
  {[d EXCEPT !.depth = Least(@, MaxData - 1)] : d \in {x \in data : KeyFits(x.key) /\ x.weight # "heavy"}}

\* A breadcrumb of the JavaScript reporter: the message as it is, if it is not "".
JsCrumb(c) ==
  [c EXCEPT !.message = {Clip(t) : t \in @ \ {NoText}}, !.data = JsData(@)]

PyCrumb(c) ==
  [c EXCEPT !.message = {Clip(t) : t \in {Strip(u) : u \in @} \ {NoText}}, !.data = PyData(@)]

\* The ring: the newest MaxTrail of a trail.
Ring(crumbs) == SubSeq(crumbs, 1 + Len(crumbs) - Least(Len(crumbs), MaxTrail), Len(crumbs))

SentTrail(crumbs) ==
  [i \in DOMAIN crumbs |-> IF sdk = "js" THEN JsCrumb(crumbs[i]) ELSE PyCrumb(crumbs[i])]

Encodes(crumbs) == sdk = "py" => \A i \in DOMAIN crumbs : \A d \in crumbs[i].data : ~d.lone

\* sanitizeAttributes and sanitize_attributes: the bag is no container of its own.
Attributes(data) ==
  {[d EXCEPT !.depth = Least(@, MaxDepth)] : d \in {x \in data : KeyFits(x.key)}}

\* Half of a surrogate pair in the attributes of a report or of a log record.
Lone(l) == \E d \in l.attributes : d.lone

\* A field of the user: trimmed, left out when nothing is left.
User(t) == {Clip(u) : u \in {Strip(t)} \ {NoText}}

-----------------------------------------------------------------------------
(* Exceptions *)

\* The same walk one level shorter: what the schema takes.
CutInTime(depth) == depth >= MaxNesting

TooDeep(depth) == depth > MaxNesting

\* The tree that normalizeException makes of an exception: an exception that is its
\* own ancestor ends the walk, one met twice is expanded twice.
Expanded(walk, n) == ~TooDeep(n) /\ \A i \in 0..n - 1 : walk[i] # walk[n]

Walks(x, n) ==
  {walk \in [0..n -> Errors] :
    /\ walk[0] = x.root
    /\ \A i \in 0..n - 1 : Expanded(walk, i) /\ walk[i + 1] \in x.inner[walk[i]]}

\* How deep its nodes are, and whether one of them stands for an ancestor.
Depths(x) == {n \in 0..MaxNesting + 1 : Walks(x, n) # {}}
Circular(x) == \E n \in 1..MaxNesting : \E walk \in Walks(x, n) : \E i \in 0..n - 1 : walk[i] = walk[n]

\* The node that stands for an ancestor has the name of it as it is, where that is
\* not "".  One name is that of all the exceptions.
JsTypes(x) ==
  {IF x.name = NoText THEN Short ELSE Clip(x.name)}
    \cup {t \in {IF x.name = NoText THEN Short ELSE x.name} : Circular(x)}

\* The file and the function of its frames.  A frame that cannot be placed, in a file
\* or as a native one, has a text instead.
JsTexts(at) == IF at.placed THEN {at.file, at.function} ELSE {Clip(at.function)}

PyTexts(at) == {Clip(at.file), Clip(at.function)}

\* Python's traceback is outermost first and is turned round before it is cut.
PyFrames(stack) == First(MaxFrames, Reverse(stack))

JsFrames(stack) == First(MaxFrames, stack)

JsException(x) ==
  [depths |-> Depths(x), types |-> JsTypes(x), texts |-> JsTexts(x.at), frames |-> JsFrames(x.stack),
   lone |-> x.lone]

PyException(x) ==
  [depths |-> Depths(x), types |-> {Clip(x.name)}, texts |-> PyTexts(x.at), frames |-> PyFrames(x.stack),
   lone |-> x.lone]

Exception(x) == IF sdk = "js" THEN JsException(x) ELSE PyException(x)

Node(type, lone) == [depths |-> {0}, types |-> {type}, texts |-> {}, frames |-> <<>>, lone |-> lone]

Message(lone) == Node(Short, lone)

\* What is thrown and is no exception: typeof, or the name of its class as it is.
Value(class) == Node(IF sdk = "js" THEN Short ELSE class, FALSE)

-----------------------------------------------------------------------------
(* The server's schemas for reports and log records *)

TakesService(s) == NonEmpty(s.name) /\ \A e \in s.environment : NonEmpty(e)

TakesException(x) ==
  /\ \A n \in x.depths : n <= MaxNesting
  /\ Len(x.frames) <= MaxFrames
  /\ \A t \in x.types : NonEmpty(t)
  /\ x.frames # <<>> => \A t \in x.texts : NonEmpty(t)

TakesTags(ts) ==
  /\ Cardinality(ts) <= MaxTags
  /\ \A t \in ts : NonEmpty(t.key) /\ NonEmpty(t.value)

\* The bag itself is at depth 0.
TakesData(d, limit) == d.key.units \in 1..MaxText /\ d.weight # "heavy" /\ d.depth + 1 <= limit

TakesCrumb(c) ==
  /\ c.dated
  /\ \A t \in c.message : NonEmpty(t)
  /\ \A d \in c.data : TakesData(d, MaxData)

TakesUser(user) == \A t \in user : NonEmpty(t)

\* The attributes of a report may be as deep as they are.
TakesAttributes(bag) == \A d \in bag : d.key.units \in 1..MaxText

TakesReport(r) ==
  /\ r.dated /\ TakesUser(r.user) /\ TakesAttributes(r.attributes)
  /\ TakesService(r.service) /\ TakesException(r.exception) /\ TakesTags(r.tags)
  /\ Len(r.trail) <= MaxTrail /\ \A i \in DOMAIN r.trail : TakesCrumb(r.trail[i])

\* _post_json: Python cannot write half of a pair.
Written(r) == sdk = "py" => ~r.exception.lone /\ ~Lone(r)

TakesLog(l) ==
  /\ l.dated
  /\ NonEmpty(l.message) /\ NonEmpty(l.category)
  /\ TakesService(service) /\ \A d \in l.attributes : TakesData(d, MaxDepth)

-----------------------------------------------------------------------------
(* An application and its reporter *)

NoRequest == [what |-> "nothing"]

NoSpan == [step |-> "none", start |-> 0, end |-> 0, count |-> 0, key |-> Short,
           value |-> [leaf |-> "text", depth |-> 0]]

WireInit ==
  /\ sdk \in {"js", "py"}
  /\ uses \in {"scope", "exceptions", "values", "logs", "spans"}
  \* A name of blanks is refused by the constructor.
  /\ service \in [name : {Short, Long}, environment : {{}, {Blank}}]
  /\ uses \in {"scope", "exceptions", "spans"} => service = [name |-> Short, environment |-> {}]
  /\ tags = <<>> /\ trail = <<>> /\ recorded = <<>>
  /\ batch = <<>> /\ span = NoSpan
  /\ outcome = NoRequest

Tagged == [key : Texts, value : {NoText, Short, Blank, Long}]

SetTag ==
  /\ uses = "scope"
  /\ Len(tags) + Len(recorded) < MaxCalls
  /\ \E tag \in Tagged :
       tags' = IF Tag(tag) = {} THEN tags ELSE Merge(tags, CHOOSE t \in Tag(tag) : TRUE)
  /\ outcome' = NoRequest
  /\ UNCHANGED <<sdk, uses, service, trail, recorded, batch, span>>

Crumbs ==
  LET crumb(dated, message, data) == [dated |-> dated, message |-> message, data |-> data] IN
  {crumb(TRUE, {t}, NoData) : t \in Texts}
    \cup {crumb(TRUE, {}, Bag(Short, n, "small", FALSE)) : n \in MaxData - 1..MaxData + 1}
    \cup {crumb(FALSE, {}, NoData), crumb(TRUE, {}, Bag(Wide, 0, "small", FALSE)),
          crumb(TRUE, {}, Bag(Short, 0, "heavy", FALSE)), crumb(TRUE, {}, Bag(Short, 0, "small", TRUE))}

AddBreadcrumb ==
  /\ uses = "scope"
  /\ Len(tags) + Len(recorded) < MaxCalls
  /\ \E crumb \in Crumbs :
       /\ trail' = Ring(Append(trail, crumb))
       /\ recorded' = Append(recorded, crumb)
  /\ outcome' = NoRequest
  /\ UNCHANGED <<sdk, uses, service, tags, batch, span>>

\* #capture and _capture, and the server.  `said` is what comes with the exception, and
\* `raw` what the application handed over.  Half of a surrogate pair is looked for in the
\* message and in attributes; in another text of a report it costs the same.
\* Bound: one report of a scope as it is, for a report does not change it.
Capture(exception, merged, said, raw) ==
  LET report == [dated |-> said.dated \/ sdk = "js", service |-> service, user |-> User(said.user),
                 exception |-> exception, tags |-> SentTags(merged), trail |-> SentTrail(Ring(trail)),
                 attributes |-> Attributes(said.attributes)] IN
  /\ outcome' = [what |-> "report", raw |-> raw, sent |-> report,
                 verdict |-> IF ~Encodes(Ring(trail)) THEN "raised"
                             ELSE IF TakesReport(report) /\ Written(report) THEN "taken" ELSE "refused"]
  /\ UNCHANGED <<sdk, uses, service, scope, batch, span>>

\* What a call says: a tag of its own, a user, when, attributes, and a message.
Saying(tag, user, dated, attributes, lone) ==
  [tag |-> tag, user |-> user, dated |-> dated, attributes |-> attributes, lone |-> lone]

Plain == [key |-> Short, value |-> Short]

Said ==
  {Saying(tag, Short, TRUE, NoData, FALSE) : tag \in Tagged}
    \cup {Saying(Plain, user, TRUE, NoData, FALSE) : user \in Texts}
    \cup {Saying(Plain, Short, TRUE, Bag(key, 0, "small", FALSE), FALSE) : key \in {Long, Wide}}
    \cup {Saying(Plain, Short, TRUE, Bag(Short, 0, "small", TRUE), FALSE),
          Saying(Plain, Short, FALSE, NoData, FALSE), Saying(Plain, Short, TRUE, NoData, TRUE)}

CaptureMessage ==
  /\ uses = "scope" /\ outcome = NoRequest
  /\ \E said \in Said :
       Capture(Message(said.lone), Merge(tags, said.tag), said, [said |-> said, recorded |-> recorded])

\* An exception that comes with nothing else.
Unsaid == Saying(Plain, NoText, TRUE, NoData, FALSE)

Graphs == [root : Errors, inner : [Errors -> SUBSET Errors]]

\* A Python class always has a name.
Names == IF sdk = "py" THEN {Short, Long} ELSE {NoText, Short, Blank, Long}

Place(file, function, placed) == [file |-> file, function |-> function, placed |-> placed]
Here == Place(Short, Short, TRUE)
Places == {Here, Place(Long, Short, TRUE), Place(Short, Long, TRUE), Place(Short, Long, FALSE)}

\* The frames are numbered from the one that failed.
Throw(graph, name, at, n, lone) ==
  [root |-> graph.root, inner |-> graph.inner, name |-> name, at |-> at, lone |-> lone,
   stack |-> [i \in 1..n |-> IF sdk = "js" THEN i ELSE n + 1 - i]]

Raised ==
  UNION {{Throw(graph, name, Here, 1, FALSE) : name \in Names}
           \cup {Throw(graph, Short, at, MaxFrames + 1, FALSE) : at \in Places}
           \cup {Throw(graph, Short, Here, MaxFrames + 1, TRUE)} : graph \in Graphs}

CaptureException ==
  /\ uses = "exceptions" /\ outcome = NoRequest
  /\ \E x \in Raised : Capture(Exception(x), tags, Unsaid, x)

CaptureValue ==
  /\ uses = "values" /\ outcome = NoRequest
  /\ \E class \in {Short, Long} : Capture(Value(class), tags, Unsaid, class)

Logged ==
  LET entry(message, category, bag, dated) ==
        [message |-> message, category |-> category, attributes |-> bag, dated |-> dated] IN
  {entry(t, Short, {}, TRUE) : t \in Texts \ {NoText}}
    \cup {entry(Short, t, {}, TRUE) : t \in Texts}
    \cup {entry(Short, Short, Bag(k, 0, "small", FALSE), TRUE) : k \in {Short, Long, Wide}}
    \cup {entry(Short, Short, Bag(Short, n, "small", FALSE), TRUE) : n \in MaxDepth - 1..MaxDepth + 1}
    \cup {entry(Short, Short, Bag(Short, 0, w, FALSE), TRUE) : w \in {"bulky", "heavy"}}
    \cup {entry(Short, Short, Bag(Short, 0, "small", TRUE), TRUE), entry(Short, Short, {}, FALSE)}

LogRecord(l) ==
  [message |-> Clip(l.message), category |-> Strip(l.category),
   attributes |-> Attributes(l.attributes), dated |-> l.dated \/ sdk = "js"]

\* captureLog throws when the category does not fit.
CategoryFits(l) == KeyFits(Strip(l.category))

CaptureLog(l) ==
  /\ uses = "logs"
  /\ Len(batch) < MaxBatch
  /\ CategoryFits(l)
  /\ batch' = Append(batch, [raw |-> l, sent |-> LogRecord(l)])
  /\ outcome' = NoRequest
  /\ UNCHANGED <<sdk, uses, service, scope, span>>

Bulky(b) == {i \in DOMAIN b : \E d \in b[i].sent.attributes : d.weight = "bulky"}

\* The server takes a batch or refuses it as a whole, the body first; Python cannot
\* encode half of a pair.
TakesBatch(b) ==
  /\ Cardinality(Bulky(b)) <= MaxBody
  /\ \A i \in DOMAIN b : TakesLog(b[i].sent) /\ (sdk = "py" => ~Lone(b[i].sent))

SendLogs ==
  /\ uses = "logs" /\ batch # <<>>
  /\ outcome' = [what |-> "logs", raw |-> batch,
                 verdict |-> IF TakesBatch(batch) THEN "taken" ELSE "refused"]
  /\ batch' = <<>>
  /\ UNCHANGED <<sdk, uses, service, scope, span>>

-----------------------------------------------------------------------------
(* Spans *)

\* An attribute: the leaf of a value, and how many lists or maps are around it.
Values == [leaf : {"text", "bool", "fraction", "int", "unsafe int", "null"}, depth : 0..MaxDepth + 1]

\* A container where none is sent any more becomes the text "[Truncated]".
Sanitized(v) == IF v.depth > MaxDepth THEN [leaf |-> "text", depth |-> MaxDepth] ELSE v

\* toAnyValue: there is no null on the wire.
ToAnyValue(v) == IF v.leaf = "null" THEN [v EXCEPT !.leaf = "text"] ELSE v

\* flattenAnyValue: an integer that would be rounded stays a text.
FlattenAnyValue(v) ==
  IF v.depth > MaxDepth \/ v.leaf = "nothing" THEN {}
  ELSE {IF v.leaf = "unsafe int" THEN [v EXCEPT !.leaf = "text"] ELSE v}

StartSpan(start, value) ==
  /\ uses = "spans" /\ span.step \in {"none", "exported"}
  /\ span' = [NoSpan EXCEPT !.step = "started", !.start = start, !.count = 1, !.value = value]
  /\ outcome' = NoRequest
  /\ UNCHANGED <<sdk, uses, service, scope, batch>>

\* Of one call as many attributes are kept as one call may set; a key that does
\* not fit is left out.
SetAttributes(n, key) ==
  /\ uses = "spans" /\ span.step = "started"
  /\ span.count <= MaxAttributes
  /\ span' = [span EXCEPT !.count = @ + Least(n, MaxPerCall),
                          !.key = IF KeyFits(key) /\ @ = Short THEN key ELSE @]
  /\ UNCHANGED <<sdk, uses, service, scope, batch, outcome>>

NotBeforeStart(at) == IF at < span.start THEN span.start ELSE at

EndSpan(at) ==
  /\ uses = "spans" /\ span.step = "started"
  /\ span' = [span EXCEPT !.step = "ended", !.end = NotBeforeStart(at)]
  /\ UNCHANGED <<sdk, uses, service, scope, batch, outcome>>

\* The schema of the request.  An attribute key may be longer here than elsewhere,
\* by less than twice; a time is a text of digits.
TakesRequest(s) ==
  /\ s.count <= MaxAttributes
  /\ s.key.units < 2 * MaxText
  /\ s.start >= 0 /\ s.end >= 0

\* toSpanRow: a span that cannot be read is counted and left out.
Readable(s) == s.start # 0 /\ s.end # 0 /\ s.end >= s.start

ExportSpans ==
  /\ uses = "spans" /\ span.step = "ended"
  /\ span' = [span EXCEPT !.step = "exported"]
  /\ outcome' = [what |-> "spans", raw |-> span,
                 stored |-> FlattenAnyValue(ToAnyValue(Sanitized(span.value))),
                 verdict |-> IF ~TakesRequest(span) THEN "refused"
                             ELSE IF Readable(span) THEN "taken" ELSE "rejected"]
  /\ UNCHANGED <<sdk, uses, service, scope, batch>>

-----------------------------------------------------------------------------

WireNext ==
  \/ SetTag \/ AddBreadcrumb \/ CaptureMessage \/ CaptureException \/ CaptureValue
  \/ \E l \in Logged : CaptureLog(l)
  \/ SendLogs
  \/ \E start \in -1..2, value \in Values : StartSpan(start, value)
  \/ \E n \in {1, MaxPerCall + 1}, key \in {Short, Long, Wide} : SetAttributes(n, key)
  \/ \E at \in -1..2 : EndSpan(at)
  \/ ExportSpans

WireSpec == WireInit /\ [][WireNext]_wireVars

-----------------------------------------------------------------------------
(* Properties *)

\* What goes on the wire stays within the limits both sides share, and a scope
\* that is never captured from does not grow.
WireTypeOK ==
  /\ sdk \in {"js", "py"}
  /\ Len(trail) <= MaxTrail /\ Len(batch) <= MaxBatch
  /\ outcome.what = "report" =>
       /\ Cardinality(outcome.sent.tags) <= MaxTags /\ Len(outcome.sent.exception.frames) <= MaxFrames
       /\ \A t \in outcome.sent.tags : t.value.units \in 1..MaxText
       /\ \A i \in DOMAIN outcome.sent.trail : \A t \in outcome.sent.trail[i].message : t.units <= MaxText

BadService == service.name = Long \/ service.environment # {}

\* More than MaxNesting references in a row without coming back to an ancestor.
NestedTooDeep(x) ==
  \E w \in [0..MaxNesting + 1 -> Errors] :
    /\ w[0] = x.root
    /\ \A i \in 0..MaxNesting : w[i + 1] \in x.inner[w[i]]
    /\ \A i, j \in 0..MaxNesting : i # j => w[i] # w[j]

\* References that come back to an exception on the way, no later than that.
ComesBack(x) ==
  \E n \in 1..MaxNesting : \E w \in [0..n -> Errors] :
    /\ w[0] = x.root
    /\ \A i \in 0..n - 1 : w[i + 1] \in x.inner[w[i]]
    /\ \A i, j \in 0..n - 1 : i # j => w[i] # w[j]
    /\ \E i \in 0..n - 1 : w[i] = w[n]

LastOf(crumbs) == {crumbs[i] : i \in {j \in DOMAIN crumbs : j > Len(crumbs) - MaxTrail}}

BadCrumb(c) ==
  \/ ~c.dated
  \/ sdk = "js" /\ (Blank \in c.message \/ \E d \in c.data : d.key = Short /\ d.weight # "heavy" /\ d.depth >= MaxData)
  \/ sdk = "py" /\ \E d \in c.data : d.key = Wide /\ d.weight # "heavy"

\* A file or a function that the JavaScript reporter passes on as it is.
BadPlace(at) == at.placed /\ Long \in {at.file, at.function}

\* What a call says of its own that costs a report of Python.
BadSaid(said) == ~said.dated \/ said.lone \/ \E d \in said.attributes : d.key = Wide \/ d.lone

\* Every report the server refuses, and why, in terms of what the application did:
\* neither reporter loses one to anything else, and none of these goes unnoticed.
\* JavaScript passes on blank texts, and files, functions and the name of an exception
\* that is its own ancestor of any length; Python passes on the class of a value,
\* counts keys in code points and cannot write half of a surrogate pair; both cut
\* nested exceptions one level too late.
ReportRefusedForAReason ==
  outcome.what = "report" =>
    (outcome.verdict # "taken" <=>
       \/ BadService
       \/ uses = "exceptions" /\ LET x == outcome.raw IN
            \/ NestedTooDeep(x) \/ (sdk = "py" /\ x.lone)
            \/ sdk = "js" /\ (x.name = Blank \/ (x.name = Long /\ ComesBack(x)) \/ BadPlace(x.at))
       \/ uses = "values" /\ sdk = "py" /\ outcome.raw = Long
       \/ uses = "scope" /\
            \/ sdk = "py" /\ BadSaid(outcome.raw.said)
            \/ \E t \in outcome.sent.tags :
                 \/ sdk = "js" /\ Blank \in {t.key, t.value}
                 \/ sdk = "py" /\ t.key = Wide
            \/ \E c \in LastOf(outcome.raw.recorded) :
                 BadCrumb(c) \/ (sdk = "py" /\ \E d \in c.data : d.lone))

\* An exception however deep is cut so that the server takes it.
\* (tests/test_normalize.py: "the reporter has to cut first")
DeepExceptionTaken ==
  outcome.what = "report" /\ uses = "exceptions" /\ sdk = "py" /\ ~outcome.raw.lone
    => outcome.verdict = "taken"

\* A report carries the newest breadcrumbs there are, in the order they were left.
TrailIsNewest ==
  outcome.what = "report" /\ uses = "scope" =>
    LET all == outcome.raw.recorded
        n == Len(outcome.sent.trail) IN
    /\ n = Least(Len(all), MaxTrail)
    /\ \A i \in 1..n : outcome.sent.trail[i].dated = all[Len(all) - n + i].dated
         /\ (outcome.sent.trail[i].message # {} => all[Len(all) - n + i].message # {})

\* A report never carries the scope's value for a key its own call gave.
OwnTagWins ==
  outcome.what = "report" /\ uses = "scope" =>
    \A t \in outcome.sent.tags :
      t.key = outcome.raw.said.tag.key
        => t.value \in {Clip(outcome.raw.said.tag.value), Clip(Strip(outcome.raw.said.tag.value))}

\* The frame that failed comes first, and of a stack too deep the innermost stay.
FailureComesFirst ==
  outcome.what = "report" => \A i \in DOMAIN outcome.sent.exception.frames :
                               outcome.sent.exception.frames[i] = i

BadLog(l) ==
  \/ l.message = Blank
  \/ \E d \in l.attributes : d.key = Short /\ (d.depth >= MaxDepth \/ d.weight = "heavy")
  \/ sdk = "py" /\ (l.category = Wide \/ ~l.dated \/ Lone(l) \/ \E d \in l.attributes : d.key = Wide)

\* A batch is lost only to one of the records in it that the reporter passed on as
\* it should not have, and then as a whole, or to the weight of all of them.
LogsRefusedForAReason ==
  outcome.what = "logs" =>
    (outcome.verdict = "refused" <=> 
       \/ BadService \/ Cardinality(Bulky(outcome.raw)) > MaxBody
       \/ \E i \in DOMAIN outcome.raw : BadLog(outcome.raw[i].raw))

\* A span is lost alone only when it started at the epoch, and with all of its
\* request when it started before, when calls added up to too many attributes, or
\* for a key of Python's; never because its clock went backwards.
SpanLostForAReason ==
  outcome.what = "spans" => LET s == outcome.raw IN
    /\ outcome.verdict = "refused" <=> s.start < 0 \/ s.count > MaxAttributes \/ (sdk = "py" /\ s.key = Wide)
    /\ outcome.verdict = "rejected" => s.start = 0

\* What the reporters write, the server reads: an attribute comes back as it was set
\* but for null, an integer too large for a number, and what was nested too deep,
\* each of which comes back as a text in its place.
WrittenIsRead ==
  outcome.what = "spans" => LET v == outcome.raw.value IN
    outcome.stored =
      {[leaf |-> IF v.leaf \in {"null", "unsafe int"} \/ v.depth > MaxDepth THEN "text" ELSE v.leaf,
        depth |-> Least(v.depth, MaxDepth)]}

\* The invariant of the wire: what the server loses it loses for the reasons
\* above only, and what it takes says what the application said.
WireInv ==
  /\ WireTypeOK
  /\ ReportRefusedForAReason /\ LogsRefusedForAReason /\ SpanLostForAReason
  /\ TrailIsNewest /\ OwnTagWins /\ FailureComesFirst /\ WrittenIsRead

=============================================================================
