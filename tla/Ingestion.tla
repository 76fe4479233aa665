------------------------------ MODULE Ingestion ------------------------------
(***************************************************************************)
(* How telemetry enters the server: the credential a request presents is   *)
(* resolved to a project by the guard (ingest-auth.guard.ts), and what it  *)
(* carries is then stored under that project: a batch of log records       *)
(* (log-record.repository.ts) or an export of spans (span.repository.ts).  *)
(* Tokens are issued and revoked meanwhile (project.service.ts), clients   *)
(* repeat what was not answered, and retention deletes what is old.        *)
(*                                                                         *)
(* A request is two steps, the guard's one look at the token and the       *)
(* store's one statement, and everything else may happen between them.     *)
(***************************************************************************)
EXTENDS Naturals, FiniteSets

CONSTANTS
    Projects, DefaultProject,  \* the project open and legacy requests write to
    Tokens,                    \* tokens that can be issued
    Senders, Managers,         \* concurrent requests, and people at the token list
    Ids,                       \* event ids of records, or ids of spans, as stored
    None,                      \* no value
    Retention, MaxTime,        \* days a row is kept; the bound on time
    MaxRequests,               \* how many requests clients send, repeats included
    Settings,                  \* how the server may be configured
    Contents                   \* the batches clients send

ASSUME IngestionAssumption ==
    /\ DefaultProject \in Projects
    /\ None \notin Tokens \cup Projects \cup Nat
    /\ Ids \subseteq Nat /\ IsFiniteSet(Ids)
    /\ None \notin [row: Nat, body: Senders, receivedAt: Nat]
    \* INGEST_TOKEN is no token of the store: the guard compares it first.
    /\ Tokens \cap {"none", "legacy", "stranger"} = {}
    /\ Retention \in Nat /\ MaxTime \in Nat /\ MaxRequests \in Nat
    /\ Settings \subseteq [legacy: BOOLEAN, production: BOOLEAN]
    /\ Contents \subseteq {b \in SUBSET [id: Ids, capital: BOOLEAN] : b # {}}

VARIABLES
    signal,    \* what the clients of this instance send: "logs" or "spans"
    settings,  \* [legacy: INGEST_TOKEN is set, production: NODE_ENV]
    clock,
    tokens,    \* ProjectToken rows
    managers,  \* what each person at the token list is doing
    requests,  \* ingestion requests, from the client to the answer
    rows,      \* LogRecord or Span rows by project and id
    nextRow,   \* the id the next row gets
    sent,      \* how many requests were admitted
    receipts   \* history: every receipt a client was given

ingestionVars == <<signal, settings, clock, tokens, managers, requests, rows, nextRow, sent, receipts>>

Times == 0..MaxTime
TimesOrNone == Times \cup {None}

-----------------------------------------------------------------------------
(* Credentials.                                                            *)

\* "none" is no bearer token, or one of no known shape; "legacy" is the string
\* INGEST_TOKEN would hold; "stranger" is a token of
\* the right shape that no row stands for, or whose secret is another.
Credentials == Tokens \cup {"none", "legacy", "stranger"}

TokenShaped(c) == c \in Tokens \cup {"stranger"}

\* (A guard that remembers a token it once verified.)
Remembered(c) == IF c \in Tokens /\ tokens[c].state # "none" THEN tokens[c].project ELSE None

\* The project a token of the store stands for, and None for all the others.
Verify(c) == IF c \in Tokens /\ tokens[c].state = "live" THEN tokens[c].project ELSE None

Open == ~settings.legacy /\ ~settings.production

\* The project a credential may write to; None is the 401.
ResolveProject(c) ==
    IF c = "legacy" /\ settings.legacy THEN DefaultProject
    ELSE IF TokenShaped(c) THEN Verify(c)
    ELSE IF Open THEN DefaultProject ELSE None

-----------------------------------------------------------------------------
(* Rows.                                                                   *)

\* An id arrives in small or capital letters and is stored in small ones;
\* spans are normalised by the server before that, log records are not.
Spellings == [id: Ids, capital: BOOLEAN]
IdsOf(batch) == {s.id : s \in batch}

\* One statement cannot touch a row twice.
TouchesTwice(batch) == \E s, u \in batch : s # u /\ s.id = u.id

Row == [row: Nat, body: Senders, receivedAt: Times]

\* The ids of a batch that are not there yet, and those among them that get
\* their rows before id i does.
Free(p, batch) == {i \in IdsOf(batch) : rows[p][i] = None}
Earlier(p, batch, i) == {j \in Free(p, batch) : j < i}

Fresh(p, batch, s, i) ==
    [row |-> nextRow + Cardinality(Earlier(p, batch, i)), body |-> s, receivedAt |-> clock]

\* The rows after an insert of `batch` for project p, as sender s wrote it:
\* what is there already stays as it is.
Inserted(p, batch, s) ==
    [q \in Projects |-> [i \in Ids |->
        IF q = p /\ i \in Free(p, batch) THEN Fresh(p, batch, s, i) ELSE rows[q][i]]]

NewRows(p, batch) == Cardinality(Free(p, batch))

\* The receipts are matched to the records by the id as it was sent, so a
\* record whose id the database spells otherwise has none.
ReceiptFound(s) == ~s.capital

Receipts(p, batch, table) ==
    {[project |-> p, id |-> i, row |-> table[p][i].row, receivedAt |-> table[p][i].receivedAt] :
        i \in IdsOf(batch)}

-----------------------------------------------------------------------------
(* Clients and requests.                                                   *)

Idle == [pc |-> "idle", credential |-> "none", path |-> None, batch |-> {},
         project |-> None]

\* (The route names a project and nobody compares it.)
AnyPath(c, path) == ResolveProject(c) # None

\* IngestAuthGuard.canActivate: one look at the token, and the project a
\* route names must be the one the credential stands for.
Admits(c, path) == ResolveProject(c) # None /\ path \in {None, ResolveProject(c)}

\* A request reaches the guard, at the route of a project or at the one
\* without. One that is refused leaves nothing behind.
Admit(s, c, path, batch) ==
    /\ requests[s].pc = "idle" /\ sent < MaxRequests /\ Admits(c, path)
    /\ sent' = sent + 1
    /\ requests' = [requests EXCEPT ![s] =
            [pc |-> "admitted", credential |-> c, path |-> path, batch |-> batch,
             project |-> ResolveProject(c)]]
    /\ UNCHANGED <<signal, settings, clock, tokens, managers, rows, nextRow, receipts>>

\* A client that got no answer, or a 500, sends the same again.
AdmitAgain(s) ==
    LET r == requests[s]
    IN  /\ r.pc \in {"answered", "failed"} /\ sent < MaxRequests /\ Admits(r.credential, r.path)
        /\ requests' = [requests EXCEPT ![s] =
                [r EXCEPT !.pc = "admitted", !.project = ResolveProject(r.credential)]]
        /\ sent' = sent + 1
        /\ UNCHANGED <<signal, settings, clock, tokens, managers, rows, nextRow, receipts>>

\* LogRecordService.receive: an upsert that leaves a row as it is and
\* returns it, so that a repeat is told of the first one.
StoreLogs(s) ==
    LET r == requests[s]
        table == Inserted(r.project, r.batch, s)
        found == \A u \in r.batch : ReceiptFound(u)
    IN  /\ signal = "logs" /\ r.pc = "admitted"
        /\ IF TouchesTwice(r.batch)
           THEN /\ requests' = [requests EXCEPT ![s].pc = "failed"]
                /\ UNCHANGED <<rows, nextRow, receipts>>
           ELSE /\ rows' = table
                /\ nextRow' = nextRow + NewRows(r.project, r.batch)
                /\ requests' = [requests EXCEPT ![s].pc = IF found THEN "answered" ELSE "failed"]
                /\ receipts' = IF found THEN receipts \cup Receipts(r.project, r.batch, table) ELSE receipts
        /\ UNCHANGED <<signal, settings, clock, tokens, managers, sent>>

\* TraceService.export: an insert that ignores the spans already held, of
\* one export too. Ids are normalised before, and no receipts are given.
StoreSpans(s) ==
    LET r == requests[s]
    IN  /\ signal = "spans" /\ r.pc = "admitted"
        /\ rows' = Inserted(r.project, r.batch, s)
        /\ nextRow' = nextRow + NewRows(r.project, r.batch)
        /\ requests' = [requests EXCEPT ![s].pc = "answered"]
        /\ UNCHANGED <<signal, settings, clock, tokens, managers, receipts, sent>>

\* The statement fails and leaves nothing: no connection, or two batches
\* that wait for each other's rows.
StoreFails(s) ==
    /\ requests[s].pc = "admitted"
    /\ requests' = [requests EXCEPT ![s].pc = "failed"]
    /\ UNCHANGED <<signal, settings, clock, tokens, managers, rows, nextRow, receipts, sent>>

-----------------------------------------------------------------------------
(* Tokens.                                                                 *)

NoToken == [state |-> "none", project |-> None, revokedAt |-> None]

\* ProjectService.issueToken, for a project of the caller's organization: no
\* code deletes a project, so its two statements are one step.
IssueToken(t, p) ==
    /\ tokens[t].state = "none"
    /\ tokens' = [tokens EXCEPT ![t] = [state |-> "live", project |-> p, revokedAt |-> None]]
    /\ UNCHANGED <<signal, settings, clock, managers, requests, rows, nextRow, receipts, sent>>

AtRest == [pc |-> "idle", token |-> None, answer |-> None, told |-> {}]

\* What earlier revocations of t were answered.
ToldOf(t) == {managers[m].answer : m \in {n \in Managers : managers[n].pc = "done" /\ managers[n].token = t}}

\* ProjectService.revokeToken up to its read of the row: a token revoked
\* already is answered as it is.
RevokeReads(m, t) ==
    /\ managers[m].pc = "idle" /\ tokens[t].state # "none"
    /\ managers' = [managers EXCEPT ![m] =
            [token |-> t, told |-> ToldOf(t),
             pc |-> IF tokens[t].revokedAt # None THEN "done" ELSE "revoking",
             answer |-> tokens[t].revokedAt]]
    /\ UNCHANGED <<signal, settings, clock, tokens, requests, rows, nextRow, receipts, sent>>

\* The rest of it: the row is updated by its id alone.
RevokeWrites(m) ==
    LET t == managers[m].token
    IN  /\ managers[m].pc = "revoking"
        /\ tokens' = [tokens EXCEPT ![t].state = "revoked", ![t].revokedAt = clock]
        /\ managers' = [managers EXCEPT ![m].pc = "done", ![m].answer = clock]
        /\ UNCHANGED <<signal, settings, clock, requests, rows, nextRow, receipts, sent>>

-----------------------------------------------------------------------------
(* Time and retention.                                                     *)

\* (A day too early.)
ExpiredToday(row) == row # None /\ row.receivedAt + Retention <= clock

Expired(row) == row # None /\ row.receivedAt + Retention < clock

\* LogRetentionService and SpanRetentionService, at the start of the process
\* and once a day; a run that fails changes nothing.
DeleteExpired ==
    /\ \E p \in Projects, i \in Ids : Expired(rows[p][i])
    /\ rows' = [p \in Projects |-> [i \in Ids |-> IF Expired(rows[p][i]) THEN None ELSE rows[p][i]]]
    /\ UNCHANGED <<signal, settings, clock, tokens, managers, requests, nextRow, receipts, sent>>

Tick ==
    /\ clock < MaxTime
    /\ clock' = clock + 1
    /\ UNCHANGED <<signal, settings, tokens, managers, requests, rows, nextRow, receipts, sent>>

-----------------------------------------------------------------------------
\* Nothing is stored and nobody is asking.
Empty ==
    /\ clock = 0
    /\ tokens = [t \in Tokens |-> NoToken]
    /\ managers = [m \in Managers |-> AtRest]
    /\ requests = [s \in Senders |-> Idle]
    /\ rows = [p \in Projects |-> [i \in Ids |-> None]]
    /\ nextRow = 0 /\ sent = 0
    /\ receipts = {}

\* The store of spans asks no more of the guard than that of log records, so
\* an instance that takes spans is an open one, without tokens.
IngestionInit ==
    /\ signal \in {"logs", "spans"}
    /\ settings \in Settings
    /\ signal = "spans" => Open
    /\ Empty

\* Routes without a project: that of old DSNs, and the endpoint of an
\* exporter, which knows no projects.
UnscopedLogs == {None}
UnscopedSpans == {None}
Paths == Projects \cup (IF signal = "logs" THEN UnscopedLogs ELSE UnscopedSpans)

\* An open instance that takes spans is asked without a credential.
Presented == IF signal = "logs" THEN Credentials ELSE {"none"}

IngestionNext ==
    \/ \E s \in Senders, c \in Presented, path \in Paths, b \in Contents : Admit(s, c, path, b)
    \/ \E s \in Senders :
        \/ StoreLogs(s)
        \/ StoreSpans(s)
        \/ StoreFails(s)
        \/ AdmitAgain(s)
    \/ \E t \in Tokens, p \in Projects : signal = "logs" /\ IssueToken(t, p)
    \/ \E m \in Managers :
        \/ \E t \in Tokens : RevokeReads(m, t)
        \/ RevokeWrites(m)
    \/ DeleteExpired
    \/ Tick

-----------------------------------------------------------------------------
(* Properties.                                                             *)

Receipt == [project : Projects, id : Ids, row : Nat, receivedAt : Times]

ProjectToken == [state : {"none", "live", "revoked"}, project : Projects \cup {None}, revokedAt : TimesOrNone]

Manager == [pc : {"idle", "revoking", "done"}, token : Tokens \cup {None},
            answer : TimesOrNone, told : SUBSET TimesOrNone]

Request == [pc : {"idle", "admitted", "answered", "failed"}, credential : Credentials,
            path : Projects \cup {None}, batch : SUBSET Spellings,
            project : Projects \cup {None}]

\* Every variable has its type, and the ids of rows are behind the next one.
TypeOK ==
    /\ signal \in {"logs", "spans", "trace"}
    /\ settings \in [legacy : BOOLEAN, production : BOOLEAN]
    /\ clock \in Times
    /\ tokens \in [Tokens -> ProjectToken]
    /\ managers \in [Managers -> Manager]
    /\ requests \in [Senders -> Request]
    /\ nextRow \in Nat /\ sent \in Nat
    /\ rows \in [Projects -> [Ids -> Row \cup {None}]]
    /\ \A p \in Projects, i \in Ids : rows[p][i] # None => rows[p][i].row < nextRow
    /\ receipts \subseteq Receipt

\* The requests that token t let in and that have not stored their batch yet.
UnderWay(t) == {s \in Senders : requests[s].pc = "admitted" /\ requests[s].credential = t}

\* Once somebody was answered that a token is revoked, what it let in before may
\* still store its batch and nothing else does: no request comes after, none of those
\* is let in again to repeat itself, and no row appears that none of them writes
\* (revokeToken, and a guard without a cache in front of the verifier).
RevokedOnlyDrains ==
    [][\A t \in Tokens : ToldOf(t) # {} =>
          /\ UnderWay(t)' \subseteq UnderWay(t)
          /\ \A p \in Projects, i \in Ids :
                LET row == rows'[p][i]
                IN  rows[p][i] = None /\ row # None /\ requests'[row.body].credential = t
                      => row.body \in UnderWay(t)]_ingestionVars

\* The project a credential belongs to, whatever became of it.
Owner(c) == IF c \in Tokens THEN tokens[c].project ELSE DefaultProject

\* A row is in the project of the credential it was written with, and in
\* the one its route named, however long the request took and whatever
\* happened to the token meanwhile.
InTheRightProject ==
    \A p \in Projects, i \in Ids :
        rows[p][i] # None =>
            LET r == requests[rows[p][i].body]
            IN  Owner(r.credential) = p /\ r.path \in {None, p}

\* A receipt names the row that is there, for the client that wrote it and
\* for every one that repeated it, until the row was old enough to go.
ReceiptNamesTheRow ==
    \A r \in receipts :
        LET row == rows[r.project][r.id]
        IN  \/ row # None /\ row.row = r.row /\ row.receivedAt = r.receivedAt
            \/ r.receivedAt + Retention < clock

\* No repeat, late or early, changes a row that is there: who reads it while
\* its sender tries again reads the same (the remarks of SpanRepository.store).
RowsStayAsTheyAre ==
    [][\A p \in Projects, i \in Ids :
            rows[p][i] # None /\ rows'[p][i] # None => rows'[p][i] = rows[p][i]]_ingestionVars

\* Who revokes a token after somebody was told when it was revoked is told
\* one of the times that were told.
RepeatedRevokeSameAnswer ==
    \A m \in Managers : managers[m].pc = "done" /\ managers[m].told # {} => managers[m].answer \in managers[m].told
=============================================================================
