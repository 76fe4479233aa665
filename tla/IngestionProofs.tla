--------------------------- MODULE IngestionProofs ---------------------------
(***************************************************************************)
(* What the ingestion and the reading of traces keep, for any number of    *)
(* projects, tokens, requests, people and spans: the types, each safety    *)
(* property of Ingestion, and what is drawn and listed of the spans. The   *)
(* inductive invariant adds what the two steps of a request, and of a      *)
(* revocation, know of each other, and what the loop of a waterfall keeps. *)
(* And, for any limits of the two sides, what the server's schemas take of *)
(* the reports, log records and spans that the reporters send it.          *)
(***************************************************************************)
EXTENDS Telemetry, FiniteSetTheorems, SequenceTheorems, WellFoundedInduction, TLAPS

\* What a request that was let in knows of its credential.
RequestsKnowTheirOwner ==
    \A s \in Senders :
        requests[s].pc # "idle" =>
            /\ requests[s].credential \in Tokens => tokens[requests[s].credential].state # "none"
            /\ requests[s].project = Owner(requests[s].credential)
            /\ requests[s].project # None
            /\ requests[s].path \in {None, requests[s].project}

\* A row was written by a request that was let in to its project.
RowsHaveAWriter ==
    \A p \in Projects, i \in Ids :
        rows[p][i] # None =>
            requests[rows[p][i].body].pc # "idle" /\ requests[rows[p][i].body].project = p

\* No row and no receipt is of a time to come.
RowsArePast == \A p \in Projects, i \in Ids : rows[p][i] # None => rows[p][i].receivedAt <= clock
ReceiptsArePast == \A r \in receipts : r.receivedAt <= clock

\* What a revocation knows of the token and of those before it.
RevocationsAgree ==
    /\ \A t \in Tokens : tokens[t].state = "revoked" <=> tokens[t].revokedAt # None
    /\ \A m \in Managers :
        /\ managers[m].pc # "idle" => managers[m].token \in Tokens
        /\ managers[m].pc = "revoking" => managers[m].told = {}
        /\ managers[m].pc = "done" => managers[m].answer # None
    /\ \A t \in Tokens : ToldOf(t) # {} => tokens[t].revokedAt \in ToldOf(t)

IInv ==
    /\ TypeOK
    /\ RequestsKnowTheirOwner
    /\ RowsHaveAWriter
    /\ RowsArePast
    /\ ReceiptsArePast
    /\ ReceiptNamesTheRow
    /\ RevocationsAgree
    /\ RepeatedRevokeSameAnswer

-----------------------------------------------------------------------------
\* A batch names ids of the store, finitely many of them free.
LEMMA FreeIds ==
    ASSUME NEW spellings \in SUBSET Spellings, NEW p \in Projects
    PROVE  /\ Free(p, spellings) \subseteq Ids
           /\ IsFiniteSet(Free(p, spellings))
           /\ NewRows(p, spellings) \in Nat
<1>1. Free(p, spellings) \subseteq Ids
  BY DEF Free, IdsOf, Spellings
<1>2. IsFiniteSet(Free(p, spellings))
  BY <1>1, IngestionAssumption, FS_Subset DEF IngestionAssumption
<1> QED BY <1>1, <1>2, FS_CardinalityType DEF NewRows

\* A free id gets one of the next row ids.
LEMMA FreshRow ==
    ASSUME NEW spellings \in SUBSET Spellings, NEW p \in Projects, NEW s \in Senders, TypeOK,
           NEW i \in Free(p, spellings)
    PROVE  /\ Fresh(p, spellings, s, i) \in Row
           /\ Fresh(p, spellings, s, i) # None
           /\ Fresh(p, spellings, s, i).row < nextRow + NewRows(p, spellings)
           /\ Fresh(p, spellings, s, i).body = s
           /\ Fresh(p, spellings, s, i).receivedAt = clock
<1> DEFINE before == Cardinality(Earlier(p, spellings, i))
           all == Cardinality(Free(p, spellings))
<1>1. i \in Nat
  BY FreeIds, IngestionAssumption DEF IngestionAssumption
<1>2. Earlier(p, spellings, i) \subseteq Free(p, spellings) /\ i \notin Earlier(p, spellings, i)
  BY <1>1 DEF Earlier
<1>3. Earlier(p, spellings, i) # Free(p, spellings)
  BY <1>2
<1>4. IsFiniteSet(Earlier(p, spellings, i)) /\ before <= all /\ before # all
  BY <1>2, <1>3, FreeIds, FS_Subset
<1>5. before \in Nat /\ all \in Nat
  BY <1>4, FreeIds, FS_CardinalityType
<1>6. nextRow \in Nat /\ clock \in Times /\ Times \subseteq Nat
  BY DEF TypeOK, Times
<1> HIDE DEF before, all
<1>7. before < all
  BY <1>4, <1>5
<1>8. nextRow + before \in Nat /\ nextRow + before < nextRow + all
  BY <1>5, <1>6, <1>7
<1>9. Fresh(p, spellings, s, i) = [row |-> nextRow + before, body |-> s, receivedAt |-> clock]
  BY DEF Fresh, before
<1>10. Fresh(p, spellings, s, i) \in Row
  BY <1>6, <1>8, <1>9 DEF Row
<1>11. Fresh(p, spellings, s, i) # None
  <2>1. Fresh(p, spellings, s, i) \in [row: Nat, body: Senders, receivedAt: Nat]
    BY <1>6, <1>8, <1>9
  <2> QED BY <2>1, IngestionAssumption DEF IngestionAssumption
<1>12. NewRows(p, spellings) = all
  BY DEF NewRows, all
<1> QED BY <1>8, <1>9, <1>10, <1>11, <1>12

\* An insert leaves what is there and writes the free ids of its batch.
LEMMA InsertedRows ==
    ASSUME NEW spellings \in SUBSET Spellings, NEW p \in Projects, NEW s \in Senders, TypeOK
    PROVE  /\ Inserted(p, spellings, s) \in [Projects -> [Ids -> Row \cup {None}]]
           /\ \A q \in Projects, i \in Ids :
                Inserted(p, spellings, s)[q][i] =
                    IF q = p /\ i \in Free(p, spellings) THEN Fresh(p, spellings, s, i) ELSE rows[q][i]
<1>1. \A q \in Projects, i \in Ids :
        Inserted(p, spellings, s)[q][i] =
            IF q = p /\ i \in Free(p, spellings) THEN Fresh(p, spellings, s, i) ELSE rows[q][i]
  BY DEF Inserted
<1>2. \A q \in Projects, i \in Ids : rows[q][i] \in Row \cup {None}
  BY DEF TypeOK
<1>3. \A q \in Projects, i \in Ids : Inserted(p, spellings, s)[q][i] \in Row \cup {None}
  BY <1>1, <1>2, FreshRow
<1>4. Inserted(p, spellings, s) = [q \in Projects |-> [i \in Ids |-> Inserted(p, spellings, s)[q][i]]]
  BY DEF Inserted
<1>5. \A q \in Projects : [i \in Ids |-> Inserted(p, spellings, s)[q][i]] \in [Ids -> Row \cup {None}]
  BY <1>3
<1> QED BY <1>1, <1>4, <1>5

\* After an insert every id of the batch is there.
LEMMA StoredIds ==
    ASSUME NEW spellings \in SUBSET Spellings, NEW p \in Projects, NEW s \in Senders, TypeOK
    PROVE  \A i \in IdsOf(spellings) : i \in Ids /\ Inserted(p, spellings, s)[p][i] # None
<1>1. \A i \in IdsOf(spellings) : i \in Ids
  BY DEF IdsOf, Spellings
<1>2. \A i \in IdsOf(spellings) : i \in Free(p, spellings) \/ rows[p][i] # None
  BY DEF Free
<1> QED BY <1>1, <1>2, InsertedRows, FreshRow

-----------------------------------------------------------------------------
(* Types.                                                                  *)

\* The start of an instance of any signal.
Started == Empty /\ signal \in {"logs", "spans", "trace"} /\ settings \in Settings

LEMMA TypeInit == Started => TypeOK
<1> SUFFICES ASSUME Started PROVE TypeOK
  OBVIOUS
<1> USE IngestionAssumption DEF IngestionAssumption, Started, Empty
<1>1. settings \in [legacy : BOOLEAN, production : BOOLEAN] /\ signal \in {"logs", "spans", "trace"}
  OBVIOUS
<1>2. clock \in Times /\ nextRow \in Nat /\ sent \in Nat /\ receipts \subseteq Receipt
  BY DEF Times
<1>3. tokens \in [Tokens -> ProjectToken]
  BY DEF NoToken, ProjectToken, TimesOrNone
<1>4. managers \in [Managers -> Manager]
  BY DEF AtRest, Manager, TimesOrNone
<1>5. requests \in [Senders -> Request]
  BY DEF Idle, Request, Credentials
<1>6. rows \in [Projects -> [Ids -> Row \cup {None}]]
  OBVIOUS
<1>7. \A p \in Projects, i \in Ids : rows[p][i] = None
  OBVIOUS
<1> QED BY ONLY <1>1, <1>2, <1>3, <1>4, <1>5, <1>6, <1>7 DEF TypeOK

\* A request whose place alone changes stays a request.
LEMMA RequestMoves ==
    ASSUME TypeOK, NEW s \in Senders, NEW pc \in {"idle", "admitted", "answered", "failed"},
           requests' = [requests EXCEPT ![s].pc = pc]
    PROVE  requests' \in [Senders -> Request]
<1> DEFINE new == [requests[s] EXCEPT !.pc = pc]
<1>1. requests[s] \in Request /\ requests \in [Senders -> Request]
  BY DEF TypeOK
<1>2. new \in Request
  BY <1>1 DEF Request
<1>3. requests' = [requests EXCEPT ![s] = new]
  OBVIOUS
<1> QED BY <1>1, <1>2, <1>3

\* Whom the guard lets in has a project.
LEMMA AdmittedType ==
    ASSUME TypeOK, NEW c \in Credentials, NEW path, Admits(c, path)
    PROVE  /\ ResolveProject(c) \in Projects
           /\ path \in {None, ResolveProject(c)}
           /\ c \in Tokens => tokens[c].state = "live" /\ ResolveProject(c) = tokens[c].project
           /\ c \notin Tokens => ResolveProject(c) = DefaultProject
<1>1. c \in Tokens => c # "legacy" /\ TokenShaped(c)
  BY IngestionAssumption DEF IngestionAssumption, TokenShaped
<1>2. ResolveProject(c) # None /\ path \in {None, ResolveProject(c)}
  BY DEF Admits
<1>3. CASE c \in Tokens
  <2>1. ResolveProject(c) = Verify(c)
    BY <1>1, <1>3 DEF ResolveProject
  <2>2. tokens[c].state = "live" /\ ResolveProject(c) = tokens[c].project
    BY <1>2, <1>3, <2>1 DEF Verify
  <2>3. tokens[c].project \in Projects \cup {None}
    BY <1>3 DEF TypeOK, ProjectToken
  <2> QED BY <1>2, <1>3, <2>2, <2>3
<1>4. CASE c \notin Tokens
  <2>1. ResolveProject(c) = DefaultProject
    BY <1>2, <1>4 DEF ResolveProject, Verify
  <2> QED BY <1>2, <1>4, <2>1, IngestionAssumption DEF IngestionAssumption
<1> QED BY <1>3, <1>4

\* Every step keeps the types: one step of the proof for each action.
LEMMA TypeStep ==
    ASSUME TypeOK, RequestsKnowTheirOwner, RevocationsAgree, [IngestionNext]_ingestionVars
    PROVE  TypeOK'
<1>1. ASSUME NEW s \in Senders, NEW c \in Presented, NEW path \in Paths, NEW b \in Contents,
             Admit(s, c, path, b)
      PROVE  TypeOK'
  <2>1. c \in Credentials /\ path \in Projects \cup {None} /\ b \in SUBSET Spellings
    BY IngestionAssumption DEF IngestionAssumption, Presented, Paths, UnscopedLogs, UnscopedSpans, Credentials, Spellings
  <2>2. ResolveProject(c) \in Projects
    BY <1>1, <2>1, AdmittedType DEF Admit
  <2> DEFINE new == [pc |-> "admitted", credential |-> c, path |-> path, batch |-> b,
                     project |-> ResolveProject(c)]
  <2>3. requests' \in [Senders -> Request]
    <3>1. new \in Request
      BY <2>1, <2>2 DEF Request
    <3>2. requests' = [requests EXCEPT ![s] = new]
      BY <1>1 DEF Admit
    <3>3. requests \in [Senders -> Request]
      BY DEF TypeOK
    <3> QED BY <3>1, <3>2, <3>3
  <2> QED BY <1>1, <2>3 DEF Admit, TypeOK
<1>2. ASSUME NEW s \in Senders, AdmitAgain(s) PROVE TypeOK'
  <2>1. requests[s].credential \in Credentials
    BY DEF TypeOK, Request
  <2>2. ResolveProject(requests[s].credential) \in Projects
    BY <1>2, <2>1, AdmittedType DEF AdmitAgain
  <2>3. requests' \in [Senders -> Request]
    <3> DEFINE new == [requests[s] EXCEPT !.pc = "admitted", !.project = ResolveProject(requests[s].credential)]
    <3>1. requests[s] \in Request /\ requests \in [Senders -> Request]
      BY DEF TypeOK
    <3>2. new \in Request
      BY <2>2, <3>1 DEF Request
    <3>3. requests' = [requests EXCEPT ![s] = new]
      BY <1>2 DEF AdmitAgain
    <3> QED BY <3>1, <3>2, <3>3
  <2> QED BY <1>2, <2>3 DEF AdmitAgain, TypeOK
<1>3. ASSUME NEW s \in Senders, requests[s].pc = "admitted",
             requests[s].project \in Projects,
             rows' = Inserted(requests[s].project, requests[s].batch, s),
             nextRow' = nextRow + NewRows(requests[s].project, requests[s].batch)
      PROVE  /\ nextRow' \in Nat
             /\ rows' \in [Projects -> [Ids -> Row \cup {None}]]
             /\ \A p \in Projects, i \in Ids : rows'[p][i] # None => rows'[p][i].row < nextRow'
  <2> DEFINE p0 == requests[s].project
             b0 == requests[s].batch
  <2>1. b0 \in SUBSET Spellings
    BY DEF TypeOK, Request
  <2> HIDE DEF p0, b0
  <2>2. p0 \in Projects /\ rows' = Inserted(p0, b0, s) /\ nextRow' = nextRow + NewRows(p0, b0)
    BY <1>3 DEF p0, b0
  <2>3. NewRows(p0, b0) \in Nat
    BY <2>1, <2>2, FreeIds
  <2>4. nextRow \in Nat /\ \A p \in Projects, i \in Ids : rows[p][i] # None => rows[p][i].row < nextRow
    BY DEF TypeOK
  <2>5. \A p \in Projects, i \in Ids : rows[p][i] \in Row \cup {None}
    BY DEF TypeOK
  <2>6. \A p \in Projects, i \in Ids :
          rows'[p][i] = IF p = p0 /\ i \in Free(p0, b0) THEN Fresh(p0, b0, s, i) ELSE rows[p][i]
    BY <2>1, <2>2, InsertedRows
  <2>7. \A i \in Free(p0, b0) : Fresh(p0, b0, s, i).row < nextRow'
    BY <2>1, <2>2, FreshRow
  <2>8. ASSUME NEW p \in Projects, NEW i \in Ids, rows'[p][i] # None
        PROVE  rows'[p][i].row < nextRow'
    <3>1. CASE p = p0 /\ i \in Free(p0, b0)
      BY <2>6, <2>7, <3>1
    <3>2. CASE ~(p = p0 /\ i \in Free(p0, b0))
      <4>1. rows'[p][i] = rows[p][i]
        BY <2>6, <3>2
      <4>2. rows[p][i].row \in Nat /\ rows[p][i].row < nextRow
        BY <2>4, <2>5, <2>8, <4>1 DEF Row
      <4> QED BY <2>2, <2>3, <2>4, <4>1, <4>2
    <3> QED BY <3>1, <3>2
  <2> QED BY <2>1, <2>2, <2>3, <2>4, <2>8, InsertedRows
<1>4. ASSUME NEW s \in Senders, StoreLogs(s) PROVE TypeOK'
  <2> DEFINE p0 == requests[s].project
             b0 == requests[s].batch
  <2>1. p0 \in Projects /\ requests[s].pc = "admitted"
    BY <1>4 DEF StoreLogs, RequestsKnowTheirOwner, TypeOK, Request
  <2>2. requests' \in [Senders -> Request]
    BY <1>4, RequestMoves DEF StoreLogs
  <2>3. CASE TouchesTwice(b0)
    BY <1>4, <2>2, <2>3 DEF StoreLogs, TypeOK
  <2>4. CASE ~TouchesTwice(b0)
    <3>1. rows' = Inserted(p0, b0, s) /\ nextRow' = nextRow + NewRows(p0, b0)
      BY <1>4, <2>4 DEF StoreLogs
    <3>2. /\ nextRow' \in Nat
          /\ rows' \in [Projects -> [Ids -> Row \cup {None}]]
          /\ \A p \in Projects, i \in Ids : rows'[p][i] # None => rows'[p][i].row < nextRow'
      BY <1>3, <2>1, <3>1
    <3>3. Receipts(p0, b0, rows') \subseteq Receipt
      <4>0. b0 \in SUBSET Spellings
        BY DEF TypeOK, Request
      <4>1. \A i \in IdsOf(b0) : i \in Ids /\ rows'[p0][i] \in Row
        <5>1. \A i \in IdsOf(b0) : i \in Ids /\ rows'[p0][i] # None
          BY <2>1, <3>1, <4>0, StoredIds
        <5> QED BY <2>1, <3>2, <5>1
      <4> QED BY <2>1, <4>1 DEF Receipts, Receipt, Row
    <3>4. receipts' \subseteq Receipt
      BY <1>4, <2>4, <3>1, <3>3 DEF StoreLogs, TypeOK
    <3> QED BY <1>4, <2>2, <3>2, <3>4 DEF StoreLogs, TypeOK
  <2> QED BY <2>3, <2>4
<1>5. ASSUME NEW s \in Senders, StoreSpans(s) PROVE TypeOK'
  <2>1. requests[s].project \in Projects /\ requests[s].pc = "admitted"
    BY <1>5 DEF StoreSpans, RequestsKnowTheirOwner, TypeOK, Request
  <2>2. requests' \in [Senders -> Request]
    BY <1>5, RequestMoves DEF StoreSpans
  <2>3. /\ nextRow' \in Nat
        /\ rows' \in [Projects -> [Ids -> Row \cup {None}]]
        /\ \A p \in Projects, i \in Ids : rows'[p][i] # None => rows'[p][i].row < nextRow'
    BY <1>3, <1>5, <2>1 DEF StoreSpans
  <2> QED BY <1>5, <2>2, <2>3 DEF StoreSpans, TypeOK
<1>6. ASSUME NEW s \in Senders, StoreFails(s) PROVE TypeOK'
  <2>1. requests' \in [Senders -> Request]
    BY <1>6, RequestMoves DEF StoreFails
  <2> QED BY <1>6, <2>1 DEF StoreFails, TypeOK
<1>7. ASSUME NEW t \in Tokens, NEW p \in Projects, IssueToken(t, p) PROVE TypeOK'
  <2>1. tokens' \in [Tokens -> ProjectToken]
    BY <1>7 DEF IssueToken, TypeOK, ProjectToken, TimesOrNone
  <2> QED BY <1>7, <2>1 DEF IssueToken, TypeOK
<1>8. ASSUME NEW m \in Managers, NEW t \in Tokens, RevokeReads(m, t) PROVE TypeOK'
  <2>1. ToldOf(t) \subseteq TimesOrNone /\ tokens[t].revokedAt \in TimesOrNone
    BY DEF ToldOf, TypeOK, Manager, ProjectToken
  <2>2. managers' \in [Managers -> Manager]
    BY <1>8, <2>1 DEF RevokeReads, TypeOK, Manager
  <2> QED BY <1>8, <2>2 DEF RevokeReads, TypeOK
<1>9. ASSUME NEW m \in Managers, RevokeWrites(m) PROVE TypeOK'
  <2>1. managers' \in [Managers -> Manager]
    <3> DEFINE new == [managers[m] EXCEPT !.pc = "done", !.answer = clock]
    <3>1. managers[m] \in Manager /\ managers \in [Managers -> Manager] /\ clock \in TimesOrNone
      BY DEF TypeOK, TimesOrNone
    <3>2. new \in Manager
      BY <3>1 DEF Manager
    <3>3. managers' = [managers EXCEPT ![m] = new]
      BY <1>9 DEF RevokeWrites
    <3> QED BY <3>1, <3>2, <3>3
  <2>2. tokens' \in [Tokens -> ProjectToken]
    <3> DEFINE t == managers[m].token
               new == [tokens[t] EXCEPT !.state = "revoked", !.revokedAt = clock]
    <3>1. tokens \in [Tokens -> ProjectToken] /\ clock \in TimesOrNone
      BY DEF TypeOK, TimesOrNone
    <3>2. t \in Tokens
      BY <1>9 DEF RevokeWrites, RevocationsAgree
    <3>3. new \in ProjectToken
      BY <3>1, <3>2 DEF ProjectToken
    <3>4. tokens' = [tokens EXCEPT ![t] = new]
      BY <1>9 DEF RevokeWrites
    <3> QED BY <3>1, <3>2, <3>3, <3>4
  <2> QED BY <1>9, <2>1, <2>2 DEF RevokeWrites, TypeOK
<1>10. ASSUME DeleteExpired PROVE TypeOK'
  <2>1. \A p \in Projects, i \in Ids : rows'[p][i] = None \/ rows'[p][i] = rows[p][i]
    BY <1>10 DEF DeleteExpired
  <2>2. rows' \in [Projects -> [Ids -> Row \cup {None}]]
    BY <1>10 DEF DeleteExpired, TypeOK
  <2>3. \A p \in Projects, i \in Ids : rows'[p][i] # None => rows'[p][i].row < nextRow'
    BY <1>10, <2>1 DEF DeleteExpired, TypeOK
  <2> QED BY <1>10, <2>2, <2>3 DEF DeleteExpired, TypeOK
<1>11. CASE Tick
  <2>1. clock' \in Times
    BY <1>11, IngestionAssumption DEF IngestionAssumption, Tick, TypeOK, Times
  <2> QED BY <1>11, <2>1 DEF Tick, TypeOK
<1>12. CASE UNCHANGED ingestionVars
  BY <1>12 DEF ingestionVars, TypeOK
<1> QED BY <1>1, <1>2, <1>4, <1>5, <1>6, <1>7, <1>8, <1>9, <1>10, <1>11, <1>12 DEF IngestionNext

-----------------------------------------------------------------------------
(* Requests and rows.                                                      *)

\* A token that was issued keeps its project, and one that was revoked stays
\* so.
LEMMA TokensKept ==
    ASSUME TypeOK, RevocationsAgree, [IngestionNext]_ingestionVars, NEW t \in Tokens
    PROVE  /\ tokens[t].state # "none" => tokens'[t].state # "none" /\ tokens'[t].project = tokens[t].project
           /\ tokens[t].state = "revoked" => tokens'[t].state = "revoked"
<1> DEFINE Held == /\ tokens[t].state # "none" => tokens'[t].state # "none" /\ tokens'[t].project = tokens[t].project
                   /\ tokens[t].state = "revoked" => tokens'[t].state = "revoked"
<1>1. ASSUME NEW u \in Tokens, NEW p \in Projects, IssueToken(u, p) PROVE Held
  BY <1>1 DEF IssueToken, TypeOK, ProjectToken
<1>2. ASSUME NEW m \in Managers, RevokeWrites(m) PROVE Held
  <2> DEFINE u == managers[m].token
  <2>1. u \in Tokens /\ tokens' = [tokens EXCEPT ![u].state = "revoked", ![u].revokedAt = clock]
    BY <1>2 DEF RevokeWrites, RevocationsAgree
  <2> HIDE DEF u
  <2>2. CASE t = u
    BY <2>1, <2>2 DEF TypeOK, ProjectToken
  <2>3. CASE t # u
    BY <2>1, <2>3 DEF TypeOK, ProjectToken
  <2> QED BY <2>2, <2>3
<1>3. CASE UNCHANGED tokens
  BY <1>3
<1>4. CASE UNCHANGED ingestionVars
  BY <1>3, <1>4 DEF ingestionVars
<1> QED BY <1>1, <1>2, <1>3, <1>4
    DEF IngestionNext, Admit, AdmitAgain, StoreLogs, StoreSpans, StoreFails, RevokeReads, DeleteExpired, Tick

\* A step leaves a request as it is but for its place, or lets it in, for the
\* first time or again, by what it presents.
LEMMA RequestSteps ==
    ASSUME TypeOK, [IngestionNext]_ingestionVars, NEW s \in Senders
    PROVE  \/ /\ requests'[s].credential = requests[s].credential
              /\ requests'[s].path = requests[s].path
              /\ requests'[s].project = requests[s].project
              /\ requests'[s].pc = "idle" <=> requests[s].pc = "idle"
              /\ requests'[s].pc = "admitted" => requests[s].pc = "admitted"
           \/ /\ requests'[s].credential \in Credentials
              /\ Admits(requests'[s].credential, requests'[s].path)
              /\ requests'[s].project = ResolveProject(requests'[s].credential)
              /\ requests'[s].pc = "admitted"
              /\ tokens' = tokens
              /\ requests[s].pc # "idle" => requests'[s].credential = requests[s].credential
<1> DEFINE Same == /\ requests'[s].credential = requests[s].credential
                   /\ requests'[s].path = requests[s].path
                   /\ requests'[s].project = requests[s].project
                   /\ requests'[s].pc = "idle" <=> requests[s].pc = "idle"
                   /\ requests'[s].pc = "admitted" => requests[s].pc = "admitted"
           Let == /\ requests'[s].credential \in Credentials
                  /\ Admits(requests'[s].credential, requests'[s].path)
                  /\ requests'[s].project = ResolveProject(requests'[s].credential)
                  /\ requests'[s].pc = "admitted"
                  /\ tokens' = tokens
                  /\ requests[s].pc # "idle" => requests'[s].credential = requests[s].credential
<1>0. requests \in [Senders -> Request] /\ requests[s] \in Request
  BY DEF TypeOK
<1>1. ASSUME NEW u \in Senders, NEW c \in Presented, NEW path \in Paths, NEW b \in Contents, Admit(u, c, path, b)
      PROVE  Same \/ Let
  <2>1. c \in Credentials
    BY DEF Presented, Credentials
  <2> DEFINE new == [pc |-> "admitted", credential |-> c, path |-> path, batch |-> b,
                     project |-> ResolveProject(c)]
  <2>2. requests' = [requests EXCEPT ![u] = new] /\ Admits(c, path) /\ tokens' = tokens /\ requests[u].pc = "idle"
    BY <1>1 DEF Admit
  <2>3. CASE s = u
    BY <1>0, <2>1, <2>2, <2>3
  <2>4. CASE s # u
    BY <1>0, <2>2, <2>4
  <2> QED BY <2>3, <2>4
<1>2. ASSUME NEW u \in Senders, AdmitAgain(u) PROVE Same \/ Let
  <2> DEFINE r == requests[u]
             new == [r EXCEPT !.pc = "admitted", !.project = ResolveProject(r.credential)]
  <2>1. r \in Request
    BY DEF TypeOK
  <2>2. requests' = [requests EXCEPT ![u] = new] /\ Admits(r.credential, r.path) /\ tokens' = tokens
    BY <1>2 DEF AdmitAgain
  <2>3. CASE s = u
    <3>1. requests'[s] = new
      BY <1>0, <2>2, <2>3
    <3>2. /\ new.credential = r.credential /\ new.path = r.path /\ new.pc = "admitted"
          /\ new.project = ResolveProject(r.credential)
          /\ r.credential \in Credentials
      BY <2>1 DEF Request
    <3> QED BY <2>2, <2>3, <3>1, <3>2
  <2>4. CASE s # u
    BY <1>0, <2>2, <2>4
  <2> QED BY <2>3, <2>4
<1>3. ASSUME NEW u \in Senders, NEW pc \in {"answered", "failed"}, requests[u].pc = "admitted",
             requests' = [requests EXCEPT ![u].pc = pc]
      PROVE  Same
  <2>1. CASE s = u
    BY <1>0, <1>3, <2>1 DEF Request
  <2>2. CASE s # u
    BY <1>0, <1>3, <2>2
  <2> QED BY <2>1, <2>2
<1>4. ASSUME NEW u \in Senders, StoreLogs(u) PROVE Same
  <2>1. PICK pc \in {"answered", "failed"} : requests' = [requests EXCEPT ![u].pc = pc]
    BY <1>4 DEF StoreLogs
  <2> QED BY <1>3, <1>4, <2>1 DEF StoreLogs
<1>5. ASSUME NEW u \in Senders, StoreSpans(u) PROVE Same
  BY <1>3, <1>5 DEF StoreSpans
<1>6. ASSUME NEW u \in Senders, StoreFails(u) PROVE Same
  BY <1>3, <1>6 DEF StoreFails
<1>7. CASE UNCHANGED requests
  BY <1>7
<1>8. CASE UNCHANGED ingestionVars
  BY <1>7, <1>8 DEF ingestionVars
<1> QED BY <1>1, <1>2, <1>4, <1>5, <1>6, <1>7, <1>8
    DEF IngestionNext, IssueToken, RevokeReads, RevokeWrites, DeleteExpired, Tick

LEMMA GuardStep ==
    ASSUME TypeOK, RequestsKnowTheirOwner, RevocationsAgree, [IngestionNext]_ingestionVars
    PROVE  RequestsKnowTheirOwner'
<1> SUFFICES ASSUME NEW s \in Senders, requests'[s].pc # "idle"
             PROVE  LET c == requests'[s].credential
                    IN  /\ c \in Tokens => tokens'[c].state # "none"
                        /\ requests'[s].project = IF c \in Tokens THEN tokens'[c].project ELSE DefaultProject
                        /\ requests'[s].project # None
                        /\ requests'[s].path \in {None, requests'[s].project}
  BY DEF RequestsKnowTheirOwner, Owner
<1> DEFINE c == requests'[s].credential
<1>1. CASE /\ c = requests[s].credential
           /\ requests'[s].path = requests[s].path
           /\ requests'[s].project = requests[s].project
           /\ requests'[s].pc = "idle" <=> requests[s].pc = "idle"
  <2>1. /\ c \in Tokens => tokens[c].state # "none"
        /\ requests[s].project = IF c \in Tokens THEN tokens[c].project ELSE DefaultProject
        /\ requests[s].project # None
        /\ requests[s].path \in {None, requests[s].project}
    BY <1>1 DEF RequestsKnowTheirOwner, Owner
  <2>2. c \in Tokens => tokens'[c].state # "none" /\ tokens'[c].project = tokens[c].project
    BY <2>1, TokensKept
  <2> QED BY <1>1, <2>1, <2>2
<1>2. CASE /\ c \in Credentials
           /\ Admits(c, requests'[s].path)
           /\ requests'[s].project = ResolveProject(c)
           /\ tokens' = tokens
  <2>1. /\ ResolveProject(c) \in Projects
        /\ requests'[s].path \in {None, ResolveProject(c)}
        /\ c \in Tokens => tokens[c].state = "live" /\ ResolveProject(c) = tokens[c].project
        /\ c \notin Tokens => ResolveProject(c) = DefaultProject
    BY <1>2, AdmittedType
  <2>2. ResolveProject(c) # None
    BY <2>1, IngestionAssumption DEF IngestionAssumption
  <2> QED BY <1>2, <2>1, <2>2
<1> QED BY <1>1, <1>2, RequestSteps

\* A row is there already, expires, or is written by the request that stores.
LEMMA RowSteps ==
    ASSUME TypeOK, RequestsKnowTheirOwner, [IngestionNext]_ingestionVars, NEW p \in Projects, NEW i \in Ids
    PROVE  \/ rows'[p][i] = rows[p][i]
           \/ rows'[p][i] = None /\ Expired(rows[p][i]) /\ receipts' = receipts /\ clock' = clock
           \/ /\ rows[p][i] = None /\ rows'[p][i] # None /\ clock' = clock
              /\ rows'[p][i].receivedAt = clock /\ rows'[p][i].body \in Senders
              /\ requests[rows'[p][i].body].pc = "admitted"
              /\ requests[rows'[p][i].body].project = p
<1> DEFINE Goal == \/ rows'[p][i] = rows[p][i]
                   \/ rows'[p][i] = None /\ Expired(rows[p][i]) /\ receipts' = receipts /\ clock' = clock
                   \/ /\ rows[p][i] = None /\ rows'[p][i] # None /\ clock' = clock
                      /\ rows'[p][i].receivedAt = clock /\ rows'[p][i].body \in Senders
                      /\ requests[rows'[p][i].body].pc = "admitted"
                      /\ requests[rows'[p][i].body].project = p
<1>1. ASSUME NEW s \in Senders, requests[s].pc = "admitted", clock' = clock,
             rows' = Inserted(requests[s].project, requests[s].batch, s)
      PROVE  Goal
  <2> DEFINE p0 == requests[s].project
             b0 == requests[s].batch
  <2>1. b0 \in SUBSET Spellings /\ p0 \in Projects
    BY <1>1 DEF TypeOK, Request, RequestsKnowTheirOwner
  <2> HIDE DEF p0, b0
  <2>2. rows'[p][i] = IF p = p0 /\ i \in Free(p0, b0) THEN Fresh(p0, b0, s, i) ELSE rows[p][i]
    <3>1. rows' = Inserted(p0, b0, s)
      BY <1>1 DEF p0, b0
    <3>2. \A q \in Projects, j \in Ids :
            Inserted(p0, b0, s)[q][j] = IF q = p0 /\ j \in Free(p0, b0) THEN Fresh(p0, b0, s, j) ELSE rows[q][j]
      BY <2>1, InsertedRows
    <3> QED BY <3>1, <3>2
  <2>3. CASE p = p0 /\ i \in Free(p0, b0)
    <3>1. /\ Fresh(p0, b0, s, i) # None /\ Fresh(p0, b0, s, i).body = s
          /\ Fresh(p0, b0, s, i).receivedAt = clock
      BY <2>1, <2>3, FreshRow
    <3>2. rows[p][i] = None
      BY <2>3 DEF Free
    <3> QED BY <1>1, <2>2, <2>3, <3>1, <3>2 DEF p0
  <2>4. CASE ~(p = p0 /\ i \in Free(p0, b0))
    BY <2>2, <2>4
  <2> QED BY <2>3, <2>4
<1>2. ASSUME NEW s \in Senders, StoreLogs(s) PROVE Goal
  <2>1. CASE TouchesTwice(requests[s].batch)
    BY <1>2, <2>1 DEF StoreLogs
  <2>2. CASE ~TouchesTwice(requests[s].batch)
    BY <1>1, <1>2, <2>2 DEF StoreLogs
  <2> QED BY <2>1, <2>2
<1>3. ASSUME NEW s \in Senders, StoreSpans(s) PROVE Goal
  BY <1>1, <1>3 DEF StoreSpans
<1>4. CASE DeleteExpired
  BY <1>4 DEF DeleteExpired
<1>5. CASE UNCHANGED rows
  BY <1>5
<1>6. CASE UNCHANGED ingestionVars
  BY <1>5, <1>6 DEF ingestionVars
<1> QED BY <1>2, <1>3, <1>4, <1>5, <1>6
    DEF IngestionNext, Admit, AdmitAgain, StoreFails, IssueToken, RevokeReads, RevokeWrites, Tick

LEMMA WriterStep ==
    ASSUME TypeOK, RequestsKnowTheirOwner, RowsHaveAWriter, RevocationsAgree,
           [IngestionNext]_ingestionVars, RequestsKnowTheirOwner'
    PROVE  RowsHaveAWriter'
<1> SUFFICES ASSUME NEW p \in Projects, NEW i \in Ids, rows'[p][i] # None
             PROVE  requests'[rows'[p][i].body].pc # "idle" /\ requests'[rows'[p][i].body].project = p
  BY DEF RowsHaveAWriter
<1> DEFINE s == rows'[p][i].body
<1>1. s \in Senders /\ requests[s].pc # "idle" /\ requests[s].project = p
  <2>1. CASE rows'[p][i] = rows[p][i]
    BY <2>1 DEF RowsHaveAWriter, TypeOK, Row
  <2>2. CASE rows'[p][i] # rows[p][i]
    BY <2>2, RowSteps
  <2> QED BY <2>1, <2>2
<1> HIDE DEF s
<1>2. requests'[s].pc # "idle"
  BY <1>1, RequestSteps
<1>3. requests'[s].credential = requests[s].credential
  BY <1>1, RequestSteps
<1> DEFINE c == requests[s].credential
<1>4. /\ c \in Tokens => tokens[c].state # "none"
      /\ requests[s].project = IF c \in Tokens THEN tokens[c].project ELSE DefaultProject
  BY <1>1 DEF RequestsKnowTheirOwner, Owner
<1>5. requests'[s].project = IF c \in Tokens THEN tokens'[c].project ELSE DefaultProject
  BY <1>1, <1>2, <1>3 DEF RequestsKnowTheirOwner, Owner
<1>6. c \in Tokens => tokens'[c].project = tokens[c].project
  BY <1>4, TokensKept
<1> QED BY <1>1, <1>2, <1>4, <1>5, <1>6 DEF s

-----------------------------------------------------------------------------
(* Receipts.                                                               *)

\* A new receipt is of a row that is there.
LEMMA NewReceipts ==
    ASSUME TypeOK, RequestsKnowTheirOwner, [IngestionNext]_ingestionVars,
           NEW r \in receipts', r \notin receipts
    PROVE  /\ r.project \in Projects /\ r.id \in Ids
           /\ rows'[r.project][r.id] # None
           /\ rows'[r.project][r.id].row = r.row
           /\ rows'[r.project][r.id].receivedAt = r.receivedAt
<1> DEFINE Goal == /\ r.project \in Projects /\ r.id \in Ids
                   /\ rows'[r.project][r.id] # None
                   /\ rows'[r.project][r.id].row = r.row
                   /\ rows'[r.project][r.id].receivedAt = r.receivedAt
<1>1. ASSUME NEW s \in Senders, StoreLogs(s) PROVE Goal
  <2> DEFINE p0 == requests[s].project
             b0 == requests[s].batch
  <2>1. b0 \in SUBSET Spellings /\ p0 \in Projects
    BY <1>1 DEF StoreLogs, TypeOK, Request, RequestsKnowTheirOwner
  <2>2. CASE TouchesTwice(b0)
    BY <1>1, <2>2 DEF StoreLogs
  <2>3. CASE ~TouchesTwice(b0)
    <3>1. rows' = Inserted(p0, b0, s) /\ r \in Receipts(p0, b0, rows')
      BY <1>1, <2>3 DEF StoreLogs
    <3>2. PICK i \in IdsOf(b0) : r = [project |-> p0, id |-> i, row |-> rows'[p0][i].row,
                                      receivedAt |-> rows'[p0][i].receivedAt]
      BY <3>1 DEF Receipts
    <3>3. i \in Ids /\ rows'[p0][i] # None
      BY <2>1, <3>1, StoredIds
    <3> QED BY <2>1, <3>2, <3>3
  <2> QED BY <2>2, <2>3
<1>2. CASE receipts' = receipts
  BY <1>2
<1>3. CASE UNCHANGED ingestionVars
  BY <1>2, <1>3 DEF ingestionVars
<1> QED BY <1>1, <1>2, <1>3
    DEF IngestionNext, Admit, AdmitAgain, StoreSpans, StoreFails, IssueToken, RevokeReads, RevokeWrites,
        DeleteExpired, Tick

LEMMA ClockStep ==
    ASSUME TypeOK, [IngestionNext]_ingestionVars
    PROVE  clock \in Nat /\ clock' \in Nat /\ clock <= clock'
<1>1. clock \in Nat
  BY DEF TypeOK, Times
<1>2. clock' = clock \/ clock' = clock + 1
  BY DEF IngestionNext, ingestionVars, Admit, AdmitAgain, StoreLogs, StoreSpans, StoreFails, IssueToken,
         RevokeReads, RevokeWrites, DeleteExpired, Tick
<1> QED BY <1>1, <1>2

LEMMA PastStep ==
    ASSUME TypeOK, RequestsKnowTheirOwner, RowsArePast, [IngestionNext]_ingestionVars
    PROVE  RowsArePast'
<1> SUFFICES ASSUME NEW p \in Projects, NEW i \in Ids, rows'[p][i] # None
             PROVE  rows'[p][i].receivedAt <= clock'
  BY DEF RowsArePast
<1>1. CASE rows'[p][i] = rows[p][i]
  <2>1. rows[p][i].receivedAt \in Nat /\ rows[p][i].receivedAt <= clock
    BY <1>1 DEF RowsArePast, TypeOK, Row, Times
  <2> QED BY <1>1, <2>1, ClockStep
<1>2. CASE rows'[p][i].receivedAt = clock
  BY <1>2, ClockStep
<1> QED BY <1>1, <1>2, RowSteps

LEMMA ReceiptStep ==
    ASSUME TypeOK, RequestsKnowTheirOwner, ReceiptsArePast, ReceiptNamesTheRow, TypeOK', RowsArePast',
           [IngestionNext]_ingestionVars
    PROVE  ReceiptsArePast' /\ ReceiptNamesTheRow'
<1>1. ASSUME NEW r \in receipts'
      PROVE  /\ r.receivedAt <= clock'
             /\ \/ /\ rows'[r.project][r.id] # None
                   /\ rows'[r.project][r.id].row = r.row
                   /\ rows'[r.project][r.id].receivedAt = r.receivedAt
                \/ r.receivedAt + Retention < clock'
  <2>0. r.receivedAt \in Nat /\ Retention \in Nat /\ r.project \in Projects /\ r.id \in Ids
    BY IngestionAssumption DEF IngestionAssumption, TypeOK, Receipt, Times
  <2>1. CASE r \notin receipts
    <3>1. /\ rows'[r.project][r.id] # None
          /\ rows'[r.project][r.id].row = r.row
          /\ rows'[r.project][r.id].receivedAt = r.receivedAt
      BY <2>1, NewReceipts
    <3>2. r.receivedAt <= clock'
      BY <2>1, <3>1, NewReceipts DEF RowsArePast
    <3> QED BY <3>1, <3>2
  <2>2. CASE r \in receipts
    <3>1. r.receivedAt <= clock'
      BY <2>0, <2>2, ClockStep DEF ReceiptsArePast
    <3>2. CASE r.receivedAt + Retention < clock
      BY <2>0, <3>1, <3>2, ClockStep
    <3>3. CASE /\ rows[r.project][r.id] # None
               /\ rows[r.project][r.id].row = r.row
               /\ rows[r.project][r.id].receivedAt = r.receivedAt
      <4>1. CASE rows'[r.project][r.id] = rows[r.project][r.id]
        BY <3>1, <3>3, <4>1
      <4>2. CASE Expired(rows[r.project][r.id]) /\ clock' = clock
        BY <3>1, <3>3, <4>2 DEF Expired
      <4> QED BY <2>0, <3>3, <4>1, <4>2, RowSteps
    <3> QED BY <2>2, <3>2, <3>3 DEF ReceiptNamesTheRow
  <2> QED BY <2>1, <2>2
<1> QED BY <1>1 DEF ReceiptsArePast, ReceiptNamesTheRow

-----------------------------------------------------------------------------
(* Revocations.                                                            *)

LEMMA RevocationStep ==
    ASSUME TypeOK, RevocationsAgree, RepeatedRevokeSameAnswer, [IngestionNext]_ingestionVars
    PROVE  RevocationsAgree' /\ RepeatedRevokeSameAnswer'
<1> DEFINE Told(t) == {managers'[m].answer : m \in {n \in Managers : managers'[n].pc = "done" /\ managers'[n].token = t}}
           Goal == /\ \A t \in Tokens : tokens'[t].state = "revoked" <=> tokens'[t].revokedAt # None
                   /\ \A m \in Managers :
                        /\ managers'[m].pc # "idle" => managers'[m].token \in Tokens
                        /\ managers'[m].pc = "revoking" => managers'[m].told = {}
                        /\ managers'[m].pc = "done" => managers'[m].answer # None
                        /\ managers'[m].pc = "done" /\ managers'[m].told # {} => managers'[m].answer \in managers'[m].told
                   /\ \A t \in Tokens : Told(t) # {} => tokens'[t].revokedAt \in Told(t)
<1>0. /\ tokens \in [Tokens -> ProjectToken] /\ managers \in [Managers -> Manager]
      /\ clock # None
  BY IngestionAssumption DEF IngestionAssumption, TypeOK, Times
<1>1. ASSUME NEW t \in Tokens, NEW p \in Projects, IssueToken(t, p) PROVE Goal
  <2>1. /\ managers' = managers /\ tokens[t].state = "none"
        /\ tokens' = [tokens EXCEPT ![t] = [state |-> "live", project |-> p, revokedAt |-> None]]
    BY <1>1 DEF IssueToken
  <2>2. \A u \in Tokens : tokens'[u].revokedAt = tokens[u].revokedAt
    BY <1>0, <2>1 DEF RevocationsAgree, ProjectToken
  <2>3. \A u \in Tokens : tokens'[u].state = "revoked" <=> tokens[u].state = "revoked"
    BY <1>0, <2>1 DEF ProjectToken
  <2>4. \A u \in Tokens : Told(u) = ToldOf(u)
    BY <2>1 DEF ToldOf
  <2> QED BY <2>1, <2>2, <2>3, <2>4 DEF RevocationsAgree, RepeatedRevokeSameAnswer
<1>2. ASSUME NEW m \in Managers, NEW t \in Tokens, RevokeReads(m, t) PROVE Goal
  <2> DEFINE new == [token |-> t, told |-> ToldOf(t),
                     pc |-> IF tokens[t].revokedAt # None THEN "done" ELSE "revoking",
                     answer |-> tokens[t].revokedAt]
  <2>1. managers' = [managers EXCEPT ![m] = new] /\ tokens' = tokens /\ managers[m].pc = "idle"
    BY <1>2 DEF RevokeReads
  <2>2. managers'[m] = new /\ \A n \in Managers : n # m => managers'[n] = managers[n]
    BY <1>0, <2>1
  <2>3. tokens[t].revokedAt = None => ToldOf(t) = {}
    BY DEF RevocationsAgree, ToldOf
  <2>4. \A u \in Tokens : ToldOf(u) \subseteq Told(u)
    BY <2>1, <2>2 DEF ToldOf
  <2>5. \A u \in Tokens : Told(u) # {} => tokens'[u].revokedAt \in Told(u)
    <3> SUFFICES ASSUME NEW u \in Tokens, Told(u) # {}
                 PROVE  tokens'[u].revokedAt \in Told(u)
      OBVIOUS
    <3>1. CASE ToldOf(u) # {}
      BY <2>1, <2>4, <3>1 DEF RevocationsAgree
    <3>2. CASE ToldOf(u) = {}
      <4>1. managers'[m].pc = "done" /\ managers'[m].token = u
        BY <2>2, <3>2 DEF ToldOf
      <4> QED BY <2>1, <2>2, <4>1
    <3> QED BY <3>1, <3>2
  <2>6. \A n \in Managers :
          /\ managers'[n].pc # "idle" => managers'[n].token \in Tokens
          /\ managers'[n].pc = "revoking" => managers'[n].told = {}
          /\ managers'[n].pc = "done" => managers'[n].answer # None
          /\ managers'[n].pc = "done" /\ managers'[n].told # {} => managers'[n].answer \in managers'[n].told
    BY <2>2, <2>3 DEF RevocationsAgree, RepeatedRevokeSameAnswer
  <2> QED BY <2>1, <2>5, <2>6 DEF RevocationsAgree
<1>3. ASSUME NEW m \in Managers, RevokeWrites(m) PROVE Goal
  <2> DEFINE t == managers[m].token
             new == [managers[m] EXCEPT !.pc = "done", !.answer = clock]
  <2>1. /\ managers' = [managers EXCEPT ![m] = new] /\ managers[m].pc = "revoking"
        /\ t \in Tokens /\ managers[m].told = {}
    BY <1>3 DEF RevokeWrites, RevocationsAgree
  <2>2. /\ managers'[m].pc = "done" /\ managers'[m].answer = clock
        /\ managers'[m].told = {} /\ managers'[m].token = t
    BY <1>0, <2>1 DEF Manager
  <2>3. \A n \in Managers : n # m => managers'[n] = managers[n]
    BY <1>0, <2>1
  <2>4. tokens' = [tokens EXCEPT ![t].state = "revoked", ![t].revokedAt = clock]
    BY <1>3 DEF RevokeWrites
  <2> HIDE DEF t
  <2>5. /\ tokens'[t].state = "revoked" /\ tokens'[t].revokedAt = clock
        /\ \A u \in Tokens : u # t => tokens'[u] = tokens[u]
    BY <1>0, <2>1, <2>4 DEF ProjectToken
  <2>6. clock \in Told(t)
    BY <2>2
  <2>7. \A u \in Tokens : u # t => Told(u) = ToldOf(u)
    <3>1. \A u \in Tokens, n \in Managers : u # t =>
            ((managers'[n].pc = "done" /\ managers'[n].token = u) <=> (managers[n].pc = "done" /\ managers[n].token = u))
      BY <2>1, <2>2, <2>3
    <3> QED BY <2>2, <2>3, <3>1 DEF ToldOf
  <2>8. \A u \in Tokens : tokens'[u].state = "revoked" <=> tokens'[u].revokedAt # None
    BY <1>0, <2>5 DEF RevocationsAgree
  <2>9. \A n \in Managers :
          /\ managers'[n].pc # "idle" => managers'[n].token \in Tokens
          /\ managers'[n].pc = "revoking" => managers'[n].told = {}
          /\ managers'[n].pc = "done" => managers'[n].answer # None
          /\ managers'[n].pc = "done" /\ managers'[n].told # {} => managers'[n].answer \in managers'[n].told
    <3> TAKE n \in Managers
    <3>1. CASE n = m
      BY <1>0, <2>1, <2>2, <3>1
    <3>2. CASE n # m
      BY <2>3, <3>2 DEF RevocationsAgree, RepeatedRevokeSameAnswer
    <3> QED BY <3>1, <3>2
  <2>10. \A u \in Tokens : Told(u) # {} => tokens'[u].revokedAt \in Told(u)
    <3> HIDE DEF Told
    <3> TAKE u \in Tokens
    <3>1. CASE u = t
      BY <2>5, <2>6, <3>1
    <3>2. CASE u # t
      BY <2>5, <2>7, <3>2 DEF RevocationsAgree
    <3> QED BY <3>1, <3>2
  <2> QED BY <2>8, <2>9, <2>10
<1>4. ASSUME UNCHANGED <<tokens, managers>> PROVE Goal
  <2>1. \A u \in Tokens : Told(u) = ToldOf(u)
    BY <1>4 DEF ToldOf
  <2> HIDE DEF Told
  <2> QED BY <1>4, <2>1 DEF RevocationsAgree, RepeatedRevokeSameAnswer
<1>5. ASSUME UNCHANGED ingestionVars PROVE Goal
  BY <1>4, <1>5 DEF ingestionVars
<1>6. Goal
  BY <1>1, <1>2, <1>3, <1>4, <1>5
     DEF IngestionNext, Admit, AdmitAgain, StoreLogs, StoreSpans, StoreFails, DeleteExpired, Tick
<1> QED BY <1>6 DEF RevocationsAgree, RepeatedRevokeSameAnswer, ToldOf

-----------------------------------------------------------------------------
(* The inductive invariant of the ingestion.                               *)

LEMMA InvariantInit == Started => IInv
<1> SUFFICES ASSUME Started PROVE IInv
  OBVIOUS
<1>1. TypeOK
  BY TypeInit
<1>2. RequestsKnowTheirOwner
  BY DEF Started, Empty, Idle, RequestsKnowTheirOwner
<1>3. RowsHaveAWriter /\ RowsArePast /\ ReceiptsArePast /\ ReceiptNamesTheRow
  BY DEF Started, Empty, RowsHaveAWriter, RowsArePast, ReceiptsArePast, ReceiptNamesTheRow
<1>4. \A t \in Tokens : ToldOf(t) = {}
  BY DEF Started, Empty, AtRest, ToldOf
<1>5. RevocationsAgree /\ RepeatedRevokeSameAnswer
  BY <1>4 DEF Started, Empty, AtRest, NoToken, RevocationsAgree, RepeatedRevokeSameAnswer
<1> QED BY <1>1, <1>2, <1>3, <1>5 DEF IInv

LEMMA InvariantStep == IInv /\ [IngestionNext]_ingestionVars => IInv'
<1> SUFFICES ASSUME IInv, [IngestionNext]_ingestionVars PROVE IInv'
  OBVIOUS
<1>1. TypeOK'
  BY TypeStep DEF IInv
<1>2. RequestsKnowTheirOwner'
  BY GuardStep DEF IInv
<1>3. RowsHaveAWriter'
  BY <1>2, WriterStep DEF IInv
<1>4. RowsArePast'
  BY PastStep DEF IInv
<1>5. ReceiptsArePast' /\ ReceiptNamesTheRow'
  BY <1>1, <1>4, ReceiptStep DEF IInv
<1>6. RevocationsAgree' /\ RepeatedRevokeSameAnswer'
  BY RevocationStep DEF IInv
<1> QED BY <1>1, <1>2, <1>3, <1>4, <1>5, <1>6 DEF IInv

-----------------------------------------------------------------------------
(* The order of a waterfall.                                               *)

\* Spans have ids of their own, none of which stands for no parent.
IdsDiffer ==
    /\ spans \in Seq(Range(spans))
    /\ \A s \in Range(spans) : s.spanId \in Nat \ {NoParent} /\ s.start \in Nat
    /\ \A s, t \in Range(spans) : s.spanId = t.spanId => s = t

OnStack(s) == \E k \in DOMAIN stack : stack[k].span = s
IsDrawn(s) == \E k \in DOMAIN ordered : ordered[k].span = s
Put(s) == OnStack(s) \/ IsDrawn(s)

\* Nothing is forgotten: roots and orphans wait or are drawn, and so do the
\* children of what is drawn.
NoneForgotten ==
    /\ \A s \in Roots \cup Orphans : Put(s)
    /\ \A k \in DOMAIN ordered : \A s \in ChildrenOf(ordered[k].span.spanId) : Put(s)

AllHang ==
    /\ \A k \in DOMAIN stack : Hangs(stack[k].span)
    /\ \A k \in DOMAIN ordered : Hangs(ordered[k].span)

DeepestOnTop == \A j, k \in DOMAIN stack : j < k => stack[j].depth <= stack[k].depth

\* What waits would find its parent if it were drawn next.
WaitsUnder(lines, l, j) ==
    /\ lines[j].span.spanId = l.span.parent /\ l.depth = lines[j].depth + 1
    /\ \A i \in j + 1..Len(lines) : lines[i].depth >= l.depth

ParentsAbove ==
    /\ \A k \in DOMAIN stack :
        IF stack[k].depth = 0 THEN stack[k].span \in Roots \cup Orphans
        ELSE stack[k].span \notin Roots \cup Orphans /\ \E j \in DOMAIN ordered : WaitsUnder(ordered, stack[k], j)
    /\ \A k \in DOMAIN ordered :
        IF ordered[k].depth = 0 THEN ordered[k].span \in Roots \cup Orphans
        ELSE ordered[k].span \notin Roots \cup Orphans /\ \E j \in DOMAIN ordered : ParentLine(ordered, k, j)

InTheirOrder ==
    /\ \A j, k \in DOMAIN stack : j < k => Follows(stack[k], stack[j])
    /\ \A j \in DOMAIN ordered, k \in DOMAIN stack : Follows(ordered[j], stack[k])
    /\ \A j, k \in DOMAIN ordered : j < k => Follows(ordered[j], ordered[k])

Drawing ==
    /\ stack \in Seq(Line) /\ ordered \in Seq(Line)
    /\ EachOnce /\ NoneForgotten /\ AllHang /\ DeepestOnTop /\ ParentsAbove /\ InTheirOrder

\* A function on an interval is a sequence.
LEMMA AsSequence ==
    ASSUME NEW S, NEW n \in Nat, NEW q \in [1..n -> S]
    PROVE  q \in Seq(S) /\ Len(q) = n /\ DOMAIN q = 1..n
BY SeqDef

\* Numbers have a least one, and as many of them as bounded a greatest.
LEMMA LeastOf ==
    ASSUME NEW T, T \subseteq Nat, T # {} PROVE \E x \in T : \A y \in T : x <= y
<1> DEFINE Less == {ss \in Nat \X Nat : ss[1] < ss[2]}
<1>1. IsWellFoundedOn(Less, Nat)
  <2>1. OpToRel(<, Nat) = Less
    BY DEF OpToRel
  <2> QED BY <2>1, NatLessThanWellFounded
<1>2. \A x, y \in Nat : <<y, x>> \notin Less => x <= y
  OBVIOUS
<1> HIDE DEF Less
<1>3. \E x \in T : \A y \in T : <<y, x>> \notin Less
  BY <1>1, WFMin
<1> QED BY <1>2, <1>3

\* A set of spans put in a sequence.
LEMMA ListedOnce ==
    ASSUME NEW S, IsFiniteSet(S), NEW o \in SetToSeqs(S)
    PROVE  /\ o \in Seq(S) /\ DOMAIN o = 1..Len(o) /\ Len(o) \in Nat
           /\ \A j, k \in 1..Len(o) : o[j] = o[k] => j = k
           /\ \A s \in S : \E k \in 1..Len(o) : o[k] = s
<1> DEFINE D == 1..Cardinality(S)
<1>1. Cardinality(S) \in Nat
  BY FS_CardinalityType
<1>2. o \in [D -> S] /\ \A i, j \in D : i # j => o[i] # o[j]
  BY DEF SetToSeqs
<1>3. o \in Seq(S) /\ Len(o) = Cardinality(S) /\ DOMAIN o = D
  BY <1>1, <1>2, AsSequence
<1>4. IsFiniteSet(D) /\ Cardinality(D) = Cardinality(S)
  BY <1>1, FS_Interval
<1>5. o \in Injection(D, S)
  BY <1>2 DEF Injection, IsInjective
<1>6. o \in Surjection(D, S)
  BY <1>4, <1>5, FS_Injection
<1>7. \A s \in S : \E k \in D : o[k] = s
  BY <1>6 DEF Surjection
<1> QED BY <1>1, <1>2, <1>3, <1>7

\* The top of the stack is the first of the list.
LEMMA StackedIs ==
    ASSUME NEW S, NEW depth \in Nat, NEW list \in Seq(S)
    PROVE  /\ Stacked(depth, list) \in Seq([span : S, depth : Nat])
           /\ Len(Stacked(depth, list)) = Len(list)
           /\ \A k \in 1..Len(list) :
                /\ Stacked(depth, list)[k].span = list[Len(list) + 1 - k]
                /\ Stacked(depth, list)[k].depth = depth
<1> DEFINE q == Stacked(depth, list)
<1>1. Len(list) \in Nat /\ DOMAIN list = 1..Len(list) /\ \A k \in 1..Len(list) : list[k] \in S
  BY ElementOfSeq, LenProperties
<1>2. q = [k \in 1..Len(list) |-> [span |-> list[Len(list) + 1 - k], depth |-> depth]]
  BY <1>1 DEF Stacked
<1>3. \A k \in 1..Len(list) : Len(list) + 1 - k \in 1..Len(list)
  BY <1>1
<1>4. \A k \in 1..Len(list) : [span |-> list[Len(list) + 1 - k], depth |-> depth] \in [span : S, depth : Nat]
  BY <1>1, <1>3
<1>5. q \in [1..Len(list) -> [span : S, depth : Nat]]
  BY <1>2, <1>4
<1>6. q \in Seq([span : S, depth : Nat]) /\ Len(q) = Len(list)
  BY <1>1, <1>5, AsSequence
<1>7. \A k \in 1..Len(list) : q[k].span = list[Len(list) + 1 - k] /\ q[k].depth = depth
  BY <1>2
<1> QED BY <1>6, <1>7

\* What comes before or after what, of a list on the stack.
LEMMA FiniteSpans == IdsDiffer => IsFiniteSet(Range(spans))
<1> SUFFICES ASSUME IdsDiffer PROVE IsFiniteSet(Range(spans))
  OBVIOUS
<1>1. Len(spans) \in Nat /\ DOMAIN spans = 1..Len(spans)
  BY LenProperties DEF IdsDiffer
<1>2. IsFiniteSet(1..Len(spans))
  BY <1>1, FS_Interval
<1>3. spans \in Surjection(1..Len(spans), Range(spans))
  <2>1. spans \in [1..Len(spans) -> Range(spans)]
    BY <1>1, LenProperties DEF IdsDiffer
  <2> QED BY <1>1, <2>1 DEF Surjection, Range
<1> QED BY <1>2, <1>3, FS_Surjection

\* A span with no parent here hangs, and so does a child of one that does.
LEMMA WhatHangs ==
    IdsDiffer =>
        /\ \A s \in Roots \cup Orphans : Hangs(s)
        /\ \A p \in Range(spans) : \A s \in ChildrenOf(p.spanId) : Hangs(p) => Hangs(s)
<1> SUFFICES ASSUME IdsDiffer
             PROVE  /\ \A s \in Roots \cup Orphans : Hangs(s)
                    /\ \A p \in Range(spans) : \A s \in ChildrenOf(p.spanId) : Hangs(p) => Hangs(s)
  OBVIOUS
<1>1. ASSUME NEW s \in Roots \cup Orphans PROVE Hangs(s)
  <2> SUFFICES ASSUME NEW U \in SUBSET Present, s.spanId \in U,
                      \A t \in Range(spans) : t.spanId \in U => t.parent \in U \ {t.spanId}
               PROVE  FALSE
    BY DEF Hangs, Unrooted
  <2>1. s \in Range(spans)
    BY DEF Roots, Orphans
  <2>2. s.parent \in Present /\ s.parent # s.spanId
    BY <2>1
  <2>3. s.parent # NoParent
    BY <2>2 DEF Present, IdsDiffer
  <2> QED BY <2>2, <2>3 DEF Roots, Orphans
<1>2. ASSUME NEW p \in Range(spans), NEW s \in ChildrenOf(p.spanId), Hangs(p) PROVE Hangs(s)
  <2> SUFFICES ASSUME NEW U \in SUBSET Present, s.spanId \in U,
                      \A t \in Range(spans) : t.spanId \in U => t.parent \in U \ {t.spanId}
               PROVE  FALSE
    BY DEF Hangs, Unrooted
  <2>1. s \in Range(spans) /\ s.parent = p.spanId
    BY DEF ChildrenOf
  <2>2. p.spanId \in U
    BY <2>1
  <2> QED BY <1>2, <2>2 DEF Hangs, Unrooted
<1> QED BY <1>1, <1>2
\* The loop begins with the roots and the orphans on the stack.
LEMMA BeginDraws ==
    ASSUME NEW given, Begin(given), IdsDiffer'
    PROVE  Drawing'
<1>0. \A s \in Roots' \cup Orphans' : Hangs(s)'
  <2>1. (IdsDiffer => \A s \in Roots \cup Orphans : Hangs(s))'
    BY WhatHangs, PTL
  <2> QED BY <2>1
<1>1. PICK roots \in Sorted(Roots)', orphans \in Sorted(Orphans)' : stack' = Stacked(0, roots \o orphans)
  BY DEF Begin
<1>2. IsFiniteSet(Range(spans'))
  <2>1. (IdsDiffer => IsFiniteSet(Range(spans)))'
    BY FiniteSpans, PTL
  <2> QED BY <2>1
<1>3. IsFiniteSet(Roots') /\ IsFiniteSet(Orphans')
  <2>1. Roots' \subseteq Range(spans') /\ Orphans' \subseteq Range(spans')
    BY DEF Roots, Orphans
  <2> QED BY <1>2, <2>1, FS_Subset
<1>4. roots \in SetToSeqs(Roots') /\ \A j, k \in DOMAIN roots : j < k => ByStart(roots[j], roots[k])
  BY DEF Sorted
<1>5. orphans \in SetToSeqs(Orphans') /\ \A j, k \in DOMAIN orphans : j < k => ByStart(orphans[j], orphans[k])
  BY DEF Sorted
<1>6. /\ roots \in Seq(Roots') /\ DOMAIN roots = 1..Len(roots) /\ Len(roots) \in Nat
      /\ \A j, k \in 1..Len(roots) : roots[j] = roots[k] => j = k
      /\ \A s \in Roots' : \E k \in 1..Len(roots) : roots[k] = s
  BY <1>3, <1>4, ListedOnce
<1>7. /\ orphans \in Seq(Orphans') /\ DOMAIN orphans = 1..Len(orphans) /\ Len(orphans) \in Nat
      /\ \A j, k \in 1..Len(orphans) : orphans[j] = orphans[k] => j = k
      /\ \A s \in Orphans' : \E k \in 1..Len(orphans) : orphans[k] = s
  BY <1>3, <1>5, ListedOnce
<1> DEFINE Top == Roots' \cup Orphans'
           list == roots \o orphans
           n == Len(list)
<1>8. roots \in Seq(Top) /\ orphans \in Seq(Top)
  BY <1>6, <1>7, SeqMonotonic
<1>9. /\ list \in Seq(Top) /\ n = Len(roots) + Len(orphans) /\ n \in Nat
      /\ \A i \in 1..n : list[i] = IF i <= Len(roots) THEN roots[i] ELSE orphans[i - Len(roots)]
  BY <1>6, <1>7, <1>8, ConcatProperties
<1>10. /\ \A i \in 1..Len(roots) : roots[i] \in Roots'
       /\ \A i \in 1..Len(orphans) : orphans[i] \in Orphans'
  BY <1>6, <1>7, ElementOfSeq
<1>11. Roots' \cap Orphans' = {}
  BY DEF Roots, Orphans
<1>12. \A i \in 1..n : \/ i <= Len(roots) /\ i \in 1..Len(roots) /\ list[i] = roots[i] /\ list[i] \in Roots'
                       \/ i > Len(roots) /\ i - Len(roots) \in 1..Len(orphans) /\ list[i] = orphans[i - Len(roots)]
                            /\ list[i] \in Orphans'
  BY <1>6, <1>7, <1>9, <1>10
<1> HIDE DEF list, n
<1>13. \A j, k \in 1..n : list[j] = list[k] => j = k
  <2> TAKE j, k \in 1..n
  <2>0. j \in Int /\ k \in Int /\ Len(roots) \in Int
    BY <1>6, <1>9
  <2> QED BY <1>6, <1>7, <1>11, <1>12, <2>0
<1>14. \A s \in Top : \E k \in 1..n : list[k] = s
  <2>1. ASSUME NEW s \in Roots' PROVE \E k \in 1..n : list[k] = s
    <3>1. PICK k \in 1..Len(roots) : roots[k] = s
      BY <1>6
    <3>2. k \in 1..n /\ list[k] = s
      BY <1>6, <1>7, <1>9, <3>1
    <3> QED BY <3>2
  <2>2. ASSUME NEW s \in Orphans' PROVE \E k \in 1..n : list[k] = s
    <3>1. PICK k \in 1..Len(orphans) : orphans[k] = s
      BY <1>7
    <3>2. Len(roots) + k \in 1..n /\ ~(Len(roots) + k <= Len(roots)) /\ Len(roots) + k - Len(roots) = k
      BY <1>6, <1>7, <1>9
    <3>3. list[Len(roots) + k] = s
      BY <1>9, <3>1, <3>2 DEF n
    <3> QED BY <3>2, <3>3
  <2> QED BY <2>1, <2>2
<1>15. /\ stack' \in Seq([span : Top, depth : Nat]) /\ Len(stack') = n
       /\ \A k \in 1..n : stack'[k].span = list[n + 1 - k] /\ stack'[k].depth = 0
  <2>1. 0 \in Nat
    OBVIOUS
  <2>2. /\ Stacked(0, list) \in Seq([span : Top, depth : Nat])
        /\ Len(Stacked(0, list)) = Len(list)
        /\ \A k \in 1..Len(list) :
             /\ Stacked(0, list)[k].span = list[Len(list) + 1 - k]
             /\ Stacked(0, list)[k].depth = 0
    <3> HIDE DEF Top
    <3> QED BY <1>9, <2>1, StackedIs
  <2>3. stack' = Stacked(0, list)
    BY <1>1 DEF list
  <2> QED BY <2>2, <2>3 DEF n
<1>16. DOMAIN stack' = 1..n /\ \A k \in 1..n : n + 1 - k \in 1..n
  BY <1>9, <1>15, LenProperties
<1>17. ordered' = <<>> /\ DOMAIN ordered' = {}
  BY DEF Begin
<1>18. Top \subseteq Range(spans')
  BY DEF Roots, Orphans
<1>19. stack' \in Seq(Line') /\ ordered' \in Seq(Line')
  <2>1. [span : Top, depth : Nat] \subseteq Line'
    BY <1>18 DEF Line
  <2>2. stack' \in Seq(Line')
    BY <1>15, <2>1, SeqMonotonic
  <2> QED BY <1>17, <2>2, EmptySeq
<1>20. \A k \in 1..n : list[k] \in Top
  BY <1>9, ElementOfSeq DEF n
<1>21. EachOnce'
  <2>1. ASSUME NEW j \in 1..n, NEW k \in 1..n, stack'[j].span.spanId = stack'[k].span.spanId PROVE j = k
    <3>1. list[n + 1 - j].spanId = list[n + 1 - k].spanId
      BY <1>15, <2>1
    <3>3. list[n + 1 - j] \in Range(spans') /\ list[n + 1 - k] \in Range(spans')
      BY <1>16, <1>18, <1>20, <2>1
    <3>4. list[n + 1 - j] = list[n + 1 - k]
      BY <3>1, <3>3 DEF IdsDiffer
    <3>2. n + 1 - j = n + 1 - k
      BY <1>13, <1>16, <3>4
    <3> QED BY <1>9, <3>2
  <2>2. Emitted' = {}
    BY <1>17 DEF Emitted
  <2> QED BY <1>16, <1>17, <2>1, <2>2 DEF EachOnce
<1>22. NoneForgotten'
  <2>1. ASSUME NEW s \in Top PROVE Put(s)'
    <3>1. PICK k \in 1..n : list[k] = s
      BY <1>14
    <3>2. n + 1 - k \in 1..n /\ n + 1 - (n + 1 - k) = k
      BY <1>9
    <3>3. stack'[n + 1 - k].span = s
      BY <1>15, <3>1, <3>2
    <3> QED BY <1>16, <3>2, <3>3 DEF Put, OnStack
  <2> QED BY <1>17, <2>1 DEF NoneForgotten
<1>23. AllHang'
  <2>1. \A k \in DOMAIN stack' : stack'[k].span \in Top
    BY <1>15, <1>16, <1>20
  <2> QED BY <1>0, <1>17, <2>1 DEF AllHang, Hangs
<1>24. DeepestOnTop'
  <2>1. \A k \in DOMAIN stack' : stack'[k].depth = 0
    BY <1>15, <1>16
  <2> QED BY <2>1 DEF DeepestOnTop
<1>25. ParentsAbove'
  BY <1>15, <1>16, <1>17, <1>20 DEF ParentsAbove
<1>26. InTheirOrder'
  <2>1. ASSUME NEW j \in 1..n, NEW k \in 1..n, j < k PROVE Follows(stack[k], stack[j])'
    <3> DEFINE a == n + 1 - k
               b == n + 1 - j
    <3>1. a \in 1..n /\ b \in 1..n /\ a < b
      BY <1>9, <2>1
    <3>2. stack'[k].span = list[a] /\ stack'[j].span = list[b] /\ stack'[k].depth = 0 /\ stack'[j].depth = 0
      BY <1>15
    <3> HIDE DEF a, b
    <3>3. \A s \in Top : Hangs(s)'
      BY <1>0
    <3>4. /\ \A s \in Roots' : Rank(s)' = 0
          /\ \A s \in Orphans' : Rank(s)' = 1
      BY <3>3 DEF Rank, Roots, Orphans
    <3>5. Hangs(list[a])'
      BY <1>20, <3>1, <3>3
    <3>6. CASE b <= Len(roots)
      <4>1. a \in 1..Len(roots) /\ b \in 1..Len(roots)
        BY <1>6, <1>9, <3>1, <3>6
      <4>2. list[a] = roots[a] /\ list[b] = roots[b] /\ list[a] \in Roots' /\ list[b] \in Roots'
        BY <1>9, <1>10, <3>1, <4>1
      <4>3. ByStart(list[a], list[b])
        BY <1>4, <1>6, <3>1, <4>1, <4>2
      <4> QED BY <3>2, <3>4, <3>5, <4>2, <4>3 DEF Follows
    <3>7. CASE a <= Len(roots) /\ b > Len(roots)
      <4>1. list[a] \in Roots' /\ list[b] \in Orphans'
        BY <1>6, <1>12, <3>1, <3>7, SMTT(20)
      <4>2. Rank(list[a])' = 0 /\ Rank(list[b])' = 1
        BY <3>4, <4>1
      <4> QED BY <3>2, <4>2 DEF Follows
    <3>8. CASE a > Len(roots)
      <4>1. b > Len(roots) /\ a - Len(roots) < b - Len(roots)
        BY <1>6, <1>9, <3>1, <3>8
      <4>2. /\ a - Len(roots) \in 1..Len(orphans) /\ b - Len(roots) \in 1..Len(orphans)
            /\ list[a] = orphans[a - Len(roots)] /\ list[b] = orphans[b - Len(roots)]
            /\ list[a] \in Orphans' /\ list[b] \in Orphans'
        <5>1. ~(a <= Len(roots)) /\ ~(b <= Len(roots))
          BY <1>6, <3>1, <3>8, <4>1
        <5> QED BY <1>12, <3>1, <5>1
      <4>3. ByStart(list[a], list[b])
        BY <1>5, <1>7, <4>1, <4>2
      <4> QED BY <3>2, <3>4, <3>5, <4>2, <4>3 DEF Follows
    <3>9. a \in Int /\ b \in Int /\ Len(roots) \in Int
      BY <1>6, <1>9, <3>1
    <3> QED BY <3>6, <3>7, <3>8, <3>9
  <2> QED BY <1>16, <1>17, <2>1 DEF InTheirOrder
<1> QED BY <1>19, <1>21, <1>22, <1>23, <1>24, <1>25, <1>26 DEF Drawing
\* A round of the loop takes what is on the top, draws it and puts its
\* children in its place.
LEMMA RoundIs ==
    ASSUME IdsDiffer, Drawing, Round
    PROVE  LET n == Len(stack)
               next == stack[n]
           IN  /\ n \in Nat \ {0} /\ next \in Line /\ Len(ordered) \in Nat
               /\ DOMAIN stack = 1..n /\ DOMAIN ordered = 1..Len(ordered)
               /\ next.span.spanId \notin Emitted
               /\ ordered' \in Seq(Line) /\ stack' \in Seq(Line)
               /\ Len(ordered') = Len(ordered) + 1 /\ DOMAIN ordered' = 1..Len(ordered) + 1
               /\ \A k \in 1..Len(ordered) : ordered'[k] = ordered[k]
               /\ ordered'[Len(ordered) + 1] = next
               /\ DOMAIN stack' = 1..Len(stack') /\ Len(stack') \in Nat /\ n - 1 <= Len(stack')
               /\ \A k \in 1..n - 1 : stack'[k] = stack[k]
               /\ \A k \in n..Len(stack') :
                    /\ stack'[k].depth = next.depth + 1
                    /\ stack'[k].span \in ChildrenOf(next.span.spanId)
                    /\ stack'[k].span.spanId \notin Emitted'
               /\ \A j, k \in n..Len(stack') : j < k => ByStart(stack'[k].span, stack'[j].span)
               /\ \A j, k \in n..Len(stack') : stack'[j].span = stack'[k].span => j = k
               /\ \A s \in ChildrenOf(next.span.spanId) :
                    s.spanId \in Emitted' \/ \E k \in n..Len(stack') : stack'[k].span = s
<1> DEFINE n == Len(stack)
           next == stack[n]
           m == Len(ordered)
<1>1. stack \in Seq(Line) /\ ordered \in Seq(Line) /\ stack # <<>>
  BY DEF Drawing, Round
<1>2. n \in Nat \ {0} /\ DOMAIN stack = 1..n /\ m \in Nat /\ DOMAIN ordered = 1..m
  BY <1>1, EmptySeq, LenProperties
<1>3. /\ \A k \in 1..n : stack[k] \in Line
      /\ \A k \in 1..m : ordered[k] \in Line
  BY <1>1, ElementOfSeq
<1>4. n \in 1..n /\ next \in Line
  BY <1>2, <1>3
<1>5. next.span.spanId \notin Emitted
  BY <1>2, <1>4 DEF Drawing, EachOnce
<1>6. Last(stack) = next /\ Front(stack) = SubSeq(stack, 1, n - 1)
  BY DEF Last, Front
<1> DEFINE new == {c \in ChildrenOf(next.span.spanId) : c.spanId \notin Emitted'}
           rest == SubSeq(stack, 1, n - 1)
<1>7. ordered' = Append(ordered, next) /\ spans' = spans
  BY <1>5, <1>6 DEF Round
<1>8. PICK children \in Sorted(new) : stack' = rest \o Stacked(next.depth + 1, children)
  BY <1>5, <1>6 DEF Round
<1>9. /\ ordered' \in Seq(Line) /\ Len(ordered') = m + 1
      /\ \A k \in 1..m : ordered'[k] = ordered[k]
      /\ ordered'[m + 1] = next
  BY <1>1, <1>4, <1>7, AppendProperties
<1>10. DOMAIN ordered' = 1..m + 1
  BY <1>9, LenProperties
<1>11. IsFiniteSet(new) /\ new \subseteq Range(spans)
  <2>1. new \subseteq Range(spans)
    BY DEF ChildrenOf
  <2> QED BY <2>1, FiniteSpans, FS_Subset
<1>12. children \in SetToSeqs(new) /\ \A j, k \in DOMAIN children : j < k => ByStart(children[j], children[k])
  BY DEF Sorted
<1> DEFINE c == Len(children)
<1>13. /\ children \in Seq(new) /\ DOMAIN children = 1..c /\ c \in Nat
       /\ \A j, k \in 1..c : children[j] = children[k] => j = k
       /\ \A s \in new : \E k \in 1..c : children[k] = s
  <2> HIDE DEF new
  <2> QED BY <1>11, <1>12, ListedOnce
<1>14. \A k \in 1..c : children[k] \in new
  BY <1>13, ElementOfSeq
<1>15. next.depth + 1 \in Nat /\ next.depth \in Nat
  BY <1>4 DEF Line
<1> DEFINE put == Stacked(next.depth + 1, children)
<1>16. /\ put \in Seq([span : new, depth : Nat]) /\ Len(put) = c
       /\ \A k \in 1..c : put[k].span = children[c + 1 - k] /\ put[k].depth = next.depth + 1
  <2> DEFINE d == next.depth + 1
  <2>1. d \in Nat /\ children \in Seq(new)
    BY <1>13, <1>15
  <2> HIDE DEF new, d
  <2>2. /\ Stacked(d, children) \in Seq([span : new, depth : Nat])
        /\ Len(Stacked(d, children)) = Len(children)
        /\ \A k \in 1..Len(children) :
             /\ Stacked(d, children)[k].span = children[Len(children) + 1 - k]
             /\ Stacked(d, children)[k].depth = d
    BY <2>1, StackedIs
  <2> QED BY <2>2 DEF d
<1>17. put \in Seq(Line)
  <2>1. [span : new, depth : Nat] \subseteq Line
    BY <1>11 DEF Line
  <2> QED BY <1>16, <2>1, SeqMonotonic
<1>18. /\ rest \in Seq(Line) /\ Len(rest) = n - 1
       /\ \A k \in 1..n - 1 : rest[k] = stack[k]
  <2>1. 1 \in Int /\ n - 1 \in Int /\ \A k \in 1..n - 1 : stack[k] \in Line
    BY <1>2, <1>3
  <2>2. /\ SubSeq(stack, 1, n - 1) \in Seq(Line)
        /\ Len(SubSeq(stack, 1, n - 1)) = IF 1 <= n - 1 THEN n - 1 - 1 + 1 ELSE 0
        /\ \A i \in 1..n - 1 - 1 + 1 : SubSeq(stack, 1, n - 1)[i] = stack[1 + i - 1]
    BY <2>1, SubSeqProperties
  <2> QED BY <1>2, <2>2
<1> HIDE DEF put, rest, new, n, next, m, c
<1>19. /\ stack' \in Seq(Line) /\ Len(stack') = n - 1 + c
       /\ \A i \in 1..n - 1 + c : stack'[i] = IF i <= n - 1 THEN rest[i] ELSE put[i - (n - 1)]
  <2>1. stack' = rest \o put
    BY <1>8 DEF put
  <2>2. /\ rest \o put \in Seq(Line) /\ Len(rest \o put) = Len(rest) + Len(put)
        /\ \A i \in 1..Len(rest) + Len(put) :
             (rest \o put)[i] = IF i <= Len(rest) THEN rest[i] ELSE put[i - Len(rest)]
    BY <1>17, <1>18, ConcatProperties
  <2> QED BY <1>16, <1>18, <2>1, <2>2
<1>20. DOMAIN stack' = 1..Len(stack') /\ Len(stack') \in Nat /\ n - 1 <= Len(stack')
  BY <1>2, <1>13, <1>19, LenProperties
<1>21. \A k \in 1..n - 1 : stack'[k] = stack[k]
  BY <1>2, <1>13, <1>18, <1>19
<1>22. \A k \in n..Len(stack') :
         /\ n + c - k \in 1..c /\ stack'[k].span = children[n + c - k] /\ stack'[k].depth = next.depth + 1
  <2> TAKE k \in n..Len(stack')
  <2>1. k \in 1..n - 1 + c /\ ~(k <= n - 1) /\ k - (n - 1) \in 1..c /\ c + 1 - (k - (n - 1)) = n + c - k
    BY <1>2, <1>13, <1>19
  <2>2. stack'[k] = put[k - (n - 1)]
    BY <1>19, <2>1
  <2>3. n + c - k \in 1..c
    BY <1>2, <1>13, <1>19
  <2> QED BY <1>16, <2>1, <2>2, <2>3
<1>23. \A j, k \in n..Len(stack') : j < k => ByStart(stack'[k].span, stack'[j].span)
  <2> TAKE j, k \in n..Len(stack')
  <2>1. j < k => n + c - k < n + c - j
    BY <1>2, <1>13, <1>19
  <2> QED BY <1>12, <1>13, <1>22, <2>1
<1>24. \A j, k \in n..Len(stack') : stack'[j].span = stack'[k].span => j = k
  <2> TAKE j, k \in n..Len(stack')
  <2>1. n + c - j = n + c - k => j = k
    BY <1>2, <1>13, <1>19
  <2> QED BY <1>13, <1>22, <2>1
<1>25. \A s \in new : \E k \in n..Len(stack') : stack'[k].span = s
  <2> TAKE s \in new
  <2>1. PICK i \in 1..c : children[i] = s
    BY <1>13
  <2>2. n + c - i \in n..Len(stack') /\ n + c - (n + c - i) = i
    BY <1>2, <1>13, <1>19
  <2> QED BY <1>22, <2>1, <2>2
<1>26. \A k \in n..Len(stack') :
         stack'[k].span \in ChildrenOf(next.span.spanId) /\ stack'[k].span.spanId \notin Emitted'
  BY <1>14, <1>22 DEF new
<1>27. \A s \in ChildrenOf(next.span.spanId) : s.spanId \in Emitted' \/ \E k \in n..Len(stack') : stack'[k].span = s
  BY <1>25 DEF new
<1> QED BY <1>2, <1>4, <1>5, <1>9, <1>10, <1>19, <1>20, <1>21, <1>22, <1>23, <1>24, <1>26, <1>27 DEF n, next, m
\* What only the spans decide stays when they do.
LEMMA SameSpans ==
    ASSUME spans' = spans
    PROVE  /\ Line' = Line /\ IdsDiffer' = IdsDiffer
           /\ Roots' = Roots /\ Orphans' = Orphans
           /\ \A id : ChildrenOf(id)' = ChildrenOf(id)
           /\ \A s : Hangs(s)' = Hangs(s)
           /\ \A l, m : Follows(l, m)' = Follows(l, m)
           /\ Unrooted' = Unrooted
<1>1. Line' = Line /\ IdsDiffer' = IdsDiffer /\ Roots' = Roots /\ Present' = Present
  BY DEF Line, IdsDiffer, Roots, Present
<1>2. Orphans' = Orphans
  BY <1>1 DEF Orphans
<1>3. \A id : ChildrenOf(id)' = ChildrenOf(id)
  BY <1>1, <1>2 DEF ChildrenOf
<1>4. Unrooted' = Unrooted
  BY <1>1 DEF Unrooted
<1>5. \A s : Hangs(s)' = Hangs(s)
  BY <1>4 DEF Hangs
<1>6. \A s : Rank(s)' = Rank(s)
  BY <1>4 DEF Rank, Hangs
<1>7. \A l, m : Follows(l, m)' = Follows(l, m)
  BY <1>4 DEF Follows, GivenBefore, Rank, Hangs
<1> QED BY <1>1, <1>2, <1>3, <1>4, <1>5, <1>7

LEMMA RoundDraws ==
    ASSUME IdsDiffer, Drawing, Round
    PROVE  Drawing'
<1> DEFINE n == Len(stack)
           next == stack[n]
           m == Len(ordered)
<1>1. /\ n \in Nat \ {0} /\ next \in Line /\ m \in Nat
      /\ DOMAIN stack = 1..n /\ DOMAIN ordered = 1..m
      /\ next.span.spanId \notin Emitted
      /\ ordered' \in Seq(Line) /\ stack' \in Seq(Line)
      /\ DOMAIN ordered' = 1..m + 1 /\ Len(ordered') = m + 1
      /\ \A k \in 1..m : ordered'[k] = ordered[k]
      /\ ordered'[m + 1] = next
      /\ DOMAIN stack' = 1..Len(stack') /\ Len(stack') \in Nat /\ n - 1 <= Len(stack')
      /\ \A k \in 1..n - 1 : stack'[k] = stack[k]
  BY RoundIs
<1>2. /\ \A k \in n..Len(stack') :
           /\ stack'[k].depth = next.depth + 1
           /\ stack'[k].span \in ChildrenOf(next.span.spanId)
           /\ stack'[k].span.spanId \notin Emitted'
      /\ \A j, k \in n..Len(stack') : j < k => ByStart(stack'[k].span, stack'[j].span)
      /\ \A j, k \in n..Len(stack') : stack'[j].span = stack'[k].span => j = k
      /\ \A s \in ChildrenOf(next.span.spanId) :
           s.spanId \in Emitted' \/ \E k \in n..Len(stack') : stack'[k].span = s
  BY RoundIs
<1>3. spans' = spans
  BY DEF Round
<1>4. /\ Line' = Line
      /\ Roots' = Roots /\ Orphans' = Orphans
      /\ \A id : ChildrenOf(id)' = ChildrenOf(id)
      /\ \A s : Hangs(s)' = Hangs(s)
      /\ \A l, r : Follows(l, r)' = Follows(l, r)
  BY <1>3, SameSpans
<1> DEFINE Old == 1..n - 1
           New == n..Len(stack')
<1> HIDE DEF n, next, m
<1>0. /\ \A j, k \in 1..n : stack[j].span.spanId = stack[k].span.spanId => j = k
      /\ \A j, k \in 1..m : ordered[j].span.spanId = ordered[k].span.spanId => j = k
      /\ \A k \in 1..n : stack[k].span.spanId \notin Emitted
      /\ \A k \in 1..n : Hangs(stack[k].span)
      /\ \A k \in 1..m : Hangs(ordered[k].span)
      /\ \A j, k \in 1..n : j < k => stack[j].depth <= stack[k].depth
      /\ \A k \in 1..n :
          IF stack[k].depth = 0 THEN stack[k].span \in Roots \cup Orphans
          ELSE stack[k].span \notin Roots \cup Orphans /\ \E j \in 1..m : WaitsUnder(ordered, stack[k], j)
      /\ \A k \in 1..m :
          IF ordered[k].depth = 0 THEN ordered[k].span \in Roots \cup Orphans
          ELSE ordered[k].span \notin Roots \cup Orphans /\ \E j \in 1..m : ParentLine(ordered, k, j)
      /\ \A j, k \in 1..n : j < k => Follows(stack[k], stack[j])
      /\ \A j \in 1..m, k \in 1..n : Follows(ordered[j], stack[k])
      /\ \A j, k \in 1..m : j < k => Follows(ordered[j], ordered[k])
  <2>1. EachOnce /\ AllHang /\ DeepestOnTop /\ ParentsAbove /\ InTheirOrder
    BY DEF Drawing
  <2>2. DOMAIN stack = 1..n /\ DOMAIN ordered = 1..m
    BY <1>1
  <2> QED BY <2>1, <2>2 DEF EachOnce, AllHang, DeepestOnTop, ParentsAbove, InTheirOrder
<1>5. \A k \in 1..Len(stack') : k \in Old \/ k \in New
  BY <1>1
<1>6. \A k \in Old : k \in 1..n /\ stack'[k] = stack[k]
  BY <1>1
<1>7. n \in 1..n /\ stack[n] = next /\ next.span \in Range(spans) /\ next.depth \in Nat
  BY <1>1 DEF next, Line
<1>8. /\ \A k \in 1..n : stack[k] \in Line
      /\ \A k \in 1..m : ordered[k] \in Line
      /\ \A k \in 1..Len(stack') : stack'[k] \in Line
      /\ \A k \in 1..m + 1 : ordered'[k] \in Line
  BY <1>1, ElementOfSeq DEF Drawing, n, m
<1>9. /\ \A k \in 1..n : stack[k].span \in Range(spans) /\ stack[k].depth \in Nat
      /\ \A k \in 1..m : ordered[k].span \in Range(spans) /\ ordered[k].depth \in Nat
  BY <1>8 DEF Line
<1>10. Emitted' = Emitted \cup {next.span.spanId}
  <2>1. Emitted = {ordered[k].span.spanId : k \in 1..m}
    BY <1>1 DEF Emitted
  <2>2. Emitted' = {ordered'[k].span.spanId : k \in 1..m + 1}
    BY <1>1 DEF Emitted
  <2> QED BY <1>1, <2>1, <2>2
<1>11. \A s, t \in Range(spans) : s.spanId = t.spanId => s = t
  BY DEF IdsDiffer
\* A child has its parent, and no other place.
<1>12. \A s \in ChildrenOf(next.span.spanId) :
         s \in Range(spans) /\ s \notin Roots \cup Orphans /\ s.parent = next.span.spanId
  BY DEF ChildrenOf
\* Nothing that has waited or was drawn is a child of what comes now.
<1>13. /\ \A k \in 1..n : stack[k].span \notin ChildrenOf(next.span.spanId)
       /\ \A k \in 1..m : ordered[k].span \notin ChildrenOf(next.span.spanId)
  <2>1. ASSUME NEW l \in Line, l.span \in ChildrenOf(next.span.spanId),
               \E j \in 1..m : ordered[j].span.spanId = l.span.parent
        PROVE  FALSE
    <3>1. next.span.spanId \in Emitted
      BY <1>1, <1>12, <2>1 DEF Emitted
    <3> QED BY <1>1, <3>1
  <2>2. ASSUME NEW k \in 1..n, stack[k].span \in ChildrenOf(next.span.spanId) PROVE FALSE
    <3>1. \E j \in 1..m : ordered[j].span.spanId = stack[k].span.parent
      BY <1>0, <1>12, <2>2 DEF WaitsUnder
    <3> QED BY <1>8, <2>1, <2>2, <3>1
  <2>3. ASSUME NEW k \in 1..m, ordered[k].span \in ChildrenOf(next.span.spanId) PROVE FALSE
    <3>1. \E j \in 1..m : ordered[j].span.spanId = ordered[k].span.parent
      BY <1>0, <1>12, <2>3 DEF ParentLine
    <3> QED BY <1>8, <2>1, <2>3, <3>1
  <2> QED BY <2>2, <2>3
<1>14. EachOnce'
  <2>1. ASSUME NEW j \in 1..Len(stack'), NEW k \in 1..Len(stack'),
               stack'[j].span.spanId = stack'[k].span.spanId
        PROVE  j = k
    <3>1. stack'[j].span = stack'[k].span
      BY <1>8, <1>11, <2>1 DEF Line
    <3>2. CASE j \in Old /\ k \in Old
      BY <1>0, <1>1, <1>6, <2>1, <3>2
    <3>3. CASE j \in New /\ k \in New
      BY <1>2, <3>1, <3>3
    <3>4. CASE j \in Old /\ k \in New
      BY <1>2, <1>6, <1>13, <3>1, <3>4
    <3>5. CASE j \in New /\ k \in Old
      BY <1>2, <1>6, <1>13, <3>1, <3>5
    <3> QED BY <1>5, <3>2, <3>3, <3>4, <3>5
  <2>2. ASSUME NEW j \in 1..m + 1, NEW k \in 1..m + 1,
               ordered'[j].span.spanId = ordered'[k].span.spanId
        PROVE  j = k
    <3>1. \A i \in 1..m : ordered[i].span.spanId \in Emitted
      BY <1>1 DEF Emitted
    <3>2. CASE j \in 1..m /\ k \in 1..m
      BY <1>0, <1>1, <2>2, <3>2
    <3>3. CASE j = m + 1 /\ k \in 1..m
      BY <1>1, <2>2, <3>1, <3>3
    <3>4. CASE j \in 1..m /\ k = m + 1
      BY <1>1, <2>2, <3>1, <3>4
    <3> QED BY <1>1, <3>2, <3>3, <3>4
  <2>3. ASSUME NEW k \in 1..Len(stack') PROVE stack'[k].span.spanId \notin Emitted'
    <3>1. CASE k \in New
      BY <1>2, <3>1
    <3>2. CASE k \in Old
      <4>1. stack[k].span.spanId \notin Emitted
        BY <1>0, <1>6, <3>2
      <4>2. k # n
        BY <1>1, <3>2
      <4>3. stack[k].span.spanId # next.span.spanId
        BY <1>0, <1>6, <1>7, <3>2, <4>2
      <4> QED BY <1>6, <1>10, <3>2, <4>1, <4>3
    <3> QED BY <1>5, <3>1, <3>2
  <2> QED BY <1>1, <2>1, <2>2, <2>3 DEF EachOnce
<1>15. NoneForgotten'
  <2>1. ASSUME NEW s, Put(s) PROVE Put(s)'
    <3>1. CASE IsDrawn(s)
      <4>1. PICK k \in 1..m : ordered[k].span = s
        BY <1>1, <3>1 DEF IsDrawn
      <4>2. k \in 1..m + 1 /\ ordered'[k].span = s
        BY <1>1, <4>1
      <4> QED BY <1>1, <4>2 DEF Put, IsDrawn
    <3>2. CASE OnStack(s)
      <4>1. PICK k \in 1..n : stack[k].span = s
        BY <1>1, <3>2 DEF OnStack
      <4>2. CASE k = n
        <5>1. m + 1 \in 1..m + 1 /\ ordered'[m + 1].span = s
          BY <1>1, <1>7, <4>1, <4>2
        <5> QED BY <1>1, <5>1 DEF Put, IsDrawn
      <4>3. CASE k # n
        <5>1. k \in Old /\ k \in 1..Len(stack')
          BY <1>1, <4>3
        <5> QED BY <1>1, <1>6, <4>1, <5>1 DEF Put, OnStack
      <4> QED BY <4>2, <4>3
    <3> QED BY <2>1, <3>1, <3>2 DEF Put
  <2>2. \A s \in Roots \cup Orphans : Put(s)'
    BY <2>1 DEF Drawing, NoneForgotten
  <2>3. ASSUME NEW k \in 1..m + 1, NEW s \in ChildrenOf(ordered'[k].span.spanId) PROVE Put(s)'
    <3>1. CASE k \in 1..m
      BY <1>1, <2>1, <2>3, <3>1 DEF Drawing, NoneForgotten
    <3>2. CASE k = m + 1
      <4>1. s \in ChildrenOf(next.span.spanId)
        BY <1>1, <2>3, <3>2
      <4>2. CASE \E i \in New : stack'[i].span = s
        <5>1. PICK i \in New : stack'[i].span = s
          BY <4>2
        <5>2. i \in 1..Len(stack')
          BY <1>1
        <5> QED BY <1>1, <5>1, <5>2 DEF Put, OnStack
      <4>3. CASE s.spanId \in Emitted'
        <5>1. PICK i \in 1..m + 1 : ordered'[i].span.spanId = s.spanId
          BY <1>1, <4>3 DEF Emitted
        <5>2. ordered'[i].span = s
          BY <1>8, <1>11, <1>12, <4>1, <5>1 DEF Line
        <5> QED BY <1>1, <5>2 DEF Put, IsDrawn
      <4> QED BY <1>2, <4>1, <4>2, <4>3
    <3> QED BY <1>1, <3>1, <3>2
  <2> QED BY <1>1, <1>4, <2>2, <2>3 DEF NoneForgotten
<1>16. AllHang'
  <2>1. Hangs(next.span)
    BY <1>0, <1>7
  <2>2. \A s \in ChildrenOf(next.span.spanId) : Hangs(s)
    BY <1>7, <2>1, WhatHangs
  <2>3. \A k \in 1..Len(stack') : Hangs(stack'[k].span)
    BY <1>0, <1>2, <1>5, <1>6, <2>2
  <2>4. \A k \in 1..m + 1 : Hangs(ordered'[k].span)
    <3>1. \A k \in 1..m + 1 : k \in 1..m \/ k = m + 1
      BY <1>1
    <3> QED BY <1>0, <1>1, <2>1, <3>1
  <2> QED BY <1>1, <1>3, <2>3, <2>4, SameSpans DEF AllHang, Hangs
<1>17. \A k \in 1..n : stack[k].depth <= next.depth
  <2> TAKE k \in 1..n
  <2>1. k = n \/ k < n
    BY <1>1
  <2> QED BY <1>0, <1>7, <2>1
<1>18. DeepestOnTop'
  <2>1. ASSUME NEW j \in 1..Len(stack'), NEW k \in 1..Len(stack'), j < k PROVE stack'[j].depth <= stack'[k].depth
    <3>1. CASE k \in Old
      BY <1>0, <1>1, <1>6, <2>1, <3>1
    <3>2. CASE j \in Old /\ k \in New
      BY <1>2, <1>6, <1>7, <1>9, <1>17, <3>2
    <3>3. CASE j \in New /\ k \in New
      BY <1>2, <1>7, <3>3
    <3>4. k \in New \/ k \in Old
      BY <1>5
    <3>5. j \in New \/ j \in Old
      BY <1>5
    <3> QED BY <3>1, <3>2, <3>3, <3>4, <3>5
  <2> QED BY <1>1, <2>1 DEF DeepestOnTop
<1>19. ParentsAbove'
  <2>1. ASSUME NEW k \in Old, stack[k].depth # 0
        PROVE  \E j \in 1..m + 1 : WaitsUnder(ordered', stack[k], j)
    <3>1. PICK j \in 1..m : WaitsUnder(ordered, stack[k], j)
      BY <1>0, <1>6, <2>1
    <3>2. j \in 1..m + 1 /\ ordered'[j] = ordered[j]
      BY <1>1
    <3>3. \A i \in j + 1..m + 1 : ordered'[i].depth >= stack[k].depth
      <4> TAKE i \in j + 1..m + 1
      <4>1. CASE i = m + 1
        BY <1>1, <1>6, <1>7, <1>9, <1>17, <4>1
      <4>2. CASE i # m + 1
        <5>1. i \in j + 1..m /\ i \in 1..m
          BY <1>1, <4>2
        <5> QED BY <1>1, <3>1, <5>1 DEF WaitsUnder, m
      <4> QED BY <4>1, <4>2
    <3> QED BY <1>1, <3>1, <3>2, <3>3 DEF WaitsUnder
  <2>2. ASSUME NEW k \in New PROVE WaitsUnder(ordered', stack'[k], m + 1)
    <3>1. ordered'[m + 1].span.spanId = stack'[k].span.parent /\ stack'[k].depth = ordered'[m + 1].depth + 1
      BY <1>1, <1>2, <1>12
    <3>2. m + 1 + 1..Len(ordered') = {}
      BY <1>1
    <3> QED BY <3>1, <3>2 DEF WaitsUnder
  <2>3. ASSUME NEW k \in 1..Len(stack')
        PROVE  IF stack'[k].depth = 0 THEN stack'[k].span \in Roots \cup Orphans
               ELSE stack'[k].span \notin Roots \cup Orphans /\ \E j \in 1..m + 1 : WaitsUnder(ordered', stack'[k], j)
    <3>1. CASE k \in Old
      BY <1>0, <1>6, <2>1, <3>1
    <3>2. CASE k \in New
      <4>1. stack'[k].depth # 0 /\ stack'[k].span \notin Roots \cup Orphans /\ m + 1 \in 1..m + 1
        BY <1>1, <1>2, <1>7, <1>12, <3>2
      <4> QED BY <2>2, <3>2, <4>1
    <3> QED BY <1>5, <3>1, <3>2
  <2>4. ASSUME NEW k \in 1..m + 1
        PROVE  IF ordered'[k].depth = 0 THEN ordered'[k].span \in Roots \cup Orphans
               ELSE ordered'[k].span \notin Roots \cup Orphans /\ \E j \in 1..m + 1 : ParentLine(ordered', k, j)
    <3>1. CASE k \in 1..m
      <4>1. ASSUME NEW j \in 1..m, ParentLine(ordered, k, j) PROVE ParentLine(ordered', k, j) /\ j \in 1..m + 1
        <5>1. \A i \in j + 1..k - 1 : i \in 1..m
          BY <1>1, <3>1
        <5>2. ordered'[j] = ordered[j] /\ ordered'[k] = ordered[k] /\ j \in 1..m + 1
          BY <1>1, <3>1
        <5>3. \A i \in j + 1..k - 1 : ordered'[i] = ordered[i]
          BY <1>1, <5>1
        <5> QED BY <4>1, <5>2, <5>3 DEF ParentLine
      <4> QED BY <1>0, <1>1, <3>1, <4>1
    <3>2. CASE k = m + 1
      <4>1. ASSUME NEW j \in 1..m, WaitsUnder(ordered, next, j) PROVE ParentLine(ordered', k, j) /\ j \in 1..m + 1
        <5>1. k - 1 = m /\ j < k /\ \A i \in j + 1..k - 1 : i \in 1..m /\ i \in j + 1..Len(ordered)
          BY <1>1, <3>2 DEF m
        <5>2. ordered'[k] = next /\ ordered'[j] = ordered[j] /\ \A i \in j + 1..k - 1 : ordered'[i] = ordered[i]
          BY <1>1, <3>2, <5>1
        <5>3. j \in 1..m + 1
          BY <1>1
        <5> QED BY <4>1, <5>1, <5>2, <5>3 DEF ParentLine, WaitsUnder
      <4> QED BY <1>0, <1>1, <1>7, <3>2, <4>1
    <3>3. k \in 1..m \/ k = m + 1
      BY <1>1
    <3> QED BY <3>1, <3>2, <3>3
  <2>5. \A k \in DOMAIN stack' :
          IF stack'[k].depth = 0 THEN stack'[k].span \in Roots' \cup Orphans'
          ELSE /\ stack'[k].span \notin Roots' \cup Orphans'
               /\ \E j \in DOMAIN ordered' : WaitsUnder(ordered', stack'[k], j)
    BY <1>1, <1>4, <2>3
  <2>6. \A k \in DOMAIN ordered' :
          IF ordered'[k].depth = 0 THEN ordered'[k].span \in Roots' \cup Orphans'
          ELSE /\ ordered'[k].span \notin Roots' \cup Orphans'
               /\ \E j \in DOMAIN ordered' : ParentLine(ordered', k, j)
    BY <1>1, <1>4, <2>4
  <2> QED BY <2>5, <2>6 DEF ParentsAbove
<1>20. \A j \in New : Follows(next, stack'[j])
  BY <1>2, <1>7 DEF Follows
<1>21. InTheirOrder'
  <2>1. ASSUME NEW j \in 1..Len(stack'), NEW k \in 1..Len(stack'), j < k PROVE Follows(stack'[k], stack'[j])
    <3>1. CASE k \in Old /\ j \in Old
      BY <1>0, <1>6, <2>1, <3>1
    <3>2. CASE j \in Old /\ k \in New
      <4>1. stack'[k].depth # stack'[j].depth
        BY <1>2, <1>6, <1>7, <1>9, <1>17, <3>2
      <4> QED BY <4>1 DEF Follows
    <3>3. CASE j \in New /\ k \in New
      <4>1. ByStart(stack'[k].span, stack'[j].span) /\ stack'[k].depth # 0
        BY <1>2, <1>7, <2>1, <3>3
      <4> QED BY <4>1 DEF Follows
    <3>4. ~(k \in Old /\ j \in New)
      BY <1>1, <2>1
    <3> QED BY <1>5, <3>1, <3>2, <3>3, <3>4
  <2>2. ASSUME NEW j \in 1..m + 1, NEW k \in 1..Len(stack') PROVE Follows(ordered'[j], stack'[k])
    <3>1. CASE j \in 1..m /\ k \in Old
      BY <1>0, <1>1, <1>6, <3>1
    <3>2. CASE j \in 1..m /\ k \in New
      <4>1. ordered'[j] = ordered[j] /\ stack'[k].depth # 0 /\ stack'[k].span.parent = next.span.spanId
        BY <1>1, <1>2, <1>7, <1>12, <3>2
      <4>2. ASSUME ordered[j].depth = stack'[k].depth, ordered[j].span.parent = stack'[k].span.parent PROVE FALSE
        <5>1. ordered[j].depth # 0
          BY <4>1, <4>2
        <5>2. PICK i \in 1..m : ParentLine(ordered, j, i)
          BY <1>0, <3>2, <5>1
        <5>3. ordered[i].span.spanId = next.span.spanId
          BY <4>1, <4>2, <5>2 DEF ParentLine
        <5> QED BY <1>1, <5>3 DEF Emitted
      <4> QED BY <4>1, <4>2 DEF Follows
    <3>3. CASE j = m + 1 /\ k \in Old
      <4>1. ordered'[j] = next /\ stack'[k] = stack[k] /\ k \in 1..n /\ k < n
        BY <1>1, <1>6, <3>3
      <4> QED BY <1>0, <1>7, <4>1
    <3>4. CASE j = m + 1 /\ k \in New
      BY <1>1, <1>20, <3>4
    <3>5. j \in 1..m \/ j = m + 1
      BY <1>1
    <3> QED BY <1>5, <3>1, <3>2, <3>3, <3>4, <3>5
  <2>3. ASSUME NEW j \in 1..m + 1, NEW k \in 1..m + 1, j < k PROVE Follows(ordered'[j], ordered'[k])
    <3>1. CASE k \in 1..m
      <4>1. j \in 1..m
        BY <1>1, <2>3, <3>1
      <4> QED BY <1>0, <1>1, <2>3, <3>1, <4>1
    <3>2. CASE k = m + 1
      <4>1. j \in 1..m
        BY <1>1, <2>3, <3>2
      <4> QED BY <1>0, <1>1, <1>7, <3>2, <4>1
    <3>3. k \in 1..m \/ k = m + 1
      BY <1>1
    <3> QED BY <3>1, <3>2, <3>3
  <2>4. /\ \A j, k \in DOMAIN stack' : j < k => Follows(stack'[k], stack'[j])
        /\ \A j \in DOMAIN ordered', k \in DOMAIN stack' : Follows(ordered'[j], stack'[k])
        /\ \A j, k \in DOMAIN ordered' : j < k => Follows(ordered'[j], ordered'[k])
    BY <1>1, <2>1, <2>2, <2>3
  <2>5. Unrooted' = Unrooted
    BY <1>3, SameSpans
  <2>6. /\ \A j, k \in DOMAIN stack' : j < k => Follows(stack[k], stack[j])'
        /\ \A j \in DOMAIN ordered', k \in DOMAIN stack' : Follows(ordered[j], stack[k])'
        /\ \A j, k \in DOMAIN ordered' : j < k => Follows(ordered[j], ordered[k])'
    <3>1. ASSUME NEW j \in DOMAIN stack', NEW k \in DOMAIN stack', j < k PROVE Follows(stack[k], stack[j])'
      <4>1. Follows(stack'[k], stack'[j])
        BY <2>4, <3>1
      <4> QED BY <1>3, <2>5, <4>1 DEF Follows, GivenBefore, Rank, Hangs
    <3>2. ASSUME NEW j \in DOMAIN ordered', NEW k \in DOMAIN stack' PROVE Follows(ordered[j], stack[k])'
      <4>1. Follows(ordered'[j], stack'[k])
        BY <2>4
      <4> QED BY <1>3, <2>5, <4>1 DEF Follows, GivenBefore, Rank, Hangs
    <3>3. ASSUME NEW j \in DOMAIN ordered', NEW k \in DOMAIN ordered', j < k PROVE Follows(ordered[j], ordered[k])'
      <4>1. Follows(ordered'[j], ordered'[k])
        BY <2>4, <3>3
      <4> QED BY <1>3, <2>5, <4>1 DEF Follows, GivenBefore, Rank, Hangs
    <3> QED BY <3>1, <3>2, <3>3
  <2> QED BY <2>6 DEF InTheirOrder
<1>22. stack' \in Seq(Line') /\ ordered' \in Seq(Line')
  BY <1>1, <1>4
<1> QED BY <1>14, <1>15, <1>16, <1>18, <1>19, <1>21, <1>22 DEF Drawing
\* When the stack is empty, what is not drawn is what leads to no root.
LEMMA LeftIsUnrooted ==
    ASSUME IdsDiffer, Drawing, stack = <<>>
    PROVE  \A s \in Range(spans) : s.spanId \in Emitted <=> Hangs(s)
<1>1. DOMAIN stack = {}
  OBVIOUS
<1>2. ordered \in Seq(Line) /\ DOMAIN ordered = 1..Len(ordered) /\ Len(ordered) \in Nat
  BY LenProperties DEF Drawing
<1>3. \A k \in DOMAIN ordered : ordered[k].span \in Range(spans)
  <2>1. \A k \in DOMAIN ordered : ordered[k] \in Line
    BY <1>2, ElementOfSeq
  <2> QED BY <2>1 DEF Line
<1>4. ASSUME NEW s \in Range(spans), s.spanId \in Emitted PROVE Hangs(s)
  <2>1. PICK k \in DOMAIN ordered : ordered[k].span.spanId = s.spanId
    BY <1>4 DEF Emitted
  <2>2. ordered[k].span = s
    BY <1>3, <2>1 DEF IdsDiffer
  <2> QED BY <2>2 DEF Drawing, AllHang
<1>5. ASSUME NEW s \in Range(spans), s.spanId \notin Emitted PROVE ~Hangs(s)
  <2> DEFINE U == {t.spanId : t \in {u \in Range(spans) : u.spanId \notin Emitted}}
  <2>1. U \in SUBSET Present
    BY DEF Present
  <2>2. ASSUME NEW t \in Range(spans), t.spanId \in U PROVE t.parent \in U \ {t.spanId}
    <3>1. t.spanId \notin Emitted
      BY <2>2
    <3>2. ~Put(t)
      BY <1>1, <3>1 DEF Put, OnStack, IsDrawn, Emitted
    <3>3. t \notin Roots \cup Orphans
      BY <3>2 DEF Drawing, NoneForgotten
    <3>4. t.parent \in Present /\ t.parent # t.spanId
      BY <3>3 DEF Roots, Orphans
    <3>5. PICK p \in Range(spans) : p.spanId = t.parent
      BY <3>4 DEF Present
    <3>6. t \in ChildrenOf(p.spanId)
      BY <3>3, <3>5 DEF ChildrenOf
    <3>7. p.spanId \notin Emitted
      <4> SUFFICES ASSUME NEW k \in DOMAIN ordered, ordered[k].span.spanId = p.spanId PROVE FALSE
        BY DEF Emitted
      <4> QED BY <3>2, <3>6 DEF Drawing, NoneForgotten
    <3> QED BY <3>4, <3>5, <3>7
  <2>3. s.spanId \in U
    BY <1>5
  <2> HIDE DEF U
  <2>4. s.spanId \in Unrooted
    BY <2>1, <2>2, <2>3 DEF Unrooted
  <2> QED BY <2>4 DEF Hangs
<1> QED BY <1>4, <1>5

LEMMA FinishDraws ==
    ASSUME IdsDiffer, Drawing, Finish
    PROVE  IsWaterfall(ordered)' /\ EachOnce' /\ ordered' \in Seq(Line)
<1> DEFINE m == Len(ordered)
<1>1. PICK rest \in SetToSeqs(Unreached) :
         /\ \A j, k \in DOMAIN rest : j < k => GivenBefore(rest[j], rest[k])
         /\ ordered' = ordered \o [k \in DOMAIN rest |-> [span |-> rest[k], depth |-> 0]]
  BY DEF Finish
<1>2. spans' = spans /\ stack' = stack /\ stack = <<>> /\ DOMAIN stack = {} /\ DOMAIN stack' = {}
  BY DEF Finish
<1>3. IsFiniteSet(Unreached) /\ Unreached \subseteq Range(spans)
  <2>1. Unreached \subseteq Range(spans)
    BY DEF Unreached
  <2> QED BY <2>1, FiniteSpans, FS_Subset
<1> DEFINE c == Len(rest)
           last == [k \in DOMAIN rest |-> [span |-> rest[k], depth |-> 0]]
<1>4. /\ rest \in Seq(Unreached) /\ DOMAIN rest = 1..c /\ c \in Nat
      /\ \A j, k \in 1..c : rest[j] = rest[k] => j = k
      /\ \A s \in Unreached : \E k \in 1..c : rest[k] = s
  BY <1>3, ListedOnce
<1>5. \A k \in 1..c : rest[k] \in Unreached
  BY <1>4, ElementOfSeq
<1>6. last \in Seq(Line) /\ Len(last) = c /\ \A k \in 1..c : last[k].span = rest[k] /\ last[k].depth = 0
  <2>1. \A k \in 1..c : [span |-> rest[k], depth |-> 0] \in Line
    BY <1>3, <1>5 DEF Line
  <2>2. last \in [1..c -> Line]
    BY <1>4, <2>1
  <2>3. last \in Seq(Line) /\ Len(last) = c
    <3> HIDE DEF last
    <3> QED BY <1>4, <2>2, AsSequence
  <2> QED BY <1>4, <2>3
<1>7. ordered \in Seq(Line) /\ DOMAIN ordered = 1..m /\ m \in Nat
  BY LenProperties DEF Drawing
<1> HIDE DEF last, m, c
<1>8. /\ ordered' \in Seq(Line) /\ Len(ordered') = m + c
      /\ \A i \in 1..m + c : ordered'[i] = IF i <= m THEN ordered[i] ELSE last[i - m]
  <2>1. ordered' = ordered \o last
    BY <1>1 DEF last
  <2> QED BY <1>6, <1>7, <2>1, ConcatProperties DEF m
<1>9. DOMAIN ordered' = 1..m + c
  BY <1>8, LenProperties
<1> DEFINE Old == 1..m
           New == m + 1..m + c
<1>10. \A k \in 1..m + c : k \in Old \/ k \in New
  BY <1>4, <1>7
<1>11. \A k \in Old : k \in 1..m + c /\ ordered'[k] = ordered[k]
  BY <1>4, <1>7, <1>8
<1>12. \A k \in New : /\ k \in 1..m + c /\ k - m \in 1..c
                      /\ ordered'[k].span = rest[k - m] /\ ordered'[k].depth = 0
                      /\ ordered'[k].span \in Unreached
  <2> TAKE k \in New
  <2>1. k \in 1..m + c /\ k - m \in 1..c /\ ~(k <= m)
    BY <1>4, <1>7
  <2> QED BY <1>5, <1>6, <1>8, <2>1
<1> HIDE DEF Old, New
<1>13. /\ \A s \in Range(spans) : s.spanId \in Emitted <=> Hangs(s)
       /\ \A s \in Unreached : s \in Range(spans) /\ s.spanId \notin Emitted /\ ~Hangs(s)
  <2>1. \A s \in Range(spans) : s.spanId \in Emitted <=> Hangs(s)
    BY <1>2, LeftIsUnrooted
  <2> QED BY <2>1 DEF Unreached
<1>14. /\ \A k \in Old : ordered[k].span \in Range(spans) /\ ordered[k].depth \in Nat
       /\ \A k \in Old : ordered[k].span.spanId \in Emitted /\ Hangs(ordered[k].span)
  <2>1. \A k \in Old : ordered[k] \in Line
    BY <1>7, ElementOfSeq DEF Old, m
  <2>2. \A k \in Old : ordered[k].span \in Range(spans) /\ ordered[k].depth \in Nat
    BY <2>1 DEF Line
  <2> QED BY <1>7, <1>13, <2>2 DEF Emitted, Old
<1>15. \A k \in New : ordered'[k].span \in Range(spans) /\ ordered'[k].span.spanId \notin Emitted /\ ~Hangs(ordered'[k].span)
  BY <1>12, <1>13
<1>16. {ordered'[k].span : k \in 1..m + c} = Range(spans)
  <2>1. ASSUME NEW k \in 1..m + c PROVE ordered'[k].span \in Range(spans)
    BY <1>10, <1>11, <1>14, <1>15
  <2>2. ASSUME NEW s \in Range(spans) PROVE \E k \in 1..m + c : ordered'[k].span = s
    <3>1. CASE s.spanId \in Emitted
      <4>1. PICK k \in Old : ordered[k].span.spanId = s.spanId
        BY <1>7, <3>1 DEF Emitted, Old
      <4> QED BY <1>11, <1>14, <4>1 DEF IdsDiffer
    <3>2. CASE s.spanId \notin Emitted
      <4>1. PICK i \in 1..c : rest[i] = s
        BY <1>4, <3>2 DEF Unreached
      <4>2. m + i \in New /\ (m + i) - m = i
        BY <1>4, <1>7 DEF New
      <4>3. PICK k \in New : k - m = i
        BY <4>2
      <4>4. k \in 1..m + c /\ ordered'[k].span = s
        BY <1>12, <4>1, <4>3
      <4> QED BY <4>4
    <3> QED BY <3>1, <3>2
  <2> QED BY <2>1, <2>2
<1>17. \A j, k \in 1..m + c : ordered'[j].span.spanId = ordered'[k].span.spanId => j = k
  <2> SUFFICES ASSUME NEW j \in 1..m + c, NEW k \in 1..m + c, ordered'[j].span.spanId = ordered'[k].span.spanId
               PROVE  j = k
    OBVIOUS
  <2>1. CASE j \in Old /\ k \in Old
    BY <1>7, <1>11, <2>1 DEF Drawing, EachOnce, Old
  <2>2. CASE j \in New /\ k \in New
    <3>1. ordered'[j].span = ordered'[k].span
      BY <1>15, <2>2 DEF IdsDiffer
    <3>2. j - m = k - m
      BY <1>4, <1>12, <2>2, <3>1
    <3> QED BY <1>7, <3>2
  <2>3. CASE j \in Old /\ k \in New
    BY <1>11, <1>14, <1>15, <2>3
  <2>4. CASE j \in New /\ k \in Old
    BY <1>11, <1>14, <1>15, <2>4
  <2> QED BY <1>10, <2>1, <2>2, <2>3, <2>4
<1>18. \A k \in 1..m + c :
         IF ordered'[k].depth = 0 THEN ordered'[k].span \in Roots \cup Orphans \/ ~Hangs(ordered'[k].span)
         ELSE Hangs(ordered'[k].span) /\ \E j \in 1..m + c : ParentLine(ordered', k, j)
  <2> TAKE k \in 1..m + c
  <2>1. CASE k \in New
    BY <1>12, <1>15, <2>1
  <2>2. CASE k \in Old /\ ordered[k].depth = 0
    BY <1>7, <1>11, <2>2 DEF Drawing, ParentsAbove, Old
  <2>3. CASE k \in Old /\ ordered[k].depth # 0
    <3>1. PICK j \in Old : ParentLine(ordered, k, j)
      BY <1>7, <2>3 DEF Drawing, ParentsAbove, Old
    <3>2. \A i \in j + 1..k - 1 : i \in Old
      BY <1>7, <2>3, <3>1 DEF Old
    <3>3. ParentLine(ordered', k, j)
      BY <1>11, <2>3, <3>1, <3>2 DEF ParentLine
    <3> QED BY <1>11, <1>14, <2>3, <3>1, <3>3
  <2> QED BY <1>10, <2>1, <2>2, <2>3
<1>19. \A j, k \in 1..m + c : j < k => Follows(ordered'[j], ordered'[k])
  <2> SUFFICES ASSUME NEW j \in 1..m + c, NEW k \in 1..m + c, j < k PROVE Follows(ordered'[j], ordered'[k])
    OBVIOUS
  <2>1. CASE j \in Old /\ k \in Old
    BY <1>7, <1>11, <2>1 DEF Drawing, InTheirOrder, Old
  <2>2. CASE j \in Old /\ k \in New
    <3>1. Rank(ordered'[j].span) < Rank(ordered'[k].span)
      BY <1>11, <1>14, <1>15, <2>2 DEF Rank
    <3> QED BY <1>12, <2>2, <3>1 DEF Follows
  <2>3. CASE j \in New /\ k \in New
    <3>1. j - m < k - m
      BY <1>4, <1>7
    <3>2. GivenBefore(ordered'[j].span, ordered'[k].span)
      <4>1. j - m \in DOMAIN rest /\ k - m \in DOMAIN rest
        BY <1>4, <1>12, <2>3
      <4>2. GivenBefore(rest[j - m], rest[k - m])
        BY <1>1, <3>1, <4>1
      <4>3. rest[j - m] = ordered'[j].span /\ rest[k - m] = ordered'[k].span
        BY <1>12, <2>3
      <4> QED BY <4>2, <4>3
    <3>3. Rank(ordered'[j].span) = Rank(ordered'[k].span) /\ ~Hangs(ordered'[j].span)
      BY <1>15, <2>3 DEF Rank
    <3> QED BY <1>12, <2>3, <3>2, <3>3 DEF Follows
  <2>4. ~(j \in New /\ k \in Old)
    BY <1>4, <1>7 DEF Old, New
  <2> QED BY <1>10, <2>1, <2>2, <2>3, <2>4
<1>20. {l.span : l \in Range(ordered')} = {ordered'[k].span : k \in 1..m + c}
  <2>1. Range(ordered') = {ordered'[k] : k \in 1..m + c}
    BY <1>9 DEF Range
  <2> QED BY <2>1
<1>21. IsWaterfall(ordered')
  BY <1>9, <1>16, <1>17, <1>18, <1>19, <1>20 DEF IsWaterfall
<1>22. IsWaterfall(ordered)'
  <2>1. Roots' = Roots /\ Orphans' = Orphans /\ Unrooted' = Unrooted
    BY <1>2, SameSpans
  <2> QED BY <1>2, <1>21, <2>1 DEF IsWaterfall, Hangs, Follows, Rank, GivenBefore
<1>23. EachOnce'
  BY <1>2, <1>9, <1>17 DEF EachOnce
<1> QED BY <1>8, <1>22, <1>23
\* Two drawings of the same spans, none of which is in a cycle or hangs from
\* one, are the same, in whatever order the spans were given: that the lines
\* are those of a waterfall leaves one way to draw them.
LEMMA OneWaterfall ==
    ASSUME IdsDiffer, Unrooted = {}, NEW a \in Seq(Line), NEW b \in Seq(Line), IsWaterfall(a), IsWaterfall(b)
    PROVE  a = b
<1>1. /\ Len(a) \in Nat /\ DOMAIN a = 1..Len(a) /\ \A k \in 1..Len(a) : a[k] \in Line
      /\ Len(b) \in Nat /\ DOMAIN b = 1..Len(b) /\ \A k \in 1..Len(b) : b[k] \in Line
  BY LenProperties, ElementOfSeq
<1> DEFINE Drawing2(q) ==
      /\ \A k \in 1..Len(q) : q[k].span \in Range(spans) /\ q[k].depth \in Nat
      /\ \A s \in Range(spans) : \E k \in 1..Len(q) : q[k].span = s
      /\ \A j, k \in 1..Len(q) : q[j].span = q[k].span => j = k
      /\ \A k \in 1..Len(q) : IF q[k].depth = 0 THEN q[k].span \in Roots \cup Orphans
                              ELSE \E j \in 1..Len(q) : ParentLine(q, k, j)
      /\ \A j, k \in 1..Len(q) : j < k => Follows(q[j], q[k])
<1>2. ASSUME NEW q \in Seq(Line), IsWaterfall(q), Len(q) \in Nat, DOMAIN q = 1..Len(q), \A k \in 1..Len(q) : q[k] \in Line
      PROVE  Drawing2(q)
  <2>1. \A k \in 1..Len(q) : q[k].span \in Range(spans) /\ q[k].depth \in Nat
    BY <1>2 DEF Line
  <2>2. ASSUME NEW s \in Range(spans) PROVE \E k \in 1..Len(q) : q[k].span = s
    <3>1. s \in {l.span : l \in Range(q)}
      BY <1>2 DEF IsWaterfall
    <3> QED BY <1>2, <3>1 DEF Range
  <2>3. \A s : Hangs(s)
    BY DEF Hangs
  <2> QED BY <1>2, <2>1, <2>2, <2>3 DEF IsWaterfall
<1>3. Drawing2(a) /\ Drawing2(b)
  <2> HIDE DEF Drawing2
  <2> QED BY <1>1, <1>2
\* Of two drawings that agree up to a line, what one has there the other has
\* there or later, and then no deeper: its parent would be above the line.
<1>4. ASSUME NEW p, NEW q, Drawing2(p), Drawing2(q), Len(p) \in Nat, Len(q) \in Nat,
             NEW n \in Nat \ {0}, n <= Len(p), n <= Len(q),
             \A i \in 1..n - 1 : p[i] = q[i]
      PROVE  \E m \in n..Len(q) :
               /\ q[m].span = p[n].span /\ q[m].depth = p[n].depth
               /\ m # n => p[n].depth <= q[n].depth
  <2>0. n \in 1..Len(p) /\ n \in 1..Len(q) /\ \A i \in 1..n - 1 : i \in 1..Len(p) /\ i \in 1..Len(q) /\ i # n
    BY <1>4
  <2>1. PICK m \in 1..Len(q) : q[m].span = p[n].span
    BY <1>4, <2>0
  <2>2. ~(m \in 1..n - 1)
    <3>1. ASSUME m \in 1..n - 1 PROVE FALSE
      <4>1. p[m].span = p[n].span
        BY <1>4, <2>1, <3>1
      <4> QED BY <1>4, <2>0, <3>1, <4>1
    <3> QED BY <3>1
  <2>3. m \in n..Len(q)
    BY <1>4, <2>2
  \* A span with a parent line is no root and no orphan.
  <2>4. ASSUME NEW j \in 1..Len(q), q[j].span.spanId = q[m].span.parent, j # m
        PROVE  q[m].span \notin Roots \cup Orphans
    <3>1. q[m].span \in Range(spans) /\ q[j].span \in Range(spans) /\ q[j].span # q[m].span
      BY <1>4, <2>4
    <3>2. q[j].span.spanId # q[m].span.spanId
      BY <3>1 DEF IdsDiffer
    <3>3. q[j].span.spanId \in Present
      BY <3>1 DEF Present
    <3>4. q[j].span.spanId # NoParent
      BY <3>1 DEF IdsDiffer
    <3> QED BY <2>4, <3>2, <3>3, <3>4 DEF Roots, Orphans
  <2>5. CASE p[n].depth = 0
    <3>1. p[n].span \in Roots \cup Orphans
      BY <1>4, <2>0, <2>5
    <3>2. q[m].depth = 0
      <4> SUFFICES ASSUME q[m].depth # 0 PROVE FALSE
        OBVIOUS
      <4>1. PICK j \in 1..Len(q) : ParentLine(q, m, j)
        BY <1>4
      <4> QED BY <2>1, <2>4, <3>1, <4>1 DEF ParentLine
    <3>3. q[n].depth \in Nat
      BY <1>4, <2>0
    <3> QED BY <2>1, <2>3, <2>5, <3>2, <3>3
  <2>6. CASE p[n].depth # 0
    <3>1. PICK j \in 1..Len(p) : ParentLine(p, n, j)
      BY <1>4, <2>0, <2>6
    <3>2. j \in 1..n - 1 /\ j < n
      BY <1>4, <3>1 DEF ParentLine
    <3>3. q[j] = p[j] /\ j \in 1..Len(q) /\ j # m
      BY <1>4, <2>0, <2>3, <3>2
    <3>4. q[j].span.spanId = q[m].span.parent
      BY <2>1, <3>1, <3>3 DEF ParentLine
    <3>5. PICK k \in 1..Len(q) : ParentLine(q, m, k)
      BY <1>4, <2>4, <3>3, <3>4
    <3>6. k = j
      <4>1. q[k].span.spanId = q[j].span.spanId
        BY <3>4, <3>5 DEF ParentLine
      <4>2. q[k].span = q[j].span
        <5>1. q[k].span \in Range(spans) /\ q[j].span \in Range(spans)
          BY <1>4, <3>3
        <5> QED BY <4>1, <5>1 DEF IdsDiffer
      <4> QED BY <1>4, <3>3, <4>2
    <3>7. q[m].depth = p[n].depth
      BY <3>1, <3>3, <3>5, <3>6 DEF ParentLine
    <3>8. m # n => n \in j + 1..m - 1
      BY <1>4, <2>3, <3>2
    <3>9. m # n => q[n].depth >= q[m].depth
      BY <3>5, <3>6, <3>8 DEF ParentLine
    <3>10. q[n].depth \in Nat /\ q[m].depth \in Nat
      BY <1>4, <2>0
    <3> QED BY <2>1, <2>3, <3>7, <3>9, <3>10
  <2> QED BY <2>5, <2>6
\* Neither goes on where the other ends.
<1>5. ASSUME NEW p, NEW q, Drawing2(p), Drawing2(q), Len(p) \in Nat, Len(q) \in Nat,
             \A i \in 1..Len(p) : i <= Len(q) => p[i] = q[i]
      PROVE  Len(q) <= Len(p)
  <2> SUFFICES ASSUME Len(p) < Len(q) PROVE FALSE
    BY <1>5
  <2>1. Len(p) + 1 \in 1..Len(q) /\ \A i \in 1..Len(p) : i \in 1..Len(q) /\ i <= Len(q) /\ i # Len(p) + 1
    BY <1>5
  <2>2. PICK i \in 1..Len(p) : p[i].span = q[Len(p) + 1].span
    BY <1>5, <2>1
  <2>3. q[i].span = q[Len(p) + 1].span
    BY <1>5, <2>1, <2>2
  <2> QED BY <1>5, <2>1, <2>3
<1>6. ASSUME NEW n \in 1..Len(a), n <= Len(b), a[n] # b[n],
             \A i \in 1..n - 1 : a[i] = b[i]
      PROVE  FALSE
  <2>1. n \in Nat \ {0} /\ n <= Len(a) /\ n \in 1..Len(b) /\ \A i \in 1..n - 1 : b[i] = a[i]
    BY <1>1, <1>6
  <2>2. PICK m \in n..Len(b) : /\ b[m].span = a[n].span /\ b[m].depth = a[n].depth
                               /\ m # n => a[n].depth <= b[n].depth
    <3> HIDE DEF Drawing2
    <3> QED BY <1>1, <1>3, <1>4, <1>6, <2>1
  <2>3. PICK l \in n..Len(a) : /\ a[l].span = b[n].span /\ a[l].depth = b[n].depth
                               /\ l # n => b[n].depth <= a[n].depth
    <3> HIDE DEF Drawing2
    <3> QED BY <1>1, <1>3, <1>4, <1>6, <2>1
  <2>4. a[n] \in Line /\ b[n] \in Line /\ a[n].depth \in Nat /\ b[n].depth \in Nat
    BY <1>1, <1>6, <2>1 DEF Line
  <2>5. m # n /\ l # n
    <3>1. ASSUME a[n].span = b[n].span, a[n].depth = b[n].depth PROVE FALSE
      <4>1. \A x, y \in Line : x.span = y.span /\ x.depth = y.depth => x = y
        <5>1. \A x \in Line : x = [span |-> x.span, depth |-> x.depth]
          BY DEF Line
        <5> QED BY <5>1
      <4> QED BY <1>6, <2>4, <3>1, <4>1
    <3> QED BY <2>2, <2>3, <3>1
  <2>6. a[n].depth = b[n].depth
    BY <2>2, <2>3, <2>4, <2>5
  <2>7. Follows(b[n], b[m]) /\ Follows(a[n], a[l])
    <3>1. m \in 1..Len(b) /\ n < m /\ l \in 1..Len(a) /\ n < l
      BY <1>1, <2>1, <2>5
    <3> QED BY <1>3, <1>6, <2>1, <3>1
  <2>8. ~(ByStart(a[n].span, b[n].span) /\ ByStart(b[n].span, a[n].span))
    <3>1. a[n].span \in Range(spans) /\ b[n].span \in Range(spans)
      BY <2>4 DEF Line
    <3>2. /\ a[n].span.start \in Nat /\ b[n].span.start \in Nat
          /\ a[n].span.spanId \in Nat /\ b[n].span.spanId \in Nat
      BY <3>1 DEF IdsDiffer
    <3> QED BY <3>2 DEF ByStart
  <2>9. \A s : Hangs(s)
    BY DEF Hangs
  <2>10. CASE a[n].depth = 0
    <3>1. Rank(a[n].span) \in Nat /\ Rank(b[n].span) \in Nat
      BY DEF Rank
    <3>2. \/ Rank(b[n].span) < Rank(a[n].span)
          \/ Rank(b[n].span) = Rank(a[n].span) /\ ByStart(b[n].span, a[n].span)
      BY <2>2, <2>6, <2>7, <2>9, <2>10 DEF Follows
    <3>3. \/ Rank(a[n].span) < Rank(b[n].span)
          \/ Rank(a[n].span) = Rank(b[n].span) /\ ByStart(a[n].span, b[n].span)
      BY <2>3, <2>6, <2>7, <2>9, <2>10 DEF Follows
    <3> QED BY <2>8, <3>1, <3>2, <3>3
  <2>11. CASE a[n].depth # 0
    <3>1. PICK j \in 1..Len(a) : ParentLine(a, n, j)
      BY <1>3, <1>6, <2>11
    <3>2. PICK k \in 1..Len(b) : ParentLine(b, n, k)
      BY <1>3, <2>1, <2>6, <2>11
    <3>3. j \in 1..n - 1 /\ k \in 1..n - 1 /\ a[j] = b[j] /\ a[k] = b[k] /\ j \in Nat /\ k \in Nat
      BY <1>6, <2>1, <3>1, <3>2 DEF ParentLine
    <3>4. /\ a[n].depth = a[j].depth + 1 /\ \A i \in j + 1..n - 1 : a[i].depth >= a[n].depth
          /\ b[n].depth = b[k].depth + 1 /\ \A i \in k + 1..n - 1 : b[i].depth >= b[n].depth
      BY <3>1, <3>2 DEF ParentLine
    <3>5. a[j].depth \in Nat /\ a[k].depth \in Nat
      <4>1. j \in 1..Len(a) /\ k \in 1..Len(a)
        BY <1>1, <2>1, <3>3
      <4> QED BY <1>1, <4>1 DEF Line
    <3>6. j = k
      <4>1. j < k => k \in j + 1..n - 1
        BY <2>1, <3>3
      <4>2. k < j => j \in k + 1..n - 1
        BY <2>1, <3>3
      <4>3. ~(j < k)
        <5>1. j < k => a[k].depth >= a[n].depth
          BY <3>4, <4>1
        <5>2. a[k].depth < a[n].depth
          <6>1. a[k].depth = b[k].depth
            BY <3>3
          <6>2. a[n].depth = a[k].depth + 1
            BY <2>6, <3>4, <6>1
          <6> QED BY <3>5, <6>2
        <5> QED BY <2>4, <3>5, <5>1, <5>2
      <4>4. ~(k < j)
        <5>1. k < j => b[j].depth >= b[n].depth
          BY <3>4, <4>2
        <5>2. b[j].depth < b[n].depth /\ b[j].depth \in Nat
          BY <2>4, <2>6, <3>3, <3>4, <3>5
        <5> QED BY <2>4, <5>1, <5>2
      <4> QED BY <3>3, <4>3, <4>4
    <3>7. a[n].span.parent = b[n].span.parent
      BY <3>1, <3>2, <3>3, <3>6 DEF ParentLine
    <3>8. ByStart(b[n].span, a[n].span) /\ ByStart(a[n].span, b[n].span)
      BY <2>2, <2>3, <2>6, <2>7, <2>11, <3>7 DEF Follows
    <3> QED BY <2>8, <3>8
  <2> QED BY <2>10, <2>11
<1>7. \A i \in 1..Len(a) : i <= Len(b) => a[i] = b[i]
  <2> DEFINE Differ == {i \in 1..Len(a) : i <= Len(b) /\ a[i] # b[i]}
  <2> SUFFICES ASSUME Differ # {} PROVE FALSE
    OBVIOUS
  <2>1. PICK n \in Differ : \A i \in Differ : n <= i
    <3>1. Differ \subseteq Nat
      OBVIOUS
    <3> HIDE DEF Differ
    <3> QED BY <3>1, LeastOf
  <2>2. \A i \in 1..n - 1 : a[i] = b[i]
    BY <1>1, <2>1
  <2> QED BY <1>6, <2>1, <2>2
<1>8. Len(a) = Len(b)
  <2> HIDE DEF Drawing2
  <2>1. \A i \in 1..Len(b) : i <= Len(a) => b[i] = a[i]
    BY <1>1, <1>7
  <2>2. Len(b) <= Len(a)
    BY <1>1, <1>3, <1>5, <1>7
  <2>3. Len(a) <= Len(b)
    <3>1. Len(b) \in Nat /\ Len(a) \in Nat /\ Drawing2(b) /\ Drawing2(a)
      BY <1>1, <1>3
    <3> QED BY <1>5, <2>1, <3>1
  <2>4. Len(a) \in Nat /\ Len(b) \in Nat
    BY <1>1
  <2> QED BY <2>2, <2>3, <2>4
<1>9. \A i \in 1..Len(a) : a[i] = b[i]
  BY <1>1, <1>7, <1>8
<1> QED BY <1>8, <1>9, SeqEqual

-----------------------------------------------------------------------------
(* Reading traces.                                                         *)

\* The rows of the trace read in detail, each with an id of its own.
StoredAreSpans ==
    /\ IsFiniteSet(stored)
    /\ \A s \in stored : s.spanId \in Nat \ {NoParent} /\ s.start \in Nat /\ s.duration \in Nat
    /\ \A s, t \in stored : s.spanId = t.spanId => s = t

\* What is drawn is what the stored spans start with, in milliseconds.
CutLate ==
    /\ Drawn \subseteq stored
    /\ viewer.truncated = (Drawn # stored)
    /\ \A s \in Drawn, t \in stored \ Drawn : Millisecond(s) <= Millisecond(t)

\* The window of the answer is that of what is drawn.
Window ==
    Drawn # {} =>
        LET end(s) == s.start - viewer.start + s.duration
        IN  /\ \A s \in Drawn : s.start >= viewer.start /\ end(s) <= viewer.duration
            /\ \E s \in Drawn : s.start = viewer.start
            /\ \E s \in Drawn : end(s) = viewer.duration

\* The roots of a list are rows of the store until retention has run.
RootsAreThere ==
    viewer.pc = "listed" /\ ~viewer.swept => \A i \in viewer.roots : rows[DefaultProject][i] # None

TInv ==
    /\ IInv
    /\ TracesTypeOK
    /\ StoredAreSpans
    /\ viewer.pc \notin {"drawing", "drawn"} => spans = <<>> /\ stack = <<>> /\ ordered = <<>>
    /\ viewer.pc = "idle" => viewer.truncated = FALSE
    /\ viewer.pc = "drawing" => IdsDiffer /\ Drawing
    /\ viewer.pc = "drawn" => EachOnce /\ IsWaterfall(ordered)
    /\ viewer.pc \in {"drawing", "drawn"} => CutLate /\ Window
    /\ RootsAreThere
    /\ RootCountsItself

\* The greatest of finitely many numbers.
LEMMA GreatestOf ==
    ASSUME NEW T, T \subseteq Nat, T # {}, IsFiniteSet(T) PROVE \E x \in T : \A y \in T : y <= x
<1> DEFINE Above(x) == {y \in T : x < y}
           Sizes == {Cardinality(Above(x)) : x \in T}
<1>1. \A x \in T : IsFiniteSet(Above(x)) /\ Cardinality(Above(x)) \in Nat
  <2>1. \A x \in T : Above(x) \subseteq T
    OBVIOUS
  <2> QED BY <2>1, FS_Subset, FS_CardinalityType
<1>2. PICK x \in T : \A y \in T : Cardinality(Above(x)) <= Cardinality(Above(y))
  <2>1. Sizes \subseteq Nat /\ Sizes # {}
    BY <1>1
  <2> HIDE DEF Above
  <2>2. PICK c \in Sizes : \A d \in Sizes : c <= d
    <3> HIDE DEF Sizes
    <3> QED BY <2>1, LeastOf
  <2> QED BY <2>2
<1>3. ASSUME NEW y \in T, x < y PROVE FALSE
  <2>0. x \in Nat /\ y \in Nat /\ T \subseteq Nat
    BY <1>2
  <2>1. Above(y) \subseteq Above(x) /\ y \in Above(x) /\ y \notin Above(y)
    <3>1. \A z \in Above(y) : z \in T /\ z \in Nat /\ x < z
      BY <1>3, <2>0
    <3>2. \A z \in Above(y) : z \in Above(x)
      BY <3>1
    <3>3. y \in Above(x)
      BY <1>3
    <3>4. y \notin Above(y)
      BY <2>0
    <3> QED BY <3>2, <3>3, <3>4
  <2>2. Cardinality(Above(y)) < Cardinality(Above(x))
    <3> HIDE DEF Above
    <3>1. Above(y) # Above(x)
      BY <2>1
    <3> QED BY <1>1, <2>1, <3>1, FS_Subset
  <2> HIDE DEF Above
  <2> QED BY <1>1, <1>2, <2>2
<1> QED BY <1>3

\* The empty waterfall.
LEMMA NothingToDraw ==
    ASSUME spans = <<>>, stack = <<>>, ordered = <<>>
    PROVE  EachOnce /\ IsWaterfall(ordered) /\ Drawn = {}
<1>1. Range(spans) = {} /\ DOMAIN stack = {} /\ DOMAIN ordered = {} /\ Range(ordered) = {}
  BY DEF Range
<1> QED BY <1>1 DEF EachOnce, IsWaterfall, Drawn

\* What a read keeps is a start of it.
LEMMA KeptIs ==
    ASSUME StoredAreSpans, NEW read \in Reads(stored)
    PROVE  LET kept == Kept(read)
           IN  /\ kept \in Seq(stored) /\ DOMAIN kept = 1..Len(kept) /\ Len(kept) \in Nat
               /\ read # <<>> => kept # <<>> /\ Range(kept) # {}
               /\ Range(kept) \subseteq stored
               /\ (Len(read) > MaxTraceSpans) = (Range(kept) # stored)
               /\ \A s \in Range(kept), t \in stored \ Range(kept) : Millisecond(s) <= Millisecond(t)
<1> DEFINE kept == Kept(read)
<1>1. /\ read \in SetToSeqs(stored)
      /\ \A j, k \in DOMAIN read : j < k => Millisecond(read[j]) <= Millisecond(read[k])
  BY DEF Reads
<1>2. /\ read \in Seq(stored) /\ DOMAIN read = 1..Len(read) /\ Len(read) \in Nat
      /\ \A j, k \in 1..Len(read) : read[j] = read[k] => j = k
      /\ \A s \in stored : \E k \in 1..Len(read) : read[k] = s
  BY <1>1, ListedOnce DEF StoredAreSpans
<1>3. \A k \in 1..Len(read) : read[k] \in stored
  BY <1>2, ElementOfSeq
<1>4. MaxTraceSpans \in Nat /\ MaxTraceSpans > 0 /\ Len(read) \in Nat
  BY <1>2, TracesAssumption DEF TracesAssumption
<1> DEFINE n == Min({Len(read), MaxTraceSpans})
<1>5. n \in Nat /\ n <= Len(read) /\ n <= MaxTraceSpans /\ n \in {Len(read), MaxTraceSpans}
  <2> DEFINE T == {Len(read), MaxTraceSpans}
  <2>1. \E x \in T : \A y \in T : x <= y
    BY <1>2, <1>4
  <2>2. n \in T /\ \A y \in T : n <= y
    <3>1. n = CHOOSE x \in T : \A y \in T : x <= y
      BY DEF Min
    <3> HIDE DEF T, n
    <3> QED BY <2>1, <3>1
  <2> HIDE DEF n
  <2> QED BY <1>2, <1>4, <2>2
<1> HIDE DEF n
<1>6. kept \in Seq(stored) /\ Len(kept) = n /\ \A i \in 1..n : kept[i] = read[i]
  <2>1. kept = SubSeq(read, 1, n)
    BY DEF Kept, n
  <2> HIDE DEF kept
  <2>2. \A i \in 1..Len(read) : i \in 1..Len(read)
    OBVIOUS
  <2>3. 1 \in 1..Len(read) + 1 /\ n \in 0..Len(read)
    BY <1>4, <1>5
  <2>4. /\ SubSeq(read, 1, n) \in Seq(stored)
        /\ Len(SubSeq(read, 1, n)) = IF 1 <= n THEN n - 1 + 1 ELSE 0
        /\ \A i \in 1..n - 1 + 1 : SubSeq(read, 1, n)[i] = read[1 + i - 1]
    BY <1>2, <2>3, SubSeqProperties
  <2> QED BY <1>5, <2>1, <2>4
<1> HIDE DEF kept
<1>7. DOMAIN kept = 1..n /\ Range(kept) = {read[i] : i \in 1..n}
  <2>1. DOMAIN kept = 1..n
    BY <1>6, LenProperties
  <2> QED BY <1>6, <2>1 DEF Range
<1>8. 1..n \subseteq 1..Len(read)
  BY <1>4, <1>5
<1>9. Range(kept) \subseteq stored
  BY <1>3, <1>7, <1>8
<1>10. (Len(read) > MaxTraceSpans) = (Range(kept) # stored)
  <2>1. CASE Len(read) > MaxTraceSpans
    <3>1. n + 1 \in 1..Len(read) /\ n + 1 \notin 1..n
      BY <1>4, <1>5, <2>1
    <3>2. read[n + 1] \in stored /\ read[n + 1] \notin Range(kept)
      BY <1>2, <1>3, <1>7, <1>8, <3>1
    <3> QED BY <2>1, <3>2
  <2>2. CASE ~(Len(read) > MaxTraceSpans)
    <3>1. n = Len(read)
      BY <1>4, <1>5, <2>2
    <3>2. stored \subseteq Range(kept)
      BY <1>2, <1>7, <3>1
    <3>3. Range(kept) = stored
      BY <1>9, <3>2
    <3> QED BY <2>2, <3>3
  <2> QED BY <2>1, <2>2
<1>11. ASSUME NEW s \in Range(kept), NEW t \in stored \ Range(kept) PROVE Millisecond(s) <= Millisecond(t)
  <2>1. PICK i \in 1..n : s = read[i]
    BY <1>7
  <2>2. PICK j \in 1..Len(read) : t = read[j]
    BY <1>2
  <2>3. j \notin 1..n
    BY <1>7, <2>2
  <2>4. i < j
    BY <1>4, <1>5, <2>1, <2>2, <2>3
  <2> QED BY <1>1, <1>2, <1>8, <2>1, <2>2, <2>4
<1>12. read # <<>> => kept # <<>> /\ Range(kept) # {}
  <2>1. read # <<>> => Len(read) # 0
    BY <1>2
  <2>2. read # <<>> => 1 \in 1..n
    BY <1>4, <1>5, <2>1
  <2> QED BY <1>6, <1>7, <2>2
<1> QED BY <1>5, <1>6, <1>7, <1>9, <1>10, <1>11, <1>12 DEF kept

\* The bar of the trace is the smallest that every bar of it fits in.
LEMMA WindowIs ==
    ASSUME StoredAreSpans, NEW kept, Range(kept) \subseteq stored, Range(kept) # {}
    PROVE  LET start == TraceStart(kept)
               duration == TraceEnd(kept) - start
           IN  /\ start \in Nat /\ duration \in Nat
               /\ \A s \in Range(kept) : s.start >= start /\ s.start - start + s.duration <= duration
               /\ \E s \in Range(kept) : s.start = start
               /\ \E s \in Range(kept) : s.start - start + s.duration = duration
<1> DEFINE starts == {s.start : s \in Range(kept)}
           ends == {s.start + s.duration : s \in Range(kept)}
<1>1. \A s \in Range(kept) : s.start \in Nat /\ s.duration \in Nat
  BY DEF StoredAreSpans
<1>2. starts \subseteq Nat /\ starts # {} /\ ends \subseteq Nat /\ ends # {}
  BY <1>1
<1>3. IsFiniteSet(ends)
  <2>1. IsFiniteSet(Range(kept))
    BY FS_Subset DEF StoredAreSpans
  <2> DEFINE end == [s \in Range(kept) |-> s.start + s.duration]
  <2>2. end \in Surjection(Range(kept), ends)
    BY DEF Surjection
  <2> HIDE DEF end, ends
  <2> QED BY <2>1, <2>2, FS_Surjection
<1>4. TraceStart(kept) \in starts /\ \A y \in starts : TraceStart(kept) <= y
  <2>1. TraceStart(kept) = CHOOSE x \in starts : \A y \in starts : x <= y
    BY DEF TraceStart, Min
  <2> HIDE DEF starts
  <2>2. \E x \in starts : \A y \in starts : x <= y
    BY <1>2, LeastOf
  <2> QED BY <2>1, <2>2
<1>5. TraceEnd(kept) \in ends /\ \A y \in ends : y <= TraceEnd(kept)
  <2>1. TraceEnd(kept) = CHOOSE x \in ends : \A y \in ends : x >= y
    BY DEF TraceEnd, Max
  <2> HIDE DEF ends
  <2>2. \E x \in ends : \A y \in ends : y <= x
    BY <1>2, <1>3, GreatestOf
  <2>3. \E x \in ends : \A y \in ends : x >= y
    BY <1>2, <2>2
  <2>4. TraceEnd(kept) \in ends /\ \A y \in ends : TraceEnd(kept) >= y
    BY <2>1, <2>3
  <2> QED BY <1>2, <2>4
<1> DEFINE start == TraceStart(kept)
           last == TraceEnd(kept)
<1>6. start \in Nat /\ last \in Nat
  BY <1>2, <1>4, <1>5
<1> HIDE DEF start, last
<1>7. \A s \in Range(kept) : start <= s.start /\ s.start + s.duration <= last
  BY <1>4, <1>5 DEF start, last
<1>8. \A s \in Range(kept) : s.start >= start /\ s.start - start + s.duration <= last - start
  BY <1>1, <1>6, <1>7
<1>9. PICK s \in Range(kept) : s.start = start
  BY <1>4 DEF start
<1>10. PICK t \in Range(kept) : t.start + t.duration = last
  BY <1>5 DEF last
<1>11. t.start - start + t.duration = last - start
  BY <1>1, <1>6, <1>10
<1>12. last - start \in Nat
  BY <1>1, <1>6, <1>7, <1>9
<1> QED BY <1>6, <1>8, <1>9, <1>11, <1>12 DEF start, last

\* What the instances begin with.
LEMMA StoredInit == ASSUME stored \in StoredTraces \cup {{}} PROVE StoredAreSpans
<1>1. CASE stored = {}
  BY <1>1, FS_EmptySet DEF StoredAreSpans
<1>2. CASE stored \in StoredTraces
  <2>1. PICK up \in [1..Size -> 0..(Size + 1)], t \in Timings,
             late \in {{}, {[spanId |-> Size + 1, parent |-> NoParent, start |-> 9, duration |-> 1]}} :
             stored = {[spanId |-> i, parent |-> up[i], start |-> t[i].start, duration |-> t[i].duration] : i \in 1..Size}
                        \cup late
    BY <1>2 DEF StoredTraces
  <2> DEFINE shown == [i \in 1..Size |-> [spanId |-> i, parent |-> up[i], start |-> t[i].start, duration |-> t[i].duration]]
             early == {shown[i] : i \in 1..Size}
             newest == [spanId |-> Size + 1, parent |-> NoParent, start |-> 9, duration |-> 1]
  <2>2. Size \in Nat /\ t \in [1..Size -> [start : Nat, duration : Nat]]
    BY TracesAssumption DEF TracesAssumption, Size
  <2>3. stored = early \cup late
    BY <2>1
  <2>4. \A i \in 1..Size : shown[i].spanId = i /\ shown[i].start \in Nat /\ shown[i].duration \in Nat
    BY <2>2
  <2>5. newest.spanId = Size + 1 /\ newest.start = 9 /\ newest.duration = 1
    OBVIOUS
  <2>6. \A s \in stored : s = newest \/ \E i \in 1..Size : s = shown[i]
    BY <2>1, <2>3
  <2>7. IsFiniteSet(early)
    <3>1. shown \in Surjection(1..Size, early)
      BY DEF Surjection
    <3>2. IsFiniteSet(1..Size)
      BY <2>2, FS_Interval
    <3> HIDE DEF shown, early
    <3> QED BY <3>1, <3>2, FS_Surjection
  <2>8. IsFiniteSet(late)
    <3>1. late = {} \/ late = {newest}
      OBVIOUS
    <3> HIDE DEF newest
    <3>2. IsFiniteSet({}) /\ IsFiniteSet({newest})
      BY FS_EmptySet, FS_Singleton
    <3> QED BY <3>1, <3>2
  <2> HIDE DEF shown, early, newest
  <2>9. IsFiniteSet(stored)
    BY <2>3, <2>7, <2>8, FS_Union
  <2>10. Size + 1 \in Nat \ {0} /\ \A i \in 1..Size : i \in Nat \ {0} /\ i # Size + 1
    BY <2>2
  <2>11. \A s \in stored : s.spanId \in Nat \ {NoParent} /\ s.start \in Nat /\ s.duration \in Nat
    BY <2>4, <2>5, <2>6, <2>10 DEF NoParent
  <2>12. \A s, u \in stored : s.spanId = u.spanId => s = u
    BY <2>4, <2>5, <2>6, <2>10
  <2> QED BY <2>9, <2>11, <2>12 DEF StoredAreSpans
<1> QED BY <1>1, <1>2

\* What is drawn stays so while nobody draws.
LEMMA SameDrawing ==
    ASSUME spans' = spans, stack' = stack, ordered' = ordered
    PROVE  EachOnce' = EachOnce /\ IsWaterfall(ordered)' = IsWaterfall(ordered) /\ Drawing' = Drawing
<1>1. Emitted' = Emitted
  BY DEF Emitted
<1>2. EachOnce' = EachOnce
  BY <1>1 DEF EachOnce
<1>3. IsWaterfall(ordered)' = IsWaterfall(ordered)
  BY SameSpans DEF IsWaterfall, ParentLine
<1>4. NoneForgotten' = NoneForgotten
  BY DEF NoneForgotten, Put, OnStack, IsDrawn, ChildrenOf, Roots, Orphans, Present
<1>5. AllHang' = AllHang
  BY SameSpans DEF AllHang
<1>6. DeepestOnTop' = DeepestOnTop
  BY DEF DeepestOnTop
<1>7. ParentsAbove' = ParentsAbove
  BY SameSpans DEF ParentsAbove, ParentLine, WaitsUnder
<1>8. InTheirOrder' = InTheirOrder
  BY SameSpans DEF InTheirOrder
<1> QED BY <1>2, <1>3, <1>4, <1>5, <1>6, <1>7, <1>8, SameSpans DEF Drawing

LEMMA TracesInit == Init => TInv
<1> SUFFICES ASSUME Init PROVE TInv
  OBVIOUS
<1>1. Started /\ stored \in StoredTraces \cup {{}}
  BY DEF Init, IngestionInit, Started
<1>2. IInv /\ StoredAreSpans
  BY <1>1, InvariantInit, StoredInit
<1>3. viewer = Unread /\ spans = <<>> /\ stack = <<>> /\ ordered = <<>>
  BY DEF Init
<1>4. TracesTypeOK /\ viewer.pc = "idle" /\ viewer.truncated = FALSE /\ RootsAreThere /\ RootCountsItself
  BY <1>3 DEF TracesTypeOK, Viewer, Unread, RootsAreThere, RootCountsItself
<1> QED BY <1>2, <1>3, <1>4 DEF TInv

\* A request for one trace.
LEMMA DetailStep ==
    ASSUME TInv, Detail
    PROVE  TInv'
<1>1. viewer.truncated = FALSE /\ spans = <<>> /\ stack = <<>> /\ ordered = <<>>
  BY DEF TInv, Detail
<1>2. UNCHANGED ingestionVars /\ shape' = shape /\ stored' = stored
  BY DEF Detail
<1>3. IInv'
  BY <1>2, InvariantStep DEF TInv
<1>4. StoredAreSpans /\ StoredAreSpans'
  BY <1>2 DEF TInv, StoredAreSpans
<1> PICK read \in Reads(stored) :
        IF read = <<>>
        THEN viewer' = [viewer EXCEPT !.pc = "drawn"] /\ UNCHANGED orderVars
        ELSE /\ viewer' = [viewer EXCEPT !.pc = "drawing", !.truncated = Len(read) > MaxTraceSpans,
                     !.start = TraceStart(Kept(read)),
                     !.duration = TraceEnd(Kept(read)) - TraceStart(Kept(read))]
             /\ Begin(Kept(read))
  BY DEF Detail
<1>5. CASE read = <<>>
  <2>1. viewer' = [viewer EXCEPT !.pc = "drawn"] /\ spans' = <<>> /\ stack' = <<>> /\ ordered' = <<>>
    BY <1>1, <1>5 DEF orderVars
  <2>2. viewer'.pc = "drawn" /\ viewer'.truncated = FALSE /\ viewer' \in Viewer
    BY <1>1, <2>1 DEF TInv, TracesTypeOK, Viewer
  <2>3. EachOnce' /\ IsWaterfall(ordered)' /\ Drawn' = {}
    <3>1. (spans = <<>> /\ stack = <<>> /\ ordered = <<>> => EachOnce /\ IsWaterfall(ordered) /\ Drawn = {})'
      BY NothingToDraw, PTL
    <3> QED BY <2>1, <3>1
  <2>4. stored = {}
    <3>1. \A s \in stored : \E k \in 1..Len(read) : read[k] = s
      BY <1>4, ListedOnce DEF Reads, StoredAreSpans
    <3> QED BY <1>5, <3>1
  <2>5. CutLate' /\ Window'
    BY <1>2, <2>2, <2>3, <2>4 DEF CutLate, Window
  <2>6. TracesTypeOK'
    BY <2>1, <2>2 DEF TracesTypeOK
  <2> QED BY <1>3, <1>4, <2>2, <2>3, <2>5, <2>6 DEF TInv, RootsAreThere, RootCountsItself
<1>6. CASE read # <<>>
  <2> DEFINE kept == Kept(read)
  <2>1. /\ viewer' = [viewer EXCEPT !.pc = "drawing", !.truncated = Len(read) > MaxTraceSpans,
                                    !.start = TraceStart(kept), !.duration = TraceEnd(kept) - TraceStart(kept)]
        /\ Begin(kept)
    BY <1>6
  <2>2. /\ kept \in Seq(stored) /\ Range(kept) # {} /\ Range(kept) \subseteq stored
        /\ DOMAIN kept = 1..Len(kept) /\ Len(kept) \in Nat
        /\ (Len(read) > MaxTraceSpans) = (Range(kept) # stored)
        /\ \A s \in Range(kept), t \in stored \ Range(kept) : Millisecond(s) <= Millisecond(t)
    BY <1>4, <1>6, KeptIs
  <2>3. /\ TraceStart(kept) \in Nat /\ TraceEnd(kept) - TraceStart(kept) \in Nat
        /\ \A s \in Range(kept) : /\ s.start >= TraceStart(kept)
                                  /\ s.start - TraceStart(kept) + s.duration <= TraceEnd(kept) - TraceStart(kept)
        /\ \E s \in Range(kept) : s.start = TraceStart(kept)
        /\ \E s \in Range(kept) : s.start - TraceStart(kept) + s.duration = TraceEnd(kept) - TraceStart(kept)
    <3> HIDE DEF kept
    <3> QED BY <1>4, <2>2, WindowIs
  <2> HIDE DEF kept
  <2>4. spans' = kept
    BY <2>1 DEF Begin
  <2>5. /\ viewer'.pc = "drawing" /\ viewer'.truncated = (Len(read) > MaxTraceSpans)
        /\ viewer'.start = TraceStart(kept) /\ viewer'.duration = TraceEnd(kept) - TraceStart(kept)
        /\ viewer' \in Viewer
    <3>1. (Len(read) > MaxTraceSpans) \in BOOLEAN
      OBVIOUS
    <3> QED BY <2>1, <2>3, <3>1 DEF TInv, TracesTypeOK, Viewer
  <2>6. IdsDiffer'
    <3>1. kept \in Seq(Range(kept))
      <4>1. kept \in [1..Len(kept) -> Range(kept)]
        <5>1. kept \in [1..Len(kept) -> stored]
          BY <2>2, LenProperties
        <5> QED BY <2>2, <5>1 DEF Range
      <4> QED BY <2>2, <4>1, AsSequence
    <3> QED BY <1>4, <2>2, <2>4, <3>1 DEF IdsDiffer, StoredAreSpans
  <2>7. Drawing'
    BY <2>1, <2>6, BeginDraws
  <2>8. Drawn' = Range(kept)
    BY <2>4 DEF Drawn
  <2>9. CutLate'
    <3>1. Drawn' \subseteq stored' /\ viewer'.truncated = (Drawn' # stored')
      BY <1>2, <2>2, <2>5, <2>8
    <3>2. \A s \in Drawn', t \in stored' \ Drawn' : Millisecond(s) <= Millisecond(t)
      BY <1>2, <2>2, <2>8
    <3> QED BY <3>1, <3>2 DEF CutLate, Millisecond
  <2>10. Window'
    BY <2>3, <2>5, <2>8 DEF Window
  <2>11. TracesTypeOK'
    BY <2>5, <2>7 DEF TracesTypeOK, Drawing
  <2> QED BY <1>3, <1>4, <2>5, <2>6, <2>7, <2>9, <2>10, <2>11 DEF TInv, RootsAreThere, RootCountsItself
<1> QED BY <1>5, <1>6

\* A round of the loop, and its end.
LEMMA DrawStep ==
    ASSUME TInv, Draw
    PROVE  TInv'
<1>1. viewer.pc = "drawing" /\ IdsDiffer /\ Drawing
  BY DEF TInv, Draw
<1>2. UNCHANGED ingestionVars /\ shape' = shape /\ stored' = stored /\ spans' = spans
  BY DEF Draw, Round, Finish
<1>3. IInv' /\ StoredAreSpans'
  BY <1>2, InvariantStep DEF TInv, StoredAreSpans
<1>4. CASE Round /\ viewer' = viewer
  <2>1. IdsDiffer' /\ Drawing'
    BY <1>1, <1>2, <1>4, SameSpans, RoundDraws
  <2>2. CutLate' /\ Window'
    BY <1>1, <1>2, <1>4 DEF TInv, CutLate, Window, Drawn, Millisecond
  <2>3. TracesTypeOK'
    BY <1>4, <2>1 DEF TInv, TracesTypeOK, Drawing
  <2> QED BY <1>1, <1>3, <1>4, <2>1, <2>2, <2>3 DEF TInv, RootsAreThere, RootCountsItself
<1>5. CASE Finish /\ viewer' = [viewer EXCEPT !.pc = "drawn"]
  <2>1. IsWaterfall(ordered)' /\ EachOnce'
    BY <1>1, <1>5, FinishDraws
  <2>2. /\ viewer'.pc = "drawn" /\ viewer'.truncated = viewer.truncated
        /\ viewer'.start = viewer.start /\ viewer'.duration = viewer.duration /\ viewer' \in Viewer
    BY <1>5 DEF TInv, TracesTypeOK, Viewer
  <2>3. CutLate' /\ Window'
    BY <1>1, <1>2, <2>2 DEF TInv, CutLate, Window, Drawn, Millisecond
  <2>4. TracesTypeOK'
    <3>1. ordered' \in Seq(Line) /\ Line' = Line
      BY <1>1, <1>2, <1>5, FinishDraws, SameSpans
    <3> QED BY <2>2, <3>1 DEF TracesTypeOK
  <2> QED BY <1>3, <2>1, <2>2, <2>3, <2>4 DEF TInv, RootsAreThere, RootCountsItself
<1> QED BY <1>4, <1>5 DEF Draw

\* The list asks for the roots.
LEMMA ListRootsStep ==
    ASSUME TInv, NEW S \in Newest(DefaultProject), ListRoots(S)
    PROVE  TInv'
<1>1. viewer.pc = "idle"
  BY DEF ListRoots
<1>2. UNCHANGED <<ingestionVars, orderVars, shape, stored>> /\ viewer' = [Unread EXCEPT !.pc = "listed", !.roots = S]
  BY DEF ListRoots
<1>3. IInv' /\ StoredAreSpans'
  BY <1>2, InvariantStep DEF TInv, StoredAreSpans
<1>4. S \subseteq RootSpans(DefaultProject)
  BY DEF Newest
<1>5. S \subseteq Ids /\ \A i \in S : rows[DefaultProject][i] # None
  BY <1>4 DEF RootSpans
<1>6. viewer'.pc = "listed" /\ viewer'.roots = S /\ viewer' \in Viewer
  BY <1>2, <1>5 DEF Unread, TracesTypeOK, Viewer
<1>7. RootsAreThere'
  BY <1>2, <1>5, <1>6 DEF RootsAreThere, ingestionVars
<1>8. spans' = <<>> /\ stack' = <<>> /\ ordered' = <<>>
  BY <1>1, <1>2 DEF TInv, orderVars
<1>9. TracesTypeOK'
  BY <1>6, <1>8 DEF TracesTypeOK
<1> QED BY <1>3, <1>6, <1>7, <1>8, <1>9 DEF TInv, RootCountsItself

\* And then for the counts.
LEMMA ListCountsStep ==
    ASSUME TInv, ListCounts(DefaultProject)
    PROVE  TInv'
<1> DEFINE p == DefaultProject
<1>1. viewer.pc = "listed" /\ viewer' = [viewer EXCEPT !.pc = "answered", !.summaries = {Summary(p, i) : i \in viewer.roots}]
  BY DEF ListCounts
<1>2. UNCHANGED <<ingestionVars, orderVars, shape, stored>>
  BY DEF ListCounts
<1>3. IInv' /\ StoredAreSpans'
  BY <1>2, InvariantStep DEF TInv, StoredAreSpans
<1>4. \A trace : /\ IsFiniteSet(Counted(p, trace)) /\ Cardinality(Counted(p, trace)) \in Nat
                 /\ IsFiniteSet(Failing(p, trace)) /\ Cardinality(Failing(p, trace)) \in Nat
                 /\ Cardinality(Failing(p, trace)) <= Cardinality(Counted(p, trace))
  <2>1. \A trace : Counted(p, trace) \subseteq Ids /\ Failing(p, trace) \subseteq Counted(p, trace)
    BY DEF Counted, Failing
  <2>2. IsFiniteSet(Ids)
    BY IngestionAssumption DEF IngestionAssumption
  <2> QED BY <2>1, <2>2, FS_Subset, FS_CardinalityType
<1>5. \A i \in viewer.roots : Summary(p, i) \in TraceSummary
  BY <1>4 DEF Summary, TInv, TracesTypeOK, Viewer, TraceSummary
<1>6. /\ viewer'.pc = "answered" /\ viewer'.summaries = {Summary(p, i) : i \in viewer.roots}
      /\ viewer'.swept = viewer.swept /\ viewer'.roots = viewer.roots /\ viewer' \in Viewer
  <2> DEFINE new == {Summary(p, i) : i \in viewer.roots}
  <2>1. new \in SUBSET TraceSummary
    BY <1>5
  <2> HIDE DEF new
  <2>2. viewer' = [viewer EXCEPT !.pc = "answered", !.summaries = new]
    BY <1>1 DEF new
  <2>3. viewer'.pc = "answered" /\ viewer'.summaries = new /\ viewer'.swept = viewer.swept /\ viewer'.roots = viewer.roots
    BY <2>2 DEF TInv, TracesTypeOK, Viewer
  <2>4. viewer' \in Viewer
    BY <2>1, <2>2 DEF TInv, TracesTypeOK, Viewer
  <2> QED BY <2>3, <2>4 DEF new
<1>7. RootCountsItself'
  <2> SUFFICES ASSUME ~viewer'.swept, NEW s \in viewer'.summaries
               PROVE  LET listed == {i \in viewer.roots : shape[i].trace = shape[s.root].trace}
                      IN  /\ s.spanCount >= Cardinality(listed)
                          /\ s.errorSpanCount >= Cardinality({i \in listed : shape[i].failed})
                          /\ s.errorSpanCount <= s.spanCount
    BY <1>2, <1>6 DEF RootCountsItself
  <2>1. PICK root \in viewer.roots : s = Summary(p, root)
    BY <1>6
  <2> DEFINE trace == shape[root].trace
             listed == {i \in viewer.roots : shape[i].trace = trace}
             failed == {i \in listed : shape[i].failed}
  <2>2. viewer.roots \subseteq Ids /\ \A i \in viewer.roots : rows[p][i] # None
    BY <1>1, <1>6 DEF TInv, TracesTypeOK, Viewer, RootsAreThere
  <2>3. listed \subseteq Counted(p, trace) /\ failed \subseteq Failing(p, trace) /\ root \in Counted(p, trace)
    BY <2>2 DEF Counted, Failing
  <2>4. s.root = root /\ s.spanCount = Cardinality(Counted(p, trace)) /\ s.errorSpanCount = Cardinality(Failing(p, trace))
    BY <2>1, <2>3 DEF Summary
  <2> HIDE DEF trace, listed, failed
  <2>5. Cardinality(listed) \in Nat /\ Cardinality(failed) \in Nat
    BY <1>4, <2>3, FS_Subset, FS_CardinalityType
  <2>6. Cardinality(listed) <= s.spanCount /\ Cardinality(failed) <= s.errorSpanCount
    BY <1>4, <2>3, <2>4, FS_Subset
  <2> QED BY <1>4, <2>4, <2>5, <2>6 DEF trace, listed, failed
<1>8. spans' = <<>> /\ stack' = <<>> /\ ordered' = <<>>
  BY <1>1, <1>2 DEF TInv, orderVars
<1>9. TracesTypeOK'
  BY <1>6, <1>8 DEF TracesTypeOK
<1> QED BY <1>3, <1>6, <1>7, <1>8, <1>9 DEF TInv, RootsAreThere

\* What happens meanwhile, retention among it.
LEMMA MeanwhileStep ==
    ASSUME TInv, IngestionNext, UNCHANGED <<orderVars, shape, stored>>,
           viewer' = [viewer EXCEPT !.swept = @ \/ (viewer.pc = "listed" /\ \E p \in Projects, i \in Ids :
                                                      rows[p][i] # None /\ rows'[p][i] = None)]
    PROVE  TInv'
<1>1. IInv'
  BY InvariantStep DEF TInv
<1>2. /\ viewer'.pc = viewer.pc /\ viewer'.roots = viewer.roots /\ viewer'.summaries = viewer.summaries
      /\ viewer'.truncated = viewer.truncated /\ viewer'.start = viewer.start /\ viewer'.duration = viewer.duration
      /\ viewer'.swept = (viewer.swept \/ (viewer.pc = "listed" /\ \E p \in Projects, i \in Ids :
                                              rows[p][i] # None /\ rows'[p][i] = None))
      /\ viewer' \in Viewer
  BY DEF TInv, TracesTypeOK, Viewer
<1>3. spans' = spans /\ stack' = stack /\ ordered' = ordered /\ shape' = shape /\ stored' = stored
  BY DEF orderVars
<1>4. StoredAreSpans'
  BY <1>3 DEF TInv, StoredAreSpans
<1>5. viewer.pc = "drawing" => IdsDiffer' /\ Drawing'
  <2>1. Drawing => Drawing'
    BY <1>3, SameDrawing
  <2> QED BY <1>3, <2>1, SameSpans DEF TInv
<1>6. viewer.pc = "drawn" => EachOnce' /\ IsWaterfall(ordered)'
  BY <1>3, SameDrawing DEF TInv
<1>7. viewer.pc \in {"drawing", "drawn"} => CutLate' /\ Window'
  BY <1>2, <1>3 DEF TInv, CutLate, Window, Drawn, Millisecond
<1>8. RootsAreThere'
  <2> SUFFICES ASSUME viewer.pc = "listed", ~viewer'.swept, NEW i \in viewer.roots
               PROVE  rows'[DefaultProject][i] # None
    BY <1>2 DEF RootsAreThere
  <2>1. ~viewer.swept /\ \A p \in Projects, j \in Ids : rows[p][j] # None => rows'[p][j] # None
    BY <1>2
  <2>2. i \in Ids /\ rows[DefaultProject][i] # None /\ DefaultProject \in Projects
    BY <2>1, IngestionAssumption DEF TInv, TracesTypeOK, Viewer, RootsAreThere, IngestionAssumption
  <2> QED BY <2>1, <2>2
<1>9. RootCountsItself'
  <2>1. /\ viewer'.pc = viewer.pc /\ viewer'.roots = viewer.roots /\ viewer'.summaries = viewer.summaries
        /\ shape' = shape
    BY <1>2, <1>3
  <2>2. ~viewer'.swept => ~viewer.swept
    BY <1>2
  <2>3. RootCountsItself
    BY DEF TInv
  <2> QED BY <2>1, <2>2, <2>3 DEF RootCountsItself
<1>10. viewer.pc = "idle" => viewer'.truncated = FALSE
  BY <1>2 DEF TInv
<1>11. TracesTypeOK'
  <2>1. Line' = Line
    BY <1>3, SameSpans
  <2> QED BY <1>2, <1>3, <2>1 DEF TInv, TracesTypeOK
<1> QED BY <1>1, <1>2, <1>3, <1>4, <1>5, <1>6, <1>7, <1>8, <1>9, <1>10, <1>11 DEF TInv

LEMMA NothingHappens == ASSUME TInv, UNCHANGED tracesVars PROVE TInv'
<1>1. /\ UNCHANGED ingestionVars /\ spans' = spans /\ stack' = stack /\ ordered' = ordered
      /\ shape' = shape /\ stored' = stored /\ viewer' = viewer
  BY DEF tracesVars, orderVars
<1>2. IInv' /\ StoredAreSpans' /\ TracesTypeOK'
  <2>1. Line' = Line
    BY <1>1, SameSpans
  <2> QED BY <1>1, <2>1, InvariantStep DEF TInv, StoredAreSpans, TracesTypeOK
<1>3. /\ viewer.pc = "drawing" => IdsDiffer' /\ Drawing'
      /\ viewer.pc = "drawn" => EachOnce' /\ IsWaterfall(ordered)'
  BY <1>1, SameSpans, SameDrawing DEF TInv
<1>4. viewer.pc \in {"drawing", "drawn"} => CutLate' /\ Window'
  BY <1>1 DEF TInv, CutLate, Window, Drawn, Millisecond
<1>5. RootsAreThere' /\ RootCountsItself'
  BY <1>1 DEF TInv, RootsAreThere, RootCountsItself, ingestionVars
<1> QED BY <1>1, <1>2, <1>3, <1>4, <1>5 DEF TInv

LEMMA TracesStep == TInv /\ [Next]_tracesVars => TInv'
<1> SUFFICES ASSUME TInv, [Next]_tracesVars PROVE TInv'
  OBVIOUS
<1>1. CASE UNCHANGED tracesVars
  BY <1>1, NothingHappens
<1>2. CASE Next
  BY <1>2, MeanwhileStep, ListRootsStep, ListCountsStep, DetailStep, DrawStep DEF Next
<1> QED BY <1>1, <1>2

-----------------------------------------------------------------------------
(* The theorems.                                                           *)

LEMMA InvariantAlways == Spec => []IInv
<1>1. TInv => IInv
  BY DEF TInv
<1> QED BY <1>1, TracesInit, TracesStep, PTL DEF Spec

LEMMA IngestionSteps == [Next]_tracesVars => [IngestionNext]_ingestionVars
BY DEF Next, tracesVars, ListRoots, ListCounts, Detail, Draw

\* Every variable of the ingestion keeps its type.
THEOREM IngestionTypes == Spec => []TypeOK
<1>1. IInv => TypeOK
  BY DEF IInv
<1> QED BY <1>1, InvariantAlways, PTL

\* A token that somebody was answered is revoked has a time of revocation.
LEMMA RevokedTold ==
    ASSUME TypeOK, RevocationsAgree, NEW t \in Tokens, ToldOf(t) # {}
    PROVE  tokens[t].state = "revoked"
<1>1. tokens[t].revokedAt \in ToldOf(t)
  BY DEF RevocationsAgree
<1>2. PICK n \in Managers : managers[n].pc = "done" /\ tokens[t].revokedAt = managers[n].answer
  BY <1>1 DEF ToldOf
<1> QED BY <1>2 DEF RevocationsAgree

\* Once somebody was answered that a token is revoked, the requests it let in
\* before may still store and nothing else does (ProjectService.revokeToken,
\* ProjectTokenVerifier.verify, IngestAuthGuard).
THEOREM RevocationDrains == Spec => RevokedOnlyDrains
<1>1. ASSUME IInv, IngestionNext, NEW t \in Tokens, ToldOf(t) # {}
      PROVE  UnderWay(t)' \subseteq UnderWay(t)
  <2> SUFFICES ASSUME NEW s \in Senders, requests'[s].pc = "admitted", requests'[s].credential = t
               PROVE  s \in UnderWay(t)
    BY DEF UnderWay
  <2>1. tokens[t].state # "live"
    BY <1>1, RevokedTold DEF IInv
  <2>2. ~Admits(t, requests'[s].path)
    BY <2>1, IngestionAssumption DEF Admits, ResolveProject, Verify, TokenShaped, IngestionAssumption
  <2>3. requests[s].pc = "admitted" /\ requests[s].credential = t
    BY <1>1, <2>2, RequestSteps DEF IInv
  <2> QED BY <2>3 DEF UnderWay
<1>2. ASSUME IInv, IngestionNext, NEW t \in Tokens, NEW p \in Projects, NEW i \in Ids,
             rows[p][i] = None, rows'[p][i] # None, requests'[rows'[p][i].body].credential = t
      PROVE  rows'[p][i].body \in UnderWay(t)
  <2> DEFINE s == rows'[p][i].body
  <2>1. s \in Senders /\ requests[s].pc = "admitted"
    BY <1>2, RowSteps DEF IInv
  <2> HIDE DEF s
  <2>2. requests'[s].credential = requests[s].credential
    BY <1>2, <2>1, RequestSteps DEF IInv
  <2> QED BY <1>2, <2>1, <2>2 DEF UnderWay, s
<1>3. IInv /\ [IngestionNext]_ingestionVars =>
        [\A t \in Tokens : ToldOf(t) # {} =>
            /\ UnderWay(t)' \subseteq UnderWay(t)
            /\ \A p \in Projects, i \in Ids :
                  LET row == rows'[p][i]
                  IN  rows[p][i] = None /\ row # None /\ requests'[row.body].credential = t
                        => row.body \in UnderWay(t)]_ingestionVars
  BY <1>1, <1>2
<1> QED BY <1>3, InvariantAlways, IngestionSteps, PTL DEF Spec, RevokedOnlyDrains

\* What is stored under a project was sent with a credential of it, to a
\* route that named it or none (IngestAuthGuard, the two repositories).
THEOREM StoredInTheRightProject == Spec => []InTheRightProject
<1>1. IInv => InTheRightProject
  <2> SUFFICES ASSUME IInv, NEW p \in Projects, NEW i \in Ids, rows[p][i] # None
               PROVE  LET r == requests[rows[p][i].body]
                      IN  Owner(r.credential) = p /\ r.path \in {None, p}
    BY DEF InTheRightProject
  <2>1. rows[p][i].body \in Senders
    BY DEF IInv, TypeOK, Row
  <2> QED BY <2>1 DEF IInv, RowsHaveAWriter, RequestsKnowTheirOwner
<1> QED BY <1>1, InvariantAlways, PTL

\* A receipt stays true until the row is old enough for retention
\* (LogRecordRepository.store, LogRetentionService).
THEOREM ReceiptsStayTrue == Spec => []ReceiptNamesTheRow
<1>1. IInv => ReceiptNamesTheRow
  BY DEF IInv
<1> QED BY <1>1, InvariantAlways, PTL

\* Whoever revokes a token after somebody was answered is told one of the
\* times that were answered (ProjectService.revokeToken).
THEOREM RevocationsTellOneTime == Spec => []RepeatedRevokeSameAnswer
<1>1. IInv => RepeatedRevokeSameAnswer
  BY DEF IInv
<1> QED BY <1>1, InvariantAlways, PTL

\* No repeat changes a row (LogRecordRepository.store,
\* SpanRepository.store).
THEOREM RowsNeverChange == Spec => RowsStayAsTheyAre
<1>1. IInv /\ [IngestionNext]_ingestionVars =>
        [\A p \in Projects, i \in Ids :
            rows[p][i] # None /\ rows'[p][i] # None => rows'[p][i] = rows[p][i]]_ingestionVars
  BY RowSteps DEF IInv
<1> QED BY <1>1, InvariantAlways, IngestionSteps, PTL DEF Spec, RowsStayAsTheyAre

\* The waterfall of a trace is the tree of its spans, in its window; its
\* loop draws each span once; a list counts the roots it lists
\* (orderSpansDepthFirst, TraceService.detail, TraceService.list).
THEOREM TracesInvariant == Spec => []TracesInv
<1>1. TInv => TracesInv
  <2> SUFFICES ASSUME TInv PROVE TracesInv
    OBVIOUS
  <2>1. EachOnce
    BY NothingToDraw DEF TInv, TracesTypeOK, Viewer, Drawing
  <2>2. WaterfallIsTheTree /\ WindowCoversTheSpans
    BY DEF TInv, WaterfallIsTheTree, WindowCoversTheSpans, CutLate, Window
  <2> QED BY <2>1, <2>2 DEF TInv, TracesInv
<1> QED BY <1>1, TracesInit, TracesStep, PTL DEF Spec

\* Where no parents form a cycle there is one waterfall of the spans, in
\* whatever order the database returned them (orderSpansDepthFirst).
THEOREM SameWaterfallTwice ==
    ASSUME IdsDiffer, Unrooted = {}, Range(spans') = Range(spans),
           NEW a \in Seq(Line), NEW b \in Seq(Line), IsWaterfall(a), IsWaterfall(b)'
    PROVE  a = b
<1>1. Present' = Present /\ Roots' = Roots
  BY DEF Present, Roots
<1>2. Orphans' = Orphans
  BY <1>1 DEF Orphans
<1>3. Unrooted' = Unrooted
  BY <1>1 DEF Unrooted
<1>4. \A s : Hangs(s) /\ Hangs(s)'
  BY <1>3 DEF Hangs
<1>5. \A s : Rank(s)' = Rank(s)
  BY <1>4 DEF Rank
<1>6. \A l, m : Follows(l, m)' = Follows(l, m)
  BY <1>4, <1>5 DEF Follows
<1>7. IsWaterfall(b)
  BY <1>1, <1>2, <1>4, <1>6 DEF IsWaterfall
<1> QED BY <1>7, OneWaterfall

-----------------------------------------------------------------------------
(* What the reporters put on the wire.                                     *)

\* What the texts are: how long each is for either way to measure it, what
\* is left of it, and whether a schema takes it.
LEMMA Lengths ==
    /\ MaxText \in Nat /\ MaxText >= 1
    /\ NoText.units = 0 /\ Short.units = 1 /\ Blank.units = 1 /\ Full.units = MaxText
    /\ Long.units = MaxText + 1 /\ Wide.units = 2 * MaxText
    /\ NoText.points = 0 /\ Short.points = 1 /\ Blank.points = 1 /\ Full.points = MaxText
    /\ Long.points = MaxText + 1 /\ Wide.points = MaxText
    /\ ~NoText.blank /\ ~Short.blank /\ Blank.blank /\ ~Full.blank /\ ~Long.blank /\ ~Wide.blank
BY WireAssumption DEF NoText, Short, Blank, Full, Long, Wide, Text

LEMMA Stripped ==
    /\ Strip(NoText) = NoText /\ Strip(Short) = Short /\ Strip(Blank) = NoText
    /\ Strip(Full) = Full /\ Strip(Long) = Long /\ Strip(Wide) = Wide
BY Lengths DEF Strip

LEMMA Clipped ==
    /\ Clip(NoText) = NoText /\ Clip(Short) = Short /\ Clip(Blank) = Blank
    /\ Clip(Full) = Full /\ Clip(Long) = Full /\ Clip(Wide) = Full
BY Lengths DEF Clip

LEMMA Taken ==
    /\ ~NonEmpty(NoText) /\ NonEmpty(Short) /\ ~NonEmpty(Blank)
    /\ NonEmpty(Full) /\ ~NonEmpty(Long) /\ ~NonEmpty(Wide)
BY Lengths, Stripped DEF NonEmpty

LEMMA Differ ==
    /\ NoText \notin {Short, Blank, Full, Long, Wide}
    /\ Blank \notin {NoText, Short, Full, Long, Wide}
    /\ Wide \notin {NoText, Short, Blank, Full, Long}
    /\ Long \notin {NoText, Short, Blank, Full, Wide}
BY Lengths

LEMMA KeysFit ==
    /\ ~KeyFits(NoText) /\ KeyFits(Short) /\ KeyFits(Blank) /\ KeyFits(Full) /\ ~KeyFits(Long)
    /\ KeyFits(Wide) <=> sdk = "py"
BY Lengths DEF KeyFits

\* Tags as a scope holds them and as a call gives them.
AnyTag == [key : Texts, value : {NoText, Short, Blank, Full, Long}]

\* A tag a report carries that costs it.
BadTag(t) == (sdk = "js" /\ Blank \in {t.key, t.value}) \/ (sdk = "py" /\ t.key = Wide)

LEMMA JsTagIs ==
    ASSUME NEW tag \in AnyTag, NEW t \in JsTag(tag)
    PROVE  /\ t = [key |-> tag.key, value |-> Clip(tag.value)]
           /\ t.key \in {Short, Blank, Full} /\ t.value \in {Short, Blank, Full}
           /\ t.key = tag.key /\ t.value = Clip(tag.value)
<1>1. /\ tag.key \in Texts /\ tag.value \in {NoText, Short, Blank, Full, Long}
      /\ tag.key.units \in 1..MaxText /\ tag.value.units # 0
      /\ t = [key |-> tag.key, value |-> Clip(tag.value)]
  BY DEF AnyTag, JsTag
<1>2. tag.key \in {Short, Blank, Full}
  BY <1>1, Lengths DEF Texts
<1>3. Clip(tag.value) \in {Short, Blank, Full}
  BY <1>1, Lengths, Clipped
<1> QED BY <1>1, <1>2, <1>3

LEMMA PyTagIs ==
    ASSUME NEW tag \in AnyTag, NEW t \in PyTag(tag)
    PROVE  /\ t = [key |-> tag.key, value |-> Clip(tag.value)]
           /\ t.key \in {Short, Full, Wide} /\ t.value \in {Short, Full}
           /\ t.key = tag.key /\ t.value = Clip(tag.value)
<1>1. /\ tag.key \in Texts /\ tag.value \in {NoText, Short, Blank, Full, Long}
      /\ Strip(tag.key).points \in 1..MaxText /\ Strip(tag.value).units # 0
      /\ t = [key |-> Strip(tag.key), value |-> Clip(Strip(tag.value))]
  BY DEF AnyTag, PyTag
<1>2. Strip(tag.key) = tag.key /\ tag.key \in {Short, Full, Wide}
  BY <1>1, Lengths, Stripped DEF Texts
<1>3. Strip(tag.value) = tag.value /\ tag.value \in {Short, Full, Long}
  BY <1>1, Lengths, Stripped
<1>4. Clip(tag.value) \in {Short, Full}
  BY <1>3, Clipped
<1> QED BY <1>1, <1>2, <1>3, <1>4

\* What either reporter makes of a tag: none or one, of the same key.
LEMMA TagIs ==
    ASSUME NEW tag \in AnyTag, NEW t \in Tag(tag), sdk \in {"js", "py"}
    PROVE  /\ t \in AnyTag /\ t.key = tag.key /\ t.value = Clip(tag.value)
           /\ t = [key |-> tag.key, value |-> Clip(tag.value)]
           /\ t.value.units \in 1..MaxText
           /\ NonEmpty(t.key) /\ NonEmpty(t.value) <=> ~BadTag(t)
<1>1. CASE sdk = "js"
  <2>1. t.key \in {Short, Blank, Full} /\ t.value \in {Short, Blank, Full} /\ t.key = tag.key /\ t.value = Clip(tag.value)
        /\ t = [key |-> tag.key, value |-> Clip(tag.value)]
    BY <1>1, JsTagIs DEF Tag
  <2>2. t \in AnyTag
    BY <2>1 DEF AnyTag, Texts
  <2> QED BY <1>1, <2>1, <2>2, Lengths, Taken, Differ DEF BadTag
<1>2. CASE sdk # "js"
  <2>1. t.key \in {Short, Full, Wide} /\ t.value \in {Short, Full} /\ t.key = tag.key /\ t.value = Clip(tag.value)
        /\ t = [key |-> tag.key, value |-> Clip(tag.value)]
    BY <1>2, PyTagIs DEF Tag
  <2>2. t \in AnyTag
    BY <2>1 DEF AnyTag, Texts
  <2> QED BY <1>2, <2>1, <2>2, Lengths, Taken, Differ DEF BadTag
<1> QED BY <1>1, <1>2

LEMMA MergeIs ==
    ASSUME NEW ts \in Seq(AnyTag), NEW tag \in AnyTag
    PROVE  /\ Merge(ts, tag) \in Seq(AnyTag)
           /\ \A i \in DOMAIN Merge(ts, tag) : Merge(ts, tag)[i].key = tag.key => Merge(ts, tag)[i] = tag
<1>0. DOMAIN ts = 1..Len(ts) /\ Len(ts) \in Nat /\ \A i \in DOMAIN ts : ts[i] \in AnyTag
  BY LenProperties, ElementOfSeq
<1>1. CASE \E i \in DOMAIN ts : ts[i].key = tag.key
  <2> DEFINE new == [i \in 1..Len(ts) |-> IF ts[i].key = tag.key THEN tag ELSE ts[i]]
  <2>1. Merge(ts, tag) = new
    BY <1>0, <1>1 DEF Merge
  <2>2. new \in Seq(AnyTag)
    BY <1>0, IsASeq
  <2> QED BY <1>0, <2>1, <2>2
<1>2. CASE ~\E i \in DOMAIN ts : ts[i].key = tag.key
  <2>1. Merge(ts, tag) = Append(ts, tag)
    BY <1>2 DEF Merge
  <2>2. /\ Append(ts, tag) \in Seq(AnyTag) /\ Len(Append(ts, tag)) = Len(ts) + 1
        /\ \A i \in 1..Len(ts) : Append(ts, tag)[i] = ts[i]
        /\ Append(ts, tag)[Len(ts) + 1] = tag
    BY AppendProperties
  <2>3. DOMAIN Append(ts, tag) = 1..Len(ts) + 1
    BY <2>2, LenProperties
  <2>4. \A i \in 1..Len(ts) + 1 : i \in 1..Len(ts) \/ i = Len(ts) + 1
    BY <1>0
  <2> QED BY <1>0, <1>2, <2>1, <2>2, <2>3, <2>4
<1> QED BY <1>1, <1>2

\* At most one tag for every index of a set that is not too large.
LEMMA OneEach ==
    ASSUME NEW ts \in Seq(AnyTag), NEW I \in SUBSET DOMAIN ts, IsFiniteSet(I),
           NEW S, \A t \in S : \E i \in I : t = [key |-> ts[i].key, value |-> Clip(ts[i].value)]
    PROVE  IsFiniteSet(S) /\ Cardinality(S) <= Cardinality(I)
<1> DEFINE as == [i \in I |-> [key |-> ts[i].key, value |-> Clip(ts[i].value)]]
           Image == {as[i] : i \in I}
<1>1. as \in Surjection(I, Image)
  BY DEF Surjection
<1>2. S \subseteq Image
  OBVIOUS
<1> HIDE DEF as
<1>3. IsFiniteSet(Image) /\ Cardinality(Image) <= Cardinality(I)
  <2> HIDE DEF Image
  <2> QED BY <1>1, FS_Surjection
<1> HIDE DEF Image
<1>4. IsFiniteSet(S) /\ Cardinality(S) <= Cardinality(Image)
  BY <1>2, <1>3, FS_Subset
<1>5. Cardinality(S) \in Nat /\ Cardinality(Image) \in Nat /\ Cardinality(I) \in Nat
  BY <1>3, <1>4, FS_CardinalityType
<1> QED BY <1>3, <1>4, <1>5

\* The loop of sanitize_tags ends at MAX_TAGS.
LEMMA KeptAreFew ==
    ASSUME NEW ts \in Seq(AnyTag)
    PROVE  PyKept(ts) \subseteq DOMAIN ts /\ IsFiniteSet(PyKept(ts)) /\ Cardinality(PyKept(ts)) <= MaxTags
<1> DEFINE usable == {i \in DOMAIN ts : PyTag(ts[i]) # {}}
           kept == PyKept(ts)
<1>1. DOMAIN ts = 1..Len(ts) /\ Len(ts) \in Nat /\ MaxTags \in Nat
  BY LenProperties, WireAssumption
<1>2. IsFiniteSet(usable) /\ usable \subseteq Nat
  <2>1. IsFiniteSet(1..Len(ts))
    BY <1>1, FS_Interval
  <2> QED BY <1>1, <2>1, FS_Subset
<1>3. kept = {i \in usable : Cardinality(usable \cap 1..i - 1) < MaxTags}
  BY DEF PyKept
<1>4. IsFiniteSet(kept) /\ kept \subseteq usable
  BY <1>2, <1>3, FS_Subset
<1>5. CASE kept = {}
  BY <1>1, <1>5, FS_EmptySet
<1>6. CASE kept # {}
  <2> HIDE DEF usable, kept
  <2>1. PICK last \in kept : \A i \in kept : i <= last
    BY <1>2, <1>4, <1>6, GreatestOf
  <2>2. kept \ {last} \subseteq usable \cap 1..last - 1
    <3>1. \A i \in kept : i \in Nat /\ i \in usable
      BY <1>2, <1>4
    <3>2. \A i \in usable : i >= 1
      BY <1>1 DEF usable
    <3>3. \A i \in kept \ {last} : i \in 1..last - 1
      BY <2>1, <3>1, <3>2
    <3> QED BY <3>1, <3>3
  <2> DEFINE before == usable \cap 1..last - 1
  <2>3. IsFiniteSet(before) /\ Cardinality(before) < MaxTags
    <3>1. IsFiniteSet(before)
      BY <1>2, FS_Subset
    <3> QED BY <1>3, <2>1, <3>1
  <2> HIDE DEF before
  <2>4. Cardinality(kept \ {last}) <= Cardinality(before) /\ IsFiniteSet(kept \ {last})
    BY <2>2, <2>3, FS_Subset DEF before
  <2>5. Cardinality(kept \ {last}) = Cardinality(kept) - 1
    BY <1>4, <2>1, FS_RemoveElement
  <2>6. Cardinality(kept) \in Nat /\ Cardinality(before) \in Nat
    BY <1>4, <2>3, FS_CardinalityType
  <2>7. Cardinality(kept) <= MaxTags
    BY <1>1, <2>3, <2>4, <2>5, <2>6
  <2> QED BY <1>4, <2>7 DEF kept, usable
<1> QED BY <1>4, <1>5, <1>6

\* What a report carries of the tags.
LEMMA SentTagsAre ==
    ASSUME NEW ts \in Seq(AnyTag), sdk \in {"js", "py"}
    PROVE  /\ Cardinality(SentTags(ts)) <= MaxTags
           /\ \A t \in SentTags(ts) : \E i \in DOMAIN ts : t \in Tag(ts[i])
<1>0. DOMAIN ts = 1..Len(ts) /\ Len(ts) \in Nat /\ MaxTags \in Nat /\ \A i \in DOMAIN ts : ts[i] \in AnyTag
  BY LenProperties, ElementOfSeq, WireAssumption
<1> DEFINE I == IF sdk = "js" THEN 1..Least(Len(ts), MaxTags) ELSE PyKept(ts)
<1>1. I \in SUBSET DOMAIN ts /\ IsFiniteSet(I) /\ Cardinality(I) <= MaxTags
  <2>1. CASE sdk = "js"
    <3> DEFINE n == Least(Len(ts), MaxTags)
    <3>1. n \in Nat /\ n <= Len(ts) /\ n <= MaxTags
      BY <1>0 DEF Least
    <3>2. I = 1..n
      BY <2>1
    <3> HIDE DEF n, I
    <3>3. IsFiniteSet(1..n) /\ Cardinality(1..n) = IF 1 > n THEN 0 ELSE n - 1 + 1
      BY <3>1, FS_Interval
    <3>4. Cardinality(1..n) <= MaxTags
      BY <1>0, <3>1, <3>3
    <3>5. 1..n \subseteq DOMAIN ts
      BY <1>0, <3>1
    <3> QED BY <3>2, <3>3, <3>4, <3>5
  <2>2. CASE sdk # "js"
    BY <2>2, KeptAreFew
  <2> QED BY <2>1, <2>2
<1>2. \A t \in SentTags(ts) : \E i \in I : t \in Tag(ts[i])
  BY DEF SentTags, Tag
<1> HIDE DEF I
<1>3. \A t \in SentTags(ts) : \E i \in I : t = [key |-> ts[i].key, value |-> Clip(ts[i].value)]
  BY <1>0, <1>1, <1>2, TagIs
<1>4. IsFiniteSet(SentTags(ts)) /\ Cardinality(SentTags(ts)) <= Cardinality(I)
  BY <1>1, <1>3, OneEach
<1>5. Cardinality(SentTags(ts)) \in Nat /\ Cardinality(I) \in Nat
  BY <1>1, <1>4, FS_CardinalityType
<1> QED BY <1>0, <1>1, <1>2, <1>4, <1>5

\* The breadcrumbs: a ring of the newest, each as a report carries it.
LEMMA RingIs ==
    ASSUME NEW S, NEW crumbs \in Seq(S), NEW n, n = Least(Len(crumbs), MaxTrail)
    PROVE  /\ Ring(crumbs) \in Seq(S) /\ n \in Nat /\ n <= Len(crumbs) /\ n <= MaxTrail
           /\ Len(Ring(crumbs)) = n /\ DOMAIN Ring(crumbs) = 1..n
           /\ \A i \in 1..n : Ring(crumbs)[i] = crumbs[Len(crumbs) - n + i]
<1> DEFINE len == Len(crumbs)
<1>1. len \in Nat /\ DOMAIN crumbs = 1..len /\ (\A i \in 1..len : crumbs[i] \in S) /\ MaxTrail \in Nat
  BY LenProperties, ElementOfSeq, WireAssumption
<1>2. Ring(crumbs) = SubSeq(crumbs, 1 + len - n, len)
  BY DEF Ring
<1>0. n = Least(len, MaxTrail)
  OBVIOUS
<1> HIDE DEF len
<1>3. n \in Nat /\ n <= len /\ n <= MaxTrail
  BY <1>0, <1>1 DEF Least
<1>4. /\ 1 + len - n \in Int /\ len \in Int
      /\ \A i \in 1 + len - n..len : i \in 1..len
      /\ (IF 1 + len - n <= len THEN len - (1 + len - n) + 1 ELSE 0) = n
      /\ len - (1 + len - n) + 1 = n
      /\ \A i \in 1..n : (1 + len - n) + i - 1 = len - n + i
  BY <1>1, <1>3
<1>5. \A i \in 1 + len - n..len : crumbs[i] \in S
  BY <1>1, <1>4
<1>6. /\ Ring(crumbs) \in Seq(S)
      /\ Len(Ring(crumbs)) = IF 1 + len - n <= len THEN len - (1 + len - n) + 1 ELSE 0
      /\ \A i \in 1..len - (1 + len - n) + 1 : Ring(crumbs)[i] = crumbs[(1 + len - n) + i - 1]
  BY <1>2, <1>4, <1>5, SubSeqProperties
<1>7. Len(Ring(crumbs)) = n /\ \A i \in 1..n : Ring(crumbs)[i] = crumbs[len - n + i]
  BY <1>4, <1>6
<1>8. DOMAIN Ring(crumbs) = 1..n
  BY <1>6, <1>7, LenProperties
<1> QED BY <1>3, <1>6, <1>7, <1>8 DEF len

\* `ring` is the last n of the k crumbs.
EndOf(ring, crumbs, k, n) == Len(ring) = n /\ \A i \in 1..n : ring[i] = crumbs[k - n + i]

LEMMA RingAt ==
    ASSUME NEW S, NEW crumbs \in Seq(S)
    PROVE  /\ Ring(crumbs) \in Seq(S)
           /\ EndOf(Ring(crumbs), crumbs, Len(crumbs), Least(Len(crumbs), MaxTrail))
<1> DEFINE n == Least(Len(crumbs), MaxTrail)
<1>1. /\ Ring(crumbs) \in Seq(S) /\ Len(Ring(crumbs)) = n
      /\ \A i \in 1..n : Ring(crumbs)[i] = crumbs[Len(crumbs) - n + i]
  BY RingIs
<1> QED BY <1>1 DEF EndOf

\* What the ring of all that was left holds is the ring of the ring and the last.
LEMMA RingOfRing ==
    ASSUME NEW S, NEW crumbs \in Seq(S), NEW c \in S
    PROVE  /\ Ring(Append(Ring(crumbs), c)) = Ring(Append(crumbs, c))
           /\ Ring(Ring(crumbs)) = Ring(crumbs)
<1> DEFINE len == Len(crumbs)
           n == Least(len, MaxTrail)
           ring == Ring(crumbs)
           longer == Append(crumbs, c)
           grown == Append(ring, c)
<1>1. /\ ring \in Seq(S) /\ n \in Nat /\ n <= len /\ n <= MaxTrail /\ Len(ring) = n
      /\ \A i \in 1..n : ring[i] = crumbs[len - n + i]
  BY RingIs
<1>2. len \in Nat /\ MaxTrail \in Nat /\ MaxTrail >= 1
  BY LenProperties, WireAssumption
<1>3. /\ longer \in Seq(S) /\ Len(longer) = len + 1 /\ longer[len + 1] = c
      /\ \A i \in 1..len : longer[i] = crumbs[i]
  BY AppendProperties
<1>4. /\ grown \in Seq(S) /\ Len(grown) = n + 1 /\ grown[n + 1] = c
      /\ \A i \in 1..n : grown[i] = ring[i]
  <2> HIDE DEF n, ring
  <2> QED BY <1>1, AppendProperties
<1>5. n = IF len < MaxTrail THEN len ELSE MaxTrail
  BY DEF Least
<1> DEFINE m == Least(len + 1, MaxTrail)
<1>6. m = Least(n + 1, MaxTrail) /\ m \in Nat /\ m <= n + 1 /\ m <= len + 1 /\ n = Least(n, MaxTrail)
  BY <1>1, <1>2, <1>5 DEF Least
<1> HIDE DEF len, n, ring, longer, grown, m
<1>7. /\ Ring(longer) \in Seq(S) /\ Len(Ring(longer)) = m
      /\ \A i \in 1..m : Ring(longer)[i] = longer[(len + 1) - m + i]
  <2>1. longer \in Seq(S)
    BY <1>3
  <2>2. Ring(longer) \in Seq(S) /\ EndOf(Ring(longer), longer, Len(longer), Least(Len(longer), MaxTrail))
    BY <2>1, RingAt
  <2>3. Len(longer) = len + 1
    BY <1>3
  <2>4. Least(len + 1, MaxTrail) = m
    BY DEF m
  <2>5. EndOf(Ring(longer), longer, len + 1, m)
    BY <2>2, <2>3, <2>4
  <2> QED BY <2>2, <2>5 DEF EndOf
<1>8. /\ Ring(grown) \in Seq(S) /\ Len(Ring(grown)) = m
      /\ \A i \in 1..m : Ring(grown)[i] = grown[(n + 1) - m + i]
  <2>1. grown \in Seq(S)
    BY <1>4
  <2>2. Ring(grown) \in Seq(S) /\ EndOf(Ring(grown), grown, Len(grown), Least(Len(grown), MaxTrail))
    BY <2>1, RingAt
  <2>3. Len(grown) = n + 1
    BY <1>4
  <2>4. Least(n + 1, MaxTrail) = m
    BY <1>6
  <2>5. EndOf(Ring(grown), grown, n + 1, m)
    BY <2>2, <2>3, <2>4
  <2> QED BY <2>2, <2>5 DEF EndOf
<1>9. ASSUME NEW i \in 1..m PROVE Ring(grown)[i] = Ring(longer)[i]
  <2>1. CASE i = m
    <3>1. (len + 1) - m + i = len + 1 /\ (n + 1) - m + i = n + 1
      BY <1>1, <1>2, <1>6, <2>1
    <3> QED BY <1>3, <1>4, <1>7, <1>8, <3>1
  <2>2. CASE i # m
    <3>1. /\ (n + 1) - m + i \in 1..n /\ (len + 1) - m + i \in 1..len
          /\ len - n + ((n + 1) - m + i) = (len + 1) - m + i
      <4>1. n \in Nat /\ len \in Nat /\ m \in Nat /\ m <= n + 1 /\ m <= len + 1 /\ i \in 1..m
        BY <1>1, <1>2, <1>6
      <4> QED BY <2>2, <4>1
    <3>2. Ring(grown)[i] = grown[(n + 1) - m + i] /\ Ring(longer)[i] = longer[(len + 1) - m + i]
      BY <1>7, <1>8
    <3>3. grown[(n + 1) - m + i] = ring[(n + 1) - m + i]
      BY <1>4, <3>1
    <3>4. ring[(n + 1) - m + i] = crumbs[(len + 1) - m + i]
      BY <1>1, <3>1
    <3> QED BY <1>3, <3>1, <3>2, <3>3, <3>4
  <2> QED BY <2>1, <2>2
<1>10. Ring(grown) = Ring(longer)
  BY <1>7, <1>8, <1>9, SeqEqual
<1>11. /\ Ring(ring) \in Seq(S) /\ Len(Ring(ring)) = n
       /\ \A i \in 1..n : Ring(ring)[i] = ring[n - n + i]
  <2>3. ring \in Seq(S) /\ Len(ring) = n
    BY <1>1
  <2>1. Least(Len(ring), MaxTrail) = n
    BY <1>1, <1>6
  <2>2. /\ Ring(ring) \in Seq(S) /\ Len(Ring(ring)) = n
        /\ \A i \in 1..n : Ring(ring)[i] = ring[Len(ring) - n + i]
    BY <2>1, <2>3, RingIs
  <2> QED BY <2>2, <2>3
<1>12. Ring(ring) = ring
  <2>1. \A i \in 1..n : n - n + i = i
    BY <1>1
  <2> QED BY <1>1, <1>11, <2>1, SeqEqual
<1> QED BY <1>10, <1>12 DEF ring, longer, grown

\* What an application can hand over: a value in a bag, a breadcrumb, a log record.
AnyData == [key : {Short, Long, Wide}, depth : Nat, weight : {"small", "bulky", "heavy"}, lone : BOOLEAN]
AnyCrumb == [dated : BOOLEAN, message : SUBSET Texts, data : SUBSET AnyData]
AnyLog == [message : Texts \ {NoText}, category : Texts, attributes : SUBSET AnyData, dated : BOOLEAN]

\* A value is taken with its depth cut at a limit: by its key, its depth and its weight.
LEMMA CutData ==
    ASSUME NEW d \in AnyData, NEW limit \in Nat, NEW most \in Nat, limit >= most
    PROVE  LET cut == [d EXCEPT !.depth = Least(@, most)]
           IN  /\ cut.lone = d.lone /\ cut.weight = d.weight /\ cut.key = d.key
               /\ TakesData(cut, limit) <=> d.key = Short /\ d.weight # "heavy" /\ (most = limit => d.depth < limit)
<1> DEFINE cut == [d EXCEPT !.depth = Least(@, most)]
<1>1. /\ d.key \in {Short, Long, Wide} /\ d.depth \in Nat
      /\ cut.lone = d.lone /\ cut.weight = d.weight /\ cut.key = d.key /\ cut.depth = Least(d.depth, most)
  BY DEF AnyData
<1> HIDE DEF cut
<1>2. d.key.units \in 1..MaxText <=> d.key = Short
  BY <1>1, Lengths
<1>3. cut.depth + 1 <= limit <=> (most = limit => d.depth < limit)
  <2>1. CASE most = limit
    BY <1>1, <2>1 DEF Least
  <2>2. CASE most < limit
    BY <1>1, <2>2 DEF Least
  <2> QED BY <2>1, <2>2
<1>4. TakesData(cut, limit) <=> d.key = Short /\ d.weight # "heavy" /\ (most = limit => d.depth < limit)
  BY <1>1, <1>2, <1>3 DEF TakesData
<1> QED BY <1>1, <1>4 DEF cut

LEMMA FittingKeys ==
    ASSUME NEW d \in AnyData
    PROVE  KeyFits(d.key) <=> d.key = Short \/ (sdk = "py" /\ d.key = Wide)
BY KeysFit, Differ DEF AnyData

\* The attributes of a report or a log record: halves of pairs, and keys.
LEMMA LoneIs ==
    ASSUME NEW bag \in SUBSET AnyData, \A d \in bag : d.lone => d.key = Short
    PROVE  (\E d \in Attributes(bag) : d.lone) <=> \E d \in bag : d.lone
<1>1. \A d \in bag : [d EXCEPT !.depth = Least(@, MaxDepth)].lone = d.lone
  BY DEF AnyData
<1>2. \A d \in bag : d.lone => KeyFits(d.key)
  BY FittingKeys
<1> QED BY <1>1, <1>2 DEF Attributes

LEMMA GivenIs ==
    ASSUME NEW bag \in SUBSET AnyData, sdk \in {"js", "py"}
    PROVE  TakesAttributes(Attributes(bag)) <=> ~(sdk = "py" /\ \E d \in bag : d.key = Wide)
<1>1. \A d \in bag : [d EXCEPT !.depth = Least(@, MaxDepth)].key = d.key
  BY DEF AnyData
<1>2. \A d \in bag : KeyFits(d.key) <=> d.key = Short \/ (sdk = "py" /\ d.key = Wide)
  BY FittingKeys
<1>3. Short.units \in 1..MaxText /\ Wide.units \notin 1..MaxText
  BY Lengths
<1>4. TakesAttributes(Attributes(bag)) <=> \A d \in bag : KeyFits(d.key) => d.key.units \in 1..MaxText
  BY <1>1 DEF TakesAttributes, Attributes
<1> QED BY <1>2, <1>3, <1>4

\* The bag of a breadcrumb.
LEMMA JsDataIs ==
    ASSUME NEW data \in SUBSET AnyData, sdk = "js"
    PROVE  (\A d \in JsData(data) : TakesData(d, MaxData)) <=>
               ~\E d \in data : d.key = Short /\ d.weight # "heavy" /\ d.depth >= MaxData
<1>1. MaxData \in Nat
  BY WireAssumption
<1>2. \A d \in data : d.depth \in Nat
  BY DEF AnyData
<1>3. \A d \in data : KeyFits(d.key) <=> d.key = Short
  BY FittingKeys
<1>4. \A d \in data : TakesData([d EXCEPT !.depth = Least(@, MaxData)], MaxData) <=>
                          d.key = Short /\ d.weight # "heavy" /\ d.depth < MaxData
  BY <1>1, CutData
<1>5. (\A d \in JsData(data) : TakesData(d, MaxData)) <=>
          \A d \in data : KeyFits(d.key) /\ d.weight # "heavy" => TakesData([d EXCEPT !.depth = Least(@, MaxData)], MaxData)
  BY DEF JsData
<1>6. \A d \in data : d.depth < MaxData <=> ~(d.depth >= MaxData)
  BY <1>1, <1>2
<1> QED BY <1>3, <1>4, <1>5, <1>6

LEMMA PyDataIs ==
    ASSUME NEW data \in SUBSET AnyData, sdk = "py"
    PROVE  (\A d \in PyData(data) : TakesData(d, MaxData)) <=>
               ~\E d \in data : d.key = Wide /\ d.weight # "heavy"
<1>1. MaxData \in Nat /\ MaxData - 1 \in Nat /\ MaxData - 1 # MaxData /\ MaxData >= MaxData - 1
  BY WireAssumption
<1>3. \A d \in data : KeyFits(d.key) <=> d.key \in {Short, Wide}
  BY FittingKeys
<1>4. \A d \in data : TakesData([d EXCEPT !.depth = Least(@, MaxData - 1)], MaxData) <=>
                          d.key = Short /\ d.weight # "heavy"
  BY <1>1, CutData
<1>5. (\A d \in PyData(data) : TakesData(d, MaxData)) <=>
          \A d \in data : KeyFits(d.key) /\ d.weight # "heavy" => TakesData([d EXCEPT !.depth = Least(@, MaxData - 1)], MaxData)
  BY DEF PyData
<1>6. Short # Wide
  BY Differ
<1> QED BY <1>3, <1>4, <1>5, <1>6

\* The bag of a log record.
LEMMA AttributesAre ==
    ASSUME NEW data \in SUBSET AnyData
    PROVE  (\A d \in Attributes(data) : TakesData(d, MaxDepth)) <=>
               ~\E d \in data : \/ d.key = Short /\ (d.depth >= MaxDepth \/ d.weight = "heavy")
                                \/ sdk = "py" /\ d.key = Wide
<1>1. MaxDepth \in Nat
  BY WireAssumption
<1>2. \A d \in data : d.depth \in Nat
  BY DEF AnyData
<1>3. \A d \in data : KeyFits(d.key) <=> d.key = Short \/ (sdk = "py" /\ d.key = Wide)
  BY FittingKeys
<1>4. \A d \in data : TakesData([d EXCEPT !.depth = Least(@, MaxDepth)], MaxDepth) <=>
                          d.key = Short /\ d.weight # "heavy" /\ d.depth < MaxDepth
  BY <1>1, CutData
<1>5. (\A d \in Attributes(data) : TakesData(d, MaxDepth)) <=>
          \A d \in data : KeyFits(d.key) => TakesData([d EXCEPT !.depth = Least(@, MaxDepth)], MaxDepth)
  BY DEF Attributes
<1>6. \A d \in data : d.depth < MaxDepth <=> ~(d.depth >= MaxDepth)
  BY <1>1, <1>2
<1>7. Short # Wide
  BY Differ
<1> QED BY <1>3, <1>4, <1>5, <1>6, <1>7

\* What a report says of a breadcrumb, and whether the server takes it.
LEMMA CrumbIs ==
    ASSUME NEW c \in AnyCrumb, sdk \in {"js", "py"}, NEW made,
           made = IF sdk = "js" THEN JsCrumb(c) ELSE PyCrumb(c)
    PROVE  /\ TakesCrumb(made) <=> ~BadCrumb(c)
           /\ made.dated = c.dated
           /\ made.message # {} => c.message # {}
           /\ \A t \in made.message : t.units <= MaxText
<1>0. c.message \in SUBSET Texts /\ c.data \in SUBSET AnyData
  BY DEF AnyCrumb
<1>1. CASE sdk = "js"
  <2>1. made.dated = c.dated /\ made.message = {Clip(t) : t \in c.message \ {NoText}} /\ made.data = JsData(c.data)
    BY <1>1 DEF AnyCrumb, JsCrumb
  <2>2. \A t \in c.message \ {NoText} : /\ NonEmpty(Clip(t)) <=> t # Blank
                                        /\ Clip(t).units <= MaxText
    BY <1>0, Clipped, Taken, Lengths DEF Texts
  <2>3. (\A t \in made.message : NonEmpty(t)) <=> Blank \notin c.message
    BY <2>1, <2>2, Differ
  <2>4. (\A d \in made.data : TakesData(d, MaxData)) <=>
            ~\E d \in c.data : d.key = Short /\ d.weight # "heavy" /\ d.depth >= MaxData
    BY <1>0, <1>1, <2>1, JsDataIs
  <2> QED BY <1>1, <2>1, <2>2, <2>3, <2>4 DEF TakesCrumb, BadCrumb
<1>2. CASE sdk = "py"
  <2>1. /\ made.dated = c.dated /\ made.data = PyData(c.data)
        /\ made.message = {Clip(t) : t \in {Strip(u) : u \in c.message} \ {NoText}}
    BY <1>2 DEF AnyCrumb, PyCrumb
  <2>2. \A u \in c.message : Strip(u) # NoText => NonEmpty(Clip(Strip(u))) /\ Clip(Strip(u)).units <= MaxText
    BY <1>0, Clipped, Stripped, Taken, Lengths DEF Texts
  <2>3. \A t \in made.message : NonEmpty(t) /\ t.units <= MaxText
    BY <2>1, <2>2
  <2>4. (\A d \in made.data : TakesData(d, MaxData)) <=> ~\E d \in c.data : d.key = Wide /\ d.weight # "heavy"
    BY <1>0, <1>2, <2>1, PyDataIs
  <2> QED BY <1>2, <2>1, <2>3, <2>4 DEF TakesCrumb, BadCrumb
<1> QED BY <1>1, <1>2

LEMMA CrumbsAre == Crumbs \subseteq AnyCrumb
<1>1. \A n \in MaxData - 1..MaxData + 1 : n \in Nat
  BY WireAssumption
<1>2. \A k \in {Short, Wide}, n \in Nat, w \in {"small", "heavy"}, b \in BOOLEAN : Bag(k, n, w, b) \in SUBSET AnyData
  BY DEF Bag, AnyData
<1>3. \A dated \in BOOLEAN, message \in SUBSET Texts, data \in SUBSET AnyData :
          [dated |-> dated, message |-> message, data |-> data] \in AnyCrumb
  BY DEF AnyCrumb
<1>4. /\ Bag(Wide, 0, "small", FALSE) \in SUBSET AnyData /\ Bag(Short, 0, "heavy", FALSE) \in SUBSET AnyData
      /\ Bag(Short, 0, "small", TRUE) \in SUBSET AnyData /\ NoData \in SUBSET AnyData
      /\ \A n \in MaxData - 1..MaxData + 1 : Bag(Short, n, "small", FALSE) \in SUBSET AnyData
  BY <1>1, <1>2 DEF NoData
<1>5. \A t \in Texts : {t} \in SUBSET Texts
  OBVIOUS
<1> HIDE DEF AnyCrumb, AnyData
<1> SUFFICES ASSUME NEW c \in Crumbs PROVE c \in AnyCrumb
  OBVIOUS
<1>6. \/ \E t \in Texts : c = [dated |-> TRUE, message |-> {t}, data |-> NoData]
      \/ \E n \in MaxData - 1..MaxData + 1 : c = [dated |-> TRUE, message |-> {}, data |-> Bag(Short, n, "small", FALSE)]
      \/ c = [dated |-> FALSE, message |-> {}, data |-> NoData]
      \/ c = [dated |-> TRUE, message |-> {}, data |-> Bag(Wide, 0, "small", FALSE)]
      \/ c = [dated |-> TRUE, message |-> {}, data |-> Bag(Short, 0, "heavy", FALSE)]
      \/ c = [dated |-> TRUE, message |-> {}, data |-> Bag(Short, 0, "small", TRUE)]
  BY DEF Crumbs
<1> QED BY <1>3, <1>4, <1>5, <1>6

LEMMA LoggedAre ==
    ASSUME NEW l \in Logged
    PROVE  l \in AnyLog /\ \A d \in l.attributes : d.lone => d.key = Short
<1>1. \A n \in MaxDepth - 1..MaxDepth + 1 : n \in Nat
  BY WireAssumption
<1>2. \A k \in {Short, Long, Wide}, n \in Nat, w \in {"small", "bulky", "heavy"}, b \in BOOLEAN :
          Bag(k, n, w, b) \in SUBSET AnyData
  BY DEF Bag, AnyData
<1>3. \A t \in Texts \ {NoText}, c \in Texts, data \in SUBSET AnyData, b \in BOOLEAN :
          [message |-> t, category |-> c, attributes |-> data, dated |-> b] \in AnyLog
  BY DEF AnyLog
<1>4. Short \in Texts \ {NoText} /\ {} \in SUBSET AnyData
  BY Differ DEF Texts
<1>5. \/ \E t \in Texts \ {NoText} : l = [message |-> t, category |-> Short, attributes |-> {}, dated |-> TRUE]
      \/ \E t \in Texts : l = [message |-> Short, category |-> t, attributes |-> {}, dated |-> TRUE]
      \/ \E k \in {Short, Long, Wide} :
             l = [message |-> Short, category |-> Short, attributes |-> Bag(k, 0, "small", FALSE), dated |-> TRUE]
      \/ \E n \in MaxDepth - 1..MaxDepth + 1 :
             l = [message |-> Short, category |-> Short, attributes |-> Bag(Short, n, "small", FALSE), dated |-> TRUE]
      \/ \E w \in {"bulky", "heavy"} :
             l = [message |-> Short, category |-> Short, attributes |-> Bag(Short, 0, w, FALSE), dated |-> TRUE]
      \/ l = [message |-> Short, category |-> Short, attributes |-> Bag(Short, 0, "small", TRUE), dated |-> TRUE]
      \/ l = [message |-> Short, category |-> Short, attributes |-> {}, dated |-> FALSE]
  BY DEF Logged
<1>6. \/ l.attributes = {}
      \/ \E k \in {Short, Long, Wide} : l.attributes = Bag(k, 0, "small", FALSE)
      \/ \E n \in MaxDepth - 1..MaxDepth + 1 : l.attributes = Bag(Short, n, "small", FALSE)
      \/ \E w \in {"bulky", "heavy"} : l.attributes = Bag(Short, 0, w, FALSE)
      \/ l.attributes = Bag(Short, 0, "small", TRUE)
  <2>1. CASE \E n \in MaxDepth - 1..MaxDepth + 1 :
                 l = [message |-> Short, category |-> Short, attributes |-> Bag(Short, n, "small", FALSE), dated |-> TRUE]
    <3>1. PICK n \in MaxDepth - 1..MaxDepth + 1 :
                 l = [message |-> Short, category |-> Short, attributes |-> Bag(Short, n, "small", FALSE), dated |-> TRUE]
      BY <2>1
    <3>2. l.attributes = Bag(Short, n, "small", FALSE)
      BY <3>1
    <3> QED BY <3>2
  <2>2. CASE \E k \in {Short, Long, Wide} :
                 l = [message |-> Short, category |-> Short, attributes |-> Bag(k, 0, "small", FALSE), dated |-> TRUE]
    <3>1. PICK k \in {Short, Long, Wide} :
                 l = [message |-> Short, category |-> Short, attributes |-> Bag(k, 0, "small", FALSE), dated |-> TRUE]
      BY <2>2
    <3>2. l.attributes = Bag(k, 0, "small", FALSE)
      BY <3>1
    <3> QED BY <3>2
  <2>3. CASE \E w \in {"bulky", "heavy"} :
                 l = [message |-> Short, category |-> Short, attributes |-> Bag(Short, 0, w, FALSE), dated |-> TRUE]
    <3>1. PICK w \in {"bulky", "heavy"} :
                 l = [message |-> Short, category |-> Short, attributes |-> Bag(Short, 0, w, FALSE), dated |-> TRUE]
      BY <2>3
    <3>2. l.attributes = Bag(Short, 0, w, FALSE)
      BY <3>1
    <3> QED BY <3>2
  <2>4. \/ \E t \in Texts \ {NoText} : l = [message |-> t, category |-> Short, attributes |-> {}, dated |-> TRUE]
        \/ \E t \in Texts : l = [message |-> Short, category |-> t, attributes |-> {}, dated |-> TRUE]
        \/ l = [message |-> Short, category |-> Short, attributes |-> {}, dated |-> FALSE]
        => l.attributes = {}
    OBVIOUS
  <2>5. l = [message |-> Short, category |-> Short, attributes |-> Bag(Short, 0, "small", TRUE), dated |-> TRUE]
        => l.attributes = Bag(Short, 0, "small", TRUE)
    OBVIOUS
  <2> QED BY <1>5, <2>1, <2>2, <2>3, <2>4, <2>5
<1>7. l \in AnyLog
  <2>1. /\ \A k \in {Short, Long, Wide} : Bag(k, 0, "small", FALSE) \in SUBSET AnyData
        /\ \A n \in MaxDepth - 1..MaxDepth + 1 : Bag(Short, n, "small", FALSE) \in SUBSET AnyData
        /\ \A w \in {"bulky", "heavy"} : Bag(Short, 0, w, FALSE) \in SUBSET AnyData
        /\ Bag(Short, 0, "small", TRUE) \in SUBSET AnyData
    BY <1>1, <1>2
  <2> QED BY <1>3, <1>4, <1>5, <2>1
<1>8. \A d \in l.attributes : d.lone => d.key = Short
  <2>1. \A k, n, w : \A d \in Bag(k, n, w, FALSE) : ~d.lone
    BY DEF Bag
  <2>2. \A d \in Bag(Short, 0, "small", TRUE) : d.key = Short
    BY DEF Bag
  <2> QED BY <1>6, <2>1, <2>2
<1> QED BY <1>7, <1>8

LEMMA ServiceIs ==
    ASSUME service \in [name : {Short, Long}, environment : {{}, {Blank}}]
    PROVE  TakesService(service) <=> ~BadService
<1>1. service.name \in {Short, Long} /\ service.environment \in {{}, {Blank}}
  OBVIOUS
<1> QED BY <1>1, Taken, Differ DEF TakesService, BadService

\* What becomes of a log record, and whether the server takes it.
LEMMA LogIs ==
    ASSUME NEW l \in Logged, KeyFits(Strip(l.category)), sdk \in {"js", "py"}
    PROVE  TakesLog(LogRecord(l)) /\ (sdk = "py" => ~Lone(LogRecord(l))) <=> TakesService(service) /\ ~BadLog(l)
<1>1. /\ l.message \in Texts \ {NoText} /\ l.category \in Texts /\ l.attributes \in SUBSET AnyData /\ l.dated \in BOOLEAN
      /\ \A d \in l.attributes : d.lone => d.key = Short
  BY LoggedAre DEF AnyLog
<1> DEFINE made == LogRecord(l)
<1>2. /\ made.message = Clip(l.message) /\ made.category = Strip(l.category)
      /\ made.attributes = Attributes(l.attributes) /\ made.dated = (l.dated \/ sdk = "js")
  BY DEF LogRecord
<1> HIDE DEF made
<1>3. NonEmpty(made.message) <=> l.message # Blank
  BY <1>1, <1>2, Clipped, Taken, Differ DEF Texts
<1>4. NonEmpty(made.category) <=> ~(sdk = "py" /\ l.category = Wide)
  BY <1>1, <1>2, Stripped, KeysFit, Taken, Differ DEF Texts
<1>5. (\A d \in made.attributes : TakesData(d, MaxDepth)) <=>
          ~\E d \in l.attributes : \/ d.key = Short /\ (d.depth >= MaxDepth \/ d.weight = "heavy")
                                   \/ sdk = "py" /\ d.key = Wide
  BY <1>1, <1>2, AttributesAre
<1>6. Lone(made) <=> Lone(l)
  BY <1>1, <1>2, LoneIs DEF Lone
<1>7. TakesLog(made) <=> /\ l.dated \/ sdk = "js"
                         /\ NonEmpty(made.message) /\ NonEmpty(made.category)
                         /\ TakesService(service) /\ \A d \in made.attributes : TakesData(d, MaxDepth)
  BY <1>2 DEF TakesLog
<1> QED BY <1>3, <1>4, <1>5, <1>6, <1>7 DEF made, BadLog

\* A walk goes on from what it has not met before.
LEMMA ExpandedIs ==
    ASSUME NEW n \in 1..MaxNesting + 1, NEW walk
    PROVE  (\A i \in 0..n - 1 : Expanded(walk, i)) <=> \A i, j \in 0..n - 1 : i # j => walk[i] # walk[j]
<1>0. MaxNesting \in Nat
  BY WireAssumption
<1>1. \A i \in 0..n - 1 : ~TooDeep(i)
  BY <1>0 DEF TooDeep
<1>2. ASSUME \A i \in 0..n - 1 : Expanded(walk, i), NEW i \in 0..n - 1, NEW j \in 0..n - 1, i # j
      PROVE  walk[i] # walk[j]
  <2>1. i \in 0..j - 1 \/ j \in 0..i - 1
    BY <1>0, <1>2
  <2> QED BY <1>2, <2>1 DEF Expanded
<1>3. ASSUME \A i, j \in 0..n - 1 : i # j => walk[i] # walk[j], NEW k \in 0..n - 1
      PROVE  Expanded(walk, k)
  <2>1. \A i \in 0..k - 1 : i \in 0..n - 1 /\ i # k
    BY <1>0
  <2> QED BY <1>1, <1>3, <2>1 DEF Expanded
<1> QED BY <1>2, <1>3

\* An exception is cut too late exactly when it is nested too deep.
LEMMA DepthIs ==
    ASSUME NEW x
    PROVE  (\A n \in Depths(x) : n <= MaxNesting) <=> ~NestedTooDeep(x)
<1>0. MaxNesting \in Nat
  BY WireAssumption
<1>1. (\A n \in Depths(x) : n <= MaxNesting) <=> Walks(x, MaxNesting + 1) = {}
  <2>1. \A n \in 0..MaxNesting + 1 : n <= MaxNesting \/ n = MaxNesting + 1
    BY <1>0
  <2>2. MaxNesting + 1 \in 0..MaxNesting + 1 /\ ~(MaxNesting + 1 <= MaxNesting)
    BY <1>0
  <2> QED BY <2>1, <2>2 DEF Depths
<1>2. Walks(x, MaxNesting + 1) # {} <=> NestedTooDeep(x)
  <2>1. (MaxNesting + 1) - 1 = MaxNesting /\ MaxNesting + 1 \in 1..MaxNesting + 1
    BY <1>0
  <2>2. ASSUME NEW walk PROVE (\A i \in 0..MaxNesting : Expanded(walk, i)) <=>
                                  \A i, j \in 0..MaxNesting : i # j => walk[i] # walk[j]
    BY <2>1, ExpandedIs
  <2>3. Walks(x, MaxNesting + 1) =
            {walk \in [0..MaxNesting + 1 -> Errors] :
                /\ walk[0] = x.root
                /\ \A i \in 0..MaxNesting : Expanded(walk, i) /\ walk[i + 1] \in x.inner[walk[i]]}
    BY <2>1 DEF Walks
  <2> QED BY <2>2, <2>3 DEF NestedTooDeep
<1> QED BY <1>1, <1>2

\* A node stands for an ancestor exactly when the references come back in time.
LEMMA CircularIs == ASSUME NEW x PROVE Circular(x) <=> ComesBack(x)
<1>1. ASSUME NEW n \in 1..MaxNesting, NEW w \in [0..n -> Errors]
      PROVE  w \in Walks(x, n) <=>
                 /\ w[0] = x.root
                 /\ \A i \in 0..n - 1 : w[i + 1] \in x.inner[w[i]]
                 /\ \A i, j \in 0..n - 1 : i # j => w[i] # w[j]
  <2>1. n \in 1..MaxNesting + 1
    BY WireAssumption
  <2> QED BY <2>1, ExpandedIs DEF Walks
<1>2. \A n \in 1..MaxNesting : \A w \in Walks(x, n) : w \in [0..n -> Errors]
  BY DEF Walks
<1> QED BY <1>1, <1>2 DEF Circular, ComesBack

\* Of a calls, the frame that failed first and no more than the server takes.
LEMMA FramesAre ==
    ASSUME NEW n \in {1, MaxFrames + 1}, NEW calls, calls = [i \in 1..n |-> IF sdk = "js" THEN i ELSE n + 1 - i],
           NEW frames, frames = IF sdk = "js" THEN JsFrames(calls) ELSE PyFrames(calls)
    PROVE  Len(frames) <= MaxFrames /\ frames # <<>> /\ \A i \in DOMAIN frames : frames[i] = i
<1>0. n \in Nat /\ n >= 1 /\ MaxFrames \in Nat /\ MaxFrames >= 1
  BY WireAssumption
<1>1. calls \in Seq(Int) /\ Len(calls) = n /\ \A i \in 1..n : calls[i] = IF sdk = "js" THEN i ELSE n + 1 - i
  <2>1. \A i \in 1..n : (IF sdk = "js" THEN i ELSE n + 1 - i) \in Int
    BY <1>0
  <2>2. [i \in 1..n |-> IF sdk = "js" THEN i ELSE n + 1 - i] \in Seq(Int)
    BY <1>0, <2>1, IsASeq
  <2>3. calls \in Seq(Int) /\ DOMAIN calls = 1..n
    BY <2>2
  <2>4. Len(calls) = n
    BY <1>0, <2>3, LenProperties
  <2> QED BY <2>3, <2>4
<1> DEFINE turned == IF sdk = "js" THEN calls ELSE Reverse(calls)
<1>2. turned \in Seq(Int) /\ Len(turned) = n /\ \A i \in 1..n : turned[i] = i
  <2>1. CASE sdk = "js"
    BY <1>1, <2>1
  <2>2. CASE sdk # "js"
    <3> DEFINE back == [i \in 1..n |-> calls[(n - i) + 1]]
    <3>1. Reverse(calls) = back
      <4>1. Len(calls) = n
        BY <1>1
      <4>2. Reverse(calls) = [i \in 1..Len(calls) |-> calls[(Len(calls) - i) + 1]]
        BY DEF Reverse
      <4> QED BY <4>1, <4>2
    <3>2. \A i \in 1..n : (n - i) + 1 \in 1..n /\ n + 1 - ((n - i) + 1) = i
      BY <1>0
    <3>3. \A i \in 1..n : calls[(n - i) + 1] = i /\ i \in Int
      <4>1. \A i \in 1..n : calls[i] = n + 1 - i
        BY <1>1, <2>2
      <4> QED BY <1>0, <3>2, <4>1
    <3>4. \A i \in 1..n : calls[(n - i) + 1] \in Int
      BY <3>3
    <3>5. back \in Seq(Int) /\ DOMAIN back = 1..n /\ \A i \in 1..n : back[i] = i
      BY <1>0, <3>3, <3>4, IsASeq
    <3>6. Len(back) = n
      <4> HIDE DEF back
      <4> QED BY <1>0, <3>5, LenProperties
    <3> HIDE DEF back
    <3> QED BY <2>2, <3>1, <3>5, <3>6
  <2> QED BY <2>1, <2>2
<1> DEFINE m == Least(n, MaxFrames)
<1>3. m \in Nat /\ 1 <= m /\ m <= n /\ m <= MaxFrames
  BY <1>0 DEF Least
<1>4. frames = SubSeq(turned, 1, m)
  BY <1>2 DEF JsFrames, PyFrames, First
<1> HIDE DEF turned, m
<1>5. frames \in Seq(Int) /\ Len(frames) = m /\ \A i \in 1..m : frames[i] = turned[i]
  <2>1. \A i \in 1..m : turned[i] \in Int /\ 1 + i - 1 = i
    BY <1>2, <1>3
  <2>2. /\ SubSeq(turned, 1, m) \in Seq(Int)
        /\ Len(SubSeq(turned, 1, m)) = IF 1 <= m THEN m - 1 + 1 ELSE 0
        /\ \A i \in 1..m - 1 + 1 : SubSeq(turned, 1, m)[i] = turned[1 + i - 1]
    BY <1>3, <2>1, SubSeqProperties
  <2>3. m - 1 + 1 = m
    BY <1>3
  <2> QED BY <1>3, <1>4, <2>1, <2>2, <2>3
<1>6. DOMAIN frames = 1..m
  BY <1>5, LenProperties
<1>7. frames # <<>>
  BY <1>3, <1>5, EmptySeq
<1>8. \A i \in 1..m : i \in 1..n
  BY <1>0, <1>3
<1> QED BY <1>2, <1>3, <1>5, <1>6, <1>7, <1>8

\* What the application may throw.
LEMMA RaisedIs ==
    ASSUME NEW x \in Raised
    PROVE  /\ x.name \in Names /\ x.at \in Places
           /\ \E n \in {1, MaxFrames + 1} : x.stack = [i \in 1..n |-> IF sdk = "js" THEN i ELSE n + 1 - i]
<1>1. PICK graph \in Graphs, name \in Names, at \in Places, n \in {1, MaxFrames + 1}, lone \in BOOLEAN :
          x = Throw(graph, name, at, n, lone)
  <2>1. Short \in Names /\ Here \in Places /\ 1 \in {1, MaxFrames + 1} /\ MaxFrames + 1 \in {1, MaxFrames + 1}
    BY DEF Names, Places
  <2>2. PICK graph \in Graphs :
            x \in {Throw(graph, name, Here, 1, FALSE) : name \in Names}
                   \cup {Throw(graph, Short, at, MaxFrames + 1, FALSE) : at \in Places}
                   \cup {Throw(graph, Short, Here, MaxFrames + 1, TRUE)}
    BY DEF Raised
  <2> QED BY <2>1, <2>2
<1> QED BY <1>1 DEF Throw

LEMMA PlaceIs ==
    ASSUME NEW at \in Places
    PROVE  at.file \in {Short, Long} /\ at.function \in {Short, Long} /\ at.placed \in BOOLEAN
<1>1. PICK file \in {Short, Long}, function \in {Short, Long}, placed \in BOOLEAN :
          at = Place(file, function, placed)
  BY DEF Places, Here
<1> QED BY <1>1 DEF Place

\* What costs a report when it is thrown.
BadThrow(x) ==
    \/ NestedTooDeep(x)
    \/ sdk = "js" /\ (x.name = Blank \/ (x.name = Long /\ ComesBack(x)) \/ BadPlace(x.at))

\* What the server makes of an exception.
LEMMA ExceptionIs ==
    ASSUME NEW x \in Raised, sdk \in {"js", "py"}
    PROVE  /\ TakesException(Exception(x)) <=> ~BadThrow(x)
           /\ Exception(x).lone = x.lone
           /\ Len(Exception(x).frames) <= MaxFrames
           /\ \A i \in DOMAIN Exception(x).frames : Exception(x).frames[i] = i
<1> DEFINE made == Exception(x)
<1>1. /\ x.name \in Names /\ x.at \in Places
      /\ \E n \in {1, MaxFrames + 1} : x.stack = [i \in 1..n |-> IF sdk = "js" THEN i ELSE n + 1 - i]
  BY RaisedIs
<1>2. /\ made.depths = Depths(x) /\ made.lone = x.lone
      /\ made.frames = IF sdk = "js" THEN JsFrames(x.stack) ELSE PyFrames(x.stack)
      /\ made.types = IF sdk = "js" THEN JsTypes(x) ELSE {Clip(x.name)}
      /\ made.texts = IF sdk = "js" THEN JsTexts(x.at) ELSE PyTexts(x.at)
  BY DEF Exception, JsException, PyException
<1> HIDE DEF made
<1>3. Len(made.frames) <= MaxFrames /\ made.frames # <<>> /\ \A i \in DOMAIN made.frames : made.frames[i] = i
  BY <1>1, <1>2, FramesAre
<1>4. (\A t \in made.types : NonEmpty(t)) <=>
          ~(sdk = "js" /\ (x.name = Blank \/ (x.name = Long /\ ComesBack(x))))
  <2>1. CASE sdk = "js"
    <3>1. x.name \in {NoText, Short, Blank, Long}
      BY <1>1, <2>1 DEF Names
    <3>2. (\A t \in made.types : NonEmpty(t)) <=>
              /\ NonEmpty(IF x.name = NoText THEN Short ELSE Clip(x.name))
              /\ ComesBack(x) => NonEmpty(IF x.name = NoText THEN Short ELSE x.name)
      BY <1>2, <2>1, CircularIs DEF JsTypes
    <3> QED BY <2>1, <3>1, <3>2, Clipped, Taken, Differ
  <2>2. CASE sdk = "py"
    <3>1. x.name \in {Short, Long} /\ made.types = {Clip(x.name)}
      BY <1>1, <1>2, <2>2 DEF Names
    <3> QED BY <2>2, <3>1, Clipped, Taken
  <2> QED BY <2>1, <2>2
<1>5. (\A t \in made.texts : NonEmpty(t)) <=> ~(sdk = "js" /\ BadPlace(x.at))
  <2>1. x.at.file \in {Short, Long} /\ x.at.function \in {Short, Long} /\ x.at.placed \in BOOLEAN
    BY <1>1, PlaceIs
  <2>2. CASE sdk = "js"
    <3>1. CASE x.at.placed
      BY <1>2, <2>1, <2>2, <3>1, Taken, Differ DEF JsTexts, BadPlace
    <3>2. CASE ~x.at.placed
      BY <1>2, <2>1, <2>2, <3>2, Clipped, Taken DEF JsTexts, BadPlace
    <3> QED BY <3>1, <3>2
  <2>3. CASE sdk = "py"
    BY <1>2, <2>1, <2>3, Clipped, Taken DEF PyTexts
  <2> QED BY <2>2, <2>3
<1>6. (\A n \in made.depths : n <= MaxNesting) <=> ~NestedTooDeep(x)
  BY <1>2, DepthIs
<1>7. TakesException(made) <=> ~BadThrow(x)
  BY <1>3, <1>4, <1>5, <1>6 DEF TakesException, BadThrow
<1> QED BY <1>2, <1>3, <1>7 DEF made

\* A node by itself: a message, or a value that is no exception.
LEMMA NodeIs ==
    ASSUME NEW type, NEW lone
    PROVE  /\ TakesException(Node(type, lone)) <=> NonEmpty(type)
           /\ Node(type, lone).lone = lone
           /\ Len(Node(type, lone).frames) <= MaxFrames
           /\ \A i \in DOMAIN Node(type, lone).frames : Node(type, lone).frames[i] = i
<1> DEFINE node == Node(type, lone)
<1>1. node.depths = {0} /\ node.types = {type} /\ node.frames = <<>> /\ node.lone = lone
  BY DEF Node
<1> HIDE DEF node
<1>2. 0 <= MaxNesting /\ 0 <= MaxFrames
  BY WireAssumption
<1>3. Len(<<>>) = 0 /\ DOMAIN <<>> = {}
  BY EmptySeq
<1>4. TakesException(node) <=> NonEmpty(type)
  BY <1>1, <1>2, <1>3 DEF TakesException
<1> QED BY <1>1, <1>2, <1>3, <1>4 DEF node

\* What a call says beside the exception, and what becomes of its attributes.
LEMMA SaidIs ==
    ASSUME NEW said \in Said
    PROVE  /\ said.tag \in Tagged /\ said.user \in Texts /\ said.dated \in BOOLEAN /\ said.lone \in BOOLEAN
           /\ said.attributes \in SUBSET AnyData /\ \A d \in said.attributes : d.lone => d.key = Short
<1>1. Plain \in Tagged /\ Short \in Texts
  BY DEF Plain, Tagged, Texts
<1>2. NoData \in SUBSET AnyData /\ \A d \in NoData : d.lone => d.key = Short
  BY DEF NoData
<1>3. \A key \in {Long, Wide} : Bag(key, 0, "small", FALSE) \in SUBSET AnyData
  BY DEF Bag, AnyData
<1>4. \A key \in {Long, Wide} : \A d \in Bag(key, 0, "small", FALSE) : ~d.lone
  BY DEF Bag
<1>5. Bag(Short, 0, "small", TRUE) \in SUBSET AnyData /\ \A d \in Bag(Short, 0, "small", TRUE) : d.key = Short
  BY DEF Bag, AnyData
<1>6. PICK tag \in Tagged, user \in Texts, dated \in BOOLEAN, bag \in SUBSET AnyData, lone \in BOOLEAN :
          /\ said = Saying(tag, user, dated, bag, lone)
          /\ \A d \in bag : d.lone => d.key = Short
  <2>1. CASE said \in {Saying(tag, Short, TRUE, NoData, FALSE) : tag \in Tagged}
    BY <1>1, <1>2, <2>1
  <2>2. CASE said \in {Saying(Plain, user, TRUE, NoData, FALSE) : user \in Texts}
    BY <1>1, <1>2, <2>2
  <2>3. CASE said \in {Saying(Plain, Short, TRUE, Bag(key, 0, "small", FALSE), FALSE) : key \in {Long, Wide}}
    BY <1>1, <1>3, <1>4, <2>3
  <2>4. CASE said = Saying(Plain, Short, TRUE, Bag(Short, 0, "small", TRUE), FALSE)
    BY <1>1, <1>5, <2>4
  <2>5. CASE said = Saying(Plain, Short, TRUE, NoData, TRUE)
    BY <1>1, <1>2, <2>5
  <2>6. CASE said = Saying(Plain, Short, FALSE, NoData, FALSE)
    BY <1>1, <1>2, <2>6
  <2> QED BY <2>1, <2>2, <2>3, <2>4, <2>5, <2>6 DEF Said
<1> QED BY <1>6 DEF Saying

LEMMA UserIs == ASSUME NEW t \in Texts PROVE TakesUser(User(t))
<1>1. \A u \in User(t) : u = Clip(Strip(t)) /\ Strip(t) # NoText
  BY DEF User
<1>2. Strip(t) # NoText => NonEmpty(Clip(Strip(t)))
  BY Stripped, Clipped, Taken DEF Texts
<1> QED BY <1>1, <1>2 DEF TakesUser

-----------------------------------------------------------------------------
(* The invariant of the wire.                                              *)

\* What the scope, the next request and the span hold of what the
\* application handed over.
ScopeShape ==
    /\ tags \in Seq(AnyTag) /\ recorded \in Seq(Crumbs) /\ trail = Ring(recorded)
    /\ uses # "scope" => tags = <<>> /\ recorded = <<>>

BatchShape ==
    /\ batch \in Seq([raw : Logged, sent : {LogRecord(l) : l \in Logged}]) /\ Len(batch) <= MaxBatch
    /\ \A i \in DOMAIN batch : batch[i].sent = LogRecord(batch[i].raw) /\ KeyFits(Strip(batch[i].raw.category))

AnyValue == [leaf : {"text", "bool", "fraction", "int", "unsafe int", "null"}, depth : Nat]
AnySpan == [step : {"none", "started", "ended", "exported"}, start : Int, end : Int, count : Nat,
            key : {Short, Wide}, value : AnyValue]

SpanShape ==
    /\ span \in AnySpan
    /\ span.key = Short \/ (sdk = "py" /\ span.key = Wide)
    /\ span.step = "ended" => span.end >= span.start

\* Nobody but a reporter of errors sends a report.
Sends == outcome.what = "report" => uses \in {"scope", "exceptions", "values"}

WIInv ==
    /\ sdk \in {"js", "py"} /\ uses \in {"scope", "exceptions", "values", "logs", "spans"}
    /\ service \in [name : {Short, Long}, environment : {{}, {Blank}}]
    /\ uses \in {"scope", "exceptions", "spans"} => service = [name |-> Short, environment |-> {}]
    /\ ScopeShape /\ BatchShape /\ SpanShape /\ Sends /\ WireInv

\* What the properties say of a request depends on it alone.
Says == /\ outcome.what = "report" =>
             /\ Cardinality(outcome.sent.tags) <= MaxTags /\ Len(outcome.sent.exception.frames) <= MaxFrames
             /\ \A t \in outcome.sent.tags : t.value.units \in 1..MaxText
             /\ \A i \in DOMAIN outcome.sent.trail : \A t \in outcome.sent.trail[i].message : t.units <= MaxText
        /\ ReportRefusedForAReason /\ LogsRefusedForAReason /\ SpanLostForAReason
        /\ TrailIsNewest /\ OwnTagWins /\ FailureComesFirst /\ WrittenIsRead /\ Sends

LEMMA Parts ==
    ASSUME sdk \in {"js", "py"}, ScopeShape, BatchShape, Says
    PROVE  WireInv /\ Sends
<1>1. Len(trail) <= MaxTrail
  BY RingIs DEF ScopeShape
<1>2. WireTypeOK
  BY <1>1 DEF WireTypeOK, BatchShape, Says
<1> QED BY <1>2 DEF WireInv, Says

\* The newest breadcrumbs, as the property and as a report name them.
LEMMA TrailIs ==
    ASSUME ScopeShape, sdk \in {"js", "py"}
    PROVE  LET n == Least(Len(recorded), MaxTrail)
           IN  /\ trail \in Seq(AnyCrumb) /\ Ring(trail) = trail /\ DOMAIN trail = 1..n /\ Len(trail) = n /\ n \in Nat
               /\ n <= MaxTrail
               /\ \A i \in 1..n : trail[i] = recorded[Len(recorded) - n + i]
               /\ LastOf(recorded) = {trail[i] : i \in 1..n}
               /\ SentTrail(trail) = [i \in 1..n |-> IF sdk = "js" THEN JsCrumb(trail[i]) ELSE PyCrumb(trail[i])]
               /\ Len(SentTrail(trail)) = n /\ DOMAIN SentTrail(trail) = 1..n
<1> DEFINE len == Len(recorded)
           n == Least(len, MaxTrail)
<1>0. len \in Nat /\ DOMAIN recorded = 1..len /\ MaxTrail \in Nat
  BY LenProperties, WireAssumption DEF ScopeShape
<1>1. /\ trail \in Seq(Crumbs) /\ n \in Nat /\ n <= len /\ n <= MaxTrail /\ Len(trail) = n /\ DOMAIN trail = 1..n
      /\ \A i \in 1..n : trail[i] = recorded[len - n + i]
  BY RingIs DEF ScopeShape
<1>2. trail \in Seq(AnyCrumb)
  BY <1>1, CrumbsAre, SeqMonotonic
<1>3. Ring(trail) = trail
  <2>1. CASE recorded = <<>>
    <3>1. n = 0
      BY <2>1, <1>0, <1>1, EmptySeq
    <3>2. Ring(trail) \in Seq(Crumbs) /\ Len(Ring(trail)) = Least(Len(trail), MaxTrail)
      BY <1>1, RingIs
    <3>3. Least(Len(trail), MaxTrail) = 0
      BY <1>0, <1>1, <3>1 DEF Least
    <3> QED BY <1>1, <3>1, <3>2, <3>3, SeqEqual
  <2>2. CASE recorded # <<>>
    <3>1. recorded[1] \in Crumbs
      BY <2>2, EmptySeq, ElementOfSeq DEF ScopeShape
    <3> QED BY <3>1, RingOfRing DEF ScopeShape
  <2> QED BY <2>1, <2>2
<1> HIDE DEF n
<1>4. LastOf(recorded) = {trail[i] : i \in 1..n}
  <2> DEFINE last == {j \in DOMAIN recorded : j > len - MaxTrail}
  <2>0. len \in Nat /\ MaxTrail \in Nat /\ n = IF len < MaxTrail THEN len ELSE MaxTrail
    BY <1>0 DEF n, Least
  <2>1. ASSUME NEW j \in last PROVE j - (len - n) \in 1..n /\ len - n + (j - (len - n)) = j
    <3>1. j \in 1..len /\ j > len - MaxTrail
      BY <1>0
    <3> HIDE DEF last, len
    <3> QED BY <2>0, <3>1
  <2>2. ASSUME NEW i \in 1..n PROVE len - n + i \in last
    <3>1. len - n + i \in 1..len /\ len - n + i > len - MaxTrail
      <4> HIDE DEF len
      <4> QED BY <2>0
    <3> QED BY <1>0, <3>1
  <2>3. LastOf(recorded) = {recorded[j] : j \in last}
    BY DEF LastOf
  <2> HIDE DEF last
  <2>4. ASSUME NEW j \in last PROVE recorded[j] \in {trail[i] : i \in 1..n}
    <3> DEFINE i == j - (len - n)
    <3>1. i \in 1..n /\ len - n + i = j
      BY <2>1
    <3> HIDE DEF i
    <3>2. trail[i] = recorded[j]
      BY <1>1, <3>1
    <3> QED BY <3>1, <3>2
  <2>5. ASSUME NEW i \in 1..n PROVE trail[i] \in {recorded[j] : j \in last}
    BY <1>1, <2>2
  <2> QED BY <2>3, <2>4, <2>5
<1>5. SentTrail(trail) = [i \in 1..n |-> IF sdk = "js" THEN JsCrumb(trail[i]) ELSE PyCrumb(trail[i])]
  BY <1>1 DEF SentTrail
<1>6. Len(SentTrail(trail)) = n /\ DOMAIN SentTrail(trail) = 1..n
  <2> DEFINE All == {SentTrail(trail)[i] : i \in 1..n}
  <2>1. DOMAIN SentTrail(trail) = 1..n
    BY <1>5
  <2>2. SentTrail(trail) \in Seq(All)
    <3>1. SentTrail(trail) = [i \in 1..n |-> SentTrail(trail)[i]]
      BY <1>5
    <3>2. \A i \in 1..n : SentTrail(trail)[i] \in All
      OBVIOUS
    <3> HIDE DEF All
    <3>3. [i \in 1..n |-> SentTrail(trail)[i]] \in Seq(All)
      BY <1>1, <3>2, IsASeq
    <3> QED BY <3>1, <3>3
  <2> HIDE DEF All
  <2> QED BY <1>1, <2>1, <2>2, LenProperties
<1> QED BY <1>1, <1>2, <1>3, <1>4, <1>5, <1>6 DEF n

\* A report of a scope.
LEMMA MessageStep ==
    ASSUME WIInv, uses = "scope", NEW said \in Said,
           Capture(Message(said.lone), Merge(tags, said.tag), said, [said |-> said, recorded |-> recorded])
    PROVE  Says'
<1> DEFINE n == Least(Len(recorded), MaxTrail)
           r == outcome'.sent
           tag == said.tag
           dated == said.dated
           text == Message(said.lone)
           given == Attributes(said.attributes)
           merged == Merge(tags, tag)
           carried == SentTrail(trail)
           sentTags == SentTags(merged)
<1>1. sdk \in {"js", "py"} /\ sdk' = sdk /\ uses' = uses /\ service' = service /\ TakesService(service) /\ ~BadService
  <2>1. service = [name |-> Short, environment |-> {}] /\ service \in [name : {Short, Long}, environment : {{}, {Blank}}]
    BY DEF WIInv
  <2>2. TakesService(service)
    BY <2>1, Taken DEF TakesService
  <2> QED BY <2>1, <2>2, ServiceIs DEF WIInv, Capture
<1>2. /\ n \in Nat /\ n <= MaxTrail /\ trail \in Seq(AnyCrumb) /\ Ring(trail) = trail /\ DOMAIN trail = 1..n
      /\ \A i \in 1..n : trail[i] = recorded[Len(recorded) - n + i]
      /\ LastOf(recorded) = {trail[i] : i \in 1..n}
      /\ carried = [i \in 1..n |-> IF sdk = "js" THEN JsCrumb(trail[i]) ELSE PyCrumb(trail[i])]
      /\ Len(carried) = n /\ DOMAIN carried = 1..n
  BY <1>1, TrailIs DEF WIInv
<1>3. /\ outcome'.what = "report"
      /\ outcome'.raw = [said |-> said, recorded |-> recorded]
      /\ r = [dated |-> dated \/ sdk = "js", service |-> service, user |-> User(said.user), exception |-> text,
              tags |-> sentTags, trail |-> carried, attributes |-> given]
      /\ outcome'.verdict = (IF ~Encodes(trail) THEN "raised"
                              ELSE IF TakesReport(r) /\ Written(r) THEN "taken" ELSE "refused")
  BY <1>2 DEF Capture
<1>0. /\ TakesException(text) /\ text.lone = said.lone /\ Len(text.frames) <= MaxFrames
      /\ \A i \in DOMAIN text.frames : text.frames[i] = i
  BY NodeIs, Taken DEF Message
<1> HIDE DEF n, carried, merged, sentTags, text, given
<1>4. tag \in AnyTag
  BY SaidIs DEF Tagged, AnyTag
<1> HIDE DEF tag
<1>5. /\ merged \in Seq(AnyTag)
      /\ \A i \in DOMAIN merged : merged[i] \in AnyTag /\ (merged[i].key = tag.key => merged[i] = tag)
  <2>1. merged \in Seq(AnyTag) /\ \A i \in DOMAIN merged : merged[i].key = tag.key => merged[i] = tag
    BY <1>4, MergeIs DEF merged, tag, WIInv, ScopeShape
  <2> QED BY <2>1, LenProperties, ElementOfSeq
<1>6. Cardinality(sentTags) <= MaxTags /\ \A t \in sentTags : \E i \in DOMAIN merged : t \in Tag(merged[i])
  BY <1>1, <1>5, SentTagsAre DEF sentTags
<1>7. \A t \in sentTags : /\ t.value.units \in 1..MaxText
                          /\ NonEmpty(t.key) /\ NonEmpty(t.value) <=> ~BadTag(t)
                          /\ t.key = tag.key => t.value = Clip(tag.value)
  BY <1>1, <1>5, <1>6, TagIs
<1>8. TakesTags(sentTags) <=> ~\E t \in sentTags : BadTag(t)
  BY <1>6, <1>7 DEF TakesTags
<1>9. \A i \in 1..n : /\ TakesCrumb(carried[i]) <=> ~BadCrumb(trail[i])
                      /\ carried[i].dated = trail[i].dated
                      /\ carried[i].message # {} => trail[i].message # {}
                      /\ \A t \in carried[i].message : t.units <= MaxText
  <2>1. \A i \in 1..n : trail[i] \in AnyCrumb
    BY <1>2, LenProperties, ElementOfSeq
  <2>2. \A i \in 1..n : carried[i] = IF sdk = "js" THEN JsCrumb(trail[i]) ELSE PyCrumb(trail[i])
    BY <1>2
  <2> QED BY <1>1, <2>1, <2>2, CrumbIs
<1>10. TakesReport(r) <=> /\ dated \/ sdk = "js"
                          /\ TakesAttributes(given) /\ TakesTags(sentTags) /\ \A i \in 1..n : TakesCrumb(carried[i])
  <2>1. TakesUser(User(said.user))
    BY SaidIs, UserIs
  <2>2. /\ r.dated = (dated \/ sdk = "js") /\ r.service = service /\ r.user = User(said.user) /\ r.exception = text
        /\ r.tags = sentTags /\ r.trail = carried /\ r.attributes = given
    BY <1>3
  <2>3. Len(carried) <= MaxTrail /\ DOMAIN carried = 1..n
    BY <1>2
  <2> HIDE DEF r
  <2> QED BY <1>0, <1>1, <2>1, <2>2, <2>3 DEF TakesReport
<1>21. TakesReport(r) /\ Written(r) <=> /\ ~(sdk = "py" /\ BadSaid(said))
                                         /\ TakesTags(sentTags) /\ \A i \in 1..n : TakesCrumb(carried[i])
  <2>1. TakesAttributes(given) <=> ~(sdk = "py" /\ \E d \in said.attributes : d.key = Wide)
    BY <1>1, SaidIs, GivenIs DEF given
  <2>2. (\E d \in given : d.lone) <=> \E d \in said.attributes : d.lone
    BY SaidIs, LoneIs DEF given
  <2>3. Written(r) <=> (sdk = "py" => ~said.lone /\ ~\E d \in given : d.lone)
    <3>1. r.exception = text /\ r.attributes = given
      BY <1>3
    <3> HIDE DEF r
    <3> QED BY <1>0, <3>1 DEF Written, Lone
  <2>4. (\E d \in said.attributes : d.key = Wide \/ d.lone) <=>
            (\E d \in said.attributes : d.key = Wide) \/ (\E d \in said.attributes : d.lone)
    OBVIOUS
  <2> HIDE DEF r
  <2> QED BY <1>1, <1>10, <2>1, <2>2, <2>3, <2>4 DEF BadSaid
<1>11. Encodes(trail) <=> ~(sdk = "py" /\ \E c \in LastOf(recorded) : \E d \in c.data : d.lone)
  BY <1>2 DEF Encodes
<1>12. (\A i \in 1..n : TakesCrumb(carried[i])) <=> ~\E c \in LastOf(recorded) : BadCrumb(c)
  BY <1>2, <1>9
<1>13. outcome'.verdict # "taken" <=>
           \/ sdk = "py" /\ BadSaid(said)
           \/ \E t \in sentTags : BadTag(t)
           \/ \E c \in LastOf(recorded) : BadCrumb(c) \/ (sdk = "py" /\ \E d \in c.data : d.lone)
  <2>1. outcome'.verdict # "taken" <=> ~Encodes(trail) \/ ~(TakesReport(r) /\ Written(r))
    BY <1>3
  <2>3. (\E c \in LastOf(recorded) : BadCrumb(c) \/ (sdk = "py" /\ \E d \in c.data : d.lone)) <=>
            (\E c \in LastOf(recorded) : BadCrumb(c)) \/ (sdk = "py" /\ \E c \in LastOf(recorded) : \E d \in c.data : d.lone)
    OBVIOUS
  <2> HIDE DEF r
  <2> QED BY <1>8, <1>11, <1>12, <1>21, <2>1, <2>3
<1>14. ReportRefusedForAReason'
  <2>1. \A c : BadCrumb(c)' <=> BadCrumb(c)
    BY <1>1 DEF BadCrumb
  <2>2. BadService' <=> FALSE
    BY <1>1 DEF BadService
  <2>3. outcome'.raw.recorded = recorded /\ outcome'.raw.said = said /\ outcome'.sent.tags = sentTags
    BY <1>3
  <2>4. uses' = "scope" /\ uses' # "exceptions" /\ uses' # "values"
    BY <1>1
  <2>5. (\E t \in sentTags : BadTag(t)) <=>
            \E t \in outcome'.sent.tags : (sdk' = "js" /\ Blank \in {t.key, t.value}) \/ (sdk' = "py" /\ t.key = Wide)
    BY <1>1, <2>3 DEF BadTag
  <2> QED BY <1>1, <1>13, <2>1, <2>2, <2>3, <2>4, <2>5 DEF ReportRefusedForAReason
<1>15. TrailIsNewest'
  <2>1. outcome'.raw.recorded = recorded /\ outcome'.sent.trail = carried
    BY <1>3
  <2>2. \A i \in 1..n : /\ carried[i].dated = recorded[Len(recorded) - n + i].dated
                        /\ carried[i].message # {} => recorded[Len(recorded) - n + i].message # {}
    BY <1>2, <1>9
  <2>3. Len(carried) = n /\ n = Least(Len(recorded), MaxTrail)
    BY <1>2 DEF n
  <2> QED BY <2>1, <2>2, <2>3 DEF TrailIsNewest
<1>16. OwnTagWins'
  BY <1>3, <1>7 DEF OwnTagWins, tag
<1>17. FailureComesFirst'
  BY <1>0, <1>3 DEF FailureComesFirst
<1>18. /\ Cardinality(r.tags) <= MaxTags /\ Len(r.exception.frames) <= MaxFrames
       /\ \A t \in r.tags : t.value.units \in 1..MaxText
       /\ \A i \in DOMAIN r.trail : \A t \in r.trail[i].message : t.units <= MaxText
  <2>1. r.tags = sentTags /\ r.exception = text /\ r.trail = carried
    BY <1>3
  <2> QED BY <1>2, <1>6, <1>7, <1>9, <2>1, <1>0
<1>19. LogsRefusedForAReason' /\ SpanLostForAReason' /\ WrittenIsRead'
  BY <1>3 DEF LogsRefusedForAReason, SpanLostForAReason, WrittenIsRead
<1>20. Sends'
  BY <1>1 DEF Sends
<1> QED BY <1>14, <1>15, <1>16, <1>17, <1>18, <1>19, <1>20 DEF Says

\* A report of what is thrown, and nothing else.
LEMMA ThrownStep ==
    ASSUME WIInv, uses \in {"exceptions", "values"}, NEW ex, NEW raw, NEW refused \in BOOLEAN,
           Capture(ex, tags, Unsaid, raw),
           TakesService(service) /\ TakesException(ex) /\ (sdk = "py" => ~ex.lone) <=> ~refused,
           Len(ex.frames) <= MaxFrames, \A i \in DOMAIN ex.frames : ex.frames[i] = i,
           outcome'.raw = raw /\ (outcome'.verdict # "taken" <=> refused) => ReportRefusedForAReason'
    PROVE  Says'
<1> DEFINE r == outcome'.sent
           carried == SentTrail(trail)
           sentTags == SentTags(tags)
<1>1. sdk \in {"js", "py"} /\ sdk' = sdk /\ uses' = uses /\ service' = service
  BY DEF WIInv, Capture
<1>2. Ring(trail) = trail /\ DOMAIN trail = {} /\ Len(carried) = 0 /\ DOMAIN carried = {}
  <2>1. recorded = <<>>
    BY DEF WIInv, ScopeShape
  <2>2. Least(Len(recorded), MaxTrail) = 0
    BY <2>1, EmptySeq, WireAssumption DEF Least
  <2>3. Ring(trail) = trail /\ DOMAIN trail = 1..0 /\ Len(carried) = 0 /\ DOMAIN carried = 1..0
    BY <1>1, <2>2, TrailIs DEF WIInv
  <2> QED BY <2>3
<1>3. sentTags = {} /\ Cardinality(sentTags) <= MaxTags
  <2>1. tags = <<>> /\ tags \in Seq(AnyTag)
    BY DEF WIInv, ScopeShape
  <2>2. DOMAIN tags = {}
    BY <2>1
  <2> QED BY <1>1, <2>1, <2>2, SentTagsAre
<1>4. /\ outcome'.what = "report" /\ outcome'.raw = raw
      /\ r = [dated |-> Unsaid.dated \/ sdk = "js", service |-> service, user |-> User(Unsaid.user), exception |-> ex,
              tags |-> sentTags, trail |-> carried, attributes |-> Attributes(Unsaid.attributes)]
      /\ outcome'.verdict = (IF ~Encodes(trail) THEN "raised"
                              ELSE IF TakesReport(r) /\ Written(r) THEN "taken" ELSE "refused")
  BY <1>2 DEF Capture
<1> HIDE DEF carried, sentTags
<1>5. Encodes(trail)
  BY <1>2 DEF Encodes
<1>6. Unsaid.dated = TRUE /\ Unsaid.user = NoText /\ Attributes(Unsaid.attributes) = {}
  BY DEF Unsaid, Saying, NoData, Attributes
<1>7. /\ r.dated /\ r.service = service /\ r.user = User(NoText) /\ r.exception = ex
      /\ r.tags = sentTags /\ r.trail = carried /\ r.attributes = {}
  <2>1. (Unsaid.dated \/ sdk = "js") = TRUE
    BY <1>6
  <2>2. r = [dated |-> TRUE, service |-> service, user |-> User(NoText), exception |-> ex,
             tags |-> sentTags, trail |-> carried, attributes |-> {}]
    BY <1>4, <1>6, <2>1
  <2> HIDE DEF r
  <2> QED BY <2>2
<1>8. TakesReport(r) /\ Written(r) <=> TakesService(service) /\ TakesException(ex) /\ (sdk = "py" => ~ex.lone)
  <2>1. TakesUser(User(NoText))
    BY UserIs DEF Texts
  <2>2. TakesTags(sentTags) /\ TakesAttributes({})
    BY <1>3 DEF TakesTags, TakesAttributes
  <2>3. 0 <= MaxTrail
    BY WireAssumption
  <2> HIDE DEF r
  <2>4. TakesReport(r) <=> TakesService(service) /\ TakesException(ex)
    BY <1>2, <1>7, <2>1, <2>2, <2>3 DEF TakesReport
  <2>5. Written(r) <=> (sdk = "py" => ~ex.lone)
    BY <1>7 DEF Written, Lone
  <2> QED BY <2>4, <2>5
<1>9. ReportRefusedForAReason'
  <2>1. outcome'.verdict # "taken" <=> ~(TakesReport(r) /\ Written(r))
    BY <1>4, <1>5
  <2> HIDE DEF r
  <2> QED BY <1>4, <1>8, <2>1
<1>10. TrailIsNewest' /\ OwnTagWins'
  BY <1>1 DEF TrailIsNewest, OwnTagWins
<1>11. FailureComesFirst'
  BY <1>7 DEF FailureComesFirst
<1>12. /\ Cardinality(r.tags) <= MaxTags /\ Len(r.exception.frames) <= MaxFrames
       /\ \A t \in r.tags : t.value.units \in 1..MaxText
       /\ \A i \in DOMAIN r.trail : \A t \in r.trail[i].message : t.units <= MaxText
  BY <1>2, <1>3, <1>7
<1>13. LogsRefusedForAReason' /\ SpanLostForAReason' /\ WrittenIsRead'
  BY <1>4 DEF LogsRefusedForAReason, SpanLostForAReason, WrittenIsRead
<1>14. Sends'
  BY <1>1 DEF Sends
<1> QED BY <1>4, <1>9, <1>10, <1>11, <1>12, <1>13, <1>14 DEF Says

LEMMA ExceptionStep ==
    ASSUME WIInv, uses = "exceptions", NEW x \in Raised, Capture(Exception(x), tags, Unsaid, x)
    PROVE  Says'
<1> DEFINE ex == Exception(x)
           refused == BadService \/ BadThrow(x) \/ (sdk = "py" /\ x.lone)
<1>1. sdk \in {"js", "py"} /\ sdk' = sdk /\ uses' = "exceptions" /\ service' = service /\ (TakesService(service) <=> ~BadService)
  BY ServiceIs DEF WIInv, Capture
<1>2. /\ TakesException(ex) <=> ~BadThrow(x)
      /\ ex.lone = x.lone /\ Len(ex.frames) <= MaxFrames /\ \A i \in DOMAIN ex.frames : ex.frames[i] = i
  BY <1>1, ExceptionIs
<1>3. ASSUME outcome'.raw = x, outcome'.verdict # "taken" <=> refused PROVE ReportRefusedForAReason'
  <2>1. BadService' <=> BadService
    BY <1>1 DEF BadService
  <2> QED BY <1>1, <1>3, <2>1 DEF ReportRefusedForAReason, BadThrow
<1>4. Capture(ex, tags, Unsaid, x) /\ (TakesService(service) /\ TakesException(ex) /\ (sdk = "py" => ~ex.lone) <=> ~refused)
  BY <1>1, <1>2
<1>5. refused \in BOOLEAN
  BY DEF BadService, BadThrow
<1> HIDE DEF ex, refused
<1> QED BY <1>2, <1>3, <1>4, <1>5, ThrownStep

LEMMA ValueStep ==
    ASSUME WIInv, uses = "values", NEW class \in {Short, Long}, Capture(Value(class), tags, Unsaid, class)
    PROVE  Says'
<1> DEFINE ex == Value(class)
           refused == BadService \/ (sdk = "py" /\ class = Long)
<1>1. sdk \in {"js", "py"} /\ sdk' = sdk /\ uses' = "values" /\ service' = service /\ (TakesService(service) <=> ~BadService)
  BY ServiceIs DEF WIInv, Capture
<1>2. /\ TakesException(ex) <=> ~(sdk = "py" /\ class = Long)
      /\ ~ex.lone /\ Len(ex.frames) <= MaxFrames /\ \A i \in DOMAIN ex.frames : ex.frames[i] = i
  <2>1. NonEmpty(IF sdk = "js" THEN Short ELSE class) <=> ~(sdk = "py" /\ class = Long)
    BY <1>1, Taken, Differ
  <2> QED BY <2>1, NodeIs DEF Value
<1>3. ASSUME outcome'.raw = class, outcome'.verdict # "taken" <=> refused PROVE ReportRefusedForAReason'
  <2>1. BadService' <=> BadService
    BY <1>1 DEF BadService
  <2> QED BY <1>1, <1>3, <2>1 DEF ReportRefusedForAReason
<1>4. Capture(ex, tags, Unsaid, class) /\ (TakesService(service) /\ TakesException(ex) /\ (sdk = "py" => ~ex.lone) <=> ~refused)
  BY <1>1, <1>2
<1>5. refused \in BOOLEAN
  BY DEF BadService
<1> HIDE DEF ex, refused
<1> QED BY <1>2, <1>3, <1>4, <1>5, ThrownStep

\* A batch of log records.
LEMMA SendLogsStep == ASSUME WIInv, SendLogs PROVE Says'
<1>1. /\ sdk \in {"js", "py"} /\ sdk' = sdk /\ service' = service /\ (TakesService(service) <=> ~BadService)
      /\ outcome' = [what |-> "logs", raw |-> batch, verdict |-> IF TakesBatch(batch) THEN "taken" ELSE "refused"]
      /\ batch # <<>>
  BY ServiceIs DEF WIInv, SendLogs
<1>2. \A i \in DOMAIN batch : /\ batch[i].raw \in Logged /\ batch[i].sent = LogRecord(batch[i].raw)
                              /\ KeyFits(Strip(batch[i].raw.category))
  <2> DEFINE Entries == [raw : Logged, sent : {LogRecord(l) : l \in Logged}]
  <2>1. batch \in Seq(Entries)
    BY DEF WIInv, BatchShape
  <2>2. \A e \in Entries : e.raw \in Logged
    OBVIOUS
  <2> HIDE DEF Entries
  <2>3. \A i \in DOMAIN batch : batch[i] \in Entries
    BY <2>1, LenProperties, ElementOfSeq
  <2> QED BY <2>2, <2>3 DEF WIInv, BatchShape
<1>3. \E i \in DOMAIN batch : TRUE
  <2>1. Len(batch) \in Nat \ {0} /\ DOMAIN batch = 1..Len(batch)
    BY <1>1, EmptySeq, LenProperties DEF WIInv, BatchShape
  <2> QED BY <2>1
<1>4. \A i \in DOMAIN batch : TakesLog(batch[i].sent) /\ (sdk = "py" => ~Lone(batch[i].sent)) <=>
                                  ~BadService /\ ~BadLog(batch[i].raw)
  BY <1>1, <1>2, LogIs
<1>5. Cardinality(Bulky(batch)) <= MaxBody <=> ~(Cardinality(Bulky(batch)) > MaxBody)
  <2>1. Bulky(batch) \subseteq 1..Len(batch) /\ Len(batch) \in Nat
    BY LenProperties DEF Bulky, WIInv, BatchShape
  <2>2. IsFiniteSet(1..Len(batch))
    BY <2>1, FS_Interval
  <2>3. Cardinality(Bulky(batch)) \in Nat /\ MaxBody \in Nat
    BY <2>1, <2>2, FS_Subset, FS_CardinalityType, WireAssumption
  <2> QED BY <2>3
<1>6. TakesBatch(batch) <=> /\ ~(Cardinality(Bulky(batch)) > MaxBody)
                            /\ ~BadService /\ \A i \in DOMAIN batch : ~BadLog(batch[i].raw)
  BY <1>3, <1>4, <1>5 DEF TakesBatch
<1>7. outcome'.what = "logs" /\ outcome'.raw = batch /\ (outcome'.verdict = "refused" <=> ~TakesBatch(batch))
  BY <1>1
<1>8. LogsRefusedForAReason'
  <2>1. BadService' <=> BadService
    BY <1>1 DEF BadService
  <2>2. \A l : BadLog(l)' <=> BadLog(l)
    BY <1>1 DEF BadLog, Lone
  <2>3. Bulky(outcome.raw)' = Bulky(batch)
    BY <1>7 DEF Bulky
  <2> QED BY <1>6, <1>7, <2>1, <2>2, <2>3 DEF LogsRefusedForAReason
<1>9. /\ ReportRefusedForAReason' /\ SpanLostForAReason' /\ WrittenIsRead' /\ TrailIsNewest' /\ OwnTagWins'
      /\ FailureComesFirst' /\ Sends'
  BY <1>7 DEF ReportRefusedForAReason, SpanLostForAReason, WrittenIsRead, TrailIsNewest, OwnTagWins, FailureComesFirst, Sends
<1> QED BY <1>7, <1>8, <1>9 DEF Says

\* A span.
LEMMA ExportStep == ASSUME WIInv, ExportSpans PROVE Says'
<1> DEFINE s == span
           v == span.value
           read == FlattenAnyValue(ToAnyValue(Sanitized(v)))
<1>1. /\ sdk \in {"js", "py"} /\ sdk' = sdk /\ s.step = "ended"
      /\ outcome' = [what |-> "spans", raw |-> s, stored |-> read,
                     verdict |-> IF ~TakesRequest(s) THEN "refused" ELSE IF Readable(s) THEN "taken" ELSE "rejected"]
  BY DEF WIInv, ExportSpans
<1>2. /\ s.start \in Int /\ s.end \in Int /\ s.count \in Nat /\ s.end >= s.start
      /\ s.key = Short \/ (sdk = "py" /\ s.key = Wide)
  BY <1>1 DEF WIInv, SpanShape, AnySpan, AnyValue
<1>0. v.leaf \in {"text", "bool", "fraction", "int", "unsafe int", "null"} /\ v.depth \in Nat /\ v = s.value
  BY DEF WIInv, SpanShape, AnySpan, AnyValue
<1>11. v.depth \in Nat /\ MaxDepth \in Nat
  BY WireAssumption DEF WIInv, SpanShape, AnySpan, AnyValue
<1>12. /\ v.depth > MaxDepth => Least(v.depth, MaxDepth) = MaxDepth
       /\ ~(v.depth > MaxDepth) => Least(v.depth, MaxDepth) = v.depth
  <2> DEFINE d == v.depth
  <2> HIDE DEF d
  <2>1. d \in Nat /\ MaxDepth \in Nat
    BY <1>11 DEF d
  <2>2. /\ d > MaxDepth => Least(d, MaxDepth) = MaxDepth
        /\ ~(d > MaxDepth) => Least(d, MaxDepth) = d
    BY <2>1 DEF Least
  <2> QED BY <2>2 DEF d
<1>10. v = [leaf |-> v.leaf, depth |-> v.depth]
  BY DEF WIInv, SpanShape, AnySpan, AnyValue
<1> HIDE DEF s, v
<1>3. TakesRequest(s) <=> ~(s.start < 0 \/ s.count > MaxAttributes \/ (sdk = "py" /\ s.key = Wide))
  <2>1. s.key.units < 2 * MaxText <=> ~(sdk = "py" /\ s.key = Wide)
    BY <1>2, Lengths, Differ
  <2>2. s.start >= 0 /\ s.end >= 0 <=> ~(s.start < 0)
    BY <1>2
  <2>3. s.count <= MaxAttributes <=> ~(s.count > MaxAttributes)
    BY <1>2, WireAssumption
  <2> QED BY <2>1, <2>2, <2>3 DEF TakesRequest
<1>4. TakesRequest(s) /\ ~Readable(s) => s.start = 0
  <2>1. TakesRequest(s) => s.start >= 0
    BY DEF TakesRequest
  <2>2. s.start >= 0 /\ s.start # 0 => s.start # 0 /\ s.end # 0 /\ s.end >= s.start
    BY <1>2
  <2> QED BY <2>1, <2>2 DEF Readable
<1>5. read = {[leaf |-> IF v.leaf \in {"null", "unsafe int"} \/ v.depth > MaxDepth THEN "text" ELSE v.leaf,
                 depth |-> Least(v.depth, MaxDepth)]}
  <2>1. MaxDepth \in Nat
    BY WireAssumption
  <2>2. CASE v.depth > MaxDepth
    <3>1. Sanitized(v) = [leaf |-> "text", depth |-> MaxDepth]
      BY <2>2 DEF Sanitized
    <3>2. ToAnyValue(Sanitized(v)) = [leaf |-> "text", depth |-> MaxDepth]
      BY <3>1 DEF ToAnyValue
    <3>3. read = {[leaf |-> "text", depth |-> MaxDepth]}
      BY <2>1, <3>2 DEF FlattenAnyValue
    <3>4. Least(v.depth, MaxDepth) = MaxDepth
      BY <1>12, <2>2
    <3> QED BY <2>2, <3>3, <3>4
  <2>3. CASE ~(v.depth > MaxDepth)
    <3>1. Sanitized(v) = v /\ Least(v.depth, MaxDepth) = v.depth
      BY <1>12, <2>3 DEF Sanitized
    <3>2. ToAnyValue(v) = [leaf |-> IF v.leaf = "null" THEN "text" ELSE v.leaf, depth |-> v.depth]
      BY <1>10 DEF ToAnyValue
    <3> DEFINE w == ToAnyValue(v)
    <3>3. w.leaf = (IF v.leaf = "null" THEN "text" ELSE v.leaf) /\ w.depth = v.depth
          /\ w = [leaf |-> w.leaf, depth |-> w.depth] /\ w.leaf # "nothing"
      <4>1. w.leaf = (IF v.leaf = "null" THEN "text" ELSE v.leaf) /\ w.depth = v.depth
        BY <3>2
      <4>2. w = [leaf |-> w.leaf, depth |-> w.depth]
        BY <3>2, <4>1
      <4> HIDE DEF w
      <4> QED BY <1>0, <4>1, <4>2
    <3> HIDE DEF w
    <3>4. FlattenAnyValue(w) = {[leaf |-> IF w.leaf = "unsafe int" THEN "text" ELSE w.leaf, depth |-> w.depth]}
      <4>1. ~(w.depth > MaxDepth) /\ w.leaf # "nothing"
        BY <2>3, <3>3
      <4>2. w.leaf = "unsafe int" => [w EXCEPT !.leaf = "text"] = [leaf |-> "text", depth |-> w.depth]
        <5>1. \A a, b : [[leaf |-> a, depth |-> b] EXCEPT !.leaf = "text"] = [leaf |-> "text", depth |-> b]
          OBVIOUS
        <5>2. [[leaf |-> w.leaf, depth |-> w.depth] EXCEPT !.leaf = "text"] = [leaf |-> "text", depth |-> w.depth]
          BY <5>1
        <5>3. w = [leaf |-> w.leaf, depth |-> w.depth]
          BY <3>3
        <5> QED BY <5>2, <5>3
      <4> QED BY <3>3, <4>1, <4>2 DEF FlattenAnyValue
    <3>5. (IF w.leaf = "unsafe int" THEN "text" ELSE w.leaf) =
              IF v.leaf \in {"null", "unsafe int"} \/ v.depth > MaxDepth THEN "text" ELSE v.leaf
      BY <2>3, <3>3
    <3> QED BY <3>1, <3>3, <3>4, <3>5 DEF w
  <2> QED BY <2>2, <2>3
<1> HIDE DEF read
<1>6. outcome'.what = "spans" /\ outcome'.raw = s /\ outcome'.stored = read
      /\ (outcome'.verdict = "refused" <=> ~TakesRequest(s))
      /\ (outcome'.verdict = "rejected" <=> TakesRequest(s) /\ ~Readable(s))
  BY <1>1
<1>7. SpanLostForAReason'
  BY <1>1, <1>3, <1>4, <1>6 DEF SpanLostForAReason
<1>8. WrittenIsRead'
  <2>1. outcome'.raw.value = v
    BY <1>0, <1>6
  <2> QED BY <1>5, <1>6, <2>1 DEF WrittenIsRead
<1>9. /\ ReportRefusedForAReason' /\ LogsRefusedForAReason' /\ TrailIsNewest' /\ OwnTagWins'
      /\ FailureComesFirst' /\ Sends'
  BY <1>6 DEF ReportRefusedForAReason, LogsRefusedForAReason, TrailIsNewest, OwnTagWins, FailureComesFirst, Sends
<1> QED BY <1>6, <1>7, <1>8, <1>9 DEF Says

\* A step that leaves the last request alone, or forgets it.
LEMMA NothingSaid ==
    ASSUME WIInv, sdk' = sdk, uses' = uses, service' = service, outcome' = outcome \/ outcome' = NoRequest
    PROVE  Says'
<1>1. CASE outcome' = NoRequest
  <2>1. outcome'.what = "nothing"
    BY <1>1 DEF NoRequest
  <2> QED BY <2>1 DEF Says, ReportRefusedForAReason, LogsRefusedForAReason, SpanLostForAReason, TrailIsNewest, OwnTagWins,
            FailureComesFirst, WrittenIsRead, Sends
<1>2. CASE outcome' = outcome
  <2>1. Says
    BY DEF WIInv, WireInv, WireTypeOK, Says
  <2>2. (\A c : BadCrumb(c)' <=> BadCrumb(c)) /\ (\A l : BadLog(l)' <=> BadLog(l)) /\ (BadService' <=> BadService)
    BY DEF BadCrumb, BadLog, Lone, BadService
  <2>3. Bulky(outcome.raw)' = Bulky(outcome.raw)
    BY <1>2 DEF Bulky
  <2>4. ReportRefusedForAReason' /\ LogsRefusedForAReason'
    BY <1>2, <2>1, <2>2, <2>3 DEF Says, ReportRefusedForAReason, LogsRefusedForAReason
  <2>5. SpanLostForAReason' /\ TrailIsNewest' /\ OwnTagWins' /\ FailureComesFirst' /\ WrittenIsRead' /\ Sends'
    BY <1>2, <2>1 DEF Says, SpanLostForAReason, TrailIsNewest, OwnTagWins, FailureComesFirst, WrittenIsRead, Sends
  <2> QED BY <1>2, <2>1, <2>4, <2>5 DEF Says
<1> QED BY <1>1, <1>2

LEMMA SetTagStep == ASSUME WIInv, SetTag PROVE ScopeShape'
<1> PICK tag \in Tagged : tags' = IF Tag(tag) = {} THEN tags ELSE Merge(tags, CHOOSE t \in Tag(tag) : TRUE)
  BY DEF SetTag
<1>1. tag \in AnyTag /\ tags \in Seq(AnyTag) /\ sdk \in {"js", "py"}
  BY DEF Tagged, AnyTag, WIInv, ScopeShape
<1>2. tags' \in Seq(AnyTag)
  <2>1. CASE Tag(tag) = {}
    BY <1>1, <2>1
  <2>2. CASE Tag(tag) # {}
    <3> DEFINE t == CHOOSE t \in Tag(tag) : TRUE
    <3>1. t \in Tag(tag)
      BY <2>2
    <3>2. tags' = Merge(tags, t)
      BY <2>2
    <3> HIDE DEF t
    <3> QED BY <1>1, <3>1, <3>2, TagIs, MergeIs
  <2> QED BY <2>1, <2>2
<1> QED BY <1>2 DEF SetTag, WIInv, ScopeShape, Ring, Least

LEMMA AddBreadcrumbStep == ASSUME WIInv, AddBreadcrumb PROVE ScopeShape'
<1> PICK crumb \in Crumbs : trail' = Ring(Append(trail, crumb)) /\ recorded' = Append(recorded, crumb)
  BY DEF AddBreadcrumb
<1>1. recorded \in Seq(Crumbs) /\ trail = Ring(recorded)
  BY DEF WIInv, ScopeShape
<1>2. trail' = Ring(Append(recorded, crumb)) /\ recorded' \in Seq(Crumbs)
  BY <1>1, RingOfRing, AppendProperties
<1>3. Ring(recorded)' = Ring(Append(recorded, crumb))
  BY DEF Ring, Least
<1> QED BY <1>2, <1>3 DEF AddBreadcrumb, WIInv, ScopeShape

LEMMA CaptureLogStep == ASSUME WIInv, NEW l \in Logged, CaptureLog(l) PROVE BatchShape'
<1> DEFINE Entries == [raw : Logged, sent : {LogRecord(k) : k \in Logged}]
           entry == [raw |-> l, sent |-> LogRecord(l)]
<1>1. batch \in Seq(Entries) /\ entry \in Entries /\ batch' = Append(batch, entry) /\ Len(batch) < MaxBatch /\ sdk' = sdk
      /\ KeyFits(Strip(l.category))
  BY DEF WIInv, BatchShape, CaptureLog, CategoryFits
<1>2. entry.raw = l /\ entry.sent = LogRecord(l)
  OBVIOUS
<1>3. \A k : LogRecord(k)' = LogRecord(k) /\ (KeyFits(Strip(k.category))' <=> KeyFits(Strip(k.category)))
  BY <1>1 DEF LogRecord, Attributes, KeyFits
<1>4. Entries' = Entries
  BY <1>3
<1> HIDE DEF Entries, entry
<1>5. /\ batch' \in Seq(Entries) /\ Len(batch') = Len(batch) + 1 /\ batch'[Len(batch) + 1] = entry
      /\ \A i \in 1..Len(batch) : batch'[i] = batch[i]
  BY <1>1, AppendProperties
<1>6. Len(batch) \in Nat /\ DOMAIN batch = 1..Len(batch) /\ DOMAIN batch' = 1..Len(batch) + 1
  BY <1>1, <1>5, LenProperties
<1>7. Len(batch') <= MaxBatch
  BY <1>1, <1>5, <1>6, WireAssumption
<1>8. \A i \in DOMAIN batch' : /\ batch'[i].sent = LogRecord(batch'[i].raw)
                               /\ KeyFits(Strip(batch'[i].raw.category))
  <2>1. \A i \in DOMAIN batch : batch[i].sent = LogRecord(batch[i].raw) /\ KeyFits(Strip(batch[i].raw.category))
    BY DEF WIInv, BatchShape
  <2>2. \A i \in DOMAIN batch' : i \in DOMAIN batch \/ i = Len(batch) + 1
    BY <1>6
  <2> QED BY <1>1, <1>2, <1>5, <1>6, <2>1, <2>2
<1>9. batch' \in Seq(Entries')
  BY <1>4, <1>5
<1> QED BY <1>3, <1>7, <1>8, <1>9 DEF BatchShape, Entries

LEMMA NoSpanIs == ASSUME span = NoSpan PROVE SpanShape
<1>1. [leaf |-> "text", depth |-> 0] \in AnyValue
  BY DEF AnyValue
<1>2. NoSpan \in AnySpan /\ NoSpan.key = Short /\ NoSpan.step = "none"
  BY <1>1 DEF NoSpan, AnySpan
<1> QED BY <1>2 DEF SpanShape

LEMMA StartSpanStep == ASSUME WIInv, NEW start \in -1..2, NEW value \in Values, StartSpan(start, value) PROVE SpanShape'
<1>1. value \in AnyValue
  <2>1. \A d \in 0..MaxDepth + 1 : d \in Nat
    BY WireAssumption
  <2> QED BY <2>1 DEF Values, AnyValue
<1>2. span' = [step |-> "started", start |-> start, end |-> 0, count |-> 1, key |-> Short, value |-> value]
  BY DEF StartSpan, NoSpan
<1>3. start \in Int
  OBVIOUS
<1>4. span' \in AnySpan /\ span'.key = Short /\ span'.step = "started"
  BY <1>1, <1>2, <1>3 DEF AnySpan
<1> QED BY <1>4 DEF SpanShape

LEMMA SetAttributesStep ==
    ASSUME WIInv, NEW n \in {1, MaxPerCall + 1}, NEW key \in {Short, Long, Wide}, SetAttributes(n, key)
    PROVE  SpanShape'
<1> DEFINE count == span.count + Least(n, MaxPerCall)
           kept == IF KeyFits(key) /\ span.key = Short THEN key ELSE span.key
<1>1. span' = [span EXCEPT !.count = count, !.key = kept] /\ span.step = "started" /\ sdk' = sdk
  BY DEF SetAttributes
<1>2. span \in AnySpan /\ (span.key = Short \/ (sdk = "py" /\ span.key = Wide)) /\ span.count \in Nat
  BY DEF WIInv, SpanShape, AnySpan
<1>3. count \in Nat
  <2>1. Least(n, MaxPerCall) \in Nat
    BY WireAssumption DEF Least
  <2> QED BY <1>2, <2>1
<1>4. kept = Short \/ (sdk = "py" /\ kept = Wide)
  BY <1>2, KeysFit
<1> HIDE DEF count, kept
<1>5. span' \in AnySpan /\ span'.key = kept /\ span'.step = "started"
  BY <1>1, <1>2, <1>3, <1>4 DEF AnySpan
<1> QED BY <1>1, <1>4, <1>5 DEF SpanShape

LEMMA EndSpanStep == ASSUME WIInv, NEW at \in -1..2, EndSpan(at) PROVE SpanShape'
<1>1. span \in AnySpan /\ span.start \in Int /\ (span.key = Short \/ (sdk = "py" /\ span.key = Wide))
  BY DEF WIInv, SpanShape, AnySpan
<1> DEFINE end == NotBeforeStart(at)
<1>2. end \in Int /\ end >= span.start
  BY <1>1 DEF NotBeforeStart
<1> HIDE DEF end
<1>3. span' = [span EXCEPT !.step = "ended", !.end = end] /\ sdk' = sdk
  BY DEF EndSpan, end
<1>4. span' \in AnySpan /\ span'.end = end /\ span'.start = span.start /\ span'.key = span.key
  BY <1>1, <1>2, <1>3 DEF AnySpan
<1> QED BY <1>1, <1>2, <1>3, <1>4 DEF SpanShape

\* What a step leaves alone keeps its shape.
LEMMA LeftAlone ==
    ASSUME WIInv, sdk' = sdk, uses' = uses
    PROVE  /\ UNCHANGED scope => ScopeShape'
           /\ batch' = batch => BatchShape'
           /\ span' = span => SpanShape'
<1>1. ASSUME UNCHANGED scope PROVE ScopeShape'
  <2>1. Ring(recorded)' = Ring(recorded)
    BY <1>1 DEF scope, Ring, Least
  <2> QED BY <1>1, <2>1 DEF WIInv, ScopeShape, scope
<1>2. ASSUME batch' = batch PROVE BatchShape'
  <2>1. \A k : LogRecord(k)' = LogRecord(k) /\ (KeyFits(Strip(k.category))' <=> KeyFits(Strip(k.category)))
    BY DEF LogRecord, Attributes, KeyFits
  <2> DEFINE Entries == [raw : Logged, sent : {LogRecord(k) : k \in Logged}]
  <2>2. Entries' = Entries
    BY <2>1
  <2>3. batch \in Seq(Entries) /\ Len(batch) <= MaxBatch
        /\ \A i \in DOMAIN batch : batch[i].sent = LogRecord(batch[i].raw) /\ KeyFits(Strip(batch[i].raw.category))
    BY DEF WIInv, BatchShape
  <2>4. batch' \in Seq(Entries')
    <3> HIDE DEF Entries
    <3> QED BY <1>2, <2>2, <2>3
  <2> QED BY <1>2, <2>1, <2>3, <2>4 DEF BatchShape
<1>3. ASSUME span' = span PROVE SpanShape'
  BY <1>3 DEF WIInv, SpanShape
<1> QED BY <1>1, <1>2, <1>3

LEMMA NoBatch == batch = <<>> => BatchShape
<1> SUFFICES ASSUME batch = <<>> PROVE BatchShape
  OBVIOUS
<1>1. Len(batch) <= MaxBatch /\ DOMAIN batch = {}
  BY EmptySeq, WireAssumption
<1> QED BY <1>1, EmptySeq DEF BatchShape

LEMMA WInit == WireInit => WIInv
<1> SUFFICES ASSUME WireInit PROVE WIInv
  OBVIOUS
<1>1. /\ sdk \in {"js", "py"} /\ uses \in {"scope", "exceptions", "values", "logs", "spans"}
      /\ service \in [name : {Short, Long}, environment : {{}, {Blank}}]
      /\ uses \in {"scope", "exceptions", "spans"} => service = [name |-> Short, environment |-> {}]
      /\ tags = <<>> /\ trail = <<>> /\ recorded = <<>> /\ batch = <<>> /\ span = NoSpan /\ outcome = NoRequest
  BY DEF WireInit
<1>2. ScopeShape
  <2>1. Least(Len(recorded), MaxTrail) = 0 /\ recorded \in Seq(Crumbs) /\ trail \in Seq(Crumbs) /\ Len(trail) = 0
    BY <1>1, EmptySeq, WireAssumption DEF Least
  <2>2. Ring(recorded) \in Seq(Crumbs) /\ Len(Ring(recorded)) = 0
    BY <2>1, RingIs
  <2>3. Ring(recorded) = trail
    BY <2>1, <2>2, SeqEqual
  <2> QED BY <1>1, <2>1, <2>3, EmptySeq DEF ScopeShape
<1>3. BatchShape
  BY <1>1, NoBatch
<1>4. Says
  <2>1. outcome.what = "nothing"
    BY <1>1 DEF NoRequest
  <2> QED BY <2>1 DEF Says, ReportRefusedForAReason, LogsRefusedForAReason, SpanLostForAReason, TrailIsNewest, OwnTagWins,
            FailureComesFirst, WrittenIsRead, Sends
<1> QED BY <1>1, <1>2, <1>3, <1>4, NoSpanIs, Parts DEF WIInv

LEMMA WStep == WIInv /\ [WireNext]_wireVars => WIInv'
<1> SUFFICES ASSUME WIInv, [WireNext]_wireVars PROVE WIInv'
  OBVIOUS
<1>1. sdk' = sdk /\ uses' = uses /\ service' = service
  BY DEF WireNext, wireVars, SetTag, AddBreadcrumb, CaptureMessage, CaptureException, CaptureValue, Capture, CaptureLog, SendLogs,
         StartSpan, SetAttributes, EndSpan, ExportSpans
<1>2. /\ UNCHANGED scope => ScopeShape'
      /\ batch' = batch => BatchShape'
      /\ span' = span => SpanShape'
      /\ outcome' = outcome \/ outcome' = NoRequest => Says'
  BY <1>1, LeftAlone, NothingSaid
<1>3. ScopeShape' /\ BatchShape' /\ SpanShape' /\ Says' => WIInv'
  <2>1. (sdk \in {"js", "py"} /\ ScopeShape /\ BatchShape /\ Says => WireInv /\ Sends)'
    BY Parts, PTL
  <2> QED BY <1>1, <2>1 DEF WIInv
<1>4. CASE UNCHANGED wireVars
  BY <1>2, <1>3, <1>4 DEF wireVars
<1>5. CASE SetTag
  BY <1>2, <1>3, <1>5, SetTagStep DEF SetTag
<1>6. CASE AddBreadcrumb
  BY <1>2, <1>3, <1>6, AddBreadcrumbStep DEF AddBreadcrumb
<1>7. CASE CaptureMessage
  <2>1. Says'
    BY <1>7, MessageStep DEF CaptureMessage
  <2> QED BY <1>2, <1>3, <1>7, <2>1 DEF CaptureMessage, Capture
<1>8. CASE CaptureException
  <2>1. Says'
    BY <1>8, ExceptionStep DEF CaptureException
  <2> QED BY <1>2, <1>3, <1>8, <2>1 DEF CaptureException, Capture
<1>15. CASE CaptureValue
  <2>1. Says'
    BY <1>15, ValueStep DEF CaptureValue
  <2> QED BY <1>2, <1>3, <1>15, <2>1 DEF CaptureValue, Capture
<1>9. ASSUME NEW l \in Logged, CaptureLog(l) PROVE WIInv'
  BY <1>2, <1>3, <1>9, CaptureLogStep DEF CaptureLog
<1>10. CASE SendLogs
  <2>1. Says' /\ BatchShape'
    <3>1. batch' = <<>>
      BY <1>10 DEF SendLogs
    <3>2. (batch = <<>> => BatchShape)'
      BY NoBatch, PTL
    <3> QED BY <1>10, <3>1, <3>2, SendLogsStep
  <2> QED BY <1>2, <1>3, <1>10, <2>1 DEF SendLogs
<1>11. ASSUME NEW start \in -1..2, NEW value \in Values, StartSpan(start, value) PROVE WIInv'
  BY <1>2, <1>3, <1>11, StartSpanStep DEF StartSpan
<1>12. ASSUME NEW n \in {1, MaxPerCall + 1}, NEW key \in {Short, Long, Wide}, SetAttributes(n, key) PROVE WIInv'
  BY <1>2, <1>3, <1>12, SetAttributesStep DEF SetAttributes
<1>13. ASSUME NEW at \in -1..2, EndSpan(at) PROVE WIInv'
  BY <1>2, <1>3, <1>13, EndSpanStep DEF EndSpan
<1>14. CASE ExportSpans
  <2>1. SpanShape'
    <3>1. span' = [span EXCEPT !.step = "exported"] /\ span \in AnySpan
      BY <1>14 DEF ExportSpans, WIInv, SpanShape
    <3>2. span' \in AnySpan /\ span'.step = "exported" /\ span'.key = span.key
      BY <3>1 DEF AnySpan
    <3> QED BY <1>1, <3>2 DEF WIInv, SpanShape
  <2> QED BY <1>2, <1>3, <1>14, <2>1, ExportStep DEF ExportSpans
<1> QED BY <1>4, <1>5, <1>6, <1>7, <1>8, <1>9, <1>10, <1>11, <1>12, <1>13, <1>14, <1>15 DEF WireNext

\* What the server loses of what a reporter sends it loses for the reasons
\* named, of whatever length the limits are and whatever refers to what, and
\* what it takes says what the application said (normalize.ts, normalize.py
\* and the schemas of the requests).
THEOREM WireInvariant == WireSpec => []WireInv
<1>1. WIInv => WireInv
  BY DEF WIInv
<1> QED BY <1>1, WInit, WStep, PTL DEF WireSpec

-----------------------------------------------------------------------------
(* Together.                                                               *)

\* The store and the door leave each other alone: what each keeps by itself is
\* kept (apps/api/src/ingestion and the two reporters).
THEOREM TelemetryKeepsAll ==
    TelemetrySpec => /\ [](ReceiptNamesTheRow /\ InTheRightProject /\ TracesInv /\ WireInv)
                     /\ RevokedOnlyDrains
<1>1. TelemetryInit => Init /\ WireInit
  BY DEF TelemetryInit
<1>2. [TelemetryNext]_telemetryVars => [Next]_tracesVars /\ [WireNext]_wireVars
  BY DEF TelemetryNext, telemetryVars
<1>3. TelemetrySpec => Spec /\ WireSpec
  BY <1>1, <1>2, PTL DEF TelemetrySpec, Spec, WireSpec
<1> QED
  BY <1>3, ReceiptsStayTrue, StoredInTheRightProject, TracesInvariant, WireInvariant, RevocationDrains, PTL
=============================================================================
