--------------------------- MODULE ContentLifecycle ---------------------------
(***************************************************************************)
(* The editorial workflow of clause and template versions: the write       *)
(* handlers of apps/api/src/modules/content (routes.ts, reviewer.ts,       *)
(* changelog.ts, publishing-gates.ts) over the rows of the database.       *)
(*                                                                         *)
(* A handler runs one interactive transaction.  PostgreSQL's default       *)
(* isolation, READ COMMITTED, gives every statement its own snapshot and   *)
(* the UPDATEs address a row by its id only, so a handler is several       *)
(* steps: the statement that reads and checks the row, for a publication   *)
(* the statements of the gates, the write with its commit, and the audit   *)
(* call made after the commit.  Steps of different requests interleave.    *)
(* A check that fails answers 4xx and changes nothing: it is a disabled    *)
(* step here.  All requests belong to one tenant and to users with the     *)
(* role admin or editor, which every one of these handlers requires.       *)
(***************************************************************************)
EXTENDS Naturals, Sequences

CONSTANTS
    Clauses, Templates,     \* ids of the logical clauses and templates
    VersionIds,             \* uuids the database can give to version rows
    Users,                  \* editors and admins of the tenant
    Requests,               \* requests the API process can have in flight
    RefChoices,             \* sets of clause ids a version may refer to
    NoUser, NoVersion,      \* NULL in a user or a version column
    MaxEntries              \* bound: metadata entries acknowledged per version

ASSUME DisjointEntities == Clauses \cap Templates = {}
ASSUME NoUserIsNull     == NoUser \notin Users
ASSUME NoVersionIsNull  == NoVersion \notin VersionIds
ASSUME MaxEntriesIsNat  == MaxEntries \in Nat

VARIABLES
    entities,   \* the clauses and templates that have been created
    row,        \* id -> row, for the version rows that have been inserted
    current,    \* entity -> its currentPublishedVersionId
    req,        \* request -> what its handler has read and does next
    audit,      \* <<action, subject>> handed to the audit service
    acked       \* history: id -> metadata entries answered with success

vars == <<entities, row, current, req, audit, acked>>

Entities == Clauses \cup Templates
Statuses == {"draft", "review", "approved", "published", "deprecated"}

\* Mutant: a published version can be taken back to draft.
TransitionsWithUnpublish ==
    [draft      |-> {"review"},
     review     |-> {"approved", "draft"},
     approved   |-> {"published", "draft"},
     published  |-> {"deprecated", "draft"},
     deprecated |-> {}]

\* VALID_TRANSITIONS; a status without an entry allows nothing.
ValidTransitions ==
    [draft      |-> {"review"},
     review     |-> {"approved", "draft"},
     approved   |-> {"published", "draft"},
     published  |-> {"deprecated"},
     deprecated |-> {}]

(***************************************************************************)
(* Rows.  meta stands for the JSON column metadata: the entries of its     *)
(* reviewHistory and changelog arrays in the order they were appended.     *)
(* Both arrays are read and written with the whole column.  refs are the   *)
(* targets of a clause's "requires" rules or the clauses in a template's   *)
(* required slots.  published says that publishedAt is set.                *)
(***************************************************************************)
Decisions == {"approved", "rejected", "changes_requested"}
Entry     == [kind : Decisions \cup {"changelog"}, by : Users]

Row == [entity    : Entities,
        number    : Nat \ {0},
        status    : Statuses,
        author    : Users,
        reviewer  : Users \cup {NoUser},
        published : BOOLEAN,
        refs      : RefChoices,
        meta      : Seq(Entry)]

VersionsOf(es) == {v \in DOMAIN row : row[v].entity \in es}

(***************************************************************************)
(* Requests.  at names the statement the handler executes next; the other  *)
(* fields are what it remembers from the request and from its reads.       *)
(***************************************************************************)
Idle == [at |-> "idle"]

PendingInsert  == [at : {"insert"}, entity : Entities, user : Users,
                   refs : RefChoices, number : Nat \ {0}]
PendingStatus  == [at : {"status"}, version : VersionIds, to : Statuses]
PendingPublish == [at : {"gates", "publish"}, version : VersionIds,
                   reviewer : Users]
PendingAssign  == [at : {"assign"}, version : VersionIds,
                   reviewer : Users, meta : Seq(Entry)]
PendingDecide  == [at : {"decide"}, version : VersionIds, entry : Entry,
                   meta : Seq(Entry)]
PendingLog     == [at : {"changelog"}, version : VersionIds, entry : Entry,
                   meta : Seq(Entry)]

\* What an audit record is about: the creation of an entity, a publication,
\* or one of the review steps (assign, approve, reject, request changes).
AuditActions == {"create", "publish", "review"}
AuditEntry   == AuditActions \X (Entities \cup VersionIds)
PendingAudit == [at : {"audit"}, entry : AuditEntry]

Request == {Idle} \cup PendingInsert \cup PendingStatus \cup PendingPublish
           \cup PendingAssign \cup PendingDecide \cup PendingLog
           \cup PendingAudit

\* The handler of request r goes on with p.
Goto(r, p) == req' = [req EXCEPT ![r] = p]

\* An idle request arrives and its first statement, a read, changes no row.
Arrives(r, p) ==
    /\ req[r] = Idle
    /\ Goto(r, p)
    /\ UNCHANGED <<entities, row, current, audit, acked>>

\* The bound on metadata entries; a new one is not begun beyond it.
HasRoom(v) == acked[v] < MaxEntries

-----------------------------------------------------------------------------
(***************************************************************************)
(* POST /clauses, POST /templates                                          *)
(***************************************************************************)
CreateEntity(r, e) ==
    /\ req[r] = Idle
    /\ e \notin entities
    /\ entities' = entities \cup {e}
    /\ Goto(r, [at |-> "audit", entry |-> <<"create", e>>])
    /\ UNCHANGED <<row, current, audit, acked>>

CreateClause(r)   == \E c \in Clauses : CreateEntity(r, c)
CreateTemplate(r) == \E t \in Templates : CreateEntity(r, t)

(***************************************************************************)
(* POST /clauses/:id/versions and its template twin: read the latest       *)
(* version number, then insert a draft with the next one.                  *)
(***************************************************************************)
Numbers(e) == {row[v].number : v \in VersionsOf({e})}

ReadLatest(r, e) ==
    \E u \in Users, refs \in RefChoices, latest \in {0} \cup Numbers(e) :
        /\ e \in entities
        /\ \A n \in Numbers(e) : n <= latest
        /\ Arrives(r, [at |-> "insert", entity |-> e, user |-> u,
                       refs |-> refs, number |-> latest + 1])

NewClauseVersion(r)   == \E c \in Clauses : ReadLatest(r, c)
NewTemplateVersion(r) == \E t \in Templates : ReadLatest(r, t)

\* @@unique([clauseId, versionNumber]): the INSERT fails on a taken number.
NumberIsNotChecked(e, n) == TRUE    \* Mutant: no unique index.
NumberIsFree(e, n) == n \notin Numbers(e)

NewRow(p) == [entity |-> p.entity, number |-> p.number, status |-> "draft",
              author |-> p.user, reviewer |-> NoUser, published |-> FALSE,
              refs |-> p.refs, meta |-> <<>>]

InsertVersion(r) ==
    /\ req[r].at = "insert"
    /\ NumberIsFree(req[r].entity, req[r].number)
    /\ \E v \in VersionIds \ DOMAIN row :
          row' = [w \in DOMAIN row \cup {v} |->
                     IF w = v THEN NewRow(req[r]) ELSE row[w]]
    /\ Goto(r, Idle)
    /\ UNCHANGED <<entities, current, audit, acked>>

-----------------------------------------------------------------------------
(***************************************************************************)
(* PATCH /clauses/:id/versions/:vid/status and its template twin.          *)
(***************************************************************************)
ReadForTransition(r, v) ==
    \E to \in ValidTransitions[row[v].status] :
        IF to = "published"
        THEN \E reviewer \in Users :     \* input.reviewerId ?? ctx.userId
                Arrives(r, [at |-> "gates", version |-> v,
                            reviewer |-> reviewer])
        ELSE Arrives(r, [at |-> "status", version |-> v, to |-> to])

PatchClauseStatus(r) ==
    \E v \in VersionsOf(Clauses) : ReadForTransition(r, v)
PatchTemplateStatus(r) ==
    \E v \in VersionsOf(Templates) : ReadForTransition(r, v)

\* Mutant: deprecating a version also clears its entity's pointer.
WriteStatusClearingPointer(r) ==
    LET v == req[r].version IN
    /\ req[r].at = "status"
    /\ row' = [row EXCEPT ![v].status = req[r].to]
    /\ current' = IF req[r].to = "deprecated"
                  THEN [current EXCEPT ![row[v].entity] = NoVersion]
                  ELSE current
    /\ Goto(r, Idle)
    /\ UNCHANGED <<entities, audit, acked>>

WriteStatus(r) ==
    /\ req[r].at = "status"
    /\ row' = [row EXCEPT ![req[r].version].status = req[r].to]
    /\ Goto(r, Idle)
    /\ UNCHANGED <<entities, current, audit, acked>>

\* The blocking gates, evaluated on rows read anew.  Those that do not
\* depend on anything another handler writes (content, dates, duplicate
\* references, jurisdiction) may fail as well: that is a Fail step.
ReviewGates(x) == x.reviewer # NoUser /\ x.reviewer # x.author  \* C03, T06
StatusGate(x)  == x.status = "approved"                         \* C08, T07

ClauseGates(v) ==
    LET x == row[v] IN
    /\ ReviewGates(x)
    /\ x.entity \notin x.refs                                   \* C04
    /\ x.refs \subseteq entities                                \* C05
    /\ StatusGate(x)

TemplateGates(v) ==
    LET x == row[v] IN
    /\ x.refs \subseteq entities                                \* T02
    /\ \A c \in x.refs : current[c] # NoVersion                 \* T03
    /\ ReviewGates(x)
    /\ StatusGate(x)
    /\ x.refs # {}                                              \* T09

\* Mutant: the publication is audited before it is written.
PassGatesAuditing(r) ==
    LET v == req[r].version IN
    /\ req[r].at = "gates"
    /\ IF row[v].entity \in Clauses THEN ClauseGates(v) ELSE TemplateGates(v)
    /\ Goto(r, [req[r] EXCEPT !.at = "publish"])
    /\ audit' = audit \cup {<<"publish", v>>}
    /\ UNCHANGED <<entities, row, current, acked>>

PassGates(r) ==
    LET v == req[r].version IN
    /\ req[r].at = "gates"
    /\ IF row[v].entity \in Clauses THEN ClauseGates(v) ELSE TemplateGates(v)
    /\ Goto(r, [req[r] EXCEPT !.at = "publish"])
    /\ UNCHANGED <<entities, row, current, audit, acked>>

\* Mutant: publishedAt is not written.
UnstampedRow(x, reviewer) ==
    [x EXCEPT !.status = "published", !.reviewer = reviewer]

PublishedRow(x, reviewer) ==
    [x EXCEPT !.status = "published", !.published = TRUE,
              !.reviewer = reviewer]

WritePublish(r) ==
    LET v == req[r].version IN
    /\ req[r].at = "publish"
    /\ row' = [row EXCEPT ![v] = PublishedRow(@, req[r].reviewer)]
    /\ current' = [current EXCEPT ![row[v].entity] = v]
    /\ Goto(r, [at |-> "audit", entry |-> <<"publish", v>>])
    /\ UNCHANGED <<entities, audit, acked>>

-----------------------------------------------------------------------------
(***************************************************************************)
(* POST .../assign-reviewer                                                *)
(***************************************************************************)
AnyoneMayReview(v, u) == TRUE       \* Mutant: no four-eyes check.
MayReview(v, u) == u # row[v].author

ReadForAssign(r, v) ==
    \E reviewer \in Users :
        /\ row[v].status \in {"draft", "review"}
        /\ MayReview(v, reviewer)
        /\ Arrives(r, [at |-> "assign", version |-> v, reviewer |-> reviewer,
                       meta |-> row[v].meta])

AssignClauseReviewer(r) ==
    \E v \in VersionsOf(Clauses) : ReadForAssign(r, v)
AssignTemplateReviewer(r) ==
    \E v \in VersionsOf(Templates) : ReadForAssign(r, v)

\* Mutant: the assignment writes a metadata object of its own.
WriteAssignAfresh(r) ==
    LET v == req[r].version IN
    /\ req[r].at = "assign"
    /\ row' = [row EXCEPT ![v].reviewer = req[r].reviewer, ![v].meta = <<>>]
    /\ Goto(r, [at |-> "audit", entry |-> <<"review", v>>])
    /\ UNCHANGED <<entities, current, audit, acked>>

WriteAssign(r) ==
    LET v == req[r].version IN
    /\ req[r].at = "assign"
    /\ row' = [row EXCEPT ![v].reviewer = req[r].reviewer,
                          ![v].meta = req[r].meta]
    /\ Goto(r, [at |-> "audit", entry |-> <<"review", v>>])
    /\ UNCHANGED <<entities, current, audit, acked>>

(***************************************************************************)
(* POST .../approve, .../reject, .../request-changes                       *)
(***************************************************************************)
ReadForDecision(r, v, kind) ==
    \E u \in Users :
        /\ HasRoom(v)
        /\ row[v].status = "review"
        /\ kind = "approved" => MayReview(v, u)
        /\ Arrives(r, [at |-> "decide", version |-> v,
                       entry |-> [kind |-> kind, by |-> u],
                       meta |-> row[v].meta])

ApproveClause(r) ==
    \E v \in VersionsOf(Clauses) : ReadForDecision(r, v, "approved")
RejectClause(r) ==
    \E v \in VersionsOf(Clauses) : ReadForDecision(r, v, "rejected")
RequestClauseChanges(r) ==
    \E v \in VersionsOf(Clauses) : ReadForDecision(r, v, "changes_requested")
ApproveTemplate(r) ==
    \E v \in VersionsOf(Templates) : ReadForDecision(r, v, "approved")
RejectTemplate(r) ==
    \E v \in VersionsOf(Templates) : ReadForDecision(r, v, "rejected")
RequestTemplateChanges(r) ==
    \E v \in VersionsOf(Templates) : ReadForDecision(r, v, "changes_requested")

\* An approval records its author as the reviewer; the others send the
\* version back to draft and leave the reviewer.
WriteDecision(r) ==
    LET v == req[r].version
        e == req[r].entry
        approves == e.kind = "approved" IN
    /\ req[r].at = "decide"
    /\ row' = [row EXCEPT
          ![v].status = IF approves THEN "approved" ELSE "draft",
          ![v].reviewer = IF approves THEN e.by ELSE @,
          ![v].meta = Append(req[r].meta, e)]
    /\ acked' = [acked EXCEPT ![v] = @ + 1]
    /\ Goto(r, [at |-> "audit", entry |-> <<"review", v>>])
    /\ UNCHANGED <<entities, current, audit>>

(***************************************************************************)
(* POST /clauses/:id/versions/:vid/changelog, in any status.               *)
(***************************************************************************)
ReadForChangelog(r) ==
    \E v \in VersionsOf(Clauses), u \in Users :
        /\ HasRoom(v)
        /\ Arrives(r, [at |-> "changelog", version |-> v,
                       entry |-> [kind |-> "changelog", by |-> u],
                       meta |-> row[v].meta])

WriteChangelog(r) ==
    LET v == req[r].version IN
    /\ req[r].at = "changelog"
    /\ row' = [row EXCEPT ![v].meta = Append(req[r].meta, req[r].entry)]
    /\ acked' = [acked EXCEPT ![v] = @ + 1]
    /\ Goto(r, Idle)
    /\ UNCHANGED <<entities, current, audit>>

-----------------------------------------------------------------------------
\* auditService.log, called after the commit and before the answer.
WriteAudit(r) ==
    /\ req[r].at = "audit"
    /\ audit' = audit \cup {req[r].entry}
    /\ Goto(r, Idle)
    /\ UNCHANGED <<entities, row, current, acked>>

\* A statement fails, a gate fails, the transaction times out and rolls
\* back, or the process dies: what was not committed never happens.
Fail(r) ==
    /\ req[r] # Idle
    /\ Goto(r, Idle)
    /\ UNCHANGED <<entities, row, current, audit, acked>>

Read(r) ==
    \/ NewClauseVersion(r) \/ NewTemplateVersion(r)
    \/ PatchClauseStatus(r) \/ PatchTemplateStatus(r)
    \/ AssignClauseReviewer(r) \/ AssignTemplateReviewer(r)
    \/ ApproveClause(r) \/ ApproveTemplate(r)
    \/ RejectClause(r) \/ RejectTemplate(r)
    \/ RequestClauseChanges(r) \/ RequestTemplateChanges(r)
    \/ ReadForChangelog(r)

Write(r) ==
    \/ CreateClause(r) \/ CreateTemplate(r)
    \/ InsertVersion(r)
    \/ WriteStatus(r)
    \/ WritePublish(r)
    \/ WriteAssign(r)
    \/ WriteDecision(r)
    \/ WriteChangelog(r)

Init ==
    /\ entities = {}
    /\ row = [v \in {} |-> NoVersion]
    /\ current = [e \in Entities |-> NoVersion]
    /\ req = [r \in Requests |-> Idle]
    /\ audit = {}
    /\ acked = [v \in VersionIds |-> 0]

Next == \E r \in Requests :
    Read(r) \/ PassGates(r) \/ Write(r) \/ WriteAudit(r) \/ Fail(r)

Spec == Init /\ [][Next]_vars

-----------------------------------------------------------------------------
(***************************************************************************)
(* Properties that hold however the requests interleave.                   *)
(***************************************************************************)

\* The variables range over what the columns and the handlers' locals can hold.
TypeOK ==
    /\ entities \subseteq Entities
    /\ DOMAIN row \subseteq VersionIds
    /\ row \in [DOMAIN row -> Row]
    /\ current \in [Entities -> VersionIds \cup {NoVersion}]
    /\ req \in [Requests -> Request]
    /\ audit \subseteq AuditEntry
    /\ acked \in [VersionIds -> Nat]

\* Two authors who add a version to the same clause at the same time never
\* get the same number and leave no gap: the versions of an entity are
\* numbered 1, 2, 3, ... (routes.ts reads the latest number and inserts the
\* next in two statements; the unique index decides who wins).
VersionNumbersContiguous ==
    /\ \A v, w \in DOMAIN row :
          row[v].entity = row[w].entity /\ row[v].number = row[w].number
              => v = w
    /\ \A v \in DOMAIN row :
          row[v].number > 1 =>
              \E w \in DOMAIN row : /\ row[w].entity = row[v].entity
                                    /\ row[w].number = row[v].number - 1

\* currentPublishedVersionId, which new contracts pin, only ever names a
\* version of the same entity that went through a publication.
PointerWasPublished ==
    \A e \in Entities : current[e] # NoVersion =>
        /\ current[e] \in DOMAIN row
        /\ row[current[e]].entity = e
        /\ row[current[e]].published

\* Until a version is published its reviewer is somebody else than its
\* author, whichever handlers wrote the column in whichever order.
FourEyesUntilPublished ==
    \A v \in DOMAIN row :
        ~row[v].published => row[v].reviewer # row[v].author

\* No version is published or deprecated without its publication having
\* been written, and every published version left its entity a pointer.
PublishedStatusIsEarned ==
    \A v \in DOMAIN row :
        /\ row[v].status \in {"published", "deprecated"} => row[v].published
        /\ row[v].published => current[row[v].entity] # NoVersion

\* Every clause a published template requires can be pinned: it has a
\* published version, whatever happened to the clause since the gate looked.
\* Every clause a published version refers to exists.
PublishedRefsResolve ==
    \A v \in DOMAIN row : row[v].published =>
        /\ row[v].refs \subseteq entities
        /\ row[v].entity \in Templates =>
              /\ row[v].refs # {}
              /\ \A c \in row[v].refs : current[c] # NoVersion

\* An audit record of a publication is about a version that was published,
\* one of a review step about a version that was inserted.
AuditIsTrue(x) ==
    x[1] # "create" =>
        /\ x[2] \in DOMAIN row
        /\ x[1] = "publish" => row[x[2]].published

AuditedStepsHappened == \A x \in audit : AuditIsTrue(x)

\* The step that first publishes a version finds a reviewer on it who is
\* not its author, although the gate looked in an earlier statement.
FirstPublishIsReviewed ==
    [][\A v \in DOMAIN row :
          ~row[v].published /\ row'[v].published =>
              row[v].reviewer \notin {NoUser, row[v].author}]_vars

\* An entity's pointer moves only to the version being published in that
\* very step and is never cleared.
PointerMovesByPublishing ==
    [][\A e \in Entities : current'[e] # current[e] =>
          /\ current'[e] \in DOMAIN row
          /\ row'[current'[e]].status = "published"]_vars

(***************************************************************************)
(* Properties of requests that run one after the other.                    *)
(***************************************************************************)

\* No review decision and no changelog entry that was answered with success
\* disappears from the version's metadata.
NoEntryLost == \A v \in DOMAIN row : Len(row[v].meta) = acked[v]

\* Then a version and its entity's pointer go through the editorial workflow
\* of EditorialWorkflow, in which every request is one atomic step.
StatusOfAll ==
    [v \in VersionIds |-> IF v \in DOMAIN row THEN row[v].status ELSE "none"]

Workflow == INSTANCE EditorialWorkflow
    WITH status <- StatusOfAll, current <- current

ImplementsWorkflow == Workflow!Spec
=============================================================================
