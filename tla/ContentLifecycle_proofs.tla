------------------------ MODULE ContentLifecycle_proofs ------------------------
(***************************************************************************)
(* Proofs about ContentLifecycle, for every set of clauses, templates,     *)
(* users, version ids and concurrent requests.                             *)
(*                                                                         *)
(* None of the invariants is inductive by itself: a write relies on what   *)
(* its handler read in an earlier statement, possibly long ago.            *)
(* RequestOK(q) says what is still true, at any later time, of the reads   *)
(* a pending request q remembers.  It survives the steps of all other      *)
(* requests because the facts in it only ever become true (Monotone).      *)
(***************************************************************************)
EXTENDS ContentLifecycle, TLAPS

OnVersion == {"status", "gates", "publish", "assign", "decide", "changelog"}

\* What a publication may rely on when it writes the row of v.
GateHolds(v) ==
    /\ row[v].reviewer # NoUser
    /\ row[v].refs \subseteq entities
    /\ row[v].entity \in Templates =>
          /\ row[v].refs # {}
          /\ \A c \in row[v].refs : current[c] # NoVersion

RequestOK(q) ==
    /\ q.at \in OnVersion => q.version \in DOMAIN row
    /\ q.at = "insert" /\ q.number > 1 =>
          \E w \in DOMAIN row : /\ row[w].entity = q.entity
                                /\ row[w].number = q.number - 1
    /\ q.at = "status" =>
          /\ q.to # "published"
          /\ q.to = "deprecated" => row[q.version].published
    /\ q.at = "publish" => GateHolds(q.version)
    /\ q.at = "assign" => q.reviewer # row[q.version].author
    /\ q.at = "decide" /\ q.entry.kind = "approved" =>
          q.entry.by # row[q.version].author
    /\ q.at = "audit" => AuditIsTrue(q.entry)

PendingOK ==
    \A r \in Requests, q \in Request : req[r] = q => RequestOK(q)

IInv ==
    /\ TypeOK
    /\ PendingOK
    /\ VersionNumbersContiguous
    /\ PointerWasPublished
    /\ FourEyesUntilPublished
    /\ PublishedStatusIsEarned
    /\ PublishedRefsResolve
    /\ AuditedStepsHappened

\* What no step of the system undoes.
Monotone ==
    /\ entities \subseteq entities'
    /\ DOMAIN row \subseteq DOMAIN row'
    /\ \A v \in DOMAIN row :
          /\ row'[v].entity = row[v].entity
          /\ row'[v].number = row[v].number
          /\ row'[v].author = row[v].author
          /\ row'[v].refs = row[v].refs
          /\ row[v].published => row'[v].published
          /\ row[v].reviewer # NoUser => row'[v].reviewer # NoUser
    /\ \A e \in Entities : current[e] # NoVersion => current'[e] # NoVersion

-----------------------------------------------------------------------------
(***************************************************************************)
(* Lemmas about requests.                                                  *)
(***************************************************************************)

\* The field at tells which kind of pending request a request is.
LEMMA RequestKinds ==
    ASSUME NEW q \in Request
    PROVE  /\ q.at \in {"idle", "insert", "audit"} \cup OnVersion
           /\ q.at = "insert" => q \in PendingInsert
           /\ q.at = "status" => q \in PendingStatus
           /\ q.at \in {"gates", "publish"} => q \in PendingPublish
           /\ q.at = "assign" => q \in PendingAssign
           /\ q.at = "decide" => q \in PendingDecide
           /\ q.at = "changelog" => q \in PendingLog
           /\ q.at = "audit" => q \in PendingAudit
BY DEF Request, Idle, PendingInsert, PendingStatus, PendingPublish,
       PendingAssign, PendingDecide, PendingLog, PendingAudit, OnVersion

\* Whatever a pending request remembers stays true while others write.
LEMMA RequestOKIsStable ==
    ASSUME TypeOK, TypeOK', Monotone, NEW q \in Request, RequestOK(q)
    PROVE  RequestOK(q)'
<1>1. q.at \in OnVersion => q.version \in DOMAIN row'
  BY DEF RequestOK, Monotone
<1>2. q.at = "insert" /\ q.number > 1 =>
         \E w \in DOMAIN row' : /\ row'[w].entity = q.entity
                                /\ row'[w].number = q.number - 1
  BY DEF RequestOK, Monotone
<1>3. q.at = "status" =>
         /\ q.to # "published"
         /\ q.to = "deprecated" => row'[q.version].published
  BY DEF RequestOK, Monotone, OnVersion
<1>4. q.at = "publish" => GateHolds(q.version)'
  <2>1. SUFFICES ASSUME q.at = "publish" PROVE GateHolds(q.version)'
    OBVIOUS
  <2>2. q.version \in DOMAIN row /\ GateHolds(q.version)
    BY <2>1 DEF RequestOK, OnVersion
  <2>3. \A c \in entities : current[c] # NoVersion => current'[c] # NoVersion
    BY DEF Monotone, TypeOK
  <2> QED BY <2>2, <2>3 DEF GateHolds, Monotone
<1>5. q.at = "assign" => q.reviewer # row'[q.version].author
  BY DEF RequestOK, Monotone, OnVersion
<1>6. q.at = "decide" /\ q.entry.kind = "approved" =>
         q.entry.by # row'[q.version].author
  BY DEF RequestOK, Monotone, OnVersion
<1>7. q.at = "audit" => AuditIsTrue(q.entry)'
  BY DEF RequestOK, Monotone, AuditIsTrue
<1> QED BY <1>1, <1>2, <1>3, <1>4, <1>5, <1>6, <1>7 DEF RequestOK

\* A step that moves one request to a state that is all right and undoes
\* nothing keeps all requests all right.
LEMMA PendingStep ==
    ASSUME TypeOK, TypeOK', Monotone, PendingOK,
           NEW r \in Requests, NEW p \in Request, Goto(r, p), RequestOK(p)'
    PROVE  PendingOK'
<1> SUFFICES ASSUME NEW s \in Requests, NEW q \in Request, req'[s] = q
             PROVE  RequestOK(q)'
  BY DEF PendingOK
<1>1. CASE s = r
  BY <1>1 DEF Goto, TypeOK
<1>2. CASE s # r
  <2>1. req[s] = q
    BY <1>2 DEF Goto, TypeOK
  <2>2. RequestOK(q)
    BY <2>1 DEF PendingOK
  <2> QED BY <2>2, RequestOKIsStable
<1> QED BY <1>1, <1>2

\* A step that only moves one request, to a state in which all it remembers
\* is true, preserves the invariant.
LEMMA QuietStep ==
    ASSUME IInv, NEW r \in Requests, NEW p \in Request,
           Goto(r, p), RequestOK(p),
           UNCHANGED <<entities, row, current, audit, acked>>
    PROVE  IInv'
<1>1. TypeOK'
  BY DEF IInv, TypeOK, Goto
<1>2. Monotone
  BY DEF Monotone
<1>3. PendingOK'
  <2>1. RequestOK(p)'
    BY DEF RequestOK, GateHolds, AuditIsTrue
  <2> QED BY <1>1, <1>2, <2>1, PendingStep DEF IInv
<1>4. VersionNumbersContiguous' /\ PointerWasPublished'
      /\ FourEyesUntilPublished' /\ PublishedStatusIsEarned'
  BY DEF IInv, VersionNumbersContiguous, PointerWasPublished,
         FourEyesUntilPublished, PublishedStatusIsEarned
<1>5. PublishedRefsResolve' /\ AuditedStepsHappened'
  BY DEF IInv, PublishedRefsResolve, AuditedStepsHappened, AuditIsTrue
<1> QED BY <1>1, <1>3, <1>4, <1>5 DEF IInv

-----------------------------------------------------------------------------
(***************************************************************************)
(* The reads: what a handler remembers is true when it reads it.           *)
(***************************************************************************)

\* The number read by POST .../versions is that of an existing version.
LEMMA ReadLatestOK ==
    ASSUME IInv, NEW r \in Requests, NEW e \in Entities, ReadLatest(r, e)
    PROVE  IInv'
<1>1. PICK u \in Users, refs \in RefChoices, latest \in {0} \cup Numbers(e) :
          /\ e \in entities
          /\ \A n \in Numbers(e) : n <= latest
          /\ Arrives(r, [at |-> "insert", entity |-> e, user |-> u,
                         refs |-> refs, number |-> latest + 1])
  BY DEF ReadLatest
<1> DEFINE p == [at |-> "insert", entity |-> e, user |-> u,
                 refs |-> refs, number |-> latest + 1]
<1>2. latest \in Nat
  BY DEF IInv, TypeOK, Row, Numbers, VersionsOf
<1>3. p \in Request
  BY <1>2 DEF Request, PendingInsert
<1>4. latest + 1 > 1 => \E w \in DOMAIN row : /\ row[w].entity = e
                                              /\ row[w].number = latest
  BY <1>2 DEF Numbers, VersionsOf
<1>5. RequestOK(p)
  BY <1>2, <1>4 DEF RequestOK, OnVersion
<1> QED BY <1>1, <1>3, <1>5, QuietStep DEF Arrives

\* A status change that was checked is never one to published.
LEMMA ReadForTransitionOK ==
    ASSUME IInv, NEW r \in Requests, NEW v \in DOMAIN row,
           ReadForTransition(r, v)
    PROVE  IInv'
<1>1. PICK to \in ValidTransitions[row[v].status] :
          IF to = "published"
          THEN \E reviewer \in Users :
                  Arrives(r, [at |-> "gates", version |-> v,
                              reviewer |-> reviewer])
          ELSE Arrives(r, [at |-> "status", version |-> v, to |-> to])
  BY DEF ReadForTransition
<1>2. v \in VersionIds /\ row[v] \in Row
  BY DEF IInv, TypeOK
<1>3. row[v].status \in Statuses
  BY <1>2 DEF Row
<1>4. to \in Statuses /\ (to = "deprecated" => row[v].published)
  BY <1>2, <1>3 DEF IInv, PublishedStatusIsEarned, ValidTransitions, Statuses
<1>5. CASE to = "published"
  <2>1. PICK reviewer \in Users :
            Arrives(r, [at |-> "gates", version |-> v,
                        reviewer |-> reviewer])
    BY <1>1, <1>5
  <2> DEFINE p == [at |-> "gates", version |-> v, reviewer |-> reviewer]
  <2>2. p \in Request
    BY <1>2 DEF Request, PendingPublish
  <2>3. RequestOK(p)
    BY DEF RequestOK, OnVersion
  <2> QED BY <2>1, <2>2, <2>3, QuietStep DEF Arrives
<1>6. CASE to # "published"
  <2> DEFINE p == [at |-> "status", version |-> v, to |-> to]
  <2>1. p \in Request
    BY <1>2, <1>4 DEF Request, PendingStatus
  <2>2. RequestOK(p)
    BY <1>4, <1>6 DEF RequestOK, OnVersion
  <2> QED BY <1>1, <1>6, <2>1, <2>2, QuietStep DEF Arrives
<1> QED BY <1>5, <1>6

\* assign-reviewer has compared the reviewer with the author.
LEMMA ReadForAssignOK ==
    ASSUME IInv, NEW r \in Requests, NEW v \in DOMAIN row,
           ReadForAssign(r, v)
    PROVE  IInv'
<1>1. PICK reviewer \in Users :
          /\ reviewer # row[v].author
          /\ Arrives(r, [at |-> "assign", version |-> v,
                         reviewer |-> reviewer, meta |-> row[v].meta])
  BY DEF ReadForAssign, MayReview
<1> DEFINE p == [at |-> "assign", version |-> v,
                 reviewer |-> reviewer, meta |-> row[v].meta]
<1>2. v \in VersionIds /\ row[v] \in Row
  BY DEF IInv, TypeOK
<1>3. p \in Request
  BY <1>2 DEF Request, PendingAssign, Row
<1>4. RequestOK(p)
  BY <1>1 DEF RequestOK, OnVersion
<1> QED BY <1>1, <1>3, <1>4, QuietStep DEF Arrives

\* approve has compared the approving user with the author.
LEMMA ReadForDecisionOK ==
    ASSUME IInv, NEW r \in Requests, NEW v \in DOMAIN row,
           NEW kind \in Decisions, ReadForDecision(r, v, kind)
    PROVE  IInv'
<1>1. PICK u \in Users :
          /\ kind = "approved" => u # row[v].author
          /\ Arrives(r, [at |-> "decide", version |-> v,
                         entry |-> [kind |-> kind, by |-> u],
                         meta |-> row[v].meta])
  BY DEF ReadForDecision, MayReview
<1> DEFINE p == [at |-> "decide", version |-> v,
                 entry |-> [kind |-> kind, by |-> u], meta |-> row[v].meta]
<1>2. v \in VersionIds /\ row[v] \in Row
  BY DEF IInv, TypeOK
<1>3. p \in Request
  BY <1>2 DEF Request, PendingDecide, Row, Entry
<1>4. RequestOK(p)
  BY <1>1 DEF RequestOK, OnVersion
<1> QED BY <1>1, <1>3, <1>4, QuietStep DEF Arrives

\* The changelog handler has found the version.
LEMMA ReadForChangelogOK ==
    ASSUME IInv, NEW r \in Requests, ReadForChangelog(r)
    PROVE  IInv'
<1>1. PICK v \in DOMAIN row, u \in Users :
          Arrives(r, [at |-> "changelog", version |-> v,
                      entry |-> [kind |-> "changelog", by |-> u],
                      meta |-> row[v].meta])
  BY DEF ReadForChangelog, VersionsOf
<1> DEFINE p == [at |-> "changelog", version |-> v,
                 entry |-> [kind |-> "changelog", by |-> u],
                 meta |-> row[v].meta]
<1>2. v \in VersionIds /\ row[v] \in Row
  BY DEF IInv, TypeOK
<1>3. p \in Request
  BY <1>2 DEF Request, PendingLog, Row, Entry
<1>4. RequestOK(p)
  BY DEF RequestOK, OnVersion
<1> QED BY <1>1, <1>3, <1>4, QuietStep DEF Arrives

\* The first statement of every handler preserves the invariant.
LEMMA ReadOK ==
    ASSUME IInv, NEW r \in Requests, Read(r)
    PROVE  IInv'
<1>1. CASE NewClauseVersion(r) \/ NewTemplateVersion(r)
  BY <1>1, ReadLatestOK DEF NewClauseVersion, NewTemplateVersion, Entities
<1>2. CASE PatchClauseStatus(r) \/ PatchTemplateStatus(r)
  BY <1>2, ReadForTransitionOK
     DEF PatchClauseStatus, PatchTemplateStatus, VersionsOf
<1>3. CASE AssignClauseReviewer(r) \/ AssignTemplateReviewer(r)
  BY <1>3, ReadForAssignOK
     DEF AssignClauseReviewer, AssignTemplateReviewer, VersionsOf
<1>4. CASE ApproveClause(r) \/ RejectClause(r) \/ RequestClauseChanges(r)
  BY <1>4, ReadForDecisionOK
     DEF ApproveClause, RejectClause, RequestClauseChanges, VersionsOf,
         Decisions
<1>5. CASE \/ ApproveTemplate(r) \/ RejectTemplate(r)
           \/ RequestTemplateChanges(r)
  BY <1>5, ReadForDecisionOK
     DEF ApproveTemplate, RejectTemplate, RequestTemplateChanges,
         VersionsOf, Decisions
<1>6. CASE ReadForChangelog(r)
  BY <1>6, ReadForChangelogOK
<1> QED BY <1>1, <1>2, <1>3, <1>4, <1>5, <1>6 DEF Read

\* The gates establish what the publication relies on.
LEMMA PassGatesOK ==
    ASSUME IInv, NEW r \in Requests, PassGates(r)
    PROVE  IInv'
<1> DEFINE q == req[r]
           v == q.version
           p == [q EXCEPT !.at = "publish"]
<1>1. q \in Request /\ q.at = "gates"
  BY DEF IInv, TypeOK, PassGates
<1>2. q \in PendingPublish
  BY <1>1, RequestKinds
<1>3. p \in PendingPublish /\ p.at = "publish" /\ p.version = v
  BY <1>2 DEF PendingPublish
<1>4. v \in DOMAIN row
  BY <1>1 DEF IInv, PendingOK, RequestOK, OnVersion
<1>5. GateHolds(v)
  <2>1. CASE row[v].entity \in Clauses
    BY <2>1, DisjointEntities
       DEF PassGates, ClauseGates, ReviewGates, GateHolds
  <2>2. CASE row[v].entity \notin Clauses
    BY <2>2 DEF PassGates, TemplateGates, ReviewGates, GateHolds
  <2> QED BY <2>1, <2>2
<1>6. RequestOK(p)
  BY <1>3, <1>4, <1>5 DEF RequestOK, OnVersion
<1>7. p \in Request
  BY <1>3 DEF Request
<1> QED BY <1>6, <1>7, QuietStep DEF PassGates

-----------------------------------------------------------------------------
(***************************************************************************)
(* The writes.                                                             *)
(***************************************************************************)

\* Creating a clause or a template preserves the invariant.
LEMMA CreateEntityOK ==
    ASSUME IInv, NEW r \in Requests, NEW e \in Entities, CreateEntity(r, e)
    PROVE  IInv'
<1> DEFINE p == [at |-> "audit", entry |-> <<"create", e>>]
<1> USE DEF CreateEntity
<1>1. p \in Request
  BY DEF Request, PendingAudit, AuditEntry, AuditActions
<1>2. TypeOK'
  BY <1>1 DEF IInv, TypeOK, Goto
<1>3. Monotone
  BY DEF Monotone
<1>4. RequestOK(p)'
  BY DEF RequestOK, OnVersion, AuditIsTrue
<1>5. PendingOK'
  BY <1>1, <1>2, <1>3, <1>4, PendingStep DEF IInv
<1>6. VersionNumbersContiguous' /\ PointerWasPublished'
      /\ FourEyesUntilPublished' /\ PublishedStatusIsEarned'
  BY DEF IInv, VersionNumbersContiguous, PointerWasPublished,
         FourEyesUntilPublished, PublishedStatusIsEarned
<1>7. PublishedRefsResolve' /\ AuditedStepsHappened'
  BY DEF IInv, PublishedRefsResolve, AuditedStepsHappened, AuditIsTrue
<1> QED BY <1>2, <1>5, <1>6, <1>7 DEF IInv

\* Inserting a version preserves the invariant, its number included.
LEMMA InsertVersionOK ==
    ASSUME IInv, NEW r \in Requests, InsertVersion(r)
    PROVE  IInv'
<1> DEFINE q == req[r]
<1>1. q \in PendingInsert
  BY RequestKinds DEF IInv, TypeOK, InsertVersion
<1>2. PICK v \in VersionIds \ DOMAIN row :
          row' = [w \in DOMAIN row \cup {v} |->
                     IF w = v THEN NewRow(q) ELSE row[w]]
  BY DEF InsertVersion
<1>3. /\ DOMAIN row' = DOMAIN row \cup {v}
      /\ row'[v] = NewRow(q)
      /\ \A w \in DOMAIN row : row'[w] = row[w]
  BY <1>2
<1>4. NewRow(q) \in Row
  BY <1>1, NoUserIsNull DEF NewRow, Row, PendingInsert, Statuses
<1>5. TypeOK'
  <2>1. row' \in [DOMAIN row' -> Row] /\ DOMAIN row' \subseteq VersionIds
    BY <1>2, <1>3, <1>4 DEF IInv, TypeOK
  <2>2. req' \in [Requests -> Request]
    BY DEF IInv, TypeOK, InsertVersion, Goto, Request
  <2> QED BY <2>1, <2>2 DEF IInv, TypeOK, InsertVersion
<1>6. Monotone
  BY <1>3 DEF Monotone, InsertVersion
<1>7. PendingOK'
  <2>1. RequestOK(Idle)' /\ Idle \in Request
    BY DEF RequestOK, Idle, OnVersion, Request
  <2> QED BY <1>5, <1>6, <2>1, PendingStep DEF IInv, InsertVersion
<1>8. VersionNumbersContiguous'
  <2>1. NewRow(q).entity = q.entity /\ NewRow(q).number = q.number
    BY DEF NewRow
  <2>2. \A w \in DOMAIN row :
           ~(row[w].entity = q.entity /\ row[w].number = q.number)
    BY DEF InsertVersion, NumberIsFree, Numbers, VersionsOf
  <2>3. q.number > 1 => \E w \in DOMAIN row :
                            /\ row[w].entity = q.entity
                            /\ row[w].number = q.number - 1
    BY DEF IInv, PendingOK, RequestOK, TypeOK, InsertVersion
  <2>4. \A w, x \in DOMAIN row' :
           row'[w].entity = row'[x].entity /\ row'[w].number = row'[x].number
              => w = x
    BY <1>3, <2>1, <2>2 DEF IInv, VersionNumbersContiguous
  <2>5. \A w \in DOMAIN row' :
           row'[w].number > 1 =>
               \E x \in DOMAIN row' : /\ row'[x].entity = row'[w].entity
                                      /\ row'[x].number = row'[w].number - 1
    <3> SUFFICES ASSUME NEW w \in DOMAIN row', row'[w].number > 1
                 PROVE  \E x \in DOMAIN row : 
                            /\ row'[x].entity = row'[w].entity
                            /\ row'[x].number = row'[w].number - 1
      BY <1>3
    <3>1. CASE w = v
      BY <3>1, <1>3, <2>1, <2>3
    <3>2. CASE w \in DOMAIN row
      BY <3>2, <1>3 DEF IInv, VersionNumbersContiguous
    <3> QED BY <3>1, <3>2, <1>3
  <2> QED BY <2>4, <2>5 DEF VersionNumbersContiguous
<1>9. PointerWasPublished'
  BY <1>3 DEF IInv, PointerWasPublished, InsertVersion
<1>10. FourEyesUntilPublished'
  <2>1. NewRow(q).reviewer = NoUser /\ NewRow(q).author \in Users
    BY <1>1 DEF NewRow, PendingInsert
  <2> QED BY <1>3, <2>1, NoUserIsNull DEF IInv, FourEyesUntilPublished
<1>11. PublishedStatusIsEarned'
  <2>1. NewRow(q).status = "draft" /\ NewRow(q).published = FALSE
    BY DEF NewRow
  <2> QED BY <1>3, <2>1 DEF IInv, PublishedStatusIsEarned, InsertVersion
<1>12. PublishedRefsResolve'
  <2>1. NewRow(q).published = FALSE
    BY DEF NewRow
  <2> QED BY <1>3, <2>1 DEF IInv, PublishedRefsResolve, InsertVersion
<1>13. AuditedStepsHappened'
  BY <1>3 DEF IInv, AuditedStepsHappened, AuditIsTrue, InsertVersion
<1> QED BY <1>5, <1>7, <1>8, <1>9, <1>10, <1>11, <1>12, <1>13 DEF IInv

(***************************************************************************)
(* The other writes update one row that is there and leave its identity,   *)
(* its refs and, unless they publish, the pointers alone.                  *)
(***************************************************************************)
LEMMA UpdateOK ==
    ASSUME IInv, NEW r \in Requests, NEW v \in DOMAIN row, NEW x \in Row,
           NEW p \in Request,
           row' = [row EXCEPT ![v] = x], Goto(r, p), RequestOK(p)',
           UNCHANGED <<entities, current, audit>>,
           acked' \in [VersionIds -> Nat],
           x.entity = row[v].entity, x.number = row[v].number,
           x.author = row[v].author, x.refs = row[v].refs,
           x.published = row[v].published,
           row[v].reviewer # NoUser => x.reviewer # NoUser,
           x.status \in {"published", "deprecated"} => row[v].published,
           ~row[v].published => x.reviewer # x.author
    PROVE  IInv'
<1>1. /\ DOMAIN row' = DOMAIN row
      /\ row'[v] = x
      /\ \A w \in DOMAIN row : w # v => row'[w] = row[w]
  BY DEF IInv, TypeOK
<1>2. TypeOK'
  BY DEF IInv, TypeOK, Goto
<1>3. Monotone
  BY <1>1 DEF Monotone
<1>4. PendingOK'
  BY <1>2, <1>3, PendingStep DEF IInv
<1>5. VersionNumbersContiguous'
  <2>1. \A w \in DOMAIN row : /\ row'[w].entity = row[w].entity
                              /\ row'[w].number = row[w].number
    BY <1>1
  <2> QED BY <1>1, <2>1 DEF IInv, VersionNumbersContiguous
<1>6. PointerWasPublished'
  BY <1>1 DEF IInv, PointerWasPublished
<1>7. FourEyesUntilPublished'
  BY <1>1 DEF IInv, FourEyesUntilPublished
<1>8. PublishedStatusIsEarned'
  BY <1>1 DEF IInv, PublishedStatusIsEarned
<1>9. PublishedRefsResolve'
  BY <1>1 DEF IInv, PublishedRefsResolve
<1>10. AuditedStepsHappened'
  BY <1>1 DEF IInv, AuditedStepsHappened, AuditIsTrue
<1> QED BY <1>2, <1>4, <1>5, <1>6, <1>7, <1>8, <1>9, <1>10 DEF IInv

\* An idle request relies on nothing.
LEMMA IdleOK == Idle \in Request /\ RequestOK(Idle) /\ RequestOK(Idle)'
BY DEF RequestOK, Idle, OnVersion, Request

\* A status change other than a publication preserves the invariant.
LEMMA WriteStatusOK ==
    ASSUME IInv, NEW r \in Requests, WriteStatus(r)
    PROVE  IInv'
<1> DEFINE q == req[r]
           v == q.version
           x == [row[v] EXCEPT !.status = q.to]
<1>1. q \in PendingStatus /\ q.at = "status" /\ RequestOK(q)
  BY RequestKinds DEF IInv, TypeOK, WriteStatus, PendingOK
<1>2. v \in DOMAIN row /\ row[v] \in Row
  BY <1>1 DEF RequestOK, OnVersion, IInv, TypeOK
<1>3. x \in Row
  BY <1>1, <1>2 DEF Row, PendingStatus
<1>4. q.to \in {"published", "deprecated"} => row[v].published
  BY <1>1 DEF RequestOK
<1>5. row' = [row EXCEPT ![v] = x] /\ Goto(r, Idle)
      /\ UNCHANGED <<entities, current, audit, acked>>
  BY DEF WriteStatus
<1>6. /\ x.status = q.to /\ x.published = row[v].published
      /\ x.reviewer = row[v].reviewer /\ x.author = row[v].author
      /\ x.entity = row[v].entity /\ x.number = row[v].number
      /\ x.refs = row[v].refs
  BY <1>2 DEF Row
<1>7. acked' \in [VersionIds -> Nat]
  BY <1>5 DEF IInv, TypeOK
<1>8. ~row[v].published => x.reviewer # x.author
  BY <1>2, <1>6 DEF IInv, FourEyesUntilPublished
<1> QED
  BY <1>2, <1>3, <1>4, <1>5, <1>6, <1>7, <1>8, IdleOK, UpdateOK

\* The history variable stays a count.
LEMMA AckedCounts ==
    ASSUME IInv, NEW v
    PROVE  [acked EXCEPT ![v] = @ + 1] \in [VersionIds -> Nat]
<1>1. acked \in [VersionIds -> Nat]
  BY DEF IInv, TypeOK
<1>2. v \in VersionIds => acked[v] + 1 \in Nat
  BY <1>1
<1> QED BY <1>1, <1>2

\* The changelog write preserves the invariant.
LEMMA WriteChangelogOK ==
    ASSUME IInv, NEW r \in Requests, WriteChangelog(r)
    PROVE  IInv'
<1> DEFINE q == req[r]
           v == q.version
           x == [row[v] EXCEPT !.meta = Append(q.meta, q.entry)]
<1>1. q \in PendingLog /\ q.at = "changelog" /\ RequestOK(q)
  BY RequestKinds DEF IInv, TypeOK, WriteChangelog, PendingOK
<1>2. v \in DOMAIN row /\ row[v] \in Row
  BY <1>1 DEF RequestOK, OnVersion, IInv, TypeOK
<1>3. x \in Row
  <2>1. Append(q.meta, q.entry) \in Seq(Entry)
    BY <1>1 DEF PendingLog
  <2> QED BY <1>2, <2>1 DEF Row
<1>4. row' = [row EXCEPT ![v] = x] /\ Goto(r, Idle)
      /\ UNCHANGED <<entities, current, audit>>
  BY DEF WriteChangelog
<1>5. /\ x.status = row[v].status /\ x.published = row[v].published
      /\ x.reviewer = row[v].reviewer /\ x.author = row[v].author
      /\ x.entity = row[v].entity /\ x.number = row[v].number
      /\ x.refs = row[v].refs
  BY <1>2 DEF Row
<1>6. acked' \in [VersionIds -> Nat]
  BY AckedCounts DEF WriteChangelog
<1>7. x.status \in {"published", "deprecated"} => row[v].published
  BY <1>2, <1>5 DEF IInv, PublishedStatusIsEarned
<1>8. ~row[v].published => x.reviewer # x.author
  BY <1>2, <1>5 DEF IInv, FourEyesUntilPublished
<1> QED
  BY <1>2, <1>3, <1>4, <1>5, <1>6, <1>7, <1>8, IdleOK, UpdateOK

\* The write of assign-reviewer preserves the invariant.
LEMMA WriteAssignOK ==
    ASSUME IInv, NEW r \in Requests, WriteAssign(r)
    PROVE  IInv'
<1>1. PICK q \in PendingAssign : /\ q = req[r]
                               /\ q.at = "assign"
                               /\ RequestOK(q)
  BY RequestKinds DEF IInv, TypeOK, WriteAssign, PendingOK
<1> DEFINE v == q.version
           x == [row[v] EXCEPT !.reviewer = q.reviewer, !.meta = q.meta]
           p == [at |-> "audit", entry |-> <<"review", v>>]
<1>2. v \in DOMAIN row /\ row[v] \in Row
  BY <1>1 DEF RequestOK, OnVersion, IInv, TypeOK
<1>3. x \in Row
  BY <1>1, <1>2 DEF Row, PendingAssign
<1>4. row' = [row EXCEPT ![v] = x] /\ Goto(r, p)
      /\ UNCHANGED <<entities, current, audit, acked>>
  BY <1>1 DEF WriteAssign
<1>5. /\ x.status = row[v].status /\ x.published = row[v].published
      /\ x.reviewer = q.reviewer /\ x.author = row[v].author
      /\ x.entity = row[v].entity /\ x.number = row[v].number
      /\ x.refs = row[v].refs
  BY <1>2 DEF Row
<1>6. acked' \in [VersionIds -> Nat]
  BY <1>4 DEF IInv, TypeOK
<1>7. x.reviewer # x.author /\ x.reviewer # NoUser
  BY <1>1, <1>5, NoUserIsNull DEF RequestOK, PendingAssign
<1>8. x.status \in {"published", "deprecated"} => row[v].published
  BY <1>2, <1>5 DEF IInv, PublishedStatusIsEarned
<1>9. p \in Request
  BY <1>1 DEF Request, PendingAudit, AuditEntry, AuditActions, PendingAssign
<1>10. RequestOK(p)'
  <2>1. v \in DOMAIN row'
    BY <1>2, <1>4
  <2> QED BY <2>1 DEF RequestOK, OnVersion, AuditIsTrue
<1> QED
  BY <1>2, <1>3, <1>4, <1>5, <1>6, <1>7, <1>8, <1>9, <1>10, UpdateOK

\* The writes of approve, reject and request-changes preserve the invariant.
LEMMA WriteDecisionOK ==
    ASSUME IInv, NEW r \in Requests, WriteDecision(r)
    PROVE  IInv'
<1>1. PICK q \in PendingDecide : /\ q = req[r]
                               /\ q.at = "decide"
                               /\ RequestOK(q)
  BY RequestKinds DEF IInv, TypeOK, WriteDecision, PendingOK
<1> DEFINE v == q.version
           e == q.entry
           x == [row[v] EXCEPT
                    !.status = IF e.kind = "approved" THEN "approved"
                                                      ELSE "draft",
                    !.reviewer = IF e.kind = "approved" THEN e.by ELSE @,
                    !.meta = Append(q.meta, e)]
           p == [at |-> "audit", entry |-> <<"review", v>>]
<1>2. v \in DOMAIN row /\ row[v] \in Row
  BY <1>1 DEF RequestOK, OnVersion, IInv, TypeOK
<1>3. x \in Row
  <2>1. Append(q.meta, e) \in Seq(Entry)
    BY <1>1 DEF PendingDecide
  <2>2. e.by \in Users
    BY <1>1 DEF PendingDecide, Entry
  <2> QED BY <1>2, <2>1, <2>2 DEF Row, Statuses
<1>4. row' = [row EXCEPT ![v] = x] /\ Goto(r, p)
      /\ UNCHANGED <<entities, current, audit>>
  BY <1>1 DEF WriteDecision
<1>5. /\ x.status \in {"approved", "draft"}
      /\ x.published = row[v].published
      /\ x.reviewer = IF e.kind = "approved" THEN e.by ELSE row[v].reviewer
      /\ x.author = row[v].author /\ x.entity = row[v].entity
      /\ x.number = row[v].number /\ x.refs = row[v].refs
  BY <1>2 DEF Row
<1>6. acked' \in [VersionIds -> Nat]
  BY <1>1, AckedCounts DEF WriteDecision
<1>7. ~row[v].published => x.reviewer # x.author
  BY <1>1, <1>2, <1>5 DEF RequestOK, IInv, FourEyesUntilPublished
<1>8. row[v].reviewer # NoUser => x.reviewer # NoUser
  BY <1>1, <1>5, NoUserIsNull DEF PendingDecide, Entry
<1>9. p \in Request
  BY <1>1 DEF Request, PendingAudit, AuditEntry, AuditActions, PendingDecide
<1>10. RequestOK(p)'
  <2>1. v \in DOMAIN row'
    BY <1>2, <1>4
  <2> QED BY <2>1 DEF RequestOK, OnVersion, AuditIsTrue
<1>11. /\ x.entity = row[v].entity /\ x.number = row[v].number
       /\ x.author = row[v].author /\ x.refs = row[v].refs
       /\ x.published = row[v].published
       /\ x.status \in {"published", "deprecated"} => row[v].published
       /\ v \in DOMAIN row /\ x \in Row
  BY <1>2, <1>3, <1>5
<1> HIDE DEF v, e, x, p
<1> QED BY <1>4, <1>6, <1>7, <1>8, <1>9, <1>10, <1>11, UpdateOK

\* The write of a publication preserves the invariant.
LEMMA WritePublishOK ==
    ASSUME IInv, NEW r \in Requests, WritePublish(r)
    PROVE  IInv'
<1>1. PICK q \in PendingPublish : /\ q = req[r]
                               /\ q.at = "publish"
                               /\ RequestOK(q)
  BY RequestKinds DEF IInv, TypeOK, WritePublish, PendingOK
<1> DEFINE v == q.version
           x == PublishedRow(row[v], q.reviewer)
           p == [at |-> "audit", entry |-> <<"publish", v>>]
<1>2. v \in DOMAIN row /\ v \in VersionIds /\ row[v] \in Row
  BY <1>1 DEF RequestOK, OnVersion, IInv, TypeOK
<1>3. GateHolds(v)
  BY <1>1 DEF RequestOK
<1>4. /\ x.status = "published" /\ x.published = TRUE
      /\ x.reviewer = q.reviewer /\ x.author = row[v].author
      /\ x.entity = row[v].entity /\ x.number = row[v].number
      /\ x.refs = row[v].refs
      /\ x \in Row
  BY <1>1, <1>2 DEF PublishedRow, Row, PendingPublish, Statuses
<1>5. /\ DOMAIN row' = DOMAIN row
      /\ row'[v] = x
      /\ \A w \in DOMAIN row : w # v => row'[w] = row[w]
      /\ row' \in [DOMAIN row -> Row]
  BY <1>1, <1>2, <1>4 DEF WritePublish, IInv, TypeOK
<1>6. /\ current' = [current EXCEPT ![row[v].entity] = v]
      /\ current \in [Entities -> VersionIds \cup {NoVersion}]
      /\ row[v].entity \in Entities /\ v # NoVersion
  BY <1>1, <1>2, NoVersionIsNull DEF WritePublish, IInv, TypeOK, Row
<1>7. p \in Request
  BY <1>2 DEF Request, PendingAudit, AuditEntry, AuditActions
<1>8. TypeOK'
  <2>1. req' \in [Requests -> Request]
    BY <1>1, <1>7 DEF IInv, TypeOK, WritePublish, Goto
  <2> QED BY <1>2, <1>5, <1>6, <2>1 DEF IInv, TypeOK, WritePublish
<1>9. Monotone
  <2>1. q.reviewer # NoUser
    BY <1>1, NoUserIsNull DEF PendingPublish
  <2> QED BY <1>4, <1>5, <1>6, <2>1 DEF Monotone, WritePublish
<1>10. PendingOK'
  <2>1. RequestOK(p)'
    BY <1>2, <1>4, <1>5 DEF RequestOK, OnVersion, AuditIsTrue
  <2> QED BY <1>1, <1>7, <1>8, <1>9, <2>1, PendingStep DEF IInv, WritePublish
<1>11. VersionNumbersContiguous'
  <2>1. \A w \in DOMAIN row : /\ row'[w].entity = row[w].entity
                              /\ row'[w].number = row[w].number
    BY <1>4, <1>5
  <2> QED BY <1>5, <2>1 DEF IInv, VersionNumbersContiguous
<1>12. PointerWasPublished'
  BY <1>2, <1>4, <1>5, <1>6 DEF IInv, PointerWasPublished
<1>13. FourEyesUntilPublished'
  BY <1>4, <1>5 DEF IInv, FourEyesUntilPublished
<1>14. PublishedStatusIsEarned'
  <2> SUFFICES ASSUME NEW w \in DOMAIN row
               PROVE  /\ row'[w].status \in {"published", "deprecated"}
                            => row'[w].published
                      /\ row'[w].published => current'[row'[w].entity] # NoVersion
    BY <1>5 DEF PublishedStatusIsEarned
  <2>1. row[w].entity \in Entities
    BY DEF IInv, TypeOK, Row
  <2>2. CASE w = v
    BY <2>2, <1>4, <1>5, <1>6
  <2>3. CASE w # v
    BY <2>1, <2>3, <1>5, <1>6 DEF IInv, PublishedStatusIsEarned
  <2> QED BY <2>2, <2>3
<1>15. PublishedRefsResolve'
  <2>1. \A c \in entities : current[c] # NoVersion => current'[c] # NoVersion
    BY <1>6 DEF IInv, TypeOK
  <2> SUFFICES ASSUME NEW w \in DOMAIN row, row'[w].published
               PROVE  /\ row'[w].refs \subseteq entities
                      /\ row'[w].entity \in Templates =>
                            /\ row'[w].refs # {}
                            /\ \A c \in row'[w].refs : current'[c] # NoVersion
    BY <1>5 DEF PublishedRefsResolve, WritePublish
  <2>2. CASE w = v
    BY <2>1, <2>2, <1>3, <1>4, <1>5 DEF GateHolds
  <2>3. CASE w # v
    BY <2>1, <2>3, <1>5 DEF IInv, PublishedRefsResolve
  <2> QED BY <2>2, <2>3
<1>16. AuditedStepsHappened'
  BY <1>4, <1>5 DEF IInv, AuditedStepsHappened, AuditIsTrue, WritePublish
<1> QED
  BY <1>8, <1>10, <1>11, <1>12, <1>13, <1>14, <1>15, <1>16 DEF IInv

\* The audit call preserves the invariant.
LEMMA WriteAuditOK ==
    ASSUME IInv, NEW r \in Requests, WriteAudit(r)
    PROVE  IInv'
<1> DEFINE q == req[r]
<1>1. q \in PendingAudit /\ q.at = "audit" /\ RequestOK(q)
  BY RequestKinds DEF IInv, TypeOK, WriteAudit, PendingOK
<1>2. q.entry \in AuditEntry /\ AuditIsTrue(q.entry)
  BY <1>1 DEF PendingAudit, RequestOK
<1>3. TypeOK'
  BY <1>2, IdleOK DEF IInv, TypeOK, WriteAudit, Goto
<1>4. Monotone
  BY DEF Monotone, WriteAudit
<1>5. PendingOK'
  BY <1>3, <1>4, IdleOK, PendingStep DEF IInv, WriteAudit
<1>6. VersionNumbersContiguous' /\ PointerWasPublished'
      /\ FourEyesUntilPublished' /\ PublishedStatusIsEarned'
      /\ PublishedRefsResolve'
  BY DEF WriteAudit, IInv, VersionNumbersContiguous, PointerWasPublished,
         FourEyesUntilPublished, PublishedStatusIsEarned, PublishedRefsResolve
<1>7. AuditedStepsHappened'
  BY <1>2 DEF WriteAudit, IInv, AuditedStepsHappened, AuditIsTrue
<1> QED BY <1>3, <1>5, <1>6, <1>7 DEF IInv

\* Every write preserves the invariant.
LEMMA WriteOK ==
    ASSUME IInv, NEW r \in Requests, Write(r)
    PROVE  IInv'
<1>1. CASE CreateClause(r) \/ CreateTemplate(r)
  BY <1>1, CreateEntityOK DEF CreateClause, CreateTemplate, Entities
<1>2. CASE InsertVersion(r)
  BY <1>2, InsertVersionOK
<1>3. CASE WriteStatus(r)
  BY <1>3, WriteStatusOK
<1>4. CASE WritePublish(r)
  BY <1>4, WritePublishOK
<1>5. CASE WriteAssign(r)
  BY <1>5, WriteAssignOK
<1>6. CASE WriteDecision(r)
  BY <1>6, WriteDecisionOK
<1>7. CASE WriteChangelog(r)
  BY <1>7, WriteChangelogOK
<1> QED BY <1>1, <1>2, <1>3, <1>4, <1>5, <1>6, <1>7 DEF Write

-----------------------------------------------------------------------------
(***************************************************************************)
(* The theorems.                                                           *)
(***************************************************************************)

\* The empty database satisfies the invariant.
LEMMA InitOK == Init => IInv
<1> SUFFICES ASSUME Init PROVE IInv
  OBVIOUS
<1>1. DOMAIN row = {}
  BY DEF Init
<1>2. TypeOK
  BY <1>1, IdleOK DEF Init, TypeOK
<1>3. PendingOK
  BY IdleOK DEF Init, PendingOK
<1>4. VersionNumbersContiguous /\ PointerWasPublished
      /\ FourEyesUntilPublished /\ PublishedStatusIsEarned
      /\ PublishedRefsResolve /\ AuditedStepsHappened
  BY <1>1 DEF Init, VersionNumbersContiguous, PointerWasPublished,
              FourEyesUntilPublished, PublishedStatusIsEarned,
              PublishedRefsResolve, AuditedStepsHappened
<1> QED BY <1>2, <1>3, <1>4 DEF IInv

\* The invariant is inductive.
LEMMA NextOK == IInv /\ [Next]_vars => IInv'
<1> SUFFICES ASSUME IInv, [Next]_vars PROVE IInv'
  OBVIOUS
<1>1. CASE UNCHANGED vars
  <2> USE <1>1 DEF vars
  <2>1. TypeOK'
    BY DEF IInv, TypeOK
  <2>2. PendingOK'
    BY DEF IInv, PendingOK, RequestOK, GateHolds, AuditIsTrue
  <2>3. VersionNumbersContiguous' /\ PointerWasPublished'
        /\ FourEyesUntilPublished' /\ PublishedStatusIsEarned'
    BY DEF IInv, VersionNumbersContiguous, PointerWasPublished,
           FourEyesUntilPublished, PublishedStatusIsEarned
  <2>4. PublishedRefsResolve' /\ AuditedStepsHappened'
    BY DEF IInv, PublishedRefsResolve, AuditedStepsHappened, AuditIsTrue
  <2> QED BY <2>1, <2>2, <2>3, <2>4 DEF IInv
<1>2. ASSUME NEW r \in Requests, Read(r) PROVE IInv'
  BY <1>2, ReadOK
<1>3. ASSUME NEW r \in Requests, PassGates(r) PROVE IInv'
  BY <1>3, PassGatesOK
<1>4. ASSUME NEW r \in Requests, Write(r) PROVE IInv'
  BY <1>4, WriteOK
<1>5. ASSUME NEW r \in Requests, WriteAudit(r) PROVE IInv'
  BY <1>5, WriteAuditOK
<1>6. ASSUME NEW r \in Requests, Fail(r) PROVE IInv'
  BY <1>6, IdleOK, QuietStep DEF Fail
<1> QED BY <1>1, <1>2, <1>3, <1>4, <1>5, <1>6 DEF Next

\* The inductive invariant holds in every reachable state.
THEOREM Invariance == Spec => []IInv
<1>1. Init => IInv
  BY InitOK
<1>2. IInv /\ [Next]_vars => IInv'
  BY NextOK
<1> QED BY <1>1, <1>2, PTL DEF Spec

\* Type correctness of the editorial workflow.
THEOREM TypeCorrect == Spec => []TypeOK
<1>1. IInv => TypeOK
  BY DEF IInv
<1> QED BY <1>1, Invariance, PTL

\* The versions of an entity are numbered without duplicates or gaps, with
\* any number of authors adding versions at the same time (routes.ts).
THEOREM NumbersCorrect == Spec => []VersionNumbersContiguous
<1>1. IInv => VersionNumbersContiguous
  BY DEF IInv
<1> QED BY <1>1, Invariance, PTL

\* currentPublishedVersionId names a version of its entity that was published.
THEOREM PointerCorrect == Spec => []PointerWasPublished
<1>1. IInv => PointerWasPublished
  BY DEF IInv
<1> QED BY <1>1, Invariance, PTL

\* No unpublished version has its author as reviewer (reviewer.ts).
THEOREM FourEyesCorrect == Spec => []FourEyesUntilPublished
<1>1. IInv => FourEyesUntilPublished
  BY DEF IInv
<1> QED BY <1>1, Invariance, PTL

\* Only a version whose publication was written is published or deprecated
\* (routes.ts, the status handlers).
THEOREM EarnedCorrect == Spec => []PublishedStatusIsEarned
<1>1. IInv => PublishedStatusIsEarned
  BY DEF IInv
<1> QED BY <1>1, Invariance, PTL

\* Audit records of publications and reviews are about versions that were
\* published or inserted (the audit calls of routes.ts and reviewer.ts).
THEOREM AuditCorrect == Spec => []AuditedStepsHappened
<1>1. IInv => AuditedStepsHappened
  BY DEF IInv
<1> QED BY <1>1, Invariance, PTL

\* What a published version refers to can be resolved (publishing-gates.ts).
THEOREM RefsCorrect == Spec => []PublishedRefsResolve
<1>1. IInv => PublishedRefsResolve
  BY DEF IInv
<1> QED BY <1>1, Invariance, PTL

-----------------------------------------------------------------------------
(***************************************************************************)
(* Action properties.                                                      *)
(***************************************************************************)

\* The reading statements change neither a row nor a pointer.
LEMMA ReadChangesNoRow ==
    ASSUME NEW r \in Requests, Read(r)
    PROVE  UNCHANGED <<row, current>>
<1>1. CASE NewClauseVersion(r) \/ NewTemplateVersion(r)
  BY <1>1 DEF NewClauseVersion, NewTemplateVersion, ReadLatest, Arrives
<1>2. CASE PatchClauseStatus(r) \/ PatchTemplateStatus(r)
  <2>1. ASSUME NEW v, ReadForTransition(r, v) PROVE UNCHANGED <<row, current>>
    BY <2>1 DEF ReadForTransition, Arrives
  <2> QED BY <1>2, <2>1 DEF PatchClauseStatus, PatchTemplateStatus
<1>3. CASE AssignClauseReviewer(r) \/ AssignTemplateReviewer(r)
  BY <1>3 DEF AssignClauseReviewer, AssignTemplateReviewer, ReadForAssign,
              Arrives
<1>4. CASE ApproveClause(r) \/ RejectClause(r) \/ RequestClauseChanges(r)
  BY <1>4 DEF ApproveClause, RejectClause, RequestClauseChanges,
              ReadForDecision, Arrives
<1>5. CASE \/ ApproveTemplate(r) \/ RejectTemplate(r)
           \/ RequestTemplateChanges(r)
  BY <1>5 DEF ApproveTemplate, RejectTemplate, RequestTemplateChanges,
              ReadForDecision, Arrives
<1>6. CASE ReadForChangelog(r)
  BY <1>6 DEF ReadForChangelog, Arrives
<1> QED BY <1>1, <1>2, <1>3, <1>4, <1>5, <1>6 DEF Read

\* Only the write of a publication moves a pointer or sets publishedAt.
LEMMA OnlyPublishingPublishes ==
    ASSUME IInv, [Next]_vars
    PROVE  \/ \E r \in Requests : WritePublish(r)
           \/ /\ current' = current
              /\ \A v \in DOMAIN row : row'[v].published = row[v].published
<1> DEFINE Quiet == /\ current' = current
                    /\ \A v \in DOMAIN row :
                          row'[v].published = row[v].published
<1>1. CASE UNCHANGED vars
  BY <1>1 DEF vars
<1>2. ASSUME NEW r \in Requests, Read(r) PROVE Quiet
  BY <1>2, ReadChangesNoRow
<1>3. ASSUME NEW r \in Requests, PassGates(r) \/ WriteAudit(r) \/ Fail(r)
      PROVE  Quiet
  BY <1>3 DEF PassGates, WriteAudit, Fail
<1>4. ASSUME NEW r \in Requests, Write(r), ~WritePublish(r) PROVE Quiet
  <2>1. CASE CreateClause(r) \/ CreateTemplate(r)
    BY <2>1 DEF CreateClause, CreateTemplate, CreateEntity
  <2>2. CASE InsertVersion(r)
    BY <2>2 DEF InsertVersion
  <2>3. CASE WriteStatus(r)
    BY <2>3 DEF WriteStatus, IInv, TypeOK, Row
  <2>4. CASE WriteAssign(r)
    BY <2>4 DEF WriteAssign, IInv, TypeOK, Row
  <2>5. CASE WriteDecision(r)
    BY <2>5 DEF WriteDecision, IInv, TypeOK, Row
  <2>6. CASE WriteChangelog(r)
    BY <2>6 DEF WriteChangelog, IInv, TypeOK, Row
  <2> QED BY <1>4, <2>1, <2>2, <2>3, <2>4, <2>5, <2>6 DEF Write
<1> QED BY <1>1, <1>2, <1>3, <1>4 DEF Next

\* What a publication finds and leaves.
LEMMA PublishingFinds ==
    ASSUME IInv, NEW r \in Requests, WritePublish(r)
    PROVE  \E v \in DOMAIN row :
              /\ row[v].entity \in Entities
              /\ row[v].reviewer # NoUser
              /\ row' = [row EXCEPT ![v] = PublishedRow(@, req[r].reviewer)]
              /\ row'[v].status = "published"
              /\ current' = [current EXCEPT ![row[v].entity] = v]
<1>1. PICK q \in PendingPublish : /\ q = req[r]
                                  /\ q.at = "publish"
                                  /\ RequestOK(q)
  BY RequestKinds DEF IInv, TypeOK, WritePublish, PendingOK
<1>2. q.version \in DOMAIN row /\ row[q.version] \in Row
      /\ row[q.version].reviewer # NoUser
  BY <1>1 DEF RequestOK, OnVersion, GateHolds, IInv, TypeOK
<1>3. row' = [row EXCEPT ![q.version] = PublishedRow(@, q.reviewer)]
      /\ current' = [current EXCEPT ![row[q.version].entity] = q.version]
  BY <1>1 DEF WritePublish
<1>4. row'[q.version].status = "published"
  BY <1>2, <1>3 DEF PublishedRow, Row
<1> QED BY <1>1, <1>2, <1>3, <1>4 DEF Row

\* A version that is published for the first time has a reviewer who is not
\* its author at the moment of the write, not only when the gate looked.
THEOREM FirstPublishCorrect == Spec => FirstPublishIsReviewed
<1> DEFINE A == \A v \in DOMAIN row :
                   ~row[v].published /\ row'[v].published =>
                       row[v].reviewer \notin {NoUser, row[v].author}
<1>1. IInv /\ [Next]_vars => [A]_vars
  <2> SUFFICES ASSUME IInv, [Next]_vars PROVE A
    OBVIOUS
  <2>1. CASE \E r \in Requests : WritePublish(r)
    <3>1. PICK r \in Requests : WritePublish(r)
      BY <2>1
    <3>2. PICK v \in DOMAIN row :
              /\ row[v].reviewer # NoUser
              /\ row' = [row EXCEPT ![v] = PublishedRow(@, req[r].reviewer)]
      BY <3>1, PublishingFinds
    <3> QED BY <3>2 DEF IInv, FourEyesUntilPublished
  <2>2. CASE \A v \in DOMAIN row : row'[v].published = row[v].published
    BY <2>2
  <2> QED BY <2>1, <2>2, OnlyPublishingPublishes
<1> QED BY <1>1, Invariance, PTL DEF Spec, FirstPublishIsReviewed

\* A pointer moves only in the step that publishes the version it moves to.
THEOREM PointerMovesCorrect == Spec => PointerMovesByPublishing
<1> DEFINE A == \A e \in Entities : current'[e] # current[e] =>
                   /\ current'[e] \in DOMAIN row
                   /\ row'[current'[e]].status = "published"
<1>1. IInv /\ [Next]_vars => [A]_vars
  <2> SUFFICES ASSUME IInv, [Next]_vars PROVE A
    OBVIOUS
  <2>1. CASE \E r \in Requests : WritePublish(r)
    <3>1. PICK r \in Requests : WritePublish(r)
      BY <2>1
    <3>2. PICK v \in DOMAIN row :
              /\ row' = [row EXCEPT ![v] = PublishedRow(@, req[r].reviewer)]
              /\ row'[v].status = "published"
              /\ current' = [current EXCEPT ![row[v].entity] = v]
      BY <3>1, PublishingFinds
    <3>3. current \in [Entities -> VersionIds \cup {NoVersion}]
      BY DEF IInv, TypeOK
    <3> QED BY <3>2, <3>3
  <2>2. CASE current' = current
    BY <2>2
  <2> QED BY <2>1, <2>2, OnlyPublishingPublishes
<1> QED BY <1>1, Invariance, PTL DEF Spec, PointerMovesByPublishing


-----------------------------------------------------------------------------
(***************************************************************************)
(* Requests that come one after the other.  What a request has read is     *)
(* then not only true of the past (RequestOK) but still what the row       *)
(* holds: Fresh.  With it every write is a step of EditorialWorkflow.      *)
(***************************************************************************)
Fresh(q) ==
    /\ q.at = "status" => q.to \in ValidTransitions[row[q.version].status]
    /\ q.at \in {"gates", "publish"} => row[q.version].status = "approved"
    /\ q.at = "decide" => row[q.version].status = "review"
    /\ q.at \in {"assign", "decide", "changelog"} => q.meta = row[q.version].meta

\* The metadata of every version has as many entries as were acknowledged.
AllKept ==
    /\ NoEntryLost
    /\ \A v \in VersionIds \ DOMAIN row : acked[v] = 0

SerialInv(r) == IInv /\ Fresh(req[r]) /\ AllKept

\* What a step of the only request comes to.
SerialStep(r) == Fresh(req[r])' /\ AllKept' /\ [Workflow!Next]_Workflow!vars

\* Nobody but the request does anything.
LEMMA OnlyRequest ==
    ASSUME IInv, NEW r \in Requests
    PROVE  /\ req[r] \in Request /\ RequestOK(req[r])
           /\ \A p : Goto(r, p) => req'[r] = p
BY DEF IInv, TypeOK, PendingOK, Goto

\* A step that changes no row, pointer or count.
LEMMA RowsStay ==
    ASSUME NEW r \in Requests, SerialInv(r), UNCHANGED <<row, current, acked>>,
           NEW p, Goto(r, p), Fresh(p)
    PROVE  SerialStep(r)
<1>1. req'[r] = p
  BY OnlyRequest DEF SerialInv
<1>2. Fresh(req[r])'
  BY <1>1 DEF Fresh
<1>3. AllKept'
  BY DEF SerialInv, AllKept, NoEntryLost
<1>4. UNCHANGED Workflow!vars
  BY DEF Workflow!vars, StatusOfAll
<1> QED BY <1>2, <1>3, <1>4 DEF SerialStep

\* What a handler remembers after its first statement is what it has read.
LEMMA ReadIsFresh ==
    ASSUME NEW r \in Requests, SerialInv(r), Read(r)
    PROVE  SerialStep(r)
<1> USE DEF Arrives
<1>1. ASSUME NEW e \in Entities, ReadLatest(r, e) PROVE SerialStep(r)
  <2>1. PICK p : p.at = "insert" /\ Arrives(r, p)
    BY <1>1 DEF ReadLatest
  <2>2. Fresh(p)
    BY <2>1 DEF Fresh
  <2> QED BY <2>1, <2>2, RowsStay
<1>2. ASSUME NEW v \in DOMAIN row, ReadForTransition(r, v) PROVE SerialStep(r)
  <2>1. PICK to \in ValidTransitions[row[v].status] :
           IF to = "published"
           THEN \E reviewer \in Users :
                   Arrives(r, [at |-> "gates", version |-> v, reviewer |-> reviewer])
           ELSE Arrives(r, [at |-> "status", version |-> v, to |-> to])
    BY <1>2 DEF ReadForTransition
  <2>2. to = "published" => row[v].status = "approved"
    <3>1. row[v].status \in Statuses
      BY DEF SerialInv, IInv, TypeOK, Row
    <3> QED BY <2>1, <3>1 DEF ValidTransitions, Statuses
  <2>3. CASE to = "published"
    <3>1. PICK p : /\ p.at = "gates" /\ p.version = v /\ Arrives(r, p)
      BY <2>1, <2>3
    <3>2. Fresh(p)
      BY <2>2, <2>3, <3>1 DEF Fresh
    <3> QED BY <3>1, <3>2, RowsStay
  <2>4. CASE to # "published"
    <3>1. PICK p : /\ p.at = "status" /\ p.version = v /\ p.to = to /\ Arrives(r, p)
      BY <2>1, <2>4
    <3>2. Fresh(p)
      BY <2>1, <3>1 DEF Fresh
    <3> QED BY <3>1, <3>2, RowsStay
  <2> QED BY <2>3, <2>4
<1>3. ASSUME NEW v \in DOMAIN row, ReadForAssign(r, v) PROVE SerialStep(r)
  <2>1. PICK p : /\ p.at = "assign" /\ p.version = v /\ p.meta = row[v].meta
                 /\ Arrives(r, p)
    BY <1>3 DEF ReadForAssign
  <2>2. Fresh(p)
    BY <2>1 DEF Fresh
  <2> QED BY <2>1, <2>2, RowsStay
<1>4. ASSUME NEW v \in DOMAIN row, NEW kind, ReadForDecision(r, v, kind)
      PROVE  SerialStep(r)
  <2>1. PICK p : /\ p.at = "decide" /\ p.version = v /\ p.meta = row[v].meta
                 /\ row[v].status = "review" /\ Arrives(r, p)
    BY <1>4 DEF ReadForDecision
  <2>2. Fresh(p)
    BY <2>1 DEF Fresh
  <2> QED BY <2>1, <2>2, RowsStay
<1>5. ASSUME ReadForChangelog(r) PROVE SerialStep(r)
  <2>1. PICK v, p : /\ p.at = "changelog" /\ p.version = v /\ p.meta = row[v].meta
                    /\ Arrives(r, p)
    BY <1>5 DEF ReadForChangelog
  <2>2. Fresh(p)
    BY <2>1 DEF Fresh
  <2> QED BY <2>1, <2>2, RowsStay
<1>6. \/ \E e \in Entities : ReadLatest(r, e)
      \/ \E v \in DOMAIN row : \/ ReadForTransition(r, v) \/ ReadForAssign(r, v)
                               \/ \E kind \in Decisions : ReadForDecision(r, v, kind)
      \/ ReadForChangelog(r)
  BY DEF Read, NewClauseVersion, NewTemplateVersion, PatchClauseStatus,
         PatchTemplateStatus, AssignClauseReviewer, AssignTemplateReviewer,
         ApproveClause, ApproveTemplate, RejectClause, RejectTemplate,
         RequestClauseChanges, RequestTemplateChanges, VersionsOf, Entities, Decisions
<1> QED BY <1>1, <1>2, <1>3, <1>4, <1>5, <1>6

\* The steps that write something else than a row.
LEMMA OtherIsFresh ==
    ASSUME NEW r \in Requests, SerialInv(r),
           PassGates(r) \/ CreateClause(r) \/ CreateTemplate(r) \/ WriteAudit(r) \/ Fail(r)
    PROVE  SerialStep(r)
<1>1. CASE PassGates(r)
  <2>1. PICK p : /\ p = [req[r] EXCEPT !.at = "publish"] /\ Goto(r, p)
                 /\ UNCHANGED <<row, current, acked>>
    BY <1>1 DEF PassGates
  <2>2. req[r] \in PendingPublish /\ req[r].at = "gates"
    BY <1>1, OnlyRequest, RequestKinds DEF PassGates, SerialInv
  <2>3. p.at = "publish" /\ p.version = req[r].version
    BY <2>1, <2>2 DEF PendingPublish
  <2>4. Fresh(p)
    BY <2>2, <2>3 DEF SerialInv, Fresh
  <2> QED BY <2>1, <2>4, RowsStay
<1>2. CASE CreateClause(r) \/ CreateTemplate(r)
  <2>1. PICK p : p.at = "audit" /\ Goto(r, p) /\ UNCHANGED <<row, current, acked>>
    BY <1>2 DEF CreateClause, CreateTemplate, CreateEntity
  <2>2. Fresh(p)
    BY <2>1 DEF Fresh
  <2> QED BY <2>1, <2>2, RowsStay
<1>3. CASE WriteAudit(r) \/ Fail(r)
  <2>1. Goto(r, Idle) /\ UNCHANGED <<row, current, acked>>
    BY <1>3 DEF WriteAudit, Fail
  <2>2. Fresh(Idle)
    BY DEF Fresh, Idle
  <2> QED BY <2>1, <2>2, RowsStay
<1> QED BY <1>1, <1>2, <1>3

\* A write of one row moves its version, and no other, from the status it had.
LEMMA OneStatusMoves ==
    ASSUME TypeOK, NEW v \in DOMAIN row, NEW x, row' = [row EXCEPT ![v] = x]
    PROVE  /\ StatusOfAll[v] = row[v].status /\ v \in VersionIds
           /\ StatusOfAll' = [StatusOfAll EXCEPT ![v] = x.status]
BY DEF TypeOK, StatusOfAll

\* The moves of the workflow that do not publish.
LEMMA MovesOfWorkflow ==
    ASSUME NEW v \in VersionIds, NEW to,
           StatusOfAll' = [StatusOfAll EXCEPT ![v] = to], current' = current,
           \/ StatusOfAll[v] = "none" /\ to = "draft"
           \/ StatusOfAll[v] = "draft" /\ to = "review"
           \/ StatusOfAll[v] = "review" /\ to \in {"approved", "draft"}
           \/ StatusOfAll[v] = "approved" /\ to = "draft"
           \/ StatusOfAll[v] = "published" /\ to = "deprecated"
    PROVE  Workflow!Next
<1>1. \/ Workflow!Draft(v) \/ Workflow!Submit(v) \/ Workflow!Approve(v)
      \/ Workflow!SendBack(v) \/ Workflow!Deprecate(v)
  BY DEF Workflow!Draft, Workflow!Submit, Workflow!Approve, Workflow!SendBack,
         Workflow!Deprecate
<1> QED BY <1>1 DEF Workflow!Next

\* A write of one row that counts its metadata keeps the count.
LEMMA CountsStay ==
    ASSUME TypeOK, AllKept, NEW v \in DOMAIN row, NEW x \in Row,
           row' = [row EXCEPT ![v] = x],
           \/ acked' = acked /\ x.meta = row[v].meta
           \/ /\ acked' = [acked EXCEPT ![v] = acked[v] + 1]
              /\ Len(x.meta) = Len(row[v].meta) + 1
    PROVE  AllKept'
<1>1. /\ DOMAIN row' = DOMAIN row /\ row'[v] = x /\ v \in VersionIds
      /\ \A w \in DOMAIN row \ {v} : row'[w] = row[w]
  BY DEF TypeOK
<1>2. /\ acked \in [VersionIds -> Nat] /\ acked[v] = Len(row[v].meta)
      /\ \A w \in DOMAIN row : acked[w] = Len(row[w].meta)
      /\ \A w \in VersionIds \ DOMAIN row : acked[w] = 0
  BY DEF TypeOK, AllKept, NoEntryLost
<1>3. acked'[v] = Len(x.meta) /\ \A w \in VersionIds \ {v} : acked'[w] = acked[w]
  BY <1>1, <1>2
<1>4. \A w \in DOMAIN row' : w \in VersionIds
  BY <1>1 DEF TypeOK
<1> QED BY <1>1, <1>2, <1>3, <1>4 DEF AllKept, NoEntryLost


\* After its last statement a request remembers nothing of a row.
LEMMA NothingRemembered ==
    ASSUME IInv, NEW r \in Requests, NEW p, Goto(r, p), p.at \in {"idle", "audit"}
    PROVE  Fresh(req[r])'
<1>1. req'[r] = p
  BY OnlyRequest
<1> QED BY <1>1 DEF Fresh

\* An inserted version is a draft without metadata.
LEMMA InsertIsStep ==
    ASSUME NEW r \in Requests, SerialInv(r), InsertVersion(r)
    PROVE  SerialStep(r)
<1>1. PICK v \in VersionIds \ DOMAIN row :
         row' = [w \in DOMAIN row \cup {v} |-> IF w = v THEN NewRow(req[r]) ELSE row[w]]
  BY DEF InsertVersion
<1>2. Goto(r, Idle) /\ UNCHANGED <<current, acked>> /\ Idle.at = "idle"
  BY DEF InsertVersion, Idle
<1>3. NewRow(req[r]).status = "draft" /\ NewRow(req[r]).meta = <<>>
  BY DEF NewRow
<1>4. /\ DOMAIN row' = DOMAIN row \cup {v}
      /\ row'[v].status = "draft" /\ row'[v].meta = <<>>
      /\ \A w \in DOMAIN row : row'[w] = row[w]
  BY <1>1, <1>3
<1>5. AllKept'
  <2>1. Len(<<>>) = 0 /\ acked[v] = 0
    BY <1>1 DEF SerialInv, AllKept
  <2> QED BY <1>2, <1>4, <2>1 DEF SerialInv, AllKept, NoEntryLost
<1>6. StatusOfAll[v] = "none" /\ StatusOfAll' = [StatusOfAll EXCEPT ![v] = "draft"]
  BY <1>1, <1>4 DEF StatusOfAll
<1>7. Workflow!Next
  BY <1>1, <1>2, <1>6, MovesOfWorkflow
<1>8. Fresh(req[r])'
  BY <1>2, NothingRemembered DEF SerialInv
<1> QED BY <1>5, <1>7, <1>8 DEF SerialStep

\* What the write of a row finds.
LEMMA RowToWrite ==
    ASSUME NEW r \in Requests, SerialInv(r), req[r].at \in OnVersion
    PROVE  /\ req[r].version \in DOMAIN row /\ row[req[r].version] \in Row
           /\ TypeOK /\ AllKept
BY OnlyRequest DEF SerialInv, RequestOK, IInv, TypeOK

\* A status change that is still allowed.
LEMMA WriteStatusIsStep ==
    ASSUME NEW r \in Requests, SerialInv(r), WriteStatus(r)
    PROVE  SerialStep(r)
<1>1. PICK q, v, x : q = req[r] /\ v = q.version /\ x = [row[v] EXCEPT !.status = q.to]
  OBVIOUS
<1>2. /\ q.at = "status" /\ Goto(r, Idle) /\ Idle.at = "idle"
      /\ UNCHANGED <<current, acked>> /\ row' = [row EXCEPT ![v] = x]
  BY <1>1 DEF WriteStatus, Idle
<1>3. v \in DOMAIN row /\ row[v] \in Row /\ TypeOK /\ AllKept
  BY <1>1, <1>2, RowToWrite DEF OnVersion
<1>4. /\ q.to \in ValidTransitions[row[v].status] /\ q.to # "published"
      /\ q.to \in Statuses
  BY <1>1, <1>2, OnlyRequest, RequestKinds
     DEF SerialInv, Fresh, RequestOK, PendingStatus
<1>5. x \in Row /\ x.status = q.to /\ x.meta = row[v].meta
  BY <1>1, <1>3, <1>4 DEF Row
<1>6. AllKept'
  BY <1>2, <1>3, <1>5, CountsStay
<1>7. /\ StatusOfAll[v] = row[v].status /\ v \in VersionIds
      /\ StatusOfAll' = [StatusOfAll EXCEPT ![v] = x.status]
  BY <1>2, <1>3, OneStatusMoves
<1>8. row[v].status \in Statuses
  BY <1>3 DEF Row
<1>9. \/ row[v].status = "draft" /\ x.status = "review"
      \/ row[v].status = "review" /\ x.status \in {"approved", "draft"}
      \/ row[v].status = "approved" /\ x.status = "draft"
      \/ row[v].status = "published" /\ x.status = "deprecated"
  BY <1>4, <1>5, <1>8 DEF ValidTransitions, Statuses
<1>10. Workflow!Next
  BY <1>2, <1>7, <1>9, MovesOfWorkflow
<1>11. Fresh(req[r])'
  BY <1>2, NothingRemembered DEF SerialInv
<1> QED BY <1>6, <1>10, <1>11 DEF SerialStep

\* A publication of what is still approved.
LEMMA WritePublishIsStep ==
    ASSUME NEW r \in Requests, SerialInv(r), WritePublish(r)
    PROVE  SerialStep(r)
<1>1. PICK q, v, x, p : /\ q = req[r] /\ v = q.version
                        /\ x = PublishedRow(row[v], q.reviewer)
                        /\ p = [at |-> "audit", entry |-> <<"publish", v>>]
  OBVIOUS
<1>2. /\ q.at = "publish" /\ Goto(r, p) /\ p.at = "audit"
      /\ row' = [row EXCEPT ![v] = x]
      /\ current' = [current EXCEPT ![row[v].entity] = v] /\ acked' = acked
  BY <1>1 DEF WritePublish
<1>3. v \in DOMAIN row /\ row[v] \in Row /\ TypeOK /\ AllKept
  BY <1>1, <1>2, RowToWrite DEF OnVersion
<1>4. row[v].status = "approved" /\ q.reviewer \in Users
  BY <1>1, <1>2, OnlyRequest, RequestKinds DEF SerialInv, Fresh, PendingPublish
<1>5. x \in Row /\ x.status = "published" /\ x.meta = row[v].meta
  BY <1>1, <1>3, <1>4 DEF Row, PublishedRow, Statuses
<1>6. AllKept'
  BY <1>2, <1>3, <1>5, CountsStay
<1>7. /\ StatusOfAll[v] = row[v].status /\ v \in VersionIds
      /\ StatusOfAll' = [StatusOfAll EXCEPT ![v] = x.status]
  BY <1>2, <1>3, OneStatusMoves
<1>8. row[v].entity \in Clauses \cup Templates
  BY <1>3 DEF Row, Entities
<1>9. Workflow!Publish(v, row[v].entity)
  BY <1>2, <1>4, <1>5, <1>7 DEF Workflow!Publish
<1>10. Workflow!Next
  BY <1>7, <1>8, <1>9 DEF Workflow!Next
<1>11. Fresh(req[r])'
  BY <1>2, NothingRemembered DEF SerialInv
<1> QED BY <1>6, <1>10, <1>11 DEF SerialStep

\* A write of reviewer or changelog, which moves no status.
LEMMA StatusStays ==
    ASSUME TypeOK, NEW v \in DOMAIN row, NEW x, row' = [row EXCEPT ![v] = x],
           x.status = row[v].status, current' = current
    PROVE  UNCHANGED Workflow!vars
<1>1. /\ DOMAIN row' = DOMAIN row
      /\ \A w \in DOMAIN row : row'[w].status = row[w].status
  OBVIOUS
<1> QED BY <1>1 DEF Workflow!vars, StatusOfAll

\* A reviewer is assigned: the metadata is written back as it was read.
LEMMA WriteAssignIsStep ==
    ASSUME NEW r \in Requests, SerialInv(r), WriteAssign(r)
    PROVE  SerialStep(r)
<1>1. PICK q, v : q = req[r] /\ v = q.version
  OBVIOUS
<1> DEFINE x == [row[v] EXCEPT !.reviewer = q.reviewer, !.meta = q.meta]
           p == [at |-> "audit", entry |-> <<"review", v>>]
<1>2. /\ q.at = "assign" /\ Goto(r, p) /\ p.at = "audit"
      /\ UNCHANGED <<current, acked>>
  BY <1>1 DEF WriteAssign
<1>3. v \in DOMAIN row /\ row[v] \in Row /\ TypeOK /\ AllKept
  BY <1>1, <1>2, RowToWrite DEF OnVersion
<1>4. row' = [row EXCEPT ![v] = x]
  BY <1>1, <1>3 DEF WriteAssign, TypeOK
<1>5. q.meta = row[v].meta /\ q.reviewer \in Users
  BY <1>1, <1>2, OnlyRequest, RequestKinds DEF SerialInv, Fresh, PendingAssign
<1>6. x \in Row /\ x.status = row[v].status /\ x.meta = row[v].meta
  BY <1>1, <1>3, <1>5 DEF Row
<1> HIDE DEF x, p
<1>7. AllKept'
  BY <1>2, <1>3, <1>4, <1>6, CountsStay
<1>8. UNCHANGED Workflow!vars
  BY <1>2, <1>3, <1>4, <1>6, StatusStays
<1>9. Fresh(req[r])'
  BY <1>2, NothingRemembered DEF SerialInv
<1> QED BY <1>7, <1>8, <1>9 DEF SerialStep

\* A decision about what is still in review.
LEMMA WriteDecisionIsStep ==
    ASSUME NEW r \in Requests, SerialInv(r), WriteDecision(r)
    PROVE  SerialStep(r)
<1>1. PICK q, v, e : q = req[r] /\ v = q.version /\ e = q.entry
  OBVIOUS
<1>2. PICK x, p :
         /\ x = [row[v] EXCEPT !.status = IF e.kind = "approved" THEN "approved"
                                                                ELSE "draft",
                               !.reviewer = IF e.kind = "approved" THEN e.by ELSE @,
                               !.meta = Append(q.meta, e)]
         /\ p = [at |-> "audit", entry |-> <<"review", v>>]
  OBVIOUS
<1>3. /\ q.at = "decide" /\ Goto(r, p) /\ p.at = "audit" /\ current' = current
      /\ acked' = [acked EXCEPT ![v] = acked[v] + 1]
  BY <1>1, <1>2 DEF WriteDecision
<1>4. v \in DOMAIN row /\ row[v] \in Row /\ TypeOK /\ AllKept
  BY <1>1, <1>3, RowToWrite DEF OnVersion
<1>5. row' = [row EXCEPT ![v] = x]
  BY <1>1, <1>2, <1>4 DEF WriteDecision, TypeOK
<1>6. /\ q.meta = row[v].meta /\ row[v].status = "review" /\ e \in Entry
      /\ e.by \in Users
  BY <1>1, <1>3, OnlyRequest, RequestKinds
     DEF SerialInv, Fresh, PendingDecide, Entry
<1>7. /\ x \in Row /\ x.status \in {"approved", "draft"}
      /\ x.meta = Append(row[v].meta, e)
  <2>1. row[v].meta \in Seq(Entry) /\ Append(row[v].meta, e) \in Seq(Entry)
    BY <1>4, <1>6 DEF Row
  <2> QED BY <1>2, <1>4, <1>6, <2>1 DEF Row, Statuses
<1>8. Len(x.meta) = Len(row[v].meta) + 1
  BY <1>4, <1>6, <1>7 DEF Row
<1>9. AllKept'
  BY <1>3, <1>4, <1>5, <1>7, <1>8, CountsStay
<1>10. /\ StatusOfAll[v] = row[v].status /\ v \in VersionIds
       /\ StatusOfAll' = [StatusOfAll EXCEPT ![v] = x.status]
  BY <1>4, <1>5, OneStatusMoves
<1>11. Workflow!Next
  BY <1>3, <1>6, <1>7, <1>10, MovesOfWorkflow
<1>12. Fresh(req[r])'
  BY <1>3, NothingRemembered DEF SerialInv
<1> QED BY <1>9, <1>11, <1>12 DEF SerialStep

\* A changelog entry is added to what the handler read.
LEMMA WriteChangelogIsStep ==
    ASSUME NEW r \in Requests, SerialInv(r), WriteChangelog(r)
    PROVE  SerialStep(r)
<1>1. PICK q, v, e, x : /\ q = req[r] /\ v = q.version /\ e = q.entry
                        /\ x = [row[v] EXCEPT !.meta = Append(q.meta, e)]
  OBVIOUS
<1>2. /\ q.at = "changelog" /\ Goto(r, Idle) /\ Idle.at = "idle"
      /\ current' = current /\ acked' = [acked EXCEPT ![v] = acked[v] + 1]
      /\ row' = [row EXCEPT ![v] = x]
  BY <1>1 DEF WriteChangelog, Idle
<1>3. v \in DOMAIN row /\ row[v] \in Row /\ TypeOK /\ AllKept
  BY <1>1, <1>2, RowToWrite DEF OnVersion
<1>4. q.meta = row[v].meta /\ e \in Entry
  BY <1>1, <1>2, OnlyRequest, RequestKinds DEF SerialInv, Fresh, PendingLog
<1>5. row[v].meta \in Seq(Entry) /\ Append(row[v].meta, e) \in Seq(Entry)
      /\ Len(Append(row[v].meta, e)) = Len(row[v].meta) + 1
  BY <1>3, <1>4 DEF Row
<1>6. /\ x \in Row /\ x.status = row[v].status /\ x.meta = Append(row[v].meta, e)
  BY <1>1, <1>3, <1>4, <1>5 DEF Row
<1>7. AllKept'
  BY <1>2, <1>3, <1>5, <1>6, CountsStay
<1>8. UNCHANGED Workflow!vars
  BY <1>2, <1>3, <1>6, StatusStays
<1>9. Fresh(req[r])'
  BY <1>2, NothingRemembered DEF SerialInv
<1> QED BY <1>7, <1>8, <1>9 DEF SerialStep

\* Every step of the only request keeps SerialInv and is one of the workflow.
LEMMA SerialNext ==
    ASSUME NEW r, Requests = {r}, SerialInv(r), [Next]_vars
    PROVE  SerialInv(r)' /\ [Workflow!Next]_Workflow!vars
<1>1. r \in Requests
  OBVIOUS
<1>2. CASE UNCHANGED vars
  <2>1. UNCHANGED <<row, current, acked, req>>
    BY <1>2 DEF vars
  <2>2. Fresh(req[r])' /\ AllKept'
    BY <2>1 DEF SerialInv, Fresh, AllKept, NoEntryLost
  <2>3. UNCHANGED Workflow!vars
    BY <2>1 DEF Workflow!vars, StatusOfAll
  <2> QED BY <2>2, <2>3, NextOK DEF SerialInv
<1>3. CASE Next
  <2>1. Read(r) \/ PassGates(r) \/ Write(r) \/ WriteAudit(r) \/ Fail(r)
    BY <1>3 DEF Next
  <2>2. SerialStep(r)
    BY <1>1, <2>1, ReadIsFresh, OtherIsFresh, InsertIsStep, WriteStatusIsStep,
       WritePublishIsStep, WriteAssignIsStep, WriteDecisionIsStep,
       WriteChangelogIsStep DEF Write
  <2> QED BY <2>2, NextOK DEF SerialInv, SerialStep
<1> QED BY <1>2, <1>3

\* At the start nothing is remembered, counted or drafted.
LEMMA SerialStart ==
    ASSUME NEW r, Requests = {r}, Init
    PROVE  SerialInv(r) /\ Workflow!Init
<1>1. req[r].at = "idle" /\ DOMAIN row = {} /\ \A v \in VersionIds : acked[v] = 0
  BY DEF Init, Idle
<1>2. Fresh(req[r]) /\ AllKept
  BY <1>1 DEF Fresh, AllKept, NoEntryLost
<1>3. Workflow!Init
  BY <1>1 DEF Init, Workflow!Init, StatusOfAll, Entities
<1> QED BY <1>2, <1>3, InitOK DEF SerialInv

\* While requests come one after the other, no review decision and no
\* changelog entry that was answered with success disappears (the metadata
\* column is read in one statement and written in another).
THEOREM EntriesKept ==
    ASSUME NEW r, Requests = {r}
    PROVE  Spec => []NoEntryLost
<1>1. Init => SerialInv(r)
  BY SerialStart
<1>2. SerialInv(r) /\ [Next]_vars => SerialInv(r)'
  BY SerialNext
<1>3. SerialInv(r) => NoEntryLost
  BY DEF SerialInv, AllKept
<1> QED BY <1>1, <1>2, <1>3, PTL DEF Spec

\* While requests come one after the other, the handlers implement the
\* editorial workflow: every statement they execute is one of its atomic steps
\* or changes neither a status nor a pointer.
THEOREM WorkflowImplemented ==
    ASSUME NEW r, Requests = {r}
    PROVE  Spec => ImplementsWorkflow
<1>1. Init => SerialInv(r) /\ Workflow!Init
  BY SerialStart
<1>2. SerialInv(r) /\ [Next]_vars =>
         SerialInv(r)' /\ [Workflow!Next]_Workflow!vars
  BY SerialNext
<1> QED BY <1>1, <1>2, PTL DEF Spec, ImplementsWorkflow, Workflow!Spec

=============================================================================
