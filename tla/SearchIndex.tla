------------------------------- MODULE SearchIndex -------------------------------
(***************************************************************************)
(* The search indices of clauses and templates beside the database they    *)
(* are filled from (services/search/indexing-service.ts, reached by POST   *)
(* /reindex of modules/search/routes.ts).  Nothing else writes to them:    *)
(* indexClause, removeClause and their likes have no caller.               *)
(*                                                                         *)
(* What findMany returns of an entity, its row and its latest version, is  *)
(* numbered: 0 no row, 1 a row without a version, and from 2 on each       *)
(* change of either; the two queries that read them are taken as one.      *)
(* findMany has no orderBy: a page is any set of rows of the size that     *)
(* skip and take leave.  Rows are never deleted.                           *)
(***************************************************************************)
EXTENDS Naturals, Sequences, FiniteSets

CONSTANTS
    Catalogue,              \* <<the clauses, the templates>>
    PageSize,               \* REINDEX_BATCH_SIZE
    MaxChange,              \* bound: the last change of an entity
    Reindexers              \* bound: reindex requests in flight

ASSUME SearchLimits == {PageSize, MaxChange} \subseteq Nat \ {0}

Entries == UNION {Catalogue[k] : k \in DOMAIN Catalogue}
Changes == 0 .. MaxChange

\* No entity is of two kinds.
ASSUME CatalogueIsFinite ==
    /\ Catalogue \in Seq(SUBSET Entries) /\ Len(Catalogue) > 0
    /\ \A k \in DOMAIN Catalogue :
          /\ IsFiniteSet(Catalogue[k])
          /\ \A l \in DOMAIN Catalogue \ {k} : Catalogue[k] \cap Catalogue[l] = {}

VARIABLES
    row,                    \* entity -> what the database has
    document,               \* entity -> what its document was made from
    job,                    \* request -> where it is in its pages
    alone                   \* history: the last request if it ran alone, read no
                            \* entry twice and was refused none: what it read,
                            \* and row when it began

searchVars == <<row, document, job, alone>>

NoReindex == [kind |-> 0, at |-> "read", skip |-> 0, page |-> {}]
NoRows == [e \in Entries |-> 0]
Rows(k) == {e \in Catalogue[k] : row[e] > 0}
Least(a, b) == IF a < b THEN a ELSE b
Pages(k, size) == {page \in SUBSET Rows(k) : Cardinality(page) = size}

\* Mutant: a row without a version is indexed.
DocumentsOfAll(page) == page
\* A row without a version is passed over.
Documents(page) == {e \in page : row[e] > 1}

Running(j) == job[j] # NoReindex
Others(j) == \E i \in Reindexers \ {j} : Running(i)
NotAlone == [by |-> {}]
Alone(j) == alone # NotAlone /\ alone.by = j

-----------------------------------------------------------------------------
\* An entity is created or changed, or its latest version is.
Change(e) ==
    /\ row[e] < MaxChange
    /\ row' = [row EXCEPT ![e] = @ + 1]
    /\ UNCHANGED <<document, job, alone>>

Reindex(j) ==
    /\ ~Running(j)
    /\ job' = [job EXCEPT ![j] = [NoReindex EXCEPT !.kind = 1]]
    /\ alone' = IF Others(j) THEN NotAlone
                ELSE [by |-> j, seen |-> {}, atStart |-> row]
    /\ UNCHANGED <<row, document>>

\* The templates follow the clauses, then comes the answer.
NextKind(j) ==
    IF job[j].kind = Len(Catalogue) THEN NoReindex
    ELSE [NoReindex EXCEPT !.kind = job[j].kind + 1]

\* What was read of the entries of a page is kept until the bulk request.
ReadPage(j) ==
    LET k == job[j].kind
        rest == Cardinality(Rows(k)) - Least(job[j].skip, Cardinality(Rows(k)))
    IN
    /\ Running(j) /\ job[j].at = "read"
    /\ \E page \in Pages(k, Least(PageSize, rest)) :
          /\ job' = [job EXCEPT ![j] =
                IF page = {} THEN NextKind(j)
                ELSE [@ EXCEPT !.at = IF Cardinality(page) < PageSize THEN "last"
                                      ELSE "bulk",
                               !.page = {<<e, row[e]>> : e \in Documents(page)}]]
          /\ alone' = IF ~Alone(j) THEN alone
                      ELSE IF page \cap alone.seen # {} THEN NotAlone
                      ELSE [alone EXCEPT !.seen = @ \cup page]
    /\ UNCHANGED <<row, document>>

\* Mutant: a page without a document is taken for the end.
AfterPageStopping(j) ==
    IF job[j].at = "last" \/ job[j].page = {} THEN NextKind(j)
    ELSE [job[j] EXCEPT !.at = "read", !.skip = @ + PageSize, !.page = {}]
AfterPage(j) ==
    IF job[j].at = "last" THEN NextKind(j)
    ELSE [job[j] EXCEPT !.at = "read", !.skip = @ + PageSize, !.page = {}]

\* One bulk request, some items of which may be refused; none for an empty
\* page.
BulkIndex(j) ==
    /\ job[j].at \in {"bulk", "last"}
    /\ \E taken \in SUBSET job[j].page :
          /\ document' = [e \in Entries |->
                IF \E n \in Changes : <<e, n>> \in taken
                THEN CHOOSE n \in Changes : <<e, n>> \in taken
                ELSE document[e]]
          /\ alone' = IF taken = job[j].page THEN alone ELSE NotAlone
    /\ job' = [job EXCEPT ![j] = AfterPage(j)]
    /\ UNCHANGED row

\* findMany or the bulk request throws: the request is answered with 500.
ReindexFails(j) ==
    /\ Running(j)
    /\ job' = [job EXCEPT ![j] = NoReindex]
    /\ alone' = NotAlone
    /\ UNCHANGED <<row, document>>

-----------------------------------------------------------------------------
SearchInit ==
    /\ row = NoRows
    /\ document = NoRows
    /\ job = [j \in Reindexers |-> NoReindex]
    /\ alone = NotAlone

SearchNext ==
    \/ \E e \in Entries : Change(e)
    \/ \E j \in Reindexers :
          Reindex(j) \/ ReadPage(j) \/ BulkIndex(j) \/ ReindexFails(j)

-----------------------------------------------------------------------------
\* A document was made from something the database had, and never from a row
\* without a version.
IndexTypeOK ==
    /\ row \in [Entries -> Changes]
    /\ \A e \in Entries : document[e] \in {0} \cup (2 .. row[e])
    /\ \A j \in Reindexers :
          /\ job[j].kind \in 0 .. Len(Catalogue)
          /\ job[j].page \subseteq Entries \X Changes

\* A reindex that ran alone, read no entry twice and was refused none has left
\* every entity in the index that had a version when it began, in that state
\* or a later one, although rows came and changed between its pages.  (Without
\* an order of the pages an entry may come twice and another not at all.)
ReindexCovers ==
    alone # NotAlone /\ ~Running(alone.by) =>
        \A e \in Entries :
            alone.atStart[e] > 1 => document[e] >= alone.atStart[e]

\* Documents come from versions there were, and a sound reindex that ran alone
\* has left none out that was there when it began.
IndexIsSound == IndexTypeOK /\ ReindexCovers
=============================================================================
