------------------------------ MODULE ContentImport ------------------------------
(***************************************************************************)
(* POST /content/import (content/import.ts): the clauses and templates of  *)
(* a file are created in one transaction, next to other imports and to     *)
(* what editors create by hand.  The transaction reads what has been       *)
(* committed; nothing in the schema makes titles unique.                   *)
(*                                                                         *)
(* A clause is <<title, who created it, position in the file>>; a          *)
(* template has the clauses its slots were resolved to as well.  Versions  *)
(* and interview flows are created with them and stand for nothing more.   *)
(***************************************************************************)
EXTENDS Naturals, Sequences

CONSTANTS
    Titles,
    Files,                  \* inputs: [clauses: titles, templates: [title,
                            \* slots: titles, also of alternatives]]
    Importers,              \* requests; each imports once
    Hand                    \* an editor who creates without import

\* Bound: a file has at most three clauses.
ASSUME FilesAreImports ==
    \A file \in Files :
        /\ file.clauses \in Seq(Titles) /\ Len(file.clauses) <= 3
        /\ file.templates \in Seq([title : Titles, slots : SUBSET Titles])
ASSUME HandIsNoImporter == Hand \notin Importers

VARIABLES
    clauses, templates,     \* committed
    import,                 \* importer -> the state of its transaction
    overlap                 \* history: <<i, j>>: both were under way at once

importVars == <<clauses, templates, import, overlap>>

Positions == 1 .. 3
Clauses == Titles \X (Importers \cup {Hand}) \X Positions
NotBegun == [at |-> "idle"]
Over == [at |-> "over"]
UnderWay(j) == import[j].at = "import"
TitlesIn(rows) == {c[1] : c \in rows}

-----------------------------------------------------------------------------
CreateClause(t) ==
    /\ clauses' = clauses \cup {<<t, Hand, 1>>}
    /\ UNCHANGED <<templates, import, overlap>>

CreateTemplate(t) ==
    /\ templates' = templates \cup {<<t, Hand, 1, {}>>}
    /\ UNCHANGED <<clauses, import, overlap>>

\* Mutant: clauses are created whatever titles there are.
ToCreateAll(j, file) ==
    {<<file.clauses[n], j, n>> : n \in DOMAIN file.clauses}
\* Clauses with a title that was there when the import began are skipped;
\* one that comes twice in the file is created twice.
ToCreate(j, file) ==
    {<<file.clauses[n], j, n>> :
        n \in {m \in DOMAIN file.clauses :
                  file.clauses[m] \notin TitlesIn(clauses)}}

\* What a title stands for: the last clause created for it, else a clause
\* that was there (any of them: they are read in no order).
Candidates(created, t) ==
    LET own == {c \in created : c[1] = t} IN
    IF own = {} THEN {c \in clauses : c[1] = t}
    ELSE {c \in own : \A d \in own : d[3] <= c[3]}

\* Phase 1: the titles are read, the clauses created and titleToId filled.
ImportClauses(j, file) ==
    LET created == ToCreate(j, file)
        known == TitlesIn(clauses \cup created)
    IN
    /\ import[j] = NotBegun
    /\ \E titleToId \in [known -> clauses \cup created] :
          /\ \A t \in known : titleToId[t] \in Candidates(created, t)
          /\ import' = [import EXCEPT ![j] =
                [at |-> "import", file |-> file, clauses |-> created,
                 titleToId |-> titleToId, next |-> 1, templates |-> {}]]
    /\ overlap' = overlap \cup {<<i, j>> : i \in {i \in Importers : UnderWay(i)}}
    /\ UNCHANGED <<clauses, templates>>

Resolved(j, template) == {<<t, import[j].titleToId[t]>> : t \in template.slots}

\* Mutant: the template is created outside the transaction.
ImportTemplateAtOnce(j) ==
    LET template == import[j].file.templates[import[j].next] IN
    /\ UnderWay(j) /\ import[j].next <= Len(import[j].file.templates)
    /\ template.slots \subseteq DOMAIN import[j].titleToId
    /\ templates' = templates \cup
          {<<template.title, j, import[j].next, Resolved(j, template)>>}
    /\ import' = [import EXCEPT ![j].next = @ + 1]
    /\ UNCHANGED <<clauses, overlap>>

\* Mutant: a skipped template takes the next one with it.
ImportTemplateSkippingTwo(j) ==
    LET template == import[j].file.templates[import[j].next] IN
    /\ UnderWay(j) /\ import[j].next <= Len(import[j].file.templates)
    /\ template.title \in TitlesIn(templates \cup import[j].templates)
    /\ import' = [import EXCEPT ![j].next = @ + 2]
    /\ UNCHANGED <<clauses, templates, overlap>>

\* Phase 2: a template whose title is there, by now or from this import, is
\* skipped; else its slots are resolved and it is created.
ImportTemplate(j) ==
    LET template == import[j].file.templates[import[j].next] IN
    /\ UnderWay(j) /\ import[j].next <= Len(import[j].file.templates)
    /\ \/ /\ template.title \in TitlesIn(templates \cup import[j].templates)
          /\ import' = [import EXCEPT ![j].next = @ + 1]
       \/ /\ template.title \notin TitlesIn(templates \cup import[j].templates)
          /\ template.slots \subseteq DOMAIN import[j].titleToId
          /\ import' = [import EXCEPT ![j].next = @ + 1, ![j].templates = @ \cup
                {<<template.title, j, import[j].next, Resolved(j, template)>>}]
    /\ UNCHANGED <<clauses, templates, overlap>>

Commit(j) ==
    /\ UnderWay(j) /\ import[j].next > Len(import[j].file.templates)
    /\ clauses' = clauses \cup import[j].clauses
    /\ templates' = templates \cup import[j].templates
    /\ import' = [import EXCEPT ![j] = Over]
    /\ UNCHANGED overlap

\* A slot cannot be resolved, a statement fails or the process dies: the
\* transaction is rolled back.
ImportFails(j) ==
    /\ UnderWay(j)
    /\ import' = [import EXCEPT ![j] = Over]
    /\ UNCHANGED <<clauses, templates, overlap>>

-----------------------------------------------------------------------------
ImportInit ==
    /\ clauses = {} /\ templates = {} /\ overlap = {}
    /\ import = [j \in Importers |-> NotBegun]

ImportNext ==
    \/ \E t \in Titles : CreateClause(t) \/ CreateTemplate(t)
    \/ \E j \in Importers :
          \/ \E file \in Files : ImportClauses(j, file)
          \/ ImportTemplate(j) \/ Commit(j) \/ ImportFails(j)

-----------------------------------------------------------------------------
\* Rows have their types, and an import goes through its templates one by one
\* to the end of the file.
ImportTypeOK ==
    /\ clauses \subseteq Clauses
    /\ \A t \in templates : t[1] \in Titles /\ t[4] \subseteq Titles \X Clauses
    /\ \A j \in Importers :
          UnderWay(j) => import[j].next \in 1 .. Len(import[j].file.templates) + 1

\* Every slot of a template is a clause that is there and has the title the
\* file asked for, although clauses are created in a transaction that may be
\* rolled back and others import the same titles meanwhile.
SlotsResolve ==
    \A t \in templates : \A slot \in t[4] :
        slot[2] \in clauses /\ slot[2][1] = slot[1]

Explained(a, b) ==
    \/ a[2] = Hand \/ b[2] = Hand
    \/ <<a[2], b[2]>> \in overlap \/ <<b[2], a[2]>> \in overlap

\* Two clauses, or two templates, have one title only if a hand made one of
\* them, the imports that made them overlapped or, for clauses, one file has
\* the title twice.
ImportedOnce ==
    /\ \A a, b \in clauses :
          a # b /\ a[1] = b[1] => Explained(a, b) \/ a[2] = b[2]
    /\ \A a, b \in templates : a # b /\ a[1] = b[1] => Explained(a, b)

\* Slots of templates resolve to the clauses they ask for, and no title is
\* imported twice unless imports overlapped or a file repeats it.
ImportsAreSound == ImportTypeOK /\ SlotsResolve /\ ImportedOnce
=============================================================================
