------------------------------ MODULE ClauseReorder ------------------------------
(***************************************************************************)
(* The panel that reorders the clauses of a template's sections            *)
(* (web/src/components/ClauseReorderPanel.tsx) by drag and drop and by     *)
(* keys.  The order is taken from the sections when the panel is mounted   *)
(* and is reported to its owner with every change.                         *)
(***************************************************************************)
EXTENDS Naturals, Sequences, FiniteSets

CONSTANTS
    Sections,               \* section -> its clauses in the template's order
    Required,               \* clauses in slots of type required
    NoSlot                  \* nothing dragged, hovered or focused

ASSUME ClausesAreDistinct ==
    \A s \in DOMAIN Sections :
        /\ Sections[s] \in Seq({Sections[s][n] : n \in DOMAIN Sections[s]})
        /\ \A m, n \in DOMAIN Sections[s] :
              Sections[s][m] = Sections[s][n] => m = n

VARIABLES
    order,                  \* sectionOrders
    drag,                   \* dragSectionIdx, dragSlotId
    over,                   \* dragOverSlotId
    focus,                  \* focusedSection, focusedSlotIdx
    reported                \* what onReorder was last told of a section

reorderVars == <<order, drag, over, focus, reported>>

Indices(s) == DOMAIN order[s]
Clauses(s) == {order[s][n] : n \in Indices(s)}
IndexOf(s, clause) == CHOOSE n \in Indices(s) : order[s][n] = clause
isDraggable(clause) == clause \notin Required

\* Mutant: the clause is copied to its new place.
Copied(sequence, from, to) == [sequence EXCEPT ![to] = sequence[from]]
\* Mutant: dragging exchanges the two clauses.
Swapped(sequence, from, to) ==
    [sequence EXCEPT ![to] = sequence[from], ![from] = sequence[to]]

\* splice(from, 1), then splice(to, 0, clause).
Spliced(sequence, from, to) ==
    LET rest == SubSeq(sequence, 1, from - 1)
                \o SubSeq(sequence, from + 1, Len(sequence))
    IN SubSeq(rest, 1, to - 1) \o <<sequence[from]>>
       \o SubSeq(rest, to, Len(rest))

Exchanged(sequence, from, to) ==
    [sequence EXCEPT ![to] = sequence[from], ![from] = sequence[to]]

applyNewOrder(s, next) ==
    /\ order' = [order EXCEPT ![s] = next]
    /\ reported' = [reported EXCEPT ![s] = next]

-----------------------------------------------------------------------------
DragStart(s) ==
    /\ drag = NoSlot
    /\ \E clause \in Clauses(s) :
          isDraggable(clause) /\ drag' = [section |-> s, clause |-> clause]
    /\ UNCHANGED <<order, over, focus, reported>>

\* Within the section only.
DragOver(s) ==
    /\ drag # NoSlot /\ drag.section = s
    /\ over' \in Clauses(s) \cup {NoSlot}
    /\ UNCHANGED <<order, drag, focus, reported>>

resetDragState == drag' = NoSlot /\ over' = NoSlot

\* The browser drops on what it is over and hovers no longer.
Drop(s) ==
    /\ drag # NoSlot /\ drag.section = s /\ over # NoSlot
    /\ IF over = drag.clause THEN UNCHANGED <<order, reported>>
       ELSE applyNewOrder(s, Spliced(order[s], IndexOf(s, drag.clause),
                                     IndexOf(s, over)))
    /\ resetDragState
    /\ UNCHANGED focus

DragEnd ==
    /\ drag # NoSlot
    /\ resetDragState
    /\ UNCHANGED <<order, focus, reported>>

Focus(s) ==
    /\ \E n \in Indices(s) : focus' = [section |-> s, index |-> n]
    /\ UNCHANGED <<order, drag, over, reported>>

Neighbours(s, n) == {n - 1, n + 1} \cap Indices(s)
\* Alt and an arrow: the clause changes places with its neighbour, of
\* whatever type that is, and keeps the focus.
MoveByKey ==
    /\ focus # NoSlot
    /\ LET s == focus.section
           n == focus.index
       IN \E m \in Neighbours(s, n) :
             /\ isDraggable(order[s][n])
             /\ applyNewOrder(s, Exchanged(order[s], n, m))
             /\ focus' = [focus EXCEPT !.index = m]
    /\ UNCHANGED <<drag, over>>

\* An arrow alone.
FocusByKey ==
    /\ focus # NoSlot
    /\ \E m \in Neighbours(focus.section, focus.index) :
          focus' = [focus EXCEPT !.index = m]
    /\ UNCHANGED <<order, drag, over, reported>>

-----------------------------------------------------------------------------
ReorderInit ==
    /\ order = Sections
    /\ drag = NoSlot /\ over = NoSlot /\ focus = NoSlot
    /\ reported = Sections

ReorderNext ==
    \/ \E s \in DOMAIN Sections : DragStart(s) \/ DragOver(s) \/ Drop(s) \/ Focus(s)
    \/ DragEnd \/ MoveByKey \/ FocusByKey

ReorderSpec == ReorderInit /\ [][ReorderNext]_reorderVars

-----------------------------------------------------------------------------
\* Every section keeps exactly its clauses, however they were moved, the owner
\* knows the order that is shown, and focus and drag name slots there are.
ReorderTypeOK ==
    /\ DOMAIN order = DOMAIN Sections /\ reported = order
    /\ \A s \in DOMAIN Sections :
          /\ Len(order[s]) = Len(Sections[s])
          /\ Clauses(s) = {Sections[s][n] : n \in DOMAIN Sections[s]}
    /\ drag # NoSlot => drag.section \in DOMAIN Sections
                        /\ drag.clause \in Clauses(drag.section) \ Required
    /\ focus # NoSlot => focus.section \in DOMAIN Sections
                         /\ focus.index \in Indices(focus.section)

Before(sequence, a, b) ==
    \E m, n \in DOMAIN sequence :
        m < n /\ sequence[m] = a /\ sequence[n] = b

\* The sections keep their clauses and the owner knows their order
\* (ReorderTypeOK).  One move takes one clause, which is not of a required slot, to another
\* place of its section; all the others keep their order among each other
\* (the two splices of handleDrop, whose second index is not adjusted, and
\* the exchange by keys).
OneClauseMoves ==
    [][/\ ReorderTypeOK'
       /\ \A s \in DOMAIN Sections : order'[s] # order[s] =>
             \E moved \in Clauses(s) \ Required :
                 \A a, b \in Clauses(s) \ {moved} :
                     Before(order[s], a, b) = Before(order'[s], a, b)]_reorderVars
=============================================================================
