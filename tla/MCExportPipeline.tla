--------------------------- MODULE MCExportPipeline ---------------------------
(***************************************************************************)
(* Instances of ExportPipeline for TLC.                                    *)
(***************************************************************************)
EXTENDS ExportPipeline, TLC

\* The first contract; which of the possible ones it is does not matter.
InitFirst == Init /\ contract = CHOOSE document \in Documents : TRUE
SpecFirst == InitFirst /\ [][Next]_vars
FairSpecFirst == SpecFirst /\ Fairness

\* Bounds of the run that looks at documents and at operators: either two jobs
\* are exported while the contract is edited, or two operators have one job
\* failed, retried and archived while the contract stays as it is.
EditsOrOperators ==
    \/ /\ \A j \in Jobs : status[j] \notin {"failed", "archived"}
       /\ Cardinality({c \in Callers : caller[c] # Idle}) <= 1
       /\ Len(queue) <= 2
    \/ /\ Cardinality({j \in Jobs : status[j] # "none"}) <= 1
       /\ \A j \in Jobs : Cardinality(since[j]) <= 1

WorkerSymmetry == Permutations(Workers) \cup Permutations(Jobs)
                  \cup Permutations(Callers)
=============================================================================
