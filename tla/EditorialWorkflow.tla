--------------------------- MODULE EditorialWorkflow ---------------------------
(***************************************************************************)
(* What the content module promises about the status of a version and the  *)
(* currentPublishedVersionId of its entity: a version is drafted, reviewed *)
(* and approved before it is published, is published by the step that      *)
(* makes it current, and once published it can only be deprecated.  Every  *)
(* step is atomic; ContentLifecycle is the handlers that implement it.     *)
(***************************************************************************)
CONSTANTS Clauses, Templates, VersionIds, NoVersion

VARIABLES status, current

vars == <<status, current>>

Draft(v) ==
    /\ status[v] = "none"
    /\ status' = [status EXCEPT ![v] = "draft"]
    /\ UNCHANGED current

Submit(v) ==
    /\ status[v] = "draft"
    /\ status' = [status EXCEPT ![v] = "review"]
    /\ UNCHANGED current

Approve(v) ==
    /\ status[v] = "review"
    /\ status' = [status EXCEPT ![v] = "approved"]
    /\ UNCHANGED current

SendBack(v) ==
    /\ status[v] \in {"review", "approved"}
    /\ status' = [status EXCEPT ![v] = "draft"]
    /\ UNCHANGED current

Publish(v, e) ==
    /\ status[v] = "approved"
    /\ status' = [status EXCEPT ![v] = "published"]
    /\ current' = [current EXCEPT ![e] = v]

Deprecate(v) ==
    /\ status[v] = "published"
    /\ status' = [status EXCEPT ![v] = "deprecated"]
    /\ UNCHANGED current

Init ==
    /\ status = [v \in VersionIds |-> "none"]
    /\ current = [e \in Clauses \cup Templates |-> NoVersion]

Next == \E v \in VersionIds :
    \/ Draft(v) \/ Submit(v) \/ Approve(v) \/ SendBack(v) \/ Deprecate(v)
    \/ \E e \in Clauses \cup Templates : Publish(v, e)

Spec == Init /\ [][Next]_vars
=============================================================================
