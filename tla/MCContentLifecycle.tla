-------------------------- MODULE MCContentLifecycle --------------------------
(***************************************************************************)
(* Instances of ContentLifecycle for TLC.                                  *)
(***************************************************************************)
EXTENDS ContentLifecycle, FiniteSets, TLC

CONSTANTS c1, tpl

\* A clause without requirements, or a template that requires c1.
RefsToFirst == {{}, {c1}}

NoRefs == {{}}

\* The same behaviours from the state in which all entities have just been
\* created and none of the requests that did it is still running.
InitCreated ==
    /\ entities = Entities
    /\ row = [v \in {} |-> NoVersion]
    /\ current = [e \in Entities |-> NoVersion]
    /\ req = [r \in Requests |-> Idle]
    /\ audit = {<<"create", e>> : e \in Entities}
    /\ acked = [v \in VersionIds |-> 0]

SpecCreated == InitCreated /\ [][Next]_vars

\* Bounds of the run with concurrent requests: as soon as there is a second
\* version, or a request inserts one, nobody decides or logs a change.
EntriesOfOneVersion ==
    \/ Cardinality(DOMAIN row) <= 1 /\ \A r \in Requests : req[r].at # "insert"
    \/ /\ \A v \in DOMAIN row : acked[v] = 0 /\ row[v].meta = <<>>
       /\ \A r \in Requests : req[r].at \notin {"decide", "changelog"}

\* Bounds of the runs with a template: one version per entity; the template
\* requires the clause and the clause requires nothing.
OneVersionEach ==
    \A v \in DOMAIN row :
        /\ row[v].number = 1
        /\ row[v].refs = IF row[v].entity \in Templates THEN {c1} ELSE {}

\* Bound of the same run: the clause is created before the template and
\* everything else follows both; no record of a creation is lost.
CreatedFirst ==
    /\ tpl \in entities => c1 \in entities
    /\ entities # Entities => DOMAIN row = {}
    /\ \A e \in entities : \/ <<"create", e>> \in audit
                           \/ \E r \in Requests : /\ req[r].at = "audit"
                                                  /\ req[r].entry[2] = e

FullSymmetry == Permutations(VersionIds) \cup Permutations(Users)
                \cup Permutations(Requests)
=============================================================================
