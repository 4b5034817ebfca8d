------------------------------ MODULE MCApiProcess ------------------------------
(***************************************************************************)
(* Instances of ApiProcess for TLC.                                        *)
(***************************************************************************)
EXTENDS ApiProcess, TLC

CONSTANTS editor, ann, bob, s1, s2, default, c1, c2, t1, nda, rent, y1

\* Each user has a session of their own; s2 has a colon in its id.
MCSessionsOf == (ann :> {s1, default}) @@ (bob :> {s2, default})

MCPatches ==
    {[email |-> e, role |-> Null, status |-> "active"] : e \in Emails}
    \cup {[email |-> Null, role |-> editor, status |-> "inactive"]}

\* Two clauses, on two pages, and a template.
MCCatalogue == <<{c1, c2}, {t1}>>

\* A file that has a title twice and uses what may be there; one that makes
\* two templates; one that relies on clauses made before.
MCFiles ==
    {[clauses |-> <<nda, nda>>,
      templates |-> <<[title |-> rent, slots |-> {nda}]>>],
     [clauses |-> <<nda, rent>>,
      templates |-> <<[title |-> nda, slots |-> {nda, rent}],
                      [title |-> rent, slots |-> {rent}]>>],
     [clauses |-> << >>,
      templates |-> <<[title |-> nda, slots |-> {rent}]>>]}

\* Bound: export jobs name one of the style templates.
Exportable == {y1}

\* Bound: the parts share no state, so one of them takes steps while the
\* others are at rest.
UsersAtRest ==
    /\ \A i \in Ids : users[i] = Null
    /\ \A e \in Emails : accounts[e] = Null
    /\ \A r \in Callers : call[r] = Waiting
    /\ deleted = {} /\ ~disturbed
GateAtRest == UsersAtRest /\ SessionsInit /\ LimiterInit
StoresAtRest == SearchInit /\ LogoInit /\ ImportInit /\ BusInit

MCNext ==
    \/ /\ SessionsInit /\ LimiterInit /\ StoresAtRest
       /\ ProvisioningNext
       /\ UNCHANGED <<sessionVars, limiterVars, storeVars>>
    \/ /\ UsersAtRest /\ LimiterInit /\ StoresAtRest
       /\ SessionsNext
       /\ UNCHANGED <<provisioningVars, limiterVars, storeVars>>
    \/ /\ UsersAtRest /\ SessionsInit /\ StoresAtRest
       /\ LimiterNext
       /\ UNCHANGED <<provisioningVars, sessionVars, storeVars>>
    \/ /\ GateAtRest /\ LogoInit /\ ImportInit /\ BusInit
       /\ SearchNext
       /\ UNCHANGED <<gateVars, logoVars, importVars, busVars>>
    \/ /\ GateAtRest /\ SearchInit /\ ImportInit /\ BusInit
       /\ LogoNext
       /\ exported' \subseteq Exportable
       /\ UNCHANGED <<gateVars, searchVars, importVars, busVars>>
    \/ /\ GateAtRest /\ SearchInit /\ LogoInit /\ BusInit
       /\ ImportNext
       /\ UNCHANGED <<gateVars, searchVars, logoVars, busVars>>
    \/ /\ GateAtRest /\ SearchInit /\ LogoInit /\ ImportInit
       /\ BusNext
       /\ UNCHANGED <<gateVars, searchVars, logoVars, importVars>>

MCSpec == Init /\ [][MCNext]_apiVars

Symmetric == Permutations(Ids) \cup Permutations(Emails) \cup Permutations(Callers)
=============================================================================
