------------------------------- MODULE ApiProcess -------------------------------
(***************************************************************************)
(* What the API keeps beside the editorial workflow, the contracts and the *)
(* exports: the users and their Keycloak accounts, the sessions and the    *)
(* rate limiter of the process, the search indices, the logos, imports and *)
(* the event bus.  Each has a state of its own, which one of its own       *)
(* requests or timers changes.                                             *)
(***************************************************************************)
EXTENDS UserProvisioning, SessionHardening, RateLimiter, SearchIndex, LogoStore,
        ContentImport, DomainEvents

gateVars == <<provisioningVars, sessionVars, limiterVars>>
storeVars == <<searchVars, logoVars, importVars, busVars>>
apiVars == <<gateVars, storeVars>>

Init ==
    /\ ProvisioningInit /\ SessionsInit /\ LimiterInit
    /\ SearchInit /\ LogoInit /\ ImportInit /\ BusInit

Next ==
    \/ ProvisioningNext /\ UNCHANGED <<sessionVars, limiterVars, storeVars>>
    \/ SessionsNext /\ UNCHANGED <<provisioningVars, limiterVars, storeVars>>
    \/ LimiterNext /\ UNCHANGED <<provisioningVars, sessionVars, storeVars>>
    \/ SearchNext /\ UNCHANGED <<gateVars, logoVars, importVars, busVars>>
    \/ LogoNext /\ UNCHANGED <<gateVars, searchVars, importVars, busVars>>
    \/ ImportNext /\ UNCHANGED <<gateVars, searchVars, logoVars, busVars>>
    \/ BusNext /\ UNCHANGED <<gateVars, searchVars, logoVars, importVars>>

Spec == Init /\ [][Next]_apiVars
=============================================================================
