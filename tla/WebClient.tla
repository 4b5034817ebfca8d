-------------------------------- MODULE WebClient --------------------------------
(***************************************************************************)
(* The web client: the interview page, the toasts, the reordering of       *)
(* clauses, the review page with the version history, and the monitoring.  *)
(* Each keeps its own state; an event of the browser, a timer or an answer *)
(* changes one of them.                                                    *)
(***************************************************************************)
EXTENDS InterviewSession, Notifications, ClauseReorder, ReviewPage, RumPipeline

clientVars == <<interviewVars, toastVars, reorderVars, pageVars, rumVars>>

Init == InterviewInit /\ ToastsInit /\ ReorderInit /\ PagesInit /\ RumInit

InterviewStep ==
    InterviewNext /\ UNCHANGED <<toastVars, reorderVars, pageVars, rumVars>>
ToastsStep ==
    ToastsNext /\ UNCHANGED <<interviewVars, reorderVars, pageVars, rumVars>>
ReorderStep ==
    ReorderNext /\ UNCHANGED <<interviewVars, toastVars, pageVars, rumVars>>
PagesStep ==
    PagesNext /\ UNCHANGED <<interviewVars, toastVars, reorderVars, rumVars>>
RumStep ==
    RumNext /\ UNCHANGED <<interviewVars, toastVars, reorderVars, pageVars>>

Next == InterviewStep \/ ToastsStep \/ ReorderStep \/ PagesStep \/ RumStep

Spec == Init /\ [][Next]_clientVars /\ ToastsFairness
=============================================================================
