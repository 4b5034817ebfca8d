------------------------------- MODULE MCWebClient -------------------------------
(***************************************************************************)
(* Instances of WebClient for TLC.                                         *)
(***************************************************************************)
EXTENDS WebClient, TLC

CONSTANTS k1, k2, yes, no, text, a1, a2, a3, b1, b2

\* The second question shows for one of the answers to the first.
MCQuestions == <<k1, k2>>
MCValuesOf == (k1 :> {yes, no}) @@ (k2 :> {text})
MCConditions ==
    (k1 :> {}) @@ (k2 :> {[key |-> k1, operator |-> "is_truthy"],
                          [key |-> k1, operator |-> "equals", value |-> yes],
                          [key |-> k1, operator |-> "not_equals", value |-> no]})

MCSections == << <<a1, a2, a3>>, <<b1, b2>> >>

\* Bound: the parts share no state, so one of them takes steps while the
\* others are as they were at the start.
MCNext ==
    \/ /\ ToastsInit /\ ReorderInit /\ PagesInit /\ RumInit
       /\ InterviewStep
    \/ /\ InterviewInit /\ ReorderInit /\ PagesInit /\ RumInit
       /\ ToastsStep
    \/ /\ InterviewInit /\ ToastsInit /\ PagesInit /\ RumInit
       /\ ReorderStep
    \/ /\ InterviewInit /\ ToastsInit /\ ReorderInit /\ RumInit
       /\ PagesStep
    \/ /\ InterviewInit /\ ToastsInit /\ ReorderInit /\ PagesInit
       /\ RumStep

MCSpec == Init /\ [][MCNext]_clientVars /\ ToastsFairness
=============================================================================
