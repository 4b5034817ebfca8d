------------------------------ MODULE Notifications ------------------------------
(***************************************************************************)
(* The toasts of the web client (web/src/hooks/useNotifications.ts): a     *)
(* list, newest first, of at most MaxVisible, with one timer per toast     *)
(* that goes by itself and one more per toast, or one for all of them,     *)
(* that waits for the end of the exit animation.                           *)
(*                                                                         *)
(* Timers may fire in any order after they were set.                       *)
(***************************************************************************)
EXTENDS Naturals, Sequences, FiniteSets, Subsequences

CONSTANTS
    Toasts,                 \* ids; one is used again when nothing names it
    MaxVisible

ASSUME SomeAreVisible == MaxVisible \in Nat \ {0}

VARIABLES
    shown,                  \* notifications: ids, newest first
    exiting,                \* those with the exiting flag
    timers,                 \* timersRef: toasts that go by themselves
    leaving,                \* toasts whose removal after the animation is set
    clearing,               \* the removal of all is set
    staying                 \* toasts with duration 0

toastVars == <<shown, exiting, timers, leaving, clearing, staying>>

Shown == {shown[n] : n \in DOMAIN shown}
Fresh == Toasts \ (Shown \cup timers \cup leaving)
WithoutAll(ids) == Picked(shown, {n \in DOMAIN shown : shown[n] \notin ids})

\* Mutant: the timers of the kept ones are cleared.
TimersOfEvicted(next) ==
    timers \ {next[n] : n \in DOMAIN next \cap (1 .. MaxVisible)}

\* The timers of evicted toasts are cleared.
TimersAfter(next) ==
    timers \ {next[n] : n \in DOMAIN next \ (1 .. MaxVisible)}

\* Mutant: nothing is evicted.
Uncut(next) == next
Cut(next) == SubSeq(next, 1, IF Len(next) > MaxVisible THEN MaxVisible ELSE Len(next))

Notify(id, goes) ==
    LET next == <<id>> \o shown IN
    /\ id \in Fresh
    /\ shown' = Cut(next)
    /\ timers' = TimersAfter(next) \cup (IF goes THEN {id} ELSE {})
    /\ staying' = IF goes THEN staying \ {id} ELSE staying \cup {id}
    /\ exiting' = exiting \ {id}
    /\ UNCHANGED <<leaving, clearing>>

\* dismiss, by the user or by the timer of the toast.
Dismiss(id) ==
    /\ id \in Shown \/ id \in timers
    /\ timers' = timers \ {id}
    /\ exiting' = exiting \cup ({id} \cap Shown)
    /\ leaving' = leaving \cup {id}
    /\ UNCHANGED <<shown, clearing, staying>>

TimerFires(id) == id \in timers /\ Dismiss(id)

Leaves(id) ==
    /\ id \in leaving
    /\ leaving' = leaving \ {id}
    /\ shown' = WithoutAll({id})
    /\ UNCHANGED <<exiting, timers, clearing, staying>>

\* Mutant: the toasts are marked only.
MarkAll ==
    /\ timers' = {}
    /\ exiting' = exiting \cup Shown
    /\ UNCHANGED <<shown, leaving, clearing, staying>>

\* Bound: one removal of all is set at a time.
dismissAll ==
    /\ ~clearing
    /\ timers' = {}
    /\ exiting' = exiting \cup Shown
    /\ clearing' = TRUE
    /\ UNCHANGED <<shown, leaving, staying>>

\* Removes whatever is there by then.
ClearAll ==
    /\ clearing
    /\ clearing' = FALSE
    /\ shown' = <<>>
    /\ UNCHANGED <<exiting, timers, leaving, staying>>

-----------------------------------------------------------------------------
ToastsInit ==
    /\ shown = <<>>
    /\ exiting = {} /\ timers = {} /\ leaving = {}
    /\ clearing = FALSE
    /\ staying = {}

ToastsNext ==
    \/ \E id \in Toasts :
          \/ \E goes \in BOOLEAN : Notify(id, goes)
          \/ Dismiss(id) \/ Leaves(id)
    \/ dismissAll \/ ClearAll

\* Timers fire.
ToastsFairness ==
    /\ \A id \in Toasts : WF_toastVars(TimerFires(id)) /\ WF_toastVars(Leaves(id))
    /\ WF_toastVars(ClearAll)

ToastsSpec == ToastsInit /\ [][ToastsNext]_toastVars /\ ToastsFairness

-----------------------------------------------------------------------------
\* The list and the sets have their types; at most MaxVisible are shown, each
\* once.
ToastsTypeOK ==
    /\ shown \in Seq(Toasts)
    /\ Len(shown) = Cardinality(Shown) /\ Len(shown) <= MaxVisible
    /\ {exiting, timers, leaving, staying} \subseteq SUBSET Toasts
    /\ clearing \in BOOLEAN

\* No toast gets stuck: one that shows and does not stay by intention has its
\* timer or is on its way out, after any mix of evictions, dismissals and
\* dismissAll; and one that is on its way out has a removal ahead of it.
NoToastIsStuck ==
    /\ \A id \in Shown \ staying : id \in timers \cup exiting
    /\ \A id \in Shown \cap exiting : id \in leaving \/ clearing

\* Every toast that was shown with a duration goes at some time.
ToastsGo ==
    \A id \in Toasts : (id \in Shown \ staying) ~> (id \notin Shown)

\* At most MaxVisible toasts are shown, each once, and none is stuck: every
\* one that is to go has a timer or a removal ahead of it.
ToastsAreSound == ToastsTypeOK /\ NoToastIsStuck
=============================================================================
