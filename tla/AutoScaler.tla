------------------------------- MODULE AutoScaler -------------------------------
(***************************************************************************)
(* The auto-scaler of the export worker (scaling/auto-scaler.ts) as main   *)
(* wires it up: an interval starts polls, a poll awaits the queue size,    *)
(* decides, awaits the concurrency callback and then writes what it        *)
(* decided.  A slow query lets polls overlap.  The callback of main.ts     *)
(* returns without waiting for anything, so no time passes in it; but two  *)
(* polls whose queries are answered together still alternate there.        *)
(*                                                                         *)
(* Times are ages in poll intervals, counted up to the cooldown.           *)
(***************************************************************************)
EXTENDS Naturals, FiniteSets

CONSTANTS
    MinConcurrency, MaxConcurrency, Cooldown,
    Configured,             \* values of EXPORT_WORKER_CONCURRENCY
    Never,                  \* age of lastScaleAt while it is null
    Polls                   \* polls that can be in flight at once

VARIABLES
    scaler,                 \* currentConcurrency, and age of lastScaleAt
    poll,                   \* poll -> what it does next
    running,                \* the interval is set
    due,                    \* the interval is about to fire
    depth,                  \* the queue: above, between or below the thresholds
    overlapped              \* history: two polls decided before either wrote

scalerVars == <<scaler, poll, running, due, depth, overlapped>>

ASSUME BoundsAreNat == /\ MinConcurrency \in Nat /\ MaxConcurrency \in Nat
                       /\ MinConcurrency <= MaxConcurrency
ASSUME ConfiguredAreNat == Configured \subseteq Nat
ASSUME NeverIsNoAge == Never \notin Nat
ASSUME CooldownIsPositive == Cooldown \in Nat \ {0}

Off == [at |-> "off"]
Depths == {"above", "between", "below"}
Targets == MinConcurrency..MaxConcurrency
SinceScale == (0..Cooldown) \cup {Never}
Clamp(n) == IF n < MinConcurrency THEN MinConcurrency
            ELSE IF n > MaxConcurrency THEN MaxConcurrency ELSE n
Applying(ps) == {p \in ps : poll[p].at = "apply"}

-----------------------------------------------------------------------------
\* start, stop
StopScaler ==
    /\ running' = FALSE
    /\ due' = FALSE
    /\ UNCHANGED <<scaler, poll, depth, overlapped>>

\* The interval fires; it does not wait for earlier polls.
StartPoll(p) ==
    /\ running /\ due
    /\ poll[p] = Off
    /\ poll' = [poll EXCEPT ![p] = [at |-> "size"]]
    /\ due' = FALSE
    /\ UNCHANGED <<scaler, running, depth, overlapped>>

\* getQueueSize fails.
SizeUnknown(p) ==
    /\ poll[p].at = "size"
    /\ poll' = [poll EXCEPT ![p] = Off]
    /\ UNCHANGED <<scaler, running, due, depth, overlapped>>

\* Mutant: the cooldown is not awaited.
CooledAlways == scaler.since \in SinceScale
Cooled == scaler.since \in {Never, Cooldown}

\* Mutant: the bounds are not looked at.
UnboundedTargets(d) ==
    (IF d = "above" THEN {scaler.current + 1} ELSE {})
    \cup (IF d = "below" THEN {scaler.current - 1} ELSE {})

\* Mutant: the maximum itself is never reached.
TargetsShortOfMax(d) ==
    (IF d = "above" /\ scaler.current + 1 < MaxConcurrency
     THEN {scaler.current + 1} ELSE {})
    \cup (IF d = "below" /\ scaler.current > MinConcurrency
          THEN {scaler.current - 1} ELSE {})

\* What a poll that finds the queue at d scales to, if it scales.
NewTarget(d) ==
    (IF d = "above" /\ scaler.current < MaxConcurrency
     THEN {Clamp(scaler.current + 1)} ELSE {})
    \cup (IF d = "below" /\ scaler.current > MinConcurrency
          THEN {Clamp(scaler.current - 1)} ELSE {})

\* The size arrives: cooldown, then the two thresholds.
Decide(p) ==
    /\ poll[p].at = "size"
    /\ Cooled
    /\ \E target \in NewTarget(depth) :
          poll' = [poll EXCEPT ![p] = [at |-> "apply", target |-> target]]
    /\ overlapped' = (overlapped \/ Applying(Polls) # {})
    /\ UNCHANGED <<scaler, running, due, depth>>

LeaveAsIs(p) ==
    /\ poll[p].at = "size"
    /\ ~Cooled \/ NewTarget(depth) = {}
    /\ poll' = [poll EXCEPT ![p] = Off]
    /\ UNCHANGED <<scaler, running, due, depth, overlapped>>

\* applyScaling, after the callback: what was decided before it is written.
Apply(p) ==
    /\ poll[p].at = "apply"
    /\ scaler' = [current |-> poll[p].target, since |-> 0]
    /\ poll' = [poll EXCEPT ![p] = Off]
    /\ UNCHANGED <<running, due, depth, overlapped>>

\* The callback throws; nothing is written and no cooldown starts.
ApplyFails(p) ==
    /\ poll[p].at = "apply"
    /\ poll' = [poll EXCEPT ![p] = Off]
    /\ UNCHANGED <<scaler, running, due, depth, overlapped>>

\* The queue fills and drains.
QueueMoves ==
    /\ depth' \in Depths \ {depth}
    /\ UNCHANGED <<scaler, poll, running, due, overlapped>>

ScalerTick ==
    /\ Applying(Polls) = {}
    /\ due' = running
    /\ scaler' = IF scaler.since \in {Never, Cooldown} THEN scaler
                 ELSE [scaler EXCEPT !.since = @ + 1]
    /\ UNCHANGED <<poll, running, depth, overlapped>>

ScalerInit ==
    /\ \E initial \in Configured :
          scaler = [current |-> Clamp(initial), since |-> Never]
    /\ poll = [p \in Polls |-> Off]
    /\ running = TRUE
    /\ due = FALSE
    /\ depth \in Depths
    /\ overlapped = FALSE

ScalerNext ==
    \/ \E p \in Polls : \/ StartPoll(p) \/ SizeUnknown(p) \/ Decide(p)
                        \/ LeaveAsIs(p) \/ Apply(p) \/ ApplyFails(p)
    \/ QueueMoves

-----------------------------------------------------------------------------
(***************************************************************************)
(* Properties                                                              *)
(***************************************************************************)

\* The fields of the class have their types.
ScalerTypeOK ==
    /\ scaler \in [current : Nat, since : SinceScale]
    /\ poll \in [Polls -> {Off, [at |-> "size"]}
                          \cup [at : {"apply"}, target : Nat]]
    /\ running \in BOOLEAN /\ due \in BOOLEAN /\ overlapped \in BOOLEAN
    /\ depth \in Depths

\* Neither the concurrency nor what any poll in flight is about to make it
\* leaves the configured bounds, also when several polls decided on the same
\* old value (poll, applyScaling).
WithinBounds ==
    /\ scaler.current \in Targets
    /\ \A p \in Applying(Polls) : poll[p].target \in Targets

\* Neither concurrency nor a decision is ever out of bounds.  Concurrency moves
\* by one and not twice within a cooldown, unless two polls
\* decided before either of them wrote: "60 seconds between consecutive scale
\* operations" (auto-scaler.ts:11).
OneStepPerCooldown ==
    [][/\ ScalerTypeOK' /\ WithinBounds'
       /\ ~overlapped /\ scaler'.current # scaler.current =>
             /\ scaler.since \in {Never, Cooldown}
             /\ scaler'.current \in {scaler.current + 1, scaler.current - 1}
      ]_scalerVars

\* When the queue stays long, the concurrency reaches its maximum; when it
\* stays short, its minimum (poll, repeated by the interval).
ScalesWithTheQueue ==
    /\ <>[](running /\ depth = "above") => <>(scaler.current = MaxConcurrency)
    /\ <>[](running /\ depth = "below") => <>(scaler.current = MinConcurrency)
=============================================================================
