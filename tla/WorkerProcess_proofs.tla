-------------------------- MODULE WorkerProcess_proofs --------------------------
(***************************************************************************)
(* Proofs about the worker's process: the auto-scaler with any number of   *)
(* overlapping polls, and the template cache for any versions, files,      *)
(* sizes, capacity, memory limit and TTL.                                  *)
(***************************************************************************)
EXTENDS WorkerProcess, Subsequences_proofs

-----------------------------------------------------------------------------
(***************************************************************************)
(* The auto-scaler.  A decision is as good as the state it was made in;    *)
(* ScalerInv says that this state is still there when the decision is      *)
(* written, as long as polls do not overlap.                               *)
(***************************************************************************)
PollStates == {Off, [at |-> "size"]} \cup [at : {"apply"}, target : Nat]

\* A poll that alone decided finds what it decided on.
DecisionHolds(p) ==
    /\ Applying(Polls) = {p}
    /\ scaler.since \in {Never, Cooldown}
    /\ poll[p].target \in {scaler.current + 1, scaler.current - 1}

ScalerInv ==
    /\ ScalerTypeOK
    /\ WithinBounds
    /\ ~overlapped => \A p \in Applying(Polls) : DecisionHolds(p)

\* The states of a poll can be told apart.
LEMMA PollKinds ==
    /\ Off \in PollStates /\ [at |-> "size"] \in PollStates
    /\ \A target \in Nat : [at |-> "apply", target |-> target] \in PollStates
    /\ Off.at = "off"
    /\ \A s \in PollStates : s.at = "apply" => s.target \in Nat
BY DEF PollStates, Off

\* What can be decided is one step away and within the bounds.
LEMMA NewTargets ==
    ASSUME scaler.current \in Targets, NEW d, NEW target \in NewTarget(d)
    PROVE  /\ target \in Targets /\ target \in Nat
           /\ target \in {scaler.current + 1, scaler.current - 1}
<1>1. /\ MinConcurrency \in Nat /\ MaxConcurrency \in Nat
      /\ scaler.current \in MinConcurrency .. MaxConcurrency
  BY BoundsAreNat DEF Targets
<1>2. \/ scaler.current < MaxConcurrency /\ target = Clamp(scaler.current + 1)
      \/ scaler.current > MinConcurrency /\ target = Clamp(scaler.current - 1)
  BY DEF NewTarget
<1>3. CASE scaler.current < MaxConcurrency /\ target = Clamp(scaler.current + 1)
  BY <1>1, <1>3 DEF Clamp, Targets
<1>4. CASE scaler.current > MinConcurrency /\ target = Clamp(scaler.current - 1)
  BY <1>1, <1>4 DEF Clamp, Targets
<1> QED BY <1>2, <1>3, <1>4

\* A step of one poll moves no other one.
LEMMA NextPoll ==
    ASSUME ScalerTypeOK, NEW p \in Polls, NEW s \in PollStates,
           poll' = [poll EXCEPT ![p] = s]
    PROVE  /\ poll' \in [Polls -> PollStates] /\ poll'[p] = s
           /\ \A q \in Polls \ {p} : poll'[q] = poll[q]
           /\ s.at # "apply" => Applying(Polls)' = Applying(Polls) \ {p}
           /\ s.at = "apply" => Applying(Polls)' = Applying(Polls) \cup {p}
<1>1. poll \in [Polls -> PollStates]
  BY DEF ScalerTypeOK, PollStates
<1>2. /\ poll' \in [Polls -> PollStates] /\ poll'[p] = s
      /\ \A q \in Polls \ {p} : poll'[q] = poll[q]
  BY <1>1
<1>3. \A q : q \in Applying(Polls)' <=> q \in Polls /\ poll'[q].at = "apply"
  BY DEF Applying
<1>4. \A q : q \in Applying(Polls) <=> q \in Polls /\ poll[q].at = "apply"
  BY DEF Applying
<1> QED BY <1>2, <1>3, <1>4

\* A step in which no poll comes to apply anything and nothing is written.
LEMMA NothingDecided ==
    ASSUME ScalerInv, poll' \in [Polls -> PollStates],
           Applying(Polls)' \subseteq Applying(Polls),
           \A q \in Applying(Polls)' : poll'[q] = poll[q],
           scaler' = scaler, overlapped' = overlapped,
           running' \in BOOLEAN, due' \in BOOLEAN, depth' \in Depths
    PROVE  ScalerInv'
<1>1. ScalerTypeOK'
  BY DEF ScalerInv, ScalerTypeOK, PollStates
<1>2. WithinBounds'
  BY DEF ScalerInv, WithinBounds
<1>3. ASSUME ~overlapped', NEW p \in Applying(Polls)' PROVE DecisionHolds(p)'
  <2>1. DecisionHolds(p)
    BY <1>3 DEF ScalerInv
  <2>2. Applying(Polls)' = {p}
    BY <1>3, <2>1 DEF DecisionHolds
  <2> QED BY <1>3, <2>1, <2>2 DEF DecisionHolds
<1> QED BY <1>1, <1>2, <1>3 DEF ScalerInv

\* Polls that start, find no size or leave the concurrency as it is, and a
\* callback that throws.
LEMMA PollsOnlyKeep ==
    ASSUME ScalerInv, NEW p \in Polls,
           StartPoll(p) \/ SizeUnknown(p) \/ LeaveAsIs(p) \/ ApplyFails(p)
    PROVE  ScalerInv'
<1>1. PICK s \in {Off, [at |-> "size"]} :
         /\ poll' = [poll EXCEPT ![p] = s]
         /\ UNCHANGED <<scaler, running, depth, overlapped>>
         /\ due' \in {due, FALSE}
  BY DEF StartPoll, SizeUnknown, LeaveAsIs, ApplyFails
<1>2. s \in PollStates /\ s.at # "apply"
  BY <1>1, PollKinds
<1>3. /\ poll' \in [Polls -> PollStates]
      /\ \A q \in Polls \ {p} : poll'[q] = poll[q]
      /\ Applying(Polls)' = Applying(Polls) \ {p}
  BY <1>1, <1>2, NextPoll DEF ScalerInv
<1>4. \A q \in Applying(Polls)' : poll'[q] = poll[q]
  BY <1>3 DEF Applying
<1>5. running' \in BOOLEAN /\ due' \in BOOLEAN /\ depth' \in Depths
  BY <1>1 DEF ScalerInv, ScalerTypeOK
<1> QED BY <1>1, <1>3, <1>4, <1>5, NothingDecided

\* A poll decides.
LEMMA DecideKeeps ==
    ASSUME ScalerInv, NEW p \in Polls, Decide(p)
    PROVE  ScalerInv'
<1>1. PICK target \in NewTarget(depth) :
         poll' = [poll EXCEPT ![p] = [at |-> "apply", target |-> target]]
  BY DEF Decide
<1>2. /\ poll[p].at = "size" /\ scaler.since \in {Never, Cooldown}
      /\ overlapped' = (overlapped \/ Applying(Polls) # {})
      /\ UNCHANGED <<scaler, running, due, depth>>
  BY DEF Decide, Cooled
<1>3. /\ target \in Targets /\ target \in Nat
      /\ target \in {scaler.current + 1, scaler.current - 1}
  BY NewTargets DEF ScalerInv, WithinBounds
<1>4. PICK s : s = [at |-> "apply", target |-> target]
  OBVIOUS
<1>5. s \in PollStates /\ s.at = "apply" /\ s.target = target
  BY <1>3, <1>4, PollKinds
<1>6. /\ poll' \in [Polls -> PollStates] /\ poll'[p] = s
      /\ \A q \in Polls \ {p} : poll'[q] = poll[q]
      /\ Applying(Polls)' = Applying(Polls) \cup {p}
  BY <1>1, <1>4, <1>5, NextPoll DEF ScalerInv
<1>7. ScalerTypeOK'
  BY <1>2, <1>6 DEF ScalerInv, ScalerTypeOK, PollStates
<1>8. WithinBounds'
  <2>1. Targets' = Targets
    BY DEF Targets
  <2>2. \A q \in Applying(Polls)' : poll'[q].target \in Targets
    BY <1>3, <1>5, <1>6 DEF ScalerInv, WithinBounds, Applying
  <2> QED BY <1>2, <2>1, <2>2 DEF ScalerInv, WithinBounds
<1>9. ASSUME ~overlapped', NEW q \in Applying(Polls)' PROVE DecisionHolds(q)'
  <2>1. Applying(Polls)' = {p} /\ q = p
    BY <1>2, <1>6, <1>9
  <2> QED BY <1>2, <1>3, <1>5, <1>6, <2>1 DEF DecisionHolds
<1> QED BY <1>7, <1>8, <1>9 DEF ScalerInv

\* A decision is written.
LEMMA ApplyKeeps ==
    ASSUME ScalerInv, NEW p \in Polls, Apply(p)
    PROVE  ScalerInv'
<1>1. /\ poll[p].at = "apply" /\ p \in Applying(Polls)
      /\ scaler' = [current |-> poll[p].target, since |-> 0]
      /\ poll' = [poll EXCEPT ![p] = Off]
      /\ UNCHANGED <<running, due, depth, overlapped>>
  BY DEF Apply, Applying
<1>2. /\ poll' \in [Polls -> PollStates]
      /\ \A q \in Polls \ {p} : poll'[q] = poll[q]
      /\ Applying(Polls)' = Applying(Polls) \ {p}
  BY <1>1, PollKinds, NextPoll DEF ScalerInv
<1>3. poll[p].target \in Targets /\ poll[p].target \in Nat
  BY <1>1, BoundsAreNat DEF ScalerInv, WithinBounds, Targets
<1>4. scaler' \in [current : Nat, since : SinceScale] /\ scaler'.current \in Targets
  BY <1>1, <1>3, CooldownIsPositive DEF SinceScale
<1>5. ScalerTypeOK'
  BY <1>1, <1>2, <1>4 DEF ScalerInv, ScalerTypeOK, PollStates
<1>6. WithinBounds'
  <2>1. Targets' = Targets
    BY DEF Targets
  <2>2. \A q \in Applying(Polls)' : poll'[q].target \in Targets
    BY <1>2 DEF ScalerInv, WithinBounds, Applying
  <2> QED BY <1>4, <2>1, <2>2 DEF WithinBounds
<1>7. ~overlapped' => Applying(Polls)' = {}
  BY <1>1, <1>2 DEF ScalerInv, DecisionHolds
<1> QED BY <1>5, <1>6, <1>7 DEF ScalerInv

\* The queue moves, the scaler is stopped, or nothing of it changes.
LEMMA PollsRest ==
    ASSUME ScalerInv, QueueMoves \/ StopScaler \/ UNCHANGED scalerVars
    PROVE  ScalerInv'
<1>1. /\ poll' = poll /\ scaler' = scaler /\ overlapped' = overlapped
      /\ running' \in BOOLEAN /\ due' \in BOOLEAN /\ depth' \in Depths
  BY DEF ScalerInv, ScalerTypeOK, QueueMoves, StopScaler, scalerVars
<1>2. poll' \in [Polls -> PollStates] /\ Applying(Polls)' = Applying(Polls)
  BY <1>1 DEF ScalerInv, ScalerTypeOK, PollStates, Applying
<1> QED BY <1>1, <1>2, NothingDecided

\* Time passes.
LEMMA ScalerTickKeeps ==
    ASSUME ScalerInv, ScalerTick
    PROVE  ScalerInv'
<1>1. /\ Applying(Polls) = {} /\ due' = running
      /\ UNCHANGED <<poll, running, depth, overlapped>>
      /\ scaler' = IF scaler.since \in {Never, Cooldown} THEN scaler
                   ELSE [scaler EXCEPT !.since = @ + 1]
  BY DEF ScalerTick
<1>2. scaler \in [current : Nat, since : SinceScale] /\ scaler.since \in SinceScale
  BY DEF ScalerInv, ScalerTypeOK
<1>3. scaler.since \notin {Never, Cooldown} => scaler.since + 1 \in SinceScale
  BY <1>2, CooldownIsPositive DEF SinceScale
<1>4. /\ scaler' \in [current : Nat, since : SinceScale]
      /\ scaler'.current = scaler.current
  BY <1>1, <1>2, <1>3
<1>5. ScalerTypeOK'
  BY <1>1, <1>4 DEF ScalerInv, ScalerTypeOK
<1>6. Applying(Polls)' = {}
  BY <1>1 DEF Applying
<1>7. WithinBounds'
  BY <1>4, <1>6 DEF ScalerInv, WithinBounds, Targets
<1> QED BY <1>5, <1>6, <1>7 DEF ScalerInv

\* The invariant holds at the start.
LEMMA ScalerStart ==
    ASSUME ScalerInit
    PROVE  ScalerInv
<1>1. PICK initial \in Configured : scaler = [current |-> Clamp(initial), since |-> Never]
  BY DEF ScalerInit
<1>2. initial \in Nat
  BY ConfiguredAreNat
<1>3. Clamp(initial) \in Targets /\ Clamp(initial) \in Nat
  BY <1>2, BoundsAreNat DEF Clamp, Targets
<1>4. poll \in [Polls -> PollStates] /\ Applying(Polls) = {}
  BY PollKinds DEF ScalerInit, Applying
<1>5. ScalerTypeOK
  BY <1>1, <1>3, <1>4 DEF ScalerInit, ScalerTypeOK, PollStates, SinceScale
<1> QED BY <1>1, <1>3, <1>4, <1>5 DEF ScalerInv, WithinBounds

\* Every step keeps the invariant.
LEMMA ScalerStep == ScalerInv /\ [Next]_processVars => ScalerInv'
<1> SUFFICES ASSUME ScalerInv, [Next]_processVars PROVE ScalerInv'
  OBVIOUS
<1>1. \/ UNCHANGED scalerVars \/ ScalerNext \/ ScalerTick \/ StopScaler
  BY DEF Next, processVars, Tick, Shutdown
<1> QED BY <1>1, PollsOnlyKeep, DecideKeeps, ApplyKeeps, PollsRest, ScalerTickKeeps
           DEF ScalerNext

\* Only a decision that is written moves the concurrency.
LEMMA OnlyApplyMoves ==
    ASSUME ScalerInv, [Next]_processVars, scaler'.current # scaler.current
    PROVE  \E p \in Polls : Apply(p)
<1>1. \/ UNCHANGED scalerVars \/ ScalerNext \/ ScalerTick \/ StopScaler
  BY DEF Next, processVars, Tick, Shutdown
<1>2. CASE UNCHANGED scalerVars \/ StopScaler
  BY <1>2 DEF scalerVars, StopScaler
<1>3. CASE ScalerTick
  <2>1. scaler \in [current : Nat, since : SinceScale]
    BY DEF ScalerInv, ScalerTypeOK
  <2> QED BY <1>3, <2>1 DEF ScalerTick
<1>4. CASE ScalerNext
  BY <1>4 DEF ScalerNext, StartPoll, SizeUnknown, Decide, LeaveAsIs, ApplyFails,
              QueueMoves
<1> QED BY <1>1, <1>2, <1>3, <1>4

\* Neither the concurrency nor a decision leaves the bounds, and without
\* overlapping polls the concurrency moves by one, and only after the cooldown
\* (poll and applyScaling of auto-scaler.ts), however slow the queries are.
THEOREM ScalingCorrect == Spec => OneStepPerCooldown
<1>1. Init => ScalerInv
  BY ScalerStart DEF Init
<1>2. ScalerInv /\ [Next]_processVars =>
         [/\ ScalerTypeOK' /\ WithinBounds'
          /\ ~overlapped /\ scaler'.current # scaler.current =>
                /\ scaler.since \in {Never, Cooldown}
                /\ scaler'.current \in {scaler.current + 1, scaler.current - 1}
         ]_scalerVars
  <2> SUFFICES ASSUME ScalerInv, [Next]_processVars
               PROVE  /\ ScalerTypeOK' /\ WithinBounds'
                      /\ ~overlapped /\ scaler'.current # scaler.current =>
                            /\ scaler.since \in {Never, Cooldown}
                            /\ scaler'.current \in
                                  {scaler.current + 1, scaler.current - 1}
    OBVIOUS
  <2>1. ScalerTypeOK' /\ WithinBounds'
    BY ScalerStep DEF ScalerInv
  <2>2. ASSUME ~overlapped, scaler'.current # scaler.current
        PROVE  /\ scaler.since \in {Never, Cooldown}
               /\ scaler'.current \in {scaler.current + 1, scaler.current - 1}
    <3>1. PICK p \in Polls : Apply(p)
      BY <2>2, OnlyApplyMoves
    <3>2. p \in Applying(Polls) /\ scaler'.current = poll[p].target
      BY <3>1 DEF Apply, Applying
    <3> QED BY <2>2, <3>2 DEF ScalerInv, DecisionHolds
  <2> QED BY <2>1, <2>2
<1> QED BY <1>1, <1>2, ScalerStep, PTL DEF Spec, OneStepPerCooldown

-----------------------------------------------------------------------------
(***************************************************************************)
(* Sums of sizes.  IsSum(f, w, n) says that f[k] is the sum of the first k *)
(* of the n weights.                                                       *)
(***************************************************************************)
IsSum(f, w, n) ==
    /\ f \in [0 .. n -> Nat] /\ f[0] = 0
    /\ \A k \in 1 .. n : f[k] = f[k - 1] + w[k]

Weights(es) == [n \in 1 .. Len(es) |-> FileSize[es[n].file]]

\* There are sums of any weights.
LEMMA SumsExist ==
    ASSUME NEW n \in Nat, NEW w \in [1 .. n -> Nat]
    PROVE  \E f : IsSum(f, w, n)
<1> DEFINE S == {m \in Nat : m <= n => \E f : IsSum(f, w, m)}
<1>1. 0 \in S
  <2>1. IsSum([k \in 0 .. 0 |-> 0], w, 0)
    BY DEF IsSum
  <2> QED BY <2>1
<1>2. ASSUME NEW m \in Nat, m \in S PROVE m + 1 \in S
  <2> SUFFICES ASSUME m + 1 <= n PROVE \E f : IsSum(f, w, m + 1)
    OBVIOUS
  <2>1. PICK f : IsSum(f, w, m)
    BY <1>2
  <2>2. f \in [0 .. m -> Nat] /\ f[0] = 0 /\ \A k \in 1 .. m : f[k] = f[k - 1] + w[k]
    BY <2>1 DEF IsSum
  <2>3. PICK g : g = [k \in 0 .. m + 1 |-> IF k = m + 1 THEN f[m] + w[k] ELSE f[k]]
    OBVIOUS
  <2>4. w[m + 1] \in Nat /\ f[m] \in Nat
    BY <2>2
  <2>5. g \in [0 .. m + 1 -> Nat] /\ g[0] = 0
    BY <2>2, <2>3, <2>4
  <2>6. ASSUME NEW k \in 1 .. m + 1 PROVE g[k] = g[k - 1] + w[k]
    <3>1. g[k - 1] = f[k - 1]
      BY <2>3
    <3>2. CASE k = m + 1
      BY <2>3, <3>1, <3>2
    <3>3. CASE k \in 1 .. m
      BY <2>2, <2>3, <3>1, <3>3
    <3> QED BY <3>2, <3>3
  <2>7. IsSum(g, w, m + 1)
    BY <2>5, <2>6 DEF IsSum
  <2> QED BY <2>7
<1>3. \A m \in Nat : m \in S
  <2> HIDE DEF S
  <2> QED BY <1>1, <1>2, AllNumbers
<1>4. n \in S
  BY <1>3
<1> QED BY <1>4

\* Equal weights have equal sums.
LEMMA SumIsOne ==
    ASSUME NEW m \in Nat, NEW n \in Nat, m <= n, NEW f, NEW g, NEW w, NEW v,
           IsSum(f, w, m), IsSum(g, v, n), \A k \in 1 .. m : w[k] = v[k]
    PROVE  f[m] = g[m]
<1> DEFINE S == {k \in Nat : k <= m => f[k] = g[k]}
<1>1. 0 \in S
  BY DEF IsSum
<1>2. ASSUME NEW k \in Nat, k \in S PROVE k + 1 \in S
  <2> SUFFICES ASSUME k + 1 <= m PROVE f[k + 1] = g[k + 1]
    OBVIOUS
  <2>1. PICK l : l = k + 1
    OBVIOUS
  <2>2. l \in 1 .. m /\ l \in 1 .. n /\ l - 1 = k
    BY <2>1
  <2>3. f[l] = f[l - 1] + w[l] /\ g[l] = g[l - 1] + v[l] /\ w[l] = v[l]
    BY <2>2 DEF IsSum
  <2> QED BY <1>2, <2>1, <2>2, <2>3
<1>3. \A k \in Nat : k \in S
  <2> HIDE DEF S
  <2> QED BY <1>1, <1>2, AllNumbers
<1>4. m \in S
  BY <1>3
<1> QED BY <1>4

\* What the cache counts is the sum of the sizes.
LEMMA SizesAre ==
    ASSUME NEW es \in Seq(Entry)
    PROVE  \E f : IsSum(f, Weights(es), Len(es)) /\ Sizes(es) = f[Len(es)]
<1>1. PICK n \in Nat : n = Len(es) /\ DOMAIN es = 1 .. n
  BY LenProperties
<1>2. \A k \in 1 .. n : es[k] \in Entry /\ FileSize[es[k].file] \in Nat
  <2>1. \A k \in 1 .. n : es[k] \in Entry
    BY <1>1, ElementOfSeq
  <2> QED BY <2>1, SizesAreNat DEF Entry
<1>3. Weights(es) \in [1 .. n -> Nat]
  BY <1>1, <1>2 DEF Weights
<1>4. PICK f : IsSum(f, Weights(es), n)
  BY <1>3, SumsExist
<1> DEFINE Solves(g) == g = [k \in 0 .. Len(es) |->
                               IF k = 0 THEN 0 ELSE g[k - 1] + FileSize[es[k].file]]
<1>5. Solves(f)
  <2>1. \A k \in 1 .. n : Weights(es)[k] = FileSize[es[k].file]
    BY <1>1 DEF Weights
  <2>2. ASSUME NEW k \in 0 .. n
        PROVE  f[k] = IF k = 0 THEN 0 ELSE f[k - 1] + FileSize[es[k].file]
    <3>1. CASE k = 0
      BY <1>4, <3>1 DEF IsSum
    <3>2. CASE k \in 1 .. n
      <4>1. f[k] = f[k - 1] + Weights(es)[k]
        BY <1>4, <3>2 DEF IsSum
      <4> QED BY <2>1, <3>2, <4>1
    <3> QED BY <3>1, <3>2
  <2>3. f = [k \in 0 .. n |-> f[k]]
    BY <1>4 DEF IsSum
  <2> QED BY <1>1, <2>2, <2>3
<1>6. SizeUpTo(es) = CHOOSE g : Solves(g)
  BY DEF SizeUpTo
<1>7. Solves(SizeUpTo(es))
  <2> HIDE DEF Solves
  <2> QED BY <1>5, <1>6
<1>8. PICK g : g = SizeUpTo(es)
  OBVIOUS
<1>9. DOMAIN g = 0 .. n /\ g[0] = 0
      /\ \A k \in 1 .. n : g[k] = g[k - 1] + FileSize[es[k].file]
  BY <1>1, <1>7, <1>8
<1>10. \A k \in 0 .. n : g[k] \in Nat
  <2> DEFINE S == {k \in Nat : k <= n => g[k] \in Nat}
  <2>1. 0 \in S
    BY <1>9
  <2>2. ASSUME NEW k \in Nat, k \in S PROVE k + 1 \in S
    <3> SUFFICES ASSUME k + 1 <= n PROVE g[k + 1] \in Nat
      OBVIOUS
    <3>1. PICK l : l = k + 1
      OBVIOUS
    <3>2. l \in 1 .. n /\ l - 1 = k
      BY <3>1
    <3>3. g[l] = g[l - 1] + FileSize[es[l].file] /\ FileSize[es[l].file] \in Nat
      BY <1>2, <1>9, <3>2
    <3>4. g[l - 1] \in Nat
      BY <2>2, <3>2
    <3>5. PICK y, z : y = g[l - 1] /\ z = FileSize[es[l].file]
      OBVIOUS
    <3>6. y + z \in Nat /\ g[l] = y + z
      BY ONLY <3>3, <3>4, <3>5
    <3> QED BY <3>1, <3>6
  <2>3. \A k \in Nat : k \in S
    <3> HIDE DEF S
    <3> QED BY <2>1, <2>2, AllNumbers
  <2> QED BY <2>3
<1>11. IsSum(g, Weights(es), n)
  <2>1. g = [k \in 0 .. n |-> g[k]]
    BY <1>1, <1>7, <1>8
  <2>2. g \in [0 .. n -> Nat]
    BY <1>10, <2>1
  <2> QED BY <1>1, <1>9, <2>2 DEF IsSum, Weights
<1> QED BY <1>1, <1>8, <1>11 DEF Sizes

\* Sizes are numbers, and lists of the same files have the same.
LEMMA SameSizes ==
    ASSUME NEW es \in Seq(Entry), NEW ds \in Seq(Entry), Len(ds) = Len(es),
           \A k \in DOMAIN es : ds[k].file = es[k].file
    PROVE  Sizes(es) \in Nat /\ Sizes(ds) = Sizes(es)
<1>1. PICK n \in Nat : n = Len(es) /\ DOMAIN es = 1 .. n
  BY LenProperties
<1>2. PICK f : IsSum(f, Weights(es), n) /\ Sizes(es) = f[n]
  BY <1>1, SizesAre
<1>3. PICK g : IsSum(g, Weights(ds), n) /\ Sizes(ds) = g[n]
  BY <1>1, SizesAre
<1>4. \A k \in 1 .. n : Weights(ds)[k] = Weights(es)[k]
  BY <1>1 DEF Weights
<1>5. f[n] = g[n]
  BY <1>2, <1>3, <1>4, SumIsOne
<1>6. f[n] \in Nat
  BY <1>2 DEF IsSum
<1> QED BY <1>2, <1>3, <1>5, <1>6

\* A new entry adds its size.
LEMMA SizesOfLonger ==
    ASSUME NEW es \in Seq(Entry), NEW e \in Entry
    PROVE  /\ Sizes(es) \in Nat /\ FileSize[e.file] \in Nat
           /\ Append(es, e) \in Seq(Entry)
           /\ Sizes(Append(es, e)) = Sizes(es) + FileSize[e.file]
<1>1. PICK n \in Nat : n = Len(es) /\ DOMAIN es = 1 .. n
  BY LenProperties
<1>2. PICK ds : ds = Append(es, e)
  OBVIOUS
<1>3. /\ ds \in Seq(Entry) /\ Len(ds) = n + 1 /\ ds[n + 1] = e
      /\ \A k \in 1 .. n : ds[k] = es[k]
  BY <1>1, <1>2, AppendProperties
<1>4. PICK f : IsSum(f, Weights(es), n) /\ Sizes(es) = f[n]
  BY <1>1, SizesAre
<1>5. PICK g : IsSum(g, Weights(ds), n + 1) /\ Sizes(ds) = g[n + 1]
  BY <1>3, SizesAre
<1>6. \A k \in 1 .. n : Weights(es)[k] = Weights(ds)[k]
  BY <1>1, <1>3 DEF Weights
<1>7. f[n] = g[n]
  <2>1. n + 1 \in Nat /\ n <= n + 1
    OBVIOUS
  <2> QED BY <1>4, <1>5, <1>6, <2>1, SumIsOne
<1>8. f[n] \in Nat /\ g[n + 1] = g[n] + Weights(ds)[n + 1]
  <2>1. n + 1 \in 1 .. n + 1 /\ (n + 1) - 1 = n
    OBVIOUS
  <2> QED BY <1>4, <1>5, <2>1 DEF IsSum
<1>9. Weights(ds)[n + 1] = FileSize[e.file] /\ FileSize[e.file] \in Nat
  BY <1>3, SizesAreNat DEF Weights, Entry
<1> QED BY <1>2, <1>3, <1>4, <1>5, <1>7, <1>8, <1>9

\* Nothing has no size.
LEMMA SizesOfNone == Sizes(<<>>) = 0 /\ <<>> \in Seq(Entry) /\ Len(<<>>) = 0
<1>1. <<>> \in Seq(Entry) /\ Len(<<>>) = 0
  OBVIOUS
<1>2. PICK f : IsSum(f, Weights(<<>>), 0) /\ Sizes(<<>>) = f[0]
  BY <1>1, SizesAre
<1> QED BY <1>1, <1>2 DEF IsSum

\* What is left has no more than there was.
LEMMA SizesOfPicked ==
    ASSUME NEW es \in Seq(Entry), NEW A \in SUBSET (DOMAIN es)
    PROVE  Sizes(Picked(es, A)) <= Sizes(es)
<1> DEFINE S == {n \in Nat : \A s \in Seq(Entry) : Len(s) = n =>
                    \A B \in SUBSET (DOMAIN s) : Sizes(Picked(s, B)) <= Sizes(s)}
<1>1. 0 \in S
  <2> SUFFICES ASSUME NEW s \in Seq(Entry), Len(s) = 0, NEW B \in SUBSET (DOMAIN s)
               PROVE  Sizes(Picked(s, B)) <= Sizes(s)
    OBVIOUS
  <2>1. s = <<>> /\ DOMAIN s = {} /\ B = DOMAIN s
    OBVIOUS
  <2>2. Picked(s, B) = s
    BY <2>1, PickedAll
  <2> QED BY <2>1, <2>2, SizesOfNone
<1>2. ASSUME NEW n \in Nat, n \in S PROVE n + 1 \in S
  <2> SUFFICES ASSUME NEW s \in Seq(Entry), Len(s) = n + 1,
                      NEW B \in SUBSET (DOMAIN s)
               PROVE  Sizes(Picked(s, B)) <= Sizes(s)
    OBVIOUS
  <2>1. PICK r, x : /\ r \in Seq(Entry) /\ x \in Entry /\ s = Append(r, x)
                    /\ Len(r) = n /\ DOMAIN r = 1 .. n /\ DOMAIN s = 1 .. n + 1
    <3>1. s # <<>> /\ DOMAIN s = 1 .. n + 1
      BY LenProperties
    <3>2. PICK r : r = SubSeq(s, 1, n)
      OBVIOUS
    <3>3. /\ r \in Seq(Entry) /\ Len(r) = n
          /\ \A k \in 1 .. n : r[k] = s[k]
      BY <3>1, <3>2
    <3>4. s[n + 1] \in Entry
      BY <3>1, ElementOfSeq
    <3>5. DOMAIN r = 1 .. n
      BY <3>3, LenProperties
    <3>6. s = Append(r, s[n + 1])
      BY <3>1, <3>3, <3>4, <3>5
    <3> QED BY <3>1, <3>3, <3>4, <3>5, <3>6
  <2>2. PICK C : C = B \cap (1 .. n)
    OBVIOUS
  <2>3. C \in SUBSET (DOMAIN r)
    BY <2>1, <2>2
  <2>4. Sizes(Picked(r, C)) <= Sizes(r)
    BY <1>2, <2>1, <2>3
  <2>5. Picked(r, C) \in Seq(Entry)
    BY <2>1, <2>3, PickedSeq
  <2>6. /\ Sizes(r) \in Nat /\ FileSize[x.file] \in Nat /\ Sizes(Picked(r, C)) \in Nat
        /\ Sizes(s) = Sizes(r) + FileSize[x.file]
        /\ Sizes(Append(Picked(r, C), x)) = Sizes(Picked(r, C)) + FileSize[x.file]
    BY <2>1, <2>5, SizesOfLonger
  <2>7. CASE n + 1 \in B
    <3>1. B = C \cup {Len(r) + 1}
      BY <2>1, <2>2, <2>7
    <3>2. Picked(Append(r, x), C \cup {Len(r) + 1}) = Append(Picked(r, C), x)
      <4>1. r \in Seq(Entry) /\ x \in Entry
        BY <2>1
      <4> QED BY ONLY <2>3, <4>1, PickedAppend, ZenonT(40)
    <3>3. Sizes(Picked(s, B)) = Sizes(Append(Picked(r, C), x))
      BY <2>1, <3>1, <3>2
    <3> QED BY <2>4, <2>6, <3>3
  <2>8. CASE n + 1 \notin B
    <3>1. B = C
      BY <2>1, <2>2, <2>8
    <3>2. Picked(Append(r, x), C) = Picked(r, C)
      BY <2>1, <2>3, PickedOfLonger
    <3>3. Sizes(Picked(s, B)) = Sizes(Picked(r, C))
      BY <2>1, <3>1, <3>2
    <3> QED BY <2>4, <2>6, <3>3
  <2> QED BY <2>7, <2>8
<1>3. \A n \in Nat : n \in S
  <2> HIDE DEF S
  <2> QED BY <1>1, <1>2, AllNumbers
<1>4. Len(es) \in S
  BY <1>3, LenProperties
<1> QED BY <1>4

-----------------------------------------------------------------------------
(***************************************************************************)
(* The template cache.                                                     *)
(***************************************************************************)

\* t is left of s: its entries are different ones of s.
LeftOf(t, s) ==
    /\ t \in Seq(Entry) /\ Len(t) \in Nat /\ Len(t) <= Len(s)
    /\ \A k, l \in DOMAIN t : \E i, j \in DOMAIN s :
          t[k] = s[i] /\ t[l] = s[j] /\ (i = j => k = l)

KeysDiffer(s) == \A i, j \in DOMAIN s : s[i].key = s[j].key => i = j

\* Only a file that was cached before can have been replaced since.
ReplacedSince(e) == e.outdated = Current \/ e.outdated <= e.age
ReplacedSinceCached == \A i \in DOMAIN entries : ReplacedSince(entries[i])

MapInv ==
    /\ entries \in Seq(Entry)
    /\ total = Sizes(entries)
    /\ KeysDiffer(entries)
    /\ Len(entries) <= MaxCapacity
    /\ total <= MemoryLimit \/ Len(entries) = 1
    /\ ReplacedSinceCached

WarmingStates ==
    {Asleep, [at |-> "find"]}
    \cup [at : {"next"}, left : SUBSET TemplateVersions]
    \cup [at : {"load"}, left : SUBSET TemplateVersions,
          key : TemplateVersions, file : Files]

CacheInv == MapInv /\ warming \in WarmingStates

\* What is picked is left.
LEMMA PickedIsLeft ==
    ASSUME NEW s \in Seq(Entry), NEW A \in SUBSET (DOMAIN s)
    PROVE  LeftOf(Picked(s, A), s)
<1>1. PICK t : t = Picked(s, A)
  OBVIOUS
<1>2. t \in Seq(Entry) /\ Len(t) \in Nat /\ Len(t) <= Len(s)
  BY <1>1, PickedSeq
<1>3. ASSUME NEW k \in DOMAIN t, NEW l \in DOMAIN t
      PROVE  \E i, j \in DOMAIN s : t[k] = s[i] /\ t[l] = s[j] /\ (i = j => k = l)
  <2>1. PICK i, j \in A : /\ t[k] = s[i] /\ t[l] = s[j]
                          /\ k < l => i < j
                          /\ l < k => j < i
    BY <1>1, <1>3, PickedOrder
  <2>2. k \in Nat /\ l \in Nat
    BY <1>2, LenProperties
  <2>3. i \in Nat /\ j \in Nat
    BY LenProperties
  <2>4. i = j => k = l
    BY <2>1, <2>2, <2>3
  <2> QED BY <2>1, <2>4
<1> QED BY <1>1, <1>2, <1>3 DEF LeftOf

\* t has the elements of s at positions A and no others.
Elements(t, s, A) ==
    /\ \A k \in DOMAIN t : \E i \in A : t[k] = s[i]
    /\ \A i \in A : \E k \in DOMAIN t : t[k] = s[i]

\* What is picked has the elements at the positions.
LEMMA PickedElements ==
    ASSUME NEW s \in Seq(Entry), NEW A \in SUBSET (DOMAIN s)
    PROVE  Elements(Picked(s, A), s, A)
<1>1. /\ \A k \in DOMAIN Picked(s, A) : \E i \in A : Picked(s, A)[k] = s[i]
      /\ \A i \in A : \E k \in DOMAIN Picked(s, A) : Picked(s, A)[k] = s[i]
  BY PickedSeq
<1> QED BY <1>1 DEF Elements

\* What is left of what was left.
LEMMA LeftOfLeft ==
    ASSUME NEW r, NEW t, NEW s, LeftOf(r, t), LeftOf(t, s),
           Len(s) \in Nat
    PROVE  LeftOf(r, s)
<1>1. r \in Seq(Entry) /\ Len(r) \in Nat /\ Len(r) <= Len(s)
  BY DEF LeftOf
<1>2. ASSUME NEW k \in DOMAIN r, NEW l \in DOMAIN r
      PROVE  \E i, j \in DOMAIN s : r[k] = s[i] /\ r[l] = s[j] /\ (i = j => k = l)
  <2>1. PICK a, b \in DOMAIN t : r[k] = t[a] /\ r[l] = t[b] /\ (a = b => k = l)
    BY <1>2 DEF LeftOf
  <2>2. PICK i, j \in DOMAIN s : t[a] = s[i] /\ t[b] = s[j] /\ (i = j => a = b)
    BY DEF LeftOf
  <2> QED BY <2>1, <2>2
<1> QED BY <1>1, <1>2 DEF LeftOf

\* Entries that are left have different keys if all had.
LEMMA KeysStillDiffer ==
    ASSUME NEW t, NEW s, LeftOf(t, s), KeysDiffer(s)
    PROVE  KeysDiffer(t)
BY DEF LeftOf, KeysDiffer

\* Positions of a list of entries and their types.
LEMMA EntriesAre ==
    ASSUME NEW es \in Seq(Entry)
    PROVE  /\ Len(es) \in Nat /\ DOMAIN es = 1 .. Len(es)
           /\ \A i \in DOMAIN es : es[i] \in Entry
BY LenProperties, ElementOfSeq

\* Without the entry of a key.
LEMMA WithoutKey ==
    ASSUME NEW key, NEW es \in Seq(Entry)
    PROVE  /\ LeftOf(Without(key, es), es)
           /\ \A k \in DOMAIN Without(key, es) : Without(key, es)[k].key # key
           /\ \A i \in DOMAIN es : es[i].key # key =>
                 \E k \in DOMAIN Without(key, es) : Without(key, es)[k] = es[i]
           /\ Sizes(Without(key, es)) <= Sizes(es)
<1>1. PICK A \in SUBSET (DOMAIN es) : A = {i \in DOMAIN es : es[i].key # key}
  OBVIOUS
<1>2. PICK t : t = Picked(es, A) /\ t = Without(key, es)
  BY <1>1 DEF Without
<1>3. LeftOf(t, es)
  BY <1>2, PickedIsLeft
<1>4. Sizes(t) <= Sizes(es)
  BY <1>2, SizesOfPicked
<1>5. Elements(t, es, A)
  BY <1>2, PickedElements
<1>6. \A k \in DOMAIN t : t[k].key # key
  BY <1>1, <1>5 DEF Elements
<1>7. \A i \in DOMAIN es : es[i].key # key => \E k \in DOMAIN t : t[k] = es[i]
  BY <1>1, <1>5 DEF Elements
<1> QED BY <1>2, <1>3, <1>4, <1>6, <1>7

\* Without the entries that have expired.
LEMMA WithoutExpired ==
    ASSUME NEW es \in Seq(Entry)
    PROVE  /\ LeftOf(Unexpired(es), es)
           /\ \A i \in DOMAIN es : ~Expired(es[i]) =>
                 \E k \in DOMAIN Unexpired(es) : Unexpired(es)[k] = es[i]
<1>1. PICK A \in SUBSET (DOMAIN es) : A = {i \in DOMAIN es : ~Expired(es[i])}
  OBVIOUS
<1>2. PICK t : t = Picked(es, A) /\ t = Unexpired(es)
  BY <1>1 DEF Unexpired
<1>3. LeftOf(t, es)
  BY <1>2, PickedIsLeft
<1>4. Elements(t, es, A)
  BY <1>2, PickedElements
<1>5. \A i \in DOMAIN es : ~Expired(es[i]) => \E k \in DOMAIN t : t[k] = es[i]
  BY <1>1, <1>4 DEF Elements
<1> QED BY <1>2, <1>3, <1>5

\* Without the n entries that were used least recently.
LEMMA WithoutLeast ==
    ASSUME NEW es \in Seq(Entry), NEW n
    PROVE  /\ LeftOf(WithoutLru(es, n), es)
           /\ \A k \in DOMAIN WithoutLru(es, n) : \E i \in DOMAIN es :
                 WithoutLru(es, n)[k] = es[i] /\ UsedRank(es, i) > n
           /\ \A i \in DOMAIN es : UsedRank(es, i) > n =>
                 \E k \in DOMAIN WithoutLru(es, n) : WithoutLru(es, n)[k] = es[i]
<1>1. PICK A \in SUBSET (DOMAIN es) : A = {i \in DOMAIN es : UsedRank(es, i) > n}
  OBVIOUS
<1>2. PICK t : t = Picked(es, A) /\ t = WithoutLru(es, n)
  BY <1>1 DEF WithoutLru
<1>3. LeftOf(t, es)
  BY <1>2, PickedIsLeft
<1>4. Elements(t, es, A)
  BY <1>2, PickedElements
<1>5. \A k \in DOMAIN t : \E i \in DOMAIN es : t[k] = es[i] /\ UsedRank(es, i) > n
  BY <1>1, <1>4 DEF Elements
<1>6. \A i \in DOMAIN es : UsedRank(es, i) > n => \E k \in DOMAIN t : t[k] = es[i]
  BY <1>1, <1>4 DEF Elements
<1> QED BY <1>2, <1>3, <1>5, <1>6

\* Ranks do not exceed the number of entries, and who was used earlier comes
\* before in them.
LEMMA Ranks ==
    ASSUME NEW es \in Seq(Entry), NEW i \in DOMAIN es
    PROVE  /\ UsedRank(es, i) \in Nat /\ UsedRank(es, i) <= Len(es)
           /\ \A j \in DOMAIN es :
                 es[i].idle < es[j].idle => UsedRank(es, j) <= UsedRank(es, i)
<1> DEFINE Before(j) == {k \in DOMAIN es : \/ es[k].idle > es[j].idle
                                           \/ es[k].idle = es[j].idle /\ k <= j}
<1>1. PICK n \in Nat : n = Len(es) /\ DOMAIN es = 1 .. n
  BY LenProperties
<1>2. IsFiniteSet(DOMAIN es) /\ Cardinality(DOMAIN es) = n
  <2>1. n \in Nat
    OBVIOUS
  <2>2. IsFiniteSet(1 .. n) /\ Cardinality(1 .. n) = n
    BY ONLY <2>1, FS_Interval
  <2> QED BY <1>1, <2>2
<1>3. \A j : /\ IsFiniteSet(Before(j)) /\ Cardinality(Before(j)) \in Nat
             /\ Cardinality(Before(j)) <= n
  <2> TAKE j
  <2>1. Before(j) \in SUBSET (DOMAIN es)
    OBVIOUS
  <2> HIDE DEF Before
  <2> QED BY <1>2, <2>1, FS_Subset, FS_CardinalityType
<1>4. \A j : UsedRank(es, j) = Cardinality(Before(j))
  BY DEF UsedRank
<1>5. \A k \in DOMAIN es : es[k].idle \in Nat
  <2>1. \A k \in DOMAIN es : es[k] \in Entry
    BY EntriesAre
  <2> QED BY <2>1, TtlIsNat DEF Entry, Ages
<1>6. ASSUME NEW j \in DOMAIN es, es[i].idle < es[j].idle
      PROVE  Cardinality(Before(j)) <= Cardinality(Before(i))
  <2>1. Before(j) \in SUBSET Before(i)
    BY <1>5, <1>6
  <2> HIDE DEF Before
  <2> QED BY <1>3, <2>1, FS_Subset
<1> HIDE DEF Before
<1> QED BY <1>1, <1>3, <1>4, <1>6

\* evictIfNeeded: what has expired goes, then as many of the least recently
\* used as it takes, and the new entry fits.
LEMMA EvictIs ==
    ASSUME NEW es \in Seq(Entry), NEW size
    PROVE  \E n \in Nat : /\ Evict(es, size) = WithoutLru(Unexpired(es), n)
                          /\ Fits(Evict(es, size), size)
<1>1. PICK live : live = Unexpired(es)
  OBVIOUS
<1>2. live \in Seq(Entry) /\ Len(live) \in Nat
  BY <1>1, WithoutExpired DEF LeftOf
<1> DEFINE enough == {n \in 0 .. Len(live) : Fits(WithoutLru(live, n), size)}
<1>3. Len(live) \in enough
  <2>1. PICK t : t = WithoutLru(live, Len(live))
    OBVIOUS
  <2>2. \A k \in DOMAIN t : \E i \in DOMAIN live : UsedRank(live, i) > Len(live)
    BY <1>2, <2>1, WithoutLeast
  <2>3. \A i \in DOMAIN live : UsedRank(live, i) \in Nat /\ UsedRank(live, i) <= Len(live)
    BY <1>2, Ranks
  <2>4. ASSUME NEW k \in DOMAIN t PROVE FALSE
    <3>1. PICK i \in DOMAIN live : UsedRank(live, i) > Len(live)
      BY <2>2, <2>4
    <3>2. PICK m : m = UsedRank(live, i)
      OBVIOUS
    <3> QED BY <1>2, <2>3, <3>1, <3>2
  <2>5. t \in Seq(Entry)
    BY <1>2, <2>1, WithoutLeast DEF LeftOf
  <2>6. t = <<>> /\ Len(t) = 0
    <3>1. Len(t) \in Nat /\ DOMAIN t = 1 .. Len(t)
      BY <2>5, EntriesAre
    <3>2. 1 \notin DOMAIN t
      BY <2>4
    <3>3. Len(t) = 0
      BY <3>1, <3>2
    <3> QED BY <2>5, <3>3
  <2>7. Fits(t, size)
    BY <2>6, CapacityIsPositive DEF Fits
  <2> QED BY <1>2, <2>1, <2>7
<1>4. enough \in SUBSET Nat
  OBVIOUS
<1>5. \E n \in enough : \A m \in enough : n <= m
  <2> HIDE DEF enough
  <2> QED BY <1>3, <1>4, LeastNumber
<1>6. PICK least : least = CHOOSE n \in enough : \A m \in enough : n <= m
  OBVIOUS
<1>7. least \in enough
  <2> HIDE DEF enough
  <2> QED BY <1>5, <1>6
<1>8. Evict(es, size) = WithoutLru(live, least)
  BY <1>1, <1>6 DEF Evict
<1> QED BY <1>1, <1>7, <1>8

\* set: what is kept is a part of what was there, without the key, and what
\* would have to go is what was used before it.
LEMMA SetKeeps ==
    ASSUME MapInv, NEW key \in TemplateVersions, NEW file \in Files, Set(key, file)
    PROVE  /\ MapInv'
           /\ \E rest, e : \E n \in Nat :
                 /\ entries' = Append(rest, e) /\ e \in Entry /\ e.key = key
                 /\ rest = WithoutLru(Unexpired(Without(key, entries)), n)
                 /\ \A k \in DOMAIN rest : rest[k].key # key
<1>1. PICK es, before : es = entries /\ before = Without(key, es)
  OBVIOUS
<1>2. PICK rest : rest = Evict(before, FileSize[file])
  OBVIOUS
<1>3. PICK e : e = [key |-> key, file |-> file, age |-> 0, idle |-> 0,
                    outdated |-> Current]
  OBVIOUS
<1>4. entries' = Append(rest, e) /\ total' = TotalAfterSet(key, FileSize[file], rest)
  BY <1>1, <1>2, <1>3 DEF Set
<1>5. e \in Entry /\ e.key = key /\ e.file = file /\ ReplacedSince(e)
  <2>1. 0 \in Ages /\ Current \in Ages \cup {Current}
    BY TtlIsNat DEF Ages
  <2> QED BY <1>3, <2>1 DEF Entry, ReplacedSince
<1>6. es \in Seq(Entry) /\ Len(es) \in Nat
  BY <1>1, EntriesAre DEF MapInv
<1>7. /\ before \in Seq(Entry) /\ LeftOf(before, es)
      /\ \A k \in DOMAIN before : before[k].key # key
  BY <1>1, <1>6, WithoutKey DEF LeftOf
<1>8. PICK n \in Nat : /\ rest = WithoutLru(Unexpired(before), n)
                       /\ Fits(rest, FileSize[file])
  BY <1>2, <1>7, EvictIs
<1>9. LeftOf(rest, before)
  <2>1. PICK live : live = Unexpired(before)
    OBVIOUS
  <2>2. LeftOf(live, before) /\ live \in Seq(Entry)
    BY <1>7, <2>1, WithoutExpired DEF LeftOf
  <2>3. LeftOf(rest, live)
    BY <1>8, <2>1, <2>2, WithoutLeast
  <2>4. Len(before) \in Nat
    BY <1>7 DEF LeftOf
  <2> QED BY <2>2, <2>3, <2>4, LeftOfLeft
<1>10. LeftOf(rest, es) /\ rest \in Seq(Entry)
  BY <1>6, <1>7, <1>9, LeftOfLeft DEF LeftOf
<1>11. \A k \in DOMAIN rest : rest[k].key # key
  <2> SUFFICES ASSUME NEW k \in DOMAIN rest PROVE rest[k].key # key
    OBVIOUS
  <2>1. PICK i \in DOMAIN before : rest[k] = before[i]
    BY <1>9 DEF LeftOf
  <2> QED BY <1>7, <2>1
<1>12. PICK m \in Nat : m = Len(rest) /\ DOMAIN rest = 1 .. m
  BY <1>10, LenProperties
<1>13. PICK new : new = entries'
  OBVIOUS
<1>14. /\ new \in Seq(Entry) /\ Len(new) = m + 1 /\ DOMAIN new = 1 .. m + 1
       /\ new[m + 1] = e /\ \A k \in 1 .. m : new[k] = rest[k]
  <2>1. new = Append(rest, e)
    BY <1>4, <1>13
  <2> QED BY <1>5, <1>10, <1>12, <2>1, AppendProperties
<1>15. /\ Sizes(rest) \in Nat /\ Sizes(new) = Sizes(rest) + FileSize[file]
       /\ FileSize[file] \in Nat
  BY <1>4, <1>5, <1>10, <1>13, SizesOfLonger
<1>16. total' = Sizes(new)
  <2>1. Sizes(es) \in Nat /\ total = Sizes(es)
    BY <1>1, <1>6, SameSizes DEF MapInv
  <2>2. total' = total - Sizes(es) + Sizes(rest) + FileSize[file]
    BY <1>1, <1>4 DEF TotalAfterSet
  <2>3. PICK a, b, c : a = Sizes(es) /\ b = Sizes(rest) /\ c = FileSize[file]
    OBVIOUS
  <2>4. total' = a - a + b + c /\ a \in Nat /\ b \in Nat /\ c \in Nat
        /\ Sizes(new) = b + c
    BY <1>15, <2>1, <2>2, <2>3
  <2> QED BY <2>4
<1>17. KeysDiffer(new)
  <2>1. KeysDiffer(rest)
    BY <1>1, <1>10, KeysStillDiffer DEF MapInv
  <2> SUFFICES ASSUME NEW i \in DOMAIN new, NEW j \in DOMAIN new, new[i].key = new[j].key
               PROVE  i = j
    BY DEF KeysDiffer
  <2>2. CASE i \in 1 .. m /\ j \in 1 .. m
    <3>1. rest[i].key = rest[j].key
      BY <1>14, <2>2
    <3> QED BY <1>12, <2>1, <2>2, <3>1 DEF KeysDiffer
  <2>3. CASE i = m + 1 \/ j = m + 1
    <3>1. \A k \in 1 .. m : new[k].key # key
      BY <1>11, <1>12, <1>14
    <3> QED BY <1>5, <1>14, <2>3, <3>1
  <2> QED BY <1>14, <2>2, <2>3
<1>18. Len(new) <= MaxCapacity /\ (Sizes(new) <= MemoryLimit \/ Len(new) = 1)
  <2>1. m < MaxCapacity /\ (rest = <<>> \/ Sizes(rest) + FileSize[file] <= MemoryLimit)
    BY <1>8, <1>12 DEF Fits
  <2>2. rest = <<>> => m = 0
    BY <1>12
  <2> QED BY <1>12, <1>14, <1>15, <2>1, <2>2, CapacityIsPositive
<1>19. ASSUME NEW k \in DOMAIN new PROVE ReplacedSince(new[k])
  <2>1. CASE k = m + 1
    BY <1>5, <1>14, <2>1
  <2>2. CASE k \in 1 .. m
    <3>1. PICK i \in DOMAIN es : rest[k] = es[i]
      BY <1>10, <1>12, <2>2 DEF LeftOf
    <3>2. ReplacedSince(es[i])
      BY <1>1 DEF MapInv, ReplacedSinceCached
    <3> QED BY <1>14, <2>2, <3>1, <3>2
  <2> QED BY <1>14, <2>1, <2>2
<1>20. MapInv'
  <2>1. ReplacedSinceCached'
    <3>1. \A k \in DOMAIN entries' : ReplacedSince(entries'[k])
      BY <1>13, <1>19
    <3> QED BY <3>1 DEF ReplacedSinceCached, ReplacedSince
  <2>2. KeysDiffer(entries)'
    BY <1>13, <1>17 DEF KeysDiffer
  <2>3. (total = Sizes(entries))'
    BY <1>13, <1>16 DEF Sizes, SizeUpTo
  <2> QED BY <1>13, <1>14, <1>16, <1>18, <2>1, <2>2, <2>3 DEF MapInv
<1> QED BY <1>1, <1>4, <1>5, <1>8, <1>11, <1>20

\* Steps that leave every entry in its place, with its key and its file.
LEMMA InPlace ==
    ASSUME MapInv, NEW new, new = entries', total' = total,
           new \in [1 .. Len(entries) -> Entry],
           \A k \in DOMAIN entries : /\ new[k].key = entries[k].key
                                     /\ new[k].file = entries[k].file
                                     /\ ReplacedSince(new[k])
    PROVE  MapInv'
<1>1. PICK es, n : es = entries /\ n = Len(es)
  OBVIOUS
<1>2. es \in Seq(Entry) /\ n \in Nat /\ DOMAIN es = 1 .. n
  BY <1>1, EntriesAre DEF MapInv
<1>3. new \in Seq(Entry) /\ Len(new) = n /\ DOMAIN new = 1 .. n
  BY <1>1, <1>2
<1>4. Sizes(new) = Sizes(es)
  BY <1>1, <1>2, <1>3, SameSizes
<1>5. KeysDiffer(new)
  BY <1>1, <1>2, <1>3 DEF MapInv, KeysDiffer
<1>6. (total = Sizes(entries))'
  BY <1>1, <1>4 DEF MapInv, Sizes, SizeUpTo
<1>7. KeysDiffer(entries)'
  BY <1>5 DEF KeysDiffer
<1>8. ReplacedSinceCached'
  <2>1. \A k \in DOMAIN entries' : ReplacedSince(entries'[k])
    BY <1>1, <1>2, <1>3
  <2> QED BY <2>1 DEF ReplacedSinceCached, ReplacedSince
<1> QED BY <1>1, <1>3, <1>6, <1>7, <1>8 DEF MapInv

\* A hit.
LEMMA HitKeeps ==
    ASSUME MapInv, NEW key \in TemplateVersions, LoadFromCache(key)
    PROVE  MapInv'
<1>1. PICK i \in DOMAIN entries : entries' = [entries EXCEPT ![i] = Hit(entries[i])]
  BY DEF LoadFromCache, Cached
<1>2. /\ Len(entries) \in Nat /\ DOMAIN entries = 1 .. Len(entries)
      /\ \A k \in DOMAIN entries : entries[k] \in Entry
      /\ entries \in [1 .. Len(entries) -> Entry]
  <2>1. entries \in Seq(Entry)
    BY DEF MapInv
  <2> QED BY <2>1, EntriesAre
<1>3. PICK e, h : e = entries[i] /\ h = Hit(e)
  OBVIOUS
<1>4. 0 \in Ages
  BY TtlIsNat DEF Ages
<1>5. /\ h \in Entry /\ h.key = e.key /\ h.file = e.file /\ h.age = e.age
      /\ h.outdated = e.outdated
  BY <1>2, <1>3, <1>4 DEF Hit, Entry
<1>6. \A k \in DOMAIN entries : ReplacedSince(entries[k])
  BY DEF MapInv, ReplacedSinceCached
<1>7. PICK new : new = entries'
  OBVIOUS
<1>8. new = [entries EXCEPT ![i] = h]
  BY <1>1, <1>3, <1>7
<1>9. ReplacedSince(h)
  BY <1>3, <1>5, <1>6 DEF ReplacedSince
<1>10. new \in [1 .. Len(entries) -> Entry]
  BY <1>2, <1>5, <1>8
<1>11. \A k \in DOMAIN entries : /\ new[k].key = entries[k].key
                                 /\ new[k].file = entries[k].file
                                 /\ ReplacedSince(new[k])
  BY <1>2, <1>3, <1>5, <1>6, <1>8, <1>9
<1>12. total' = total
  BY DEF LoadFromCache
<1> QED BY <1>7, <1>10, <1>11, <1>12, InPlace

\* A file is replaced on disk.
LEMMA ReplaceKeeps ==
    ASSUME MapInv, NEW file \in Files, ReplaceFile(file)
    PROVE  MapInv'
<1>1. /\ Len(entries) \in Nat /\ DOMAIN entries = 1 .. Len(entries)
      /\ \A k \in DOMAIN entries : entries[k] \in Entry
  <2>1. entries \in Seq(Entry)
    BY DEF MapInv
  <2> QED BY <2>1, EntriesAre
<1>2. PICK new : new = entries'
  OBVIOUS
<1>3. /\ DOMAIN new = DOMAIN entries
      /\ new = [k \in DOMAIN entries |-> new[k]]
      /\ \A k \in DOMAIN entries :
            \/ new[k] = entries[k]
            \/ new[k] = [entries[k] EXCEPT !.outdated = 0]
  BY <1>2 DEF ReplaceFile
<1>4. \A k \in DOMAIN entries : ReplacedSince(entries[k])
  BY DEF MapInv, ReplacedSinceCached
<1>5. ASSUME NEW k \in DOMAIN entries
      PROVE  /\ new[k] \in Entry /\ new[k].key = entries[k].key
             /\ new[k].file = entries[k].file /\ ReplacedSince(new[k])
  <2>1. PICK e, d : e = entries[k] /\ d = new[k]
    OBVIOUS
  <2>2. e \in Entry /\ ReplacedSince(e)
    BY <1>1, <1>4, <2>1
  <2>3. CASE d = e
    BY <2>1, <2>2, <2>3
  <2>4. CASE d = [e EXCEPT !.outdated = 0]
    <3>1. 0 \in Ages /\ \A a \in Ages : 0 <= a
      BY TtlIsNat DEF Ages
    <3>2. /\ d \in Entry /\ d.key = e.key /\ d.file = e.file /\ d.age = e.age
          /\ d.outdated = 0 /\ e.age \in Ages
      BY <2>2, <2>4, <3>1 DEF Entry
    <3> QED BY <2>1, <3>1, <3>2 DEF ReplacedSince
  <2> QED BY <1>3, <2>1, <2>3, <2>4
<1>6. new \in [1 .. Len(entries) -> Entry]
  BY <1>1, <1>3, <1>5
<1>7. total' = total
  BY DEF ReplaceFile
<1> QED BY <1>2, <1>5, <1>6, <1>7, InPlace

\* Time passes.
LEMMA CacheTickKeeps ==
    ASSUME MapInv, CacheTick, total' = total
    PROVE  MapInv'
<1>1. /\ Len(entries) \in Nat /\ DOMAIN entries = 1 .. Len(entries)
      /\ \A k \in DOMAIN entries : entries[k] \in Entry
  <2>1. entries \in Seq(Entry)
    BY DEF MapInv
  <2> QED BY <2>1, EntriesAre
<1>2. PICK new : new = entries'
  OBVIOUS
<1> DEFINE Later(e) == [e EXCEPT !.age = Older(@), !.idle = Older(@),
                                 !.outdated = IF @ = Current THEN @ ELSE Older(@)]
<1>3. /\ new = [k \in DOMAIN entries |-> new[k]]
      /\ \A k \in DOMAIN entries : new[k] = Later(entries[k])
  <2>1. entries' = [k \in DOMAIN entries |-> Later(entries[k])]
    BY Zenon DEF CacheTick
  <2> HIDE DEF Later
  <2> QED BY <1>2, <2>1
<1>4. \A k \in DOMAIN entries : ReplacedSince(entries[k])
  BY DEF MapInv, ReplacedSinceCached
<1>5. /\ \A a \in Ages : Older(a) \in Ages
      /\ \A a, b \in Ages : a <= b => Older(a) <= Older(b)
  BY TtlIsNat DEF Older, Ages
<1>6. ASSUME NEW k \in DOMAIN entries
      PROVE  /\ new[k] \in Entry /\ new[k].key = entries[k].key
             /\ new[k].file = entries[k].file /\ ReplacedSince(new[k])
  <2>1. PICK e, d, o : /\ e = entries[k] /\ d = new[k]
                       /\ o = IF e.outdated = Current THEN e.outdated
                              ELSE Older(e.outdated)
    OBVIOUS
  <2>2. e \in Entry /\ ReplacedSince(e)
    BY <1>1, <1>4, <2>1
  <2>3. d = Later(e)
    <3> HIDE DEF Later
    <3> QED BY <1>3, <2>1
  <2>4. e.age \in Ages /\ e.idle \in Ages /\ e.outdated \in Ages \cup {Current}
    BY <2>2 DEF Entry
  <2>5. o \in Ages \cup {Current}
    BY <1>5, <2>1, <2>4
  <2>6. Older(e.age) \in Ages /\ Older(e.idle) \in Ages
    BY <1>5, <2>4
  <2>7. /\ d.key = e.key /\ d.file = e.file /\ d.age = Older(e.age)
        /\ d.outdated = o /\ d \in Entry
    BY <2>1, <2>2, <2>3, <2>5, <2>6 DEF Entry
  <2>8. o = Current \/ o <= Older(e.age)
    BY <1>5, <2>1, <2>2, <2>4 DEF ReplacedSince
  <2> QED BY <2>1, <2>7, <2>8 DEF ReplacedSince
<1>7. new \in [1 .. Len(entries) -> Entry]
  <2>1. /\ new = [k \in DOMAIN entries |-> new[k]]
        /\ \A k \in DOMAIN entries : new[k] \in Entry
    <3> HIDE DEF Later
    <3> QED BY <1>3, <1>6
  <2> QED BY ONLY <1>1, <2>1
<1> QED BY <1>2, <1>6, <1>7, InPlace

\* An entry is removed, and no other.
LEMMA InvalidateKeeps ==
    ASSUME MapInv, NEW key \in TemplateVersions, Invalidate(key)
    PROVE  MapInv'
<1>1. PICK es, new : es = entries /\ new = Without(key, es) /\ new = entries'
  BY DEF Invalidate
<1>2. /\ es \in Seq(Entry) /\ Len(es) \in Nat /\ DOMAIN es = 1 .. Len(es)
      /\ total = Sizes(es)
  BY <1>1, EntriesAre DEF MapInv
<1>3. /\ LeftOf(new, es) /\ Sizes(new) <= Sizes(es)
      /\ \A k \in DOMAIN new : new[k].key # key
  <2>1. es \in Seq(Entry)
    BY <1>2
  <2>2. /\ LeftOf(Without(key, es), es)
        /\ \A k \in DOMAIN Without(key, es) : Without(key, es)[k].key # key
        /\ Sizes(Without(key, es)) <= Sizes(es)
    BY ONLY <2>1, WithoutKey
  <2> QED BY <1>1, <2>2
<1>4. new \in Seq(Entry) /\ Len(new) \in Nat /\ DOMAIN new = 1 .. Len(new)
      /\ Len(new) <= Len(es)
  BY <1>3, EntriesAre DEF LeftOf
<1>5. Sizes(es) \in Nat /\ Sizes(new) \in Nat
  BY <1>2, <1>4, SameSizes
<1>6. total' = Sizes(new)
  <2>1. total' = total - Sizes(es) + Sizes(new)
    BY <1>1 DEF Invalidate
  <2>2. PICK a, b : a = Sizes(es) /\ b = Sizes(new)
    OBVIOUS
  <2>3. total' = a - a + b /\ a \in Nat /\ b \in Nat
    BY <1>2, <1>5, <2>1, <2>2
  <2> QED BY <2>2, <2>3
<1>7. Sizes(new) <= MemoryLimit \/ Len(new) = 1
  <2>1. CASE Sizes(es) <= MemoryLimit
    BY <1>3, <1>5, <2>1, SizesAreNat
  <2>2. CASE Len(es) = 1
    <3>1. PICK i \in DOMAIN es : es[i].key = key
      BY <1>1 DEF Invalidate, Cached
    <3>2. i = 1
      BY <1>2, <2>2, <3>1
    <3>3. 1 \notin DOMAIN new
      <4> SUFFICES ASSUME 1 \in DOMAIN new PROVE FALSE
        OBVIOUS
      <4>1. PICK j \in DOMAIN es : new[1] = es[j]
        BY <1>3 DEF LeftOf
      <4>2. j = 1
        BY <1>2, <2>2
      <4> QED BY <1>3, <3>1, <3>2, <4>1, <4>2
    <3>4. Len(new) = 0
      BY <1>4, <3>3
    <3>5. new = <<>>
      BY <1>4, <3>4
    <3> QED BY <3>5, SizesOfNone, SizesAreNat
  <2> QED BY <1>1, <1>2, <2>1, <2>2 DEF MapInv
<1>8. KeysDiffer(new)
  BY <1>1, <1>3, KeysStillDiffer DEF MapInv
<1>9. \A k \in DOMAIN new : ReplacedSince(new[k])
  <2> SUFFICES ASSUME NEW k \in DOMAIN new PROVE ReplacedSince(new[k])
    OBVIOUS
  <2>1. PICK i \in DOMAIN es : new[k] = es[i]
    BY <1>3 DEF LeftOf
  <2> QED BY <1>1, <2>1 DEF MapInv, ReplacedSinceCached
<1>10. (total = Sizes(entries))'
  BY <1>1, <1>6 DEF Sizes, SizeUpTo
<1>11. KeysDiffer(entries)'
  BY <1>1, <1>8 DEF KeysDiffer
<1>12. ReplacedSinceCached'
  <2>1. \A k \in DOMAIN entries' : ReplacedSince(entries'[k])
    BY <1>1, <1>9
  <2> QED BY <2>1 DEF ReplacedSinceCached, ReplacedSince
<1>13. Len(new) <= MaxCapacity
  BY <1>1, <1>2, <1>4, CapacityIsPositive DEF MapInv
<1> QED BY <1>1, <1>4, <1>6, <1>7, <1>10, <1>11, <1>12, <1>13 DEF MapInv

\* Nothing is sound.
LEMMA EmptyIsSound ==
    /\ entries = <<>> /\ total = 0 => MapInv
    /\ entries' = <<>> /\ total' = 0 => MapInv'
<1>1. /\ KeysDiffer(<<>>)
      /\ 0 <= MemoryLimit /\ 0 <= MaxCapacity
  BY SizesAreNat, CapacityIsPositive DEF KeysDiffer
<1>2. ASSUME entries = <<>>, total = 0 PROVE MapInv
  BY <1>1, <1>2, SizesOfNone DEF MapInv, ReplacedSinceCached
<1>3. ASSUME entries' = <<>>, total' = 0 PROVE MapInv'
  <2>1. (total = Sizes(entries))'
    BY <1>3, SizesOfNone DEF Sizes, SizeUpTo
  <2>2. KeysDiffer(entries)'
    BY <1>1, <1>3 DEF KeysDiffer
  <2>3. ReplacedSinceCached'
    BY <1>3 DEF ReplacedSinceCached
  <2> QED BY <1>1, <1>3, <2>1, <2>2, <2>3, SizesOfNone DEF MapInv
<1> QED BY <1>2, <1>3

\* Where pre-warming may be.
LEMMA WarmingKinds ==
    /\ Asleep \in WarmingStates /\ [at |-> "find"] \in WarmingStates
    /\ \A left \in SUBSET TemplateVersions :
          /\ [at |-> "next", left |-> left] \in WarmingStates
          /\ \A key \in TemplateVersions, file \in Files :
                [at |-> "load", left |-> left, key |-> key, file |-> file]
                   \in WarmingStates
    /\ \A w \in WarmingStates :
          /\ w.at = "next" => w.left \in SUBSET TemplateVersions
          /\ w.at = "load" => /\ w.left \in SUBSET TemplateVersions
                              /\ w.key \in TemplateVersions /\ w.file \in Files
BY DEF WarmingStates, Asleep

\* The steps of pre-warming that leave the cache alone.
LEMMA WarmingMoves ==
    ASSUME CacheInv, FindTopTemplates \/ ReadNewestStyle \/ SkipWarm \/ EndWarming
    PROVE  warming' \in WarmingStates /\ UNCHANGED <<entries, total>>
<1>1. warming \in WarmingStates
  BY DEF CacheInv
<1>2. CASE FindTopTemplates
  BY <1>2, WarmingKinds DEF FindTopTemplates
<1>3. CASE ReadNewestStyle
  <2>1. PICK key \in warming.left, file \in Files :
           warming' = [at |-> "load", left |-> warming.left \ {key},
                       key |-> key, file |-> file]
    BY <1>3 DEF ReadNewestStyle
  <2>2. warming.left \in SUBSET TemplateVersions
    BY <1>1, <1>3, WarmingKinds DEF ReadNewestStyle
  <2>3. warming.left \ {key} \in SUBSET TemplateVersions /\ key \in TemplateVersions
    BY <2>2
  <2> QED BY <1>3, <2>1, <2>3, WarmingKinds DEF ReadNewestStyle
<1>4. CASE SkipWarm
  BY <1>1, <1>4, WarmingKinds DEF SkipWarm
<1>5. CASE EndWarming
  BY <1>5, WarmingKinds DEF EndWarming
<1> QED BY <1>2, <1>3, <1>4, <1>5

\* A step that sets nothing keeps the cache as it should be.
LEMMA OthersKeep ==
    ASSUME CacheInv,
           \/ \E key \in TemplateVersions : LoadFromCache(key) \/ Invalidate(key)
           \/ FindTopTemplates \/ ReadNewestStyle \/ SkipWarm \/ EndWarming
           \/ \E file \in Files : ReplaceFile(file)
           \/ CacheTick /\ UNCHANGED <<total, warming>>
           \/ Clear
           \/ UNCHANGED cacheVars
    PROVE  CacheInv'
<1>1. MapInv /\ warming \in WarmingStates
  BY DEF CacheInv
<1>2. CASE \E key \in TemplateVersions : LoadFromCache(key) \/ Invalidate(key)
  <2>1. MapInv'
    BY <1>1, <1>2, HitKeeps, InvalidateKeeps
  <2>2. warming' = warming
    BY <1>2 DEF LoadFromCache, Invalidate
  <2> QED BY <1>1, <2>1, <2>2 DEF CacheInv, WarmingStates, Asleep
<1>3. CASE FindTopTemplates \/ ReadNewestStyle \/ SkipWarm \/ EndWarming
  <2>1. warming' \in WarmingStates /\ UNCHANGED <<entries, total>>
    BY <1>3, WarmingMoves
  <2>2. MapInv'
    BY <1>1, <2>1 DEF MapInv, ReplacedSinceCached, ReplacedSince, KeysDiffer,
                      Sizes, SizeUpTo
  <2> QED BY <2>1, <2>2 DEF CacheInv, WarmingStates, Asleep
<1>4. CASE \E file \in Files : ReplaceFile(file)
  <2>1. MapInv'
    BY <1>1, <1>4, ReplaceKeeps
  <2>2. warming' = warming
    BY <1>4 DEF ReplaceFile
  <2> QED BY <1>1, <2>1, <2>2 DEF CacheInv, WarmingStates, Asleep
<1>5. CASE CacheTick /\ UNCHANGED <<total, warming>>
  <2>1. MapInv'
    BY <1>1, <1>5, CacheTickKeeps
  <2> QED BY <1>1, <1>5, <2>1 DEF CacheInv, WarmingStates, Asleep
<1>6. CASE Clear
  <2>1. MapInv'
    BY <1>6, EmptyIsSound DEF Clear
  <2>2. warming' = warming
    BY <1>6 DEF Clear
  <2> QED BY <1>1, <2>1, <2>2 DEF CacheInv, WarmingStates, Asleep
<1>7. CASE UNCHANGED cacheVars
  <2>1. UNCHANGED <<entries, total, warming>>
    BY <1>7 DEF cacheVars
  <2>2. MapInv'
    BY <1>1, <2>1 DEF MapInv, ReplacedSinceCached, ReplacedSince, KeysDiffer,
                      Sizes, SizeUpTo
  <2> QED BY <1>1, <2>1, <2>2 DEF CacheInv, WarmingStates, Asleep
<1> QED BY <1>2, <1>3, <1>4, <1>5, <1>6, <1>7

\* A step that sets an entry sets one of a known version and file.
LEMMA SetStep ==
    ASSUME CacheInv, NEW key, NEW file,
           \/ key \in TemplateVersions /\ file \in Files /\ LoadFromFile(key, file)
           \/ key = warming.key /\ file = warming.file /\ StoreWarm
    PROVE  /\ key \in TemplateVersions /\ file \in Files
           /\ Set(key, file) /\ warming' \in WarmingStates
<1>1. warming \in WarmingStates
  BY DEF CacheInv
<1>2. CASE key \in TemplateVersions /\ file \in Files /\ LoadFromFile(key, file)
  <2>1. Set(key, file) /\ warming' = warming
    BY <1>2 DEF LoadFromFile
  <2> QED BY <1>1, <1>2, <2>1
<1>3. CASE key = warming.key /\ file = warming.file /\ StoreWarm
  <2>1. /\ warming.at = "load" /\ warming' = [at |-> "next", left |-> warming.left]
        /\ Set(warming.key, warming.file)
    BY <1>3 DEF StoreWarm
  <2> QED BY <1>1, <1>3, <2>1, WarmingKinds
<1> QED BY <1>2, <1>3

\* Every step of the worker is one of these.
LEMMA WorkerSteps ==
    ASSUME [Next]_processVars
    PROVE  \/ \E key \in TemplateVersions : LoadFromCache(key) \/ Invalidate(key)
           \/ FindTopTemplates \/ ReadNewestStyle \/ SkipWarm \/ EndWarming
           \/ \E file \in Files : ReplaceFile(file)
           \/ CacheTick /\ UNCHANGED <<total, warming>>
           \/ Clear
           \/ UNCHANGED cacheVars
           \/ \E key, file :
                 \/ key \in TemplateVersions /\ file \in Files /\ LoadFromFile(key, file)
                 \/ key = warming.key /\ file = warming.file /\ StoreWarm
<1>1. \/ CacheNext \/ UNCHANGED cacheVars
      \/ CacheTick /\ UNCHANGED <<total, warming>>
      \/ Clear
  BY DEF Next, processVars, Tick, Shutdown
<1>2. CacheNext =>
         \/ \E key \in TemplateVersions : LoadFromCache(key) \/ Invalidate(key)
         \/ FindTopTemplates \/ ReadNewestStyle \/ SkipWarm \/ EndWarming
         \/ \E file \in Files : ReplaceFile(file)
         \/ StoreWarm
         \/ \E key, file :
               key \in TemplateVersions /\ file \in Files /\ LoadFromFile(key, file)
  BY DEF CacheNext
<1> QED BY <1>1, <1>2

\* Every step keeps the cache as it should be.
LEMMA CacheStep == CacheInv /\ [Next]_processVars => CacheInv'
<1> SUFFICES ASSUME CacheInv, [Next]_processVars PROVE CacheInv'
  OBVIOUS
<1>1. ASSUME NEW key, NEW file,
             \/ key \in TemplateVersions /\ file \in Files /\ LoadFromFile(key, file)
             \/ key = warming.key /\ file = warming.file /\ StoreWarm
      PROVE  CacheInv'
  <2>1. /\ key \in TemplateVersions /\ file \in Files
        /\ Set(key, file) /\ warming' \in WarmingStates
    BY <1>1, SetStep
  <2>2. MapInv
    BY DEF CacheInv
  <2>3. MapInv'
    BY <2>1, <2>2, SetKeeps
  <2> QED BY <2>1, <2>3 DEF CacheInv, WarmingStates, Asleep
<1> QED BY <1>1, WorkerSteps, OthersKeep

\* The invariant holds at the start.
LEMMA CacheStart ==
    ASSUME CacheInit
    PROVE  CacheInv
BY EmptyIsSound, WarmingKinds DEF CacheInit, CacheInv

\* The size that decides about evictions is that of what is cached, the Map
\* has one entry per version within capacity and memory limit, and a file that
\* was replaced is used for at most one TTL more, however jobs, pre-warming,
\* expiry, invalidation and shutdown mix (LruTemplateCache, preWarmTemplates).
THEOREM CacheCorrect == Spec => []CacheIsSound
<1>1. Init => CacheInv
  BY CacheStart DEF Init
<1>2. CacheInv => CacheIsSound
  <2> SUFFICES ASSUME CacheInv PROVE CacheIsSound
    OBVIOUS
  <2>1. entries \in Seq(Entry) /\ \A i \in DOMAIN entries : entries[i] \in Entry
    BY EntriesAre DEF CacheInv, MapInv
  <2>2. total \in Nat
    BY <2>1, SameSizes DEF CacheInv, MapInv
  <2>3. CacheTypeOK
    BY <2>1, <2>2 DEF CacheInv, WarmingStates, CacheTypeOK
  <2>4. SizeIsSum /\ WithinLimits
    BY DEF CacheInv, MapInv, KeysDiffer, SizeIsSum, WithinLimits
  <2>5. StaleForOneTtl
    <3> SUFFICES ASSUME NEW i \in DOMAIN entries, ~Expired(entries[i])
                 PROVE  entries[i].outdated \in 0 .. Ttl \cup {Current}
      BY DEF StaleForOneTtl
    <3>1. PICK e : e = entries[i]
      OBVIOUS
    <3>2. /\ e.age \in Ages /\ e.outdated \in Ages \cup {Current}
          /\ e.outdated = Current \/ e.outdated <= e.age
          /\ ~(e.age > Ttl)
      BY <2>1, <3>1 DEF CacheInv, MapInv, ReplacedSinceCached, ReplacedSince,
                        Entry, Expired
    <3>3. CASE e.outdated = Current
      BY <3>1, <3>3
    <3>4. CASE e.outdated \in Ages /\ e.outdated <= e.age
      BY <3>1, <3>2, <3>4, TtlIsNat DEF Ages
    <3> QED BY <3>2, <3>3, <3>4
  <2> QED BY <2>3, <2>4, <2>5 DEF CacheIsSound
<1> QED BY <1>1, <1>2, CacheStep, PTL DEF Spec


\* Of two unexpired entries, what set drops is not used after what it keeps.
LEMMA DropsLeastRecent ==
    ASSUME MapInv, NEW key \in TemplateVersions, NEW file \in Files, Set(key, file),
           NEW i \in DOMAIN entries, entries[i].key # key, ~Expired(entries[i]),
           \A k \in DOMAIN entries' : entries'[k].key # entries[i].key,
           NEW j \in DOMAIN entries, entries[j].key # key,
           NEW k \in DOMAIN entries', entries'[k] = entries[j]
    PROVE  entries[i].idle >= entries[j].idle
<1>1. PICK rest, e, n : /\ entries' = Append(rest, e) /\ e \in Entry /\ e.key = key
                        /\ n \in Nat
                        /\ rest = WithoutLru(Unexpired(Without(key, entries)), n)
  BY SetKeeps
<1>2. PICK es, before, live : /\ es = entries /\ before = Without(key, es)
                              /\ live = Unexpired(before)
  OBVIOUS
<1>3. es \in Seq(Entry)
  BY <1>2 DEF MapInv
<1>4. /\ before \in Seq(Entry)
      /\ \A l \in DOMAIN es : es[l].key # key =>
            \E m \in DOMAIN before : before[m] = es[l]
  <2>1. /\ LeftOf(Without(key, es), es)
        /\ \A l \in DOMAIN es : es[l].key # key =>
              \E m \in DOMAIN Without(key, es) : Without(key, es)[m] = es[l]
    BY ONLY <1>3, WithoutKey
  <2> QED BY <1>2, <2>1 DEF LeftOf
<1>5. /\ live \in Seq(Entry)
      /\ \A l \in DOMAIN before : ~Expired(before[l]) =>
            \E m \in DOMAIN live : live[m] = before[l]
  BY <1>2, <1>4, WithoutExpired DEF LeftOf
<1>6. /\ rest \in Seq(Entry)
      /\ \A l \in DOMAIN rest : \E m \in DOMAIN live :
            rest[l] = live[m] /\ UsedRank(live, m) > n
      /\ \A m \in DOMAIN live : UsedRank(live, m) > n =>
            \E l \in DOMAIN rest : rest[l] = live[m]
  <2>1. live \in Seq(Entry)
    BY <1>5
  <2>2. /\ LeftOf(WithoutLru(live, n), live)
        /\ \A l \in DOMAIN WithoutLru(live, n) : \E m \in DOMAIN live :
              WithoutLru(live, n)[l] = live[m] /\ UsedRank(live, m) > n
        /\ \A m \in DOMAIN live : UsedRank(live, m) > n =>
              \E l \in DOMAIN WithoutLru(live, n) : WithoutLru(live, n)[l] = live[m]
    BY ONLY <2>1, WithoutLeast
  <2>3. rest = WithoutLru(live, n)
    BY <1>1, <1>2
  <2>4. LeftOf(rest, live) => rest \in Seq(Entry)
    BY DEF LeftOf
  <2> QED BY <2>2, <2>3, <2>4
<1>7. PICK len \in Nat : len = Len(rest) /\ DOMAIN rest = 1 .. len
  BY <1>6, LenProperties
<1>8. PICK new : new = entries'
  OBVIOUS
<1>9. /\ DOMAIN new = 1 .. len + 1 /\ new[len + 1] = e
      /\ \A l \in 1 .. len : new[l] = rest[l]
  BY <1>1, <1>6, <1>7, <1>8, AppendProperties
<1>10. PICK a \in DOMAIN live : live[a] = es[i]
  <2>1. PICK m \in DOMAIN before : before[m] = es[i]
    BY <1>2, <1>4
  <2>2. ~Expired(before[m])
    BY <1>2, <2>1
  <2> QED BY <1>5, <2>1, <2>2
<1>11. ~(UsedRank(live, a) > n)
  <2> SUFFICES ASSUME UsedRank(live, a) > n PROVE FALSE
    OBVIOUS
  <2>1. PICK l \in DOMAIN rest : rest[l] = live[a]
    BY <1>6
  <2>2. l \in DOMAIN new /\ new[l] = es[i]
    BY <1>7, <1>9, <1>10, <2>1
  <2> QED BY <1>2, <1>8, <2>2
<1>12. PICK b \in DOMAIN live : live[b] = es[j] /\ UsedRank(live, b) > n
  <2>1. new[k] = es[j] /\ k \in 1 .. len + 1 /\ k # len + 1
    BY <1>1, <1>2, <1>8, <1>9
  <2>2. k \in DOMAIN rest /\ rest[k] = es[j]
    BY <1>7, <1>9, <2>1
  <2> QED BY <1>6, <2>2
<1>13. /\ UsedRank(live, a) \in Nat /\ UsedRank(live, b) \in Nat
       /\ live[a].idle < live[b].idle => UsedRank(live, b) <= UsedRank(live, a)
  BY <1>5, Ranks
<1>14. ~(live[a].idle < live[b].idle)
  <2>1. PICK p, q : p = UsedRank(live, a) /\ q = UsedRank(live, b)
    OBVIOUS
  <2>2. p \in Nat /\ q \in Nat /\ ~(p > n) /\ q > n
    BY <1>11, <1>12, <1>13, <2>1
  <2>3. ~(q <= p)
    BY ONLY <1>1, <2>2
  <2> QED BY <1>13, <2>1, <2>3
<1>15. live[a].idle \in Nat /\ live[b].idle \in Nat
  <2>1. live[a] \in Entry /\ live[b] \in Entry
    BY <1>5, EntriesAre
  <2> QED BY <2>1, TtlIsNat DEF Entry, Ages
<1> QED BY <1>2, <1>10, <1>12, <1>14, <1>15

\* To make room for a new entry, set never drops an unexpired entry that was
\* used after one it keeps (evictIfNeeded, evictLru).
THEOREM EvictionCorrect == Spec => EvictsLeastRecent
<1>1. Init => CacheInv
  BY CacheStart DEF Init
<1> DEFINE
      new == entries'[Len(entries')]
      Drops(i) == /\ entries[i].key # new.key /\ ~Expired(entries[i])
                  /\ \A k \in DOMAIN entries' : entries'[k].key # entries[i].key
      Keeps(j) == \E k \in DOMAIN entries' : /\ entries[j].key # new.key
                                             /\ entries'[k] = entries[j]
<1>2. ASSUME CacheInv, [Next]_processVars, entries' # <<>>, Set(new.key, new.file),
             NEW i \in DOMAIN entries, NEW j \in DOMAIN entries, Drops(i), Keeps(j)
      PROVE  entries[i].idle >= entries[j].idle
  <2>1. CacheInv'
    BY <1>2, CacheStep
  <2>2. PICK es, n : es = entries' /\ n = Len(es)
    OBVIOUS
  <2>3. es \in Seq(Entry) /\ es # <<>>
    BY <1>2, <2>1, <2>2 DEF CacheInv, MapInv
  <2>4. n \in Nat /\ DOMAIN es = 1 .. n
    BY <2>2, <2>3, EntriesAre
  <2>5. n # 0
    BY <2>2, <2>3
  <2>6. es[n] \in Entry
    BY <2>3, <2>4, <2>5, EntriesAre
  <2>7. PICK e : e = new
    OBVIOUS
  <2>8. e.key \in TemplateVersions /\ e.file \in Files /\ Set(e.key, e.file)
    BY <1>2, <2>2, <2>6, <2>7 DEF Entry
  <2>9. /\ entries[i].key # e.key /\ ~Expired(entries[i])
        /\ \A k \in DOMAIN entries' : entries'[k].key # entries[i].key
    BY <1>2, <2>7
  <2>10. PICK k \in DOMAIN entries' : entries[j].key # e.key /\ entries'[k] = entries[j]
    BY <1>2, <2>7
  <2>11. MapInv
    BY <1>2 DEF CacheInv
  <2> QED BY <2>8, <2>9, <2>10, <2>11, DropsLeastRecent
<1>3. CacheInv /\ [Next]_processVars =>
         [entries' # <<>> => (Set(new.key, new.file) =>
             \A i, j \in DOMAIN entries : Drops(i) /\ Keeps(j) =>
                entries[i].idle >= entries[j].idle)]_cacheVars
  BY <1>2
<1>4. CacheInv /\ [Next]_processVars =>
         [entries' # <<>> =>
            LET newest == entries'[Len(entries')] IN
            Set(newest.key, newest.file) =>
                \A i, j \in DOMAIN entries :
                    /\ entries[i].key # newest.key /\ ~Expired(entries[i])
                    /\ \A k \in DOMAIN entries' : entries'[k].key # entries[i].key
                    /\ \E k \in DOMAIN entries' : /\ entries[j].key # newest.key
                                                  /\ entries'[k] = entries[j]
                    => entries[i].idle >= entries[j].idle]_cacheVars
  BY <1>3, Zenon
<1> QED BY <1>1, <1>4, CacheStep, PTL DEF Spec, EvictsLeastRecent

=============================================================================
