---------------------------- MODULE MCWorkerProcess ----------------------------
(***************************************************************************)
(* Instances of WorkerProcess for TLC: three versions over a capacity of   *)
(* two, and one of the two files larger than the memory limit.             *)
(***************************************************************************)
EXTENDS WorkerProcess, TLC

CONSTANTS small, huge

MCFiles == {small, huge}
MCFileSize == (small :> 1) @@ (huge :> 4)

\* Bound: the cache and the scaler have nothing but the clock and the
\* shutdown in common, so either is looked at while the other is at rest.
OneAtATime ==
    \/ entries = <<>> /\ warming.at = "find"
    \/ /\ scaler.since = Never /\ \A p \in Polls : poll[p] = Off
       /\ depth = "between" /\ scaler.current = MaxConcurrency
=============================================================================
