----------------------------- MODULE WorkerProcess -----------------------------
(***************************************************************************)
(* The export worker's process (main.ts) around its jobs: the template     *)
(* cache and the auto-scaler share the clock, and SIGTERM stops the one,   *)
(* clears the other and lets the running jobs finish.  The jobs themselves *)
(* are in ExportPipeline.                                                  *)
(***************************************************************************)
EXTENDS TemplateCache, AutoScaler

processVars == <<cacheVars, scalerVars>>

\* A unit of time passes for both.
Tick ==
    /\ CacheTick
    /\ ScalerTick
    /\ UNCHANGED <<total, warming>>

\* SIGTERM, before boss.stop waits for the handlers that are running.
Shutdown ==
    /\ running
    /\ StopScaler
    /\ Clear

Init == CacheInit /\ ScalerInit

Next ==
    \/ CacheNext /\ UNCHANGED scalerVars
    \/ ScalerNext /\ UNCHANGED cacheVars
    \/ Tick
    \/ Shutdown

Spec == Init /\ [][Next]_processVars

(***************************************************************************)
(* Fairness: time passes, the interval fires, and neither the query of the *)
(* queue size nor the callback hangs or fails for ever.                    *)
(***************************************************************************)
Fairness ==
    /\ WF_processVars(Tick)
    /\ \A p \in Polls :
          /\ WF_processVars(StartPoll(p) /\ UNCHANGED cacheVars)
          /\ WF_processVars((SizeUnknown(p) \/ Decide(p) \/ LeaveAsIs(p))
                            /\ UNCHANGED cacheVars)
          /\ SF_processVars(Decide(p) /\ UNCHANGED cacheVars)
          /\ WF_processVars((Apply(p) \/ ApplyFails(p)) /\ UNCHANGED cacheVars)
          /\ SF_processVars(Apply(p) /\ UNCHANGED cacheVars)

FairSpec == Spec /\ Fairness
=============================================================================
