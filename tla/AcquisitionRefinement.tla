----------------------- MODULE AcquisitionRefinement -----------------------
(***************************************************************************)
(* The manager of internal/acquisition/manager.go implements the lifecycle *)
(* of AcquisitionLifecycle: the phase is read off the worker's position,   *)
(* the shown status off the job, and a file is readable once published.    *)
(***************************************************************************)
EXTENDS Acquisition

PhaseOf(id) ==
    CASE pc[id] = "unborn"  -> "none"
      [] pc[id] = "start"   -> "queued"
      [] pc[id] = "resolve" -> "resolving"
      [] pc[id] = "publish" -> "completed"
      [] pc[id] = "lost"    -> "gone"
      [] pc[id] = "done"    -> IF jobs[id].error = "" THEN "closed" ELSE "failed"
      [] OTHER              -> "downloading"

Lifecycle == INSTANCE AcquisitionLifecycle WITH
    phase    <- [id \in Ids |-> PhaseOf(id)],
    shown    <- [id \in Ids |-> jobs[id].status],
    readable <- {id \in Ids : files[id].state # "none"}

\* Every step of the manager and of its handlers is a step of the lifecycle a
\* client may see, or invisible to it, on both routes and for every failure.
ImplementsLifecycle == Lifecycle!Spec
=============================================================================
