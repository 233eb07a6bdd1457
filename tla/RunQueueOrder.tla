--------------------------- MODULE RunQueueOrder ----------------------------
(***************************************************************************)
(* The executor implements DependencyOrder: its flags runq_buildable,      *)
(* runq_running and runq_complete and its table build_pids stand for the   *)
(* sets of the abstract specification.                                     *)
(***************************************************************************)
EXTENDS RunQueue

Recorded == {build_pids[p] : p \in Pid} \ {NoTask}

Order == INSTANCE DependencyOrder WITH
    mode   <- CASE master = "idle" -> "closed"
                [] master \in {"loop", "wait"} -> "open"
                [] master = "finish" -> "draining",
    queue  <- runq,
    begun  <- runq_running,
    active <- IF master = "idle" THEN {} ELSE Recorded,
    done   <- runq_complete,
    cut    <- master = "finish" /\ (pending # "none" \/ (abort /\ failed_fnids # {}))

\* The executor starts a task once and after all its dependencies, never
\* forgets one that could start, and leaves none behind unless it was cut
\* short: execute_runqueue_internal, task_complete and finish_runqueue
\* together implement DependencyOrder.
ImplementsOrder == Order!Spec
=============================================================================
