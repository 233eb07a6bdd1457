----------------------------- MODULE MCRunQueue -----------------------------
(***************************************************************************)
(* Instances of RunQueue for TLC.  Recipes "lib" and "app"; the tasks are  *)
(* named after the recipe and the task.                                    *)
(***************************************************************************)
EXTENDS RunQueueOrder, TLC

\* A diamond with a task beside it: up to three tasks are ready for two slots.
DiamondDepends ==
    [lib_stage |-> {}, app_fetch |-> {}, app_compile |-> {"lib_stage"}, app_doc |-> {"lib_stage"},
     app_build |-> {"app_compile", "app_doc", "app_fetch"}]
DiamondFnOf ==
    [lib_stage |-> "lib", app_fetch |-> "app", app_compile |-> "app", app_doc |-> "app",
     app_build |-> "app"]

\* A chain across two recipes, from a selfstamp task.
ChainDepends ==
    [lib_setscene |-> {}, lib_stage |-> {"lib_setscene"}, app_build |-> {"lib_stage"}]
ChainFnOf == [lib_setscene |-> "lib", lib_stage |-> "lib", app_build |-> "app"]

\* Two tasks and the one that needs them.
JoinDepends == [lib_stage |-> {}, dev_stage |-> {}, app_build |-> {"lib_stage", "dev_stage"}]
JoinFnOf == [lib_stage |-> "lib", dev_stage |-> "dev", app_build |-> "app"]

PidSymmetry == Permutations(Pid)
=============================================================================
