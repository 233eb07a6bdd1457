------------------------------ MODULE Prepare ------------------------------
(***************************************************************************)
(* bb/runqueue.py, prepare_runqueue: from what TaskData resolved to the    *)
(* queue that is executed - the dependencies of every task, the tasks that *)
(* are needed, the check for loops and the weights - and execute_runqueue  *)
(* around it, which prepares the queue again without the recipes that      *)
(* failed (bitbake -a).                                                    *)
(*                                                                         *)
(* Build and runtime names go through the same code twice and are not told *)
(* apart.  Tasks keep their number when others are pruned, where the code  *)
(* moves them up: their order is what it was.  Every task a dependency     *)
(* asks for exists in the recipe.  What recrdeptask has added to a task's  *)
(* own list is not seen by get_recursive_tdepends when its turn comes: it  *)
(* makes a difference only if task number 0 is among it.                   *)
(***************************************************************************)
EXTENDS Naturals, Sequences, FiniteSets, FiniteSetsExt, SequencesExt

CONSTANTS
    NumTasks,       \* tasks are numbered from 0, in the order add_tasks came to them
    tasks_fnid,     \* [Task -> recipe]
    tasks_name,     \* [Task -> name]
    Parents,        \* values of tasks_tdepends before the first preparation: "addtask ... after"
    Idepends,       \* values of tasks_idepends: [Task -> set of <<name, task name>>]
    deptask, recrdeptask,   \* [Task -> task names]
    depids,         \* [recipe -> names it needs], DEPENDS and RDEPENDS
    Providers,      \* [name -> recipes, best first]
    Targets,        \* <<name, task name>> of the command line
    Broken          \* sets of tasks that fail

Task == 0 .. NumTasks - 1
File == {tasks_fnid[t] : t \in Task}
TaskName == {tasks_name[t] : t \in Task}
Name == DOMAIN Providers

ASSUME PrepareAssumption ==
    /\ NumTasks \in Nat \ {0}
    /\ Parents \subseteq [Task -> SUBSET Task]
    /\ Idepends \subseteq [Task -> SUBSET (Name \X TaskName)]
    /\ deptask \in [Task -> SUBSET TaskName] /\ recrdeptask \in [Task -> SUBSET TaskName]
    /\ depids \in [File -> SUBSET Name]
    /\ IsFiniteSet(Name) /\ Providers \in [Name -> Seq(File)]
    /\ Targets \subseteq Name \X TaskName
    /\ Broken \subseteq SUBSET Task

VARIABLES
    tryaltconfigs,  \* bitbake -a
    abort,          \* not bitbake -k
    broken,         \* the tasks that fail
    pc,             \* "resolve", "mark", "check", "weigh", "execute"; "done", "fatal", "failed"
    task,           \* the task step A is at
    tasks_tdepends, tasks_idepends, failed_fnids,   \* taskData
    depends,        \* the local variable, which keeps its value from task to task
    recursive_tdepends,     \* the cache of get_recursive_tdepends
    runq_depends,
    runq,           \* the tasks left after step C
    runq_weight, deps_left, task_done, endpoints

input == <<tryaltconfigs, abort, broken>>
taskData == <<tasks_tdepends, tasks_idepends, failed_fnids>>
weights == <<runq_weight, deps_left, task_done, endpoints>>
vars == <<input, pc, task, taskData, depends, recursive_tdepends, runq_depends, runq, weights>>

NotYet == {NumTasks}

\* gettask_id and gettask_ids
tasks_lookup ==
    [f \in File |-> [n \in TaskName |->
        {t \in Task : tasks_fnid[t] = f /\ tasks_name[t] = n}]]
TaskId(f, name) == tasks_lookup[f][name]
TaskIds(f) == UNION {tasks_lookup[f][n] : n \in DOMAIN tasks_lookup[f]}

\* What fail_fnid has left in build_targets[n]: it takes a recipe that failed
\* out of every list.
build_targets(n) == {i \in DOMAIN Providers[n] : Providers[n][i] \notin failed_fnids}

\* A list that had recipes and has lost them all.  It is still there, and its
\* first entry is not: build_targets[n][0] raises IndexError.
Emptied(n) == Providers[n] # <<>> /\ build_targets(n) = {}

\* The recipe that was chosen for a name, the first of the list; none if it is
\* ASSUME_PROVIDED.
Chosen(n) == {Providers[n][i] : i \in {j \in build_targets(n) : \A k \in build_targets(n) : j <= k}}

\* What can be reached from S in some steps of succ.  (A value bound by a set
\* of one element is computed once.)
Closure(S, succ) ==
    LET reached(f) ==
            LET within[n \in 0 .. Cardinality(DOMAIN f)] ==
                    IF n = 0 THEN S
                    ELSE UNION {w \cup UNION {f[x] : x \in w} : w \in {within[n - 1]}}
            IN  within[Cardinality(DOMAIN f)]
    IN  UNION {reached(f) : f \in {succ}}

Total(weight, S) == MapThenSumSet(LAMBDA t : weight[t], S)

\* reset_runqueue and the start of prepare_runqueue
Reset ==
    /\ pc' = "resolve"
    /\ task' = 0
    /\ depends' = {}
    /\ recursive_tdepends' = [t \in Task |-> NotYet]
    /\ runq_depends' = [t \in Task |-> {}]
    /\ runq' = {}
    /\ runq_weight' = [t \in Task |-> 0]
    /\ deps_left' = [t \in Task |-> 0]
    /\ task_done' = {}
    /\ endpoints' = {}

Init ==
    /\ tryaltconfigs \in BOOLEAN
    /\ abort \in BOOLEAN
    /\ broken \in Broken
    /\ pc = "resolve"
    /\ task = 0
    /\ tasks_tdepends \in Parents
    /\ tasks_idepends \in Idepends
    /\ failed_fnids = {}
    /\ depends = {}
    /\ recursive_tdepends = [t \in Task |-> NotYet]
    /\ runq_depends = [t \in Task |-> {}]
    /\ runq = {}
    /\ runq_weight = [t \in Task |-> 0]
    /\ deps_left = [t \in Task |-> 0]
    /\ task_done = {}
    /\ endpoints = {}

-----------------------------------------------------------------------------
(* Step A: the dependencies of one task after the other. *)

\* "addtask ... after", [deptask] and [depends].  All is appended to the list
\* in taskData, and stays there.
Direct ==
    LET deptasks(n) == UNION {UNION {TaskId(f, name) : f \in Chosen(n)} : name \in deptask[task]}
        intertasks(i) == UNION {TaskId(f, i[2]) : f \in Chosen(i[1])} IN
    tasks_tdepends[task]
        \cup (UNION {deptasks(n) : n \in depids[tasks_fnid[task]]})
        \cup UNION {intertasks(i) : i \in tasks_idepends[task]}

\* get_recursive_tdepends: what the tasks of the recipe need, computed once
\* for a task.
RecursiveTdepends(t) ==
    IF recursive_tdepends[t] # NotYet
    THEN recursive_tdepends[t]
    ELSE Closure(TaskIds(tasks_fnid[t]),
                 [tasks_tdepends EXCEPT ![task] = Direct])

\* get_recursive_idepends.  "if not task" is true of task 0 as of no task.
RecursiveIdepends(ts) ==
    {i[1] : i \in UNION {tasks_idepends[u] : u \in UNION {RecursiveTdepends(t) : t \in ts \ {0}}}}

\* Mutant: [depends] is not followed.
RecursiveFilesDeclared(f, name) ==
    UNION {Chosen(n) : n \in Closure(depids[f], [n \in Name |-> UNION {depids[g] : g \in Chosen(n)}])}

\* add_recursive_build and add_recursive_run: the names that recipe f needs for
\* its task of this name, and those that their recipes need.
RecursiveNames(f, name) ==
    LET needs(g) == depids[g] \cup RecursiveIdepends(TaskId(g, name)) IN
    Closure(needs(f), [n \in Name |-> UNION {needs(g) : g \in Chosen(n)}])

RecursiveFiles(f, name) == UNION {Chosen(n) : n \in RecursiveNames(f, name)}

\* [recrdeptask]
Recursive(f) == UNION {UNION {TaskId(g, n) : g \in RecursiveFiles(f, n)} : n \in recrdeptask[task]}

\* The tasks get_recursive_tdepends is called for.
LookedUp(f) ==
    (UNION {UNION {TaskId(g, n) : g \in {f} \cup RecursiveFiles(f, n)} : n \in recrdeptask[task]}) \ {0}

\* The names whose first recipe is looked up for this task.
LooksAt(f) ==
    (IF deptask[task] = {} THEN {} ELSE depids[f])
        \cup {i[1] : i \in tasks_idepends[task]}
        \cup UNION {RecursiveNames(f, n) : n \in recrdeptask[task]}

Raises ==
    /\ tasks_fnid[task] \notin failed_fnids
    /\ \E n \in LooksAt(tasks_fnid[task]) : Emptied(n)

\* After a retry the tasks of a recipe that was given up are still among what
\* get_recursive_tdepends finds, and a name of their [depends] may have no
\* recipe left.  Nothing catches the exception.
ResolveRaises ==
    /\ pc = "resolve"
    /\ Raises
    /\ pc' = "failed"
    /\ UNCHANGED <<input, task, taskData, depends, recursive_tdepends, runq_depends, runq, weights>>

\* Mutant: a recipe that was given up is passed over before the counting.
ResolveStuck ==
    /\ pc = "resolve"
    /\ ~Raises
    /\ LET f == tasks_fnid[task]
           all == Direct \cup Recursive(f) IN
       /\ f \notin failed_fnids
       /\ tasks_tdepends' = [tasks_tdepends EXCEPT ![task] = all]
       /\ depends' = all \ {task}
       /\ \E looked \in {LookedUp(f)} :
              recursive_tdepends' =
                  [t \in Task |-> IF t \in looked THEN RecursiveTdepends(t)
                                  ELSE recursive_tdepends[t]]
    /\ runq_depends' = [runq_depends EXCEPT ![task] = depends']
    /\ IF task + 1 < NumTasks
       THEN task' = task + 1 /\ UNCHANGED pc
       ELSE task' = 0 /\ pc' = "mark"
    /\ UNCHANGED <<input, tasks_idepends, failed_fnids, runq, weights>>

\* A recipe that was given up gets what the task before it got.
Resolve ==
    /\ pc = "resolve"
    /\ ~Raises
    /\ LET f == tasks_fnid[task] IN
       IF f \in failed_fnids
       THEN UNCHANGED <<depends, tasks_tdepends, recursive_tdepends>>
       ELSE LET all == Direct \cup Recursive(f) IN
            /\ tasks_tdepends' = [tasks_tdepends EXCEPT ![task] = all]
            /\ depends' = all \ {task}
            /\ \E looked \in {LookedUp(f)} :
                   recursive_tdepends' =
                       [t \in Task |-> IF t \in looked THEN RecursiveTdepends(t)
                                       ELSE recursive_tdepends[t]]
    /\ runq_depends' = [runq_depends EXCEPT ![task] = depends']
    /\ IF task + 1 < NumTasks
       THEN task' = task + 1 /\ UNCHANGED pc
       ELSE task' = 0 /\ pc' = "mark"
    /\ UNCHANGED <<input, tasks_idepends, failed_fnids, runq, weights>>

-----------------------------------------------------------------------------
(* Steps B, C and D. *)

\* The targets that are not given up and all they depend on.
MarkActive ==
    /\ pc = "mark"
    /\ runq' = Closure(UNION {UNION {TaskId(f, t[2]) : f \in Chosen(t[1])} : t \in Targets},
                       runq_depends)
    /\ pc' = IF runq' = {} THEN "fatal" ELSE "check"
    /\ UNCHANGED <<input, task, taskData, depends, recursive_tdepends, runq_depends, weights>>

Revdeps(t) == {u \in runq : t \in runq_depends[u]}

\* Loops of two; the tasks nothing needs begin the weighing.
CheckPairs ==
    /\ pc = "check"
    /\ IF \E t \in runq : Revdeps(t) \cap runq_depends[t] # {}
       THEN pc' = "fatal" /\ UNCHANGED weights
       ELSE /\ pc' = "weigh"
            /\ endpoints' = {t \in runq : Revdeps(t) = {}}
            /\ task_done' = endpoints'
            /\ runq_weight' = [t \in Task |-> IF t \in endpoints' THEN 1 ELSE 0]
            /\ deps_left' = [t \in Task |-> Cardinality(Revdeps(t))]
    /\ UNCHANGED <<input, task, taskData, depends, recursive_tdepends, runq_depends, runq>>

\* One round of calculate_task_weights: the tasks whose last dependent was
\* in this round are in the next.
Weigh ==
    LET by(t) == Revdeps(t) \cap endpoints IN
    /\ pc = "weigh" /\ endpoints # {}
    /\ runq_weight' = [t \in Task |-> runq_weight[t] + Total(runq_weight, by(t))]
    /\ deps_left' = [t \in Task |-> deps_left[t] - Cardinality(by(t))]
    /\ endpoints' = {t \in runq : by(t) # {} /\ deps_left'[t] = 0}
    /\ task_done' = task_done \cup endpoints'
    /\ UNCHANGED <<input, pc, task, taskData, depends, recursive_tdepends, runq_depends, runq>>

\* Mutant: without the circular dependency sanity check.
WeighedUnchecked ==
    /\ pc = "weigh" /\ endpoints = {}
    /\ pc' = "execute"
    /\ UNCHANGED <<input, task, taskData, depends, recursive_tdepends, runq_depends, runq, weights>>

\* What was not reached is in a loop or behind one.
Weighed ==
    /\ pc = "weigh" /\ endpoints = {}
    /\ IF \E t \in runq : t \notin task_done \/ deps_left[t] # 0
       THEN pc' = "fatal"
       ELSE pc' = "execute"
    /\ UNCHANGED <<input, task, taskData, depends, recursive_tdepends, runq_depends, runq, weights>>

-----------------------------------------------------------------------------
(* execute_runqueue *)

\* The tasks that fail: they can run, for nothing they need fails.
MayFail ==
    {t \in runq \cap broken : Closure(runq_depends[t], runq_depends) \cap broken = {}}

\* fail_fnid and remove_buildtarget: with a recipe goes every name left
\* without one, and with a name every recipe that needs it.
GivenUp(files) ==
    LET needs(f) == depids[f] \cup {i[1] : i \in UNION {tasks_idepends[t] : t \in {u \in Task : tasks_fnid[u] = f}}}
        gone(fs) == {n \in Name : Providers[n] # <<>> /\ ToSet(Providers[n]) \subseteq fs}
        more(fs) == fs \cup {f \in File : needs(f) \cap gone(fs) # {}}
        given[n \in 0 .. Cardinality(File)] == IF n = 0 THEN files ELSE more(given[n - 1])
    IN  given[Cardinality(File)]

Succeed ==
    /\ pc = "execute"
    /\ MayFail = {}
    /\ pc' = "done"
    /\ UNCHANGED <<input, task, taskData, depends, recursive_tdepends, runq_depends, runq, weights>>

Raise ==
    /\ pc = "execute"
    /\ MayFail # {}
    /\ ~tryaltconfigs
    /\ pc' = "failed"
    /\ UNCHANGED <<input, task, taskData, depends, recursive_tdepends, runq_depends, runq, weights>>

\* What has failed when the executor stops: with -k all that can, without it
\* the first and those beside it.
Failures == IF abort THEN (SUBSET MayFail) \ {{}} ELSE {MayFail} \ {{}}

\* Without -k a name of the command line that is given up ends it (NoProvider);
\* with -k the name is left out of the next queue.
Retry ==
    /\ pc = "execute"
    /\ tryaltconfigs
    /\ \E ts \in Failures :
           failed_fnids' = failed_fnids \cup GivenUp(failed_fnids \cup {tasks_fnid[t] : t \in ts})
    /\ IF abort /\ \E t \in Targets : Emptied(t[1])'
       THEN pc' = "failed" /\ UNCHANGED <<task, depends, recursive_tdepends, runq_depends, runq,
                                          weights>>
       ELSE Reset
    /\ UNCHANGED <<input, tasks_tdepends, tasks_idepends>>
-----------------------------------------------------------------------------

Step == Resolve \/ ResolveRaises \/ MarkActive \/ CheckPairs \/ Weigh \/ Weighed \/ Succeed \/ Raise \/ Retry

Next == Step

Spec == Init /\ [][Next]_vars
FairSpec == Spec /\ WF_vars(Step)

-----------------------------------------------------------------------------
TypeOK ==
    /\ pc \in {"resolve", "mark", "check", "weigh", "execute", "done", "fatal", "failed"}
    /\ task \in Task
    /\ tasks_tdepends \in [Task -> SUBSET Task]
    /\ failed_fnids \subseteq File
    /\ depends \subseteq Task
    /\ recursive_tdepends \in [Task -> (SUBSET Task) \cup {NotYet}]
    /\ runq_depends \in [Task -> SUBSET Task]
    /\ runq \subseteq Task /\ task_done \subseteq runq /\ endpoints \subseteq runq
    /\ runq_weight \in [Task -> Nat] /\ deps_left \in [Task -> Nat]

Cyclic == \E t \in runq : t \in Closure(runq_depends[t], runq_depends)

\* The executor would come to a loop with nothing buildable and nothing active,
\* return, and report no failure, its tasks never run.  So a queue with a loop
\* is never executed, and without one preparation does not give up.
LoopsFound ==
    /\ pc \in {"execute", "done"} => ~Cyclic
    /\ pc = "fatal" /\ runq # {} => Cyclic

\* What calculate_task_weights computes: a task weighs as many as the chains of
\* tasks that lead to it from the ends, one if nothing needs it, else what those
\* that need it weigh together.
WeighsChains ==
    pc = "execute" =>
        \A t \in runq :
            runq_weight[t] = IF Revdeps(t) = {} THEN 1
                             ELSE Total(runq_weight, Revdeps(t))

\* The tasks of the queue that need t, directly or not.
NeededBy(t) == {u \in runq : t \in Closure(runq_depends[u], runq_depends)}

\* What the scheduler says of the weight: "heavier weighted tasks (tasks needed
\* by the most other tasks) are run first".  A task that more tasks need is not
\* lighter.
MostNeededHeaviest ==
    pc = "execute" =>
        \A t, u \in runq :
            Cardinality(NeededBy(t)) > Cardinality(NeededBy(u)) => runq_weight[t] >= runq_weight[u]

\* The recipes needed on the way to a task of this name, by DEPENDS, RDEPENDS
\* or [depends].  (What task number 0 has in [depends] is not looked at.)
Required(f, n) ==
    LET asks(g) ==
            depids[g] \cup {i[1] : i \in UNION {tasks_idepends[u] : u \in
                                IF TaskId(g, n) \subseteq {0} THEN {} ELSE TaskIds(g)}}
    IN  Closure(UNION {Chosen(m) : m \in asks(f)}, [g \in File |-> UNION {Chosen(m) : m \in asks(g)}])

\* A task with [recrdeptask] waits for the tasks of that name of every recipe
\* it requires.  (What is left of a recipe that was given up waits for what the
\* task before it waits for.)
RecursiveComplete ==
    pc = "execute" =>
        \A t \in runq : tasks_fnid[t] \notin failed_fnids =>
            \A n \in recrdeptask[t] : \A g \in Required(tasks_fnid[t], n) :
                TaskId(g, n) \subseteq runq_depends[t] \cup {t}

\* Preparation ends.
PreparationEnds == (pc = "resolve") ~> (pc \in {"execute", "done", "fatal", "failed"})

\* bitbake -a tries alternative providers: once a recipe failed, none of its
\* tasks is in the queue that is prepared.
GivenUpIsLeftOut ==
    pc \in {"check", "weigh", "execute", "fatal"} => \A t \in runq : tasks_fnid[t] \notin failed_fnids
=============================================================================
