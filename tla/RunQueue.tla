------------------------------ MODULE RunQueue ------------------------------
(***************************************************************************)
(* BitBake's task executor: the master process of bb/runqueue.py that      *)
(* schedules, forks and reaps tasks, the child processes that run a task   *)
(* and write its stamp file (bb/build.py), and the stamp directory that    *)
(* outlives them both.  Successive invocations of bitbake share the stamp  *)
(* directory; an invocation can be interrupted, and its children can       *)
(* survive it.                                                             *)
(***************************************************************************)
EXTENDS Integers, FiniteSets

CONSTANTS
    Task,           \* the tasks of the queue before pruning: (recipe, task name) pairs
    Depends,        \* runq_depends as Step A computes it: [Task -> SUBSET Task]
    FnOf,           \* runq_fnid: the recipe file of each task
    NoStamp,        \* tasks with the 'nostamp' flag
    SelfStamp,      \* tasks with the 'selfstamp' flag (do_setscene)
    Targets,        \* the target lists an invocation may name: sets of tasks
    StampPolicy,    \* BB_STAMP_POLICY
    StampWhitelist, \* the recipes BB_STAMP_WHITELIST resolves to
    NumberTasks,    \* BB_NUMBER_THREADS
    Pid,            \* process ids
    NoTask,         \* "no entry" in build_pids
    MaxRuns,        \* bound: invocations of bitbake
    MaxInterrupts,  \* bound: keyboard interrupts, over all invocations
    MaxTicks        \* bound: clock ticks besides those between invocations

Fn == {FnOf[t] : t \in Task}

ASSUME QueueAssumption ==
    /\ Depends \in [Task -> SUBSET Task]
    /\ NoStamp \subseteq Task
    /\ SelfStamp \subseteq Task
    /\ Targets \subseteq SUBSET Task
    /\ StampWhitelist \subseteq Fn
    /\ NoTask \notin Task

\* prepare_runqueue refuses a queue with a circular dependency; in a finite
\* graph without one every set of tasks has a task that depends on no other.
ASSUME AcyclicAssumption ==
    \A S \in SUBSET Task : S # {} => \E t \in S : Depends[t] \cap S = {}

ASSUME NumberTasksAssumption == NumberTasks \in Nat

ASSUME BoundsAssumption == MaxRuns \in Nat /\ MaxInterrupts \in Nat /\ MaxTicks \in Nat

VARIABLES
    \* The master process
    master,         \* where it is: "idle" is between two invocations
    abort,          \* taskData.abort: FALSE under -k
    runq,           \* the tasks left in the queue after Step C
    runq_buildable,
    runq_running,
    runq_complete,
    build_pids,     \* [Pid -> Task or NoTask]
    active_builds,
    failed_fnids,
    stats,          \* RunQueueStats
    pending,        \* the exception in flight while finish_runqueue runs
    outcome,        \* how the last invocation ended
    \* The child processes, as the kernel sees them
    phase,          \* [Pid -> what the process is doing]
    ptask,          \* [Pid -> the task it runs]
    own,            \* the children of the current master not yet reaped
    \* The file system
    stamp,          \* mtime of each stamp file, 0 when there is none
    clock,          \* the file system's clock, in units of mtime resolution
    \* Bounds
    runs, interrupts,
    \* History: what was really executed
    good,           \* tasks whose last execution ended well
    seen,           \* seen[t]: dependencies whose last output t's last execution read
    inputs,         \* [Pid -> the dependencies of its task not rebuilt since it began]
    ran,            \* tasks forked by this invocation
    forced,         \* targets whose stamp -f removed
    orphaned        \* tasks that had a process outlive its master

queueVars == <<runq, abort, forced>>
taskVars  == <<runq_buildable, runq_running, runq_complete>>
pidVars   == <<build_pids, active_builds>>
procVars  == <<phase, ptask, own, inputs>>
histVars  == <<good, seen>>
boundVars == <<runs, interrupts>>
vars == <<master, queueVars, taskVars, pidVars, failed_fnids, stats, pending, outcome,
          procVars, stamp, clock, boundVars, histVars, ran, orphaned>>

Phases == {"free", "exec", "stamp", "create", "ok", "fail"}
Outcomes == {"none", "success", "TaskFailure", "KeyboardInterrupt", "SystemExit", "Error"}

Zombie(p) == phase[p] \in {"ok", "fail"}
Alive(p)  == phase[p] \in {"exec", "stamp", "create"}

(***************************************************************************)
(* prepare_runqueue, Steps B and C.  mark_active marks a target and,       *)
(* through its own recursion, everything it depends on; the rest of the    *)
(* queue is pruned.                                                        *)
(***************************************************************************)
DependClosed(S) == \A t \in S : Depends[t] \subseteq S

MarkActive(T) == {t \in Task : \A S \in SUBSET Task : T \subseteq S /\ DependClosed(S) => t \in S}

(***************************************************************************)
(* check_stamp_task.  A stamp is current when it exists, its task is not   *)
(* nostamp, and no stamp it is compared with is missing or newer.          *)
(***************************************************************************)
Compared(t, d) ==
    \/ FnOf[t] = FnOf[d]
    \/ StampPolicy = "full"
    \/ StampPolicy = "whitelist" /\ FnOf[d] \notin StampWhitelist

\* Mutant: a missing stamp of a dependency is ignored.
StampCurrentMissingDep(t) ==
    /\ stamp[t] # 0
    /\ t \notin NoStamp
    /\ \A d \in Depends[t] : Compared(t, d) => ~(stamp[t] < stamp[d])

\* Mutant: a stamp needs only to exist.
StampCurrentExists(t) ==
    /\ stamp[t] # 0
    /\ t \notin NoStamp
    /\ \A d \in Depends[t] : Compared(t, d) => stamp[d] # 0

StampCurrent(t) ==
    /\ stamp[t] # 0
    /\ t \notin NoStamp
    /\ \A d \in Depends[t] : Compared(t, d) => stamp[d] # 0 /\ ~(stamp[t] < stamp[d])

-----------------------------------------------------------------------------
Init ==
    /\ master = "idle"
    /\ abort = TRUE
    /\ runq = {} /\ runq_buildable = {} /\ runq_running = {} /\ runq_complete = {}
    /\ build_pids = [p \in Pid |-> NoTask]
    /\ active_builds = 0
    /\ failed_fnids = {}
    /\ stats = [completed |-> 0, skipped |-> 0, failed |-> 0]
    /\ pending = "none" /\ outcome = "none"
    /\ phase = [p \in Pid |-> "free"]
    /\ ptask = [p \in Pid |-> NoTask]
    /\ own = {}
    /\ stamp = [t \in Task |-> 0]
    /\ clock = 1
    /\ runs = 0 /\ interrupts = 0
    /\ good = {} /\ seen = [t \in Task |-> {}] /\ inputs = [p \in Pid |-> {}]
    /\ ran = {} /\ forced = {} /\ orphaned = {}

\* del_stamp: -f removes the stamps of the targets.
\* Mutant: the stamps of the targets' dependencies go, not their own.
ForcedStampsDeps(T) == [t \in Task |-> IF \E u \in T : t \in Depends[u] THEN 0 ELSE stamp[t]]

ForcedStamps(T) == [t \in Task |-> IF t \in T THEN 0 ELSE stamp[t]]

(***************************************************************************)
(* An invocation starts: prepare_runqueue (with -f the stamps of the       *)
(* targets go), then execute_runqueue_initVars.  Start-up parses every     *)
(* recipe, so it takes longer than the resolution of the clock.            *)
(***************************************************************************)
StartRun(T, force, keepGoing) ==
    /\ master = "idle"
    /\ runs < MaxRuns
    /\ runs' = runs + 1
    /\ clock' = clock + 1
    /\ abort' = ~keepGoing
    /\ forced' = IF force THEN T ELSE {}
    /\ stamp' = IF force THEN ForcedStamps(T) ELSE stamp
    /\ runq' = MarkActive(T)
    /\ runq_buildable' = {t \in MarkActive(T) : Depends[t] = {}}
    /\ runq_running' = {} /\ runq_complete' = {}
    /\ build_pids' = [p \in Pid |-> NoTask]
    /\ active_builds' = 0
    /\ failed_fnids' = {}
    /\ stats' = [completed |-> 0, skipped |-> 0, failed |-> 0]
    /\ pending' = "none" /\ outcome' = "none"
    /\ master' = "loop"
    /\ ran' = {}
    /\ UNCHANGED <<procVars, histVars, interrupts, orphaned>>

(***************************************************************************)
(* Between two invocations a recipe is cleaned: base_do_clean removes its  *)
(* work directory and every stamp it has.                                  *)
(***************************************************************************)
Clean(fn) ==
    /\ master = "idle"
    /\ 0 < runs /\ runs < MaxRuns
    /\ \E t \in Task : FnOf[t] = fn /\ stamp[t] # 0
    /\ stamp' = [t \in Task |-> IF FnOf[t] = fn THEN 0 ELSE stamp[t]]
    /\ good' = {t \in good : FnOf[t] # fn}
    /\ outcome' = "none"
    /\ UNCHANGED <<master, queueVars, taskVars, pidVars, failed_fnids, stats, pending,
                   procVars, clock, boundVars, seen, ran, orphaned>>

(***************************************************************************)
(* The scheduler's next() returns the first task of prio_map that is       *)
(* buildable and not running.  prio_map is a permutation of the queue, so  *)
(* some task is returned exactly when there is a candidate; which one is   *)
(* left open here.                                                         *)
(***************************************************************************)
Candidates == {t \in runq : t \notin runq_running /\ t \in runq_buildable}

\* Mutant: one completed dependency makes a task buildable.
TaskCompleteAnyDep(t) ==
    /\ runq_complete' = runq_complete \cup {t}
    /\ runq_buildable' = runq_buildable \cup {r \in runq \ runq_running : t \in Depends[r]}

\* Mutant: runq_revdeps still holds the tasks that Step C pruned.
TaskCompleteUnpruned(t) ==
    /\ runq_complete' = runq_complete \cup {t}
    /\ runq_buildable' = runq_buildable \cup
          {r \in Task \ runq_running : t \in Depends[r] /\ Depends[r] \subseteq runq_complete'}

\* Mutant: the dependencies are looked at before the task is marked.
TaskCompleteBefore(t) ==
    /\ runq_complete' = runq_complete \cup {t}
    /\ runq_buildable' = runq_buildable \cup
          {r \in runq \ runq_running : t \in Depends[r] /\ Depends[r] \subseteq runq_complete}

TaskComplete(t) ==
    /\ runq_complete' = runq_complete \cup {t}
    /\ runq_buildable' = runq_buildable \cup
          {r \in runq \ runq_running : t \in Depends[r] /\ Depends[r] \subseteq runq_complete'}

Skip(t) ==
    /\ master = "loop"
    /\ t \in Candidates
    /\ StampCurrent(t)
    /\ runq_running' = runq_running \cup {t}
    /\ TaskComplete(t)
    /\ stats' = [completed |-> stats.completed + 1, skipped |-> stats.skipped + 1,
                 failed |-> stats.failed]
    /\ UNCHANGED <<master, queueVars, pidVars, failed_fnids, pending, outcome, procVars,
                   stamp, clock, boundVars, histVars, ran, orphaned>>

\* os.fork(): the kernel creates the child.
Fork(t, p) ==
    /\ master = "loop"
    /\ t \in Candidates
    /\ ~StampCurrent(t)
    /\ phase[p] = "free"
    /\ phase' = [phase EXCEPT ![p] = "exec"]
    /\ ptask' = [ptask EXCEPT ![p] = t]
    /\ inputs' = [inputs EXCEPT ![p] = Depends[t]]
    /\ own' = own \cup {p}
    /\ good' = good \ {t}
    /\ ran' = ran \cup {t}
    /\ UNCHANGED <<queueVars, runq_buildable, runq_complete, failed_fnids, stats, outcome,
                   stamp, clock, runs, seen, orphaned>>

\* After recording a child the loop looks for another task while a slot is left.
\* Mutant: off by one.
SlotLeftOneMore(n) == n <= NumberTasks

SlotLeft(n) == n < NumberTasks

\* The master records the child and either looks for another task or waits.
ForkTask(t, p) ==
    /\ Fork(t, p)
    /\ build_pids' = [build_pids EXCEPT ![p] = t]
    /\ runq_running' = runq_running \cup {t}
    /\ active_builds' = active_builds + 1
    /\ master' = IF SlotLeft(active_builds + 1) THEN "loop" ELSE "wait"
    /\ UNCHANGED <<pending, interrupts>>

\* ^C between the fork and the line that records the child.
ForkInterrupted(t, p) ==
    /\ interrupts < MaxInterrupts
    /\ Fork(t, p)
    /\ interrupts' = interrupts + 1
    /\ master' = "finish"
    /\ pending' = "KeyboardInterrupt"
    /\ UNCHANGED <<pidVars, runq_running>>

\* The fork fails: bb.msg.fatal raises SystemExit.
ForkFails(t) ==
    /\ master = "loop"
    /\ t \in Candidates
    /\ ~StampCurrent(t)
    /\ master' = "finish"
    /\ pending' = "SystemExit"
    /\ UNCHANGED <<queueVars, taskVars, pidVars, failed_fnids, stats, outcome, procVars,
                   stamp, clock, boundVars, histVars, ran, orphaned>>

(***************************************************************************)
(* os.waitpid(-1, 0) in the loop, when there is nothing to start or no     *)
(* slot to start it in.                                                    *)
(***************************************************************************)
Release(S) ==
    /\ phase' = [p \in Pid |-> IF p \in S THEN "free" ELSE phase[p]]
    /\ ptask' = [p \in Pid |-> IF p \in S THEN NoTask ELSE ptask[p]]
    /\ inputs' = [p \in Pid |-> IF p \in S THEN {} ELSE inputs[p]]

Waiting ==
    /\ active_builds > 0
    /\ master = "wait" \/ (master = "loop" /\ Candidates = {})

Reap(p) ==
    /\ p \in own
    /\ Zombie(p)
    /\ Release({p})
    /\ own' = own \ {p}
    /\ UNCHANGED <<queueVars, outcome, stamp, clock, runs, histVars, ran, orphaned>>

TaskSucceeds(p) ==
    /\ Waiting
    /\ phase[p] = "ok"
    /\ Reap(p)
    /\ active_builds' = active_builds - 1
    /\ TaskComplete(build_pids[p])
    /\ build_pids' = [build_pids EXCEPT ![p] = NoTask]
    /\ stats' = [stats EXCEPT !.completed = @ + 1]
    /\ master' = "loop"
    /\ UNCHANGED <<runq_running, failed_fnids, pending, interrupts>>

\* Without -k the loop ends at the first failure it sees.
\* Mutants: it always ends; it never ends.
AfterFailureBreak == "finish"
AfterFailureContinue == "loop"

AfterFailure == IF abort THEN "finish" ELSE "loop"

TaskFails(p) ==
    /\ Waiting
    /\ phase[p] = "fail"
    /\ Reap(p)
    /\ active_builds' = active_builds - 1
    /\ failed_fnids' = failed_fnids \cup {FnOf[build_pids[p]]}
    /\ build_pids' = [build_pids EXCEPT ![p] = NoTask]
    /\ stats' = [stats EXCEPT !.failed = @ + 1]
    /\ master' = AfterFailure
    /\ UNCHANGED <<taskVars, pending, interrupts>>

\* ^C after waitpid returned a child and before active_builds is decremented.
ReapInterrupted(p) ==
    /\ Waiting
    /\ interrupts < MaxInterrupts
    /\ Reap(p)
    /\ interrupts' = interrupts + 1
    /\ pending' = "KeyboardInterrupt"
    /\ master' = "finish"
    /\ UNCHANGED <<taskVars, pidVars, failed_fnids, stats>>

\* ^C anywhere else in the loop.
Interrupt ==
    /\ master \in {"loop", "wait"}
    /\ interrupts < MaxInterrupts
    /\ interrupts' = interrupts + 1
    /\ pending' = "KeyboardInterrupt"
    /\ master' = "finish"
    /\ UNCHANGED <<queueVars, taskVars, pidVars, failed_fnids, stats, outcome, procVars,
                   stamp, clock, runs, histVars, ran, orphaned>>

\* Nothing to start and nothing to wait for: the loop returns.
LoopReturns ==
    /\ master = "loop"
    /\ Candidates = {}
    /\ active_builds = 0
    /\ master' = "finish"
    /\ UNCHANGED <<queueVars, taskVars, pidVars, failed_fnids, stats, pending, outcome,
                   procVars, stamp, clock, boundVars, histVars, ran, orphaned>>

(***************************************************************************)
(* finish_runqueue and the end of the invocation.  When the master exits,  *)
(* init reaps its zombies and its living children go on as orphans.        *)
(***************************************************************************)
EndRun(how, killed) ==
    /\ Release({p \in own : Zombie(p)} \cup killed)
    /\ own' = {}
    /\ orphaned' = orphaned \cup {ptask[p] : p \in {q \in own : Alive(q)} \ killed}
    /\ master' = "idle"
    /\ pending' = "none"
    /\ outcome' = how
    /\ UNCHANGED <<queueVars, taskVars, pidVars, clock, stamp, runs, histVars, ran>>

\* The loop of finish_runqueue is left when every counted child is reaped.
\* Mutant: off by one.
AllReapedButOne == active_builds <= 1

AllReaped == active_builds = 0

FinishReaps(p) ==
    /\ master = "finish"
    /\ ~AllReaped
    /\ build_pids[p] # NoTask
    /\ Reap(p)
    /\ build_pids' = [build_pids EXCEPT ![p] = NoTask]
    /\ active_builds' = active_builds - 1
    /\ IF phase[p] = "fail"
       THEN /\ failed_fnids' = failed_fnids \cup {FnOf[build_pids[p]]}
            /\ stats' = [stats EXCEPT !.failed = @ + 1]
       ELSE UNCHANGED <<failed_fnids, stats>>
    /\ UNCHANGED <<master, pending, taskVars, interrupts>>

\* waitpid returns a child that was never recorded: KeyError.
FinishUnknownPid(p) ==
    /\ master = "finish"
    /\ ~AllReaped
    /\ p \in own
    /\ Zombie(p)
    /\ build_pids[p] = NoTask
    /\ EndRun("Error", {})
    /\ UNCHANGED <<failed_fnids, stats, interrupts>>

\* waitpid finds no child at all: OSError (ECHILD).
\* Mutant: the error is swallowed and the loop waits again.
FinishNoChildRetry ==
    /\ master = "finish"
    /\ ~AllReaped
    /\ own = {}
    /\ UNCHANGED vars

FinishNoChild ==
    /\ master = "finish"
    /\ ~AllReaped
    /\ own = {}
    /\ EndRun("Error", {})
    /\ UNCHANGED <<failed_fnids, stats, interrupts>>

\* ^C while finishing: SIGINT goes to the process group of every recorded
\* child.  A child may swallow it, or not have made its group yet.
FinishInterrupted ==
    /\ master = "finish"
    /\ ~AllReaped
    /\ interrupts < MaxInterrupts
    /\ \E killed \in SUBSET {p \in own : Alive(p) /\ build_pids[p] # NoTask} :
          EndRun("KeyboardInterrupt", killed)
    /\ interrupts' = interrupts + 1
    /\ UNCHANGED <<failed_fnids, stats>>

\* No child is left: the exception in flight goes on, or the failures decide.
FinishReturns ==
    /\ master = "finish"
    /\ AllReaped
    /\ EndRun(CASE pending # "none" -> pending
                [] pending = "none" /\ failed_fnids = {} -> "success"
                [] OTHER -> "TaskFailure", {})
    /\ UNCHANGED <<failed_fnids, stats, interrupts>>

(***************************************************************************)
(* A child: build.exec_task runs the task and then make_stamp removes the  *)
(* old stamp and creates a new one.  It can fail at every point.           *)
(***************************************************************************)
ChildUnchanged ==
    UNCHANGED <<master, queueVars, taskVars, pidVars, failed_fnids, stats, pending, outcome,
                own, clock, boundVars, ran, orphaned>>

\* The child exits: a zombie until its master reaps it, gone if it is an orphan.
Exit(p, status) ==
    IF p \in own
    THEN phase' = [phase EXCEPT ![p] = status] /\ UNCHANGED <<ptask, inputs>>
    ELSE Release({p})

\* base_do_setscene, the selfstamp task, only writes a stamp it does not have.
WritesStamp(t) == t \notin NoStamp /\ ~(t \in SelfStamp /\ stamp[t] # 0)

\* The task's function ends well: its output is new, and every other
\* execution that read the old output has not seen it.
ExecSucceeds(p) ==
    /\ phase[p] = "exec"
    /\ LET t == ptask[p] IN
       /\ good' = good \cup {t}
       /\ seen' = [u \in Task |-> IF u = t THEN inputs[p] ELSE seen[u] \ {t}]
       /\ IF p \in own \/ WritesStamp(t)
          THEN /\ phase' = [phase EXCEPT ![p] = IF WritesStamp(t) THEN "stamp" ELSE "ok"]
               /\ inputs' = [q \in Pid |-> inputs[q] \ {t}]
               /\ UNCHANGED ptask
          ELSE /\ phase' = [phase EXCEPT ![p] = "free"]
               /\ inputs' = [q \in Pid |-> IF q = p THEN {} ELSE inputs[q] \ {t}]
               /\ ptask' = [ptask EXCEPT ![p] = NoTask]
    /\ UNCHANGED stamp
    /\ ChildUnchanged

ChildFails(p) ==
    /\ Alive(p)
    /\ Exit(p, "fail")
    /\ UNCHANGED <<stamp, histVars>>
    /\ ChildUnchanged

StampInternal(p) ==
    /\ phase[p] = "stamp"
    /\ stamp' = [stamp EXCEPT ![ptask[p]] = 0]
    /\ phase' = [phase EXCEPT ![p] = "create"]
    /\ UNCHANGED <<ptask, inputs, histVars>>
    /\ ChildUnchanged

CreateStamp(p) ==
    /\ phase[p] = "create"
    /\ stamp' = [stamp EXCEPT ![ptask[p]] = clock]
    /\ Exit(p, "ok")
    /\ UNCHANGED histVars
    /\ ChildUnchanged

\* Time passes; only a process about to create a stamp notices.
Tick ==
    /\ clock < 1 + runs + MaxTicks
    /\ \E p \in Pid : Alive(p)
    /\ clock' = clock + 1
    /\ UNCHANGED <<master, queueVars, taskVars, pidVars, failed_fnids, stats, pending, outcome,
                   procVars, stamp, boundVars, histVars, ran, orphaned>>

\* No invocation is left and no process either.
Terminated ==
    /\ master = "idle"
    /\ runs = MaxRuns
    /\ \A p \in Pid : phase[p] = "free"
    /\ UNCHANGED vars
-----------------------------------------------------------------------------
MasterStep ==
    \/ \E t \in Task : Skip(t)
    \/ \E t \in Task, p \in Pid : ForkTask(t, p)
    \/ \E p \in Pid : TaskSucceeds(p) \/ TaskFails(p)
    \/ LoopReturns
    \/ \E p \in Pid : FinishReaps(p) \/ FinishUnknownPid(p)
    \/ FinishNoChild
    \/ FinishReturns

ChildStep(p) == ExecSucceeds(p) \/ ChildFails(p) \/ StampInternal(p) \/ CreateStamp(p)

Disturbance ==
    \/ \E t \in Task, p \in Pid : ForkInterrupted(t, p)
    \/ \E t \in Task : ForkFails(t)
    \/ \E p \in Pid : ReapInterrupted(p)
    \/ Interrupt
    \/ FinishInterrupted

Next ==
    \/ \E T \in Targets, force \in BOOLEAN, keepGoing \in BOOLEAN : StartRun(T, force, keepGoing)
    \/ \E fn \in Fn : Clean(fn)
    \/ MasterStep
    \/ \E p \in Pid : ChildStep(p)
    \/ Disturbance
    \/ Tick
    \/ Terminated

Spec == Init /\ [][Next]_vars

\* A master that can step does; a task does not run forever.
FairSpec == Spec /\ WF_vars(MasterStep) /\ \A p \in Pid : WF_vars(ChildStep(p))
-----------------------------------------------------------------------------
TypeOK ==
    /\ master \in {"idle", "loop", "wait", "finish"}
    /\ abort \in BOOLEAN
    /\ runq \subseteq Task /\ runq_buildable \subseteq runq
    /\ runq_running \subseteq runq /\ runq_complete \subseteq runq
    /\ build_pids \in [Pid -> Task \cup {NoTask}]
    /\ active_builds \in Nat
    /\ failed_fnids \subseteq Fn
    /\ stats \in [completed : Nat, skipped : Nat, failed : Nat]
    /\ pending \in {"none", "KeyboardInterrupt", "SystemExit"}
    /\ outcome \in Outcomes
    /\ phase \in [Pid -> Phases]
    /\ ptask \in [Pid -> Task \cup {NoTask}]
    /\ own \subseteq Pid
    /\ stamp \in [Task -> Nat]
    /\ clock \in Nat
    /\ runs \in Nat /\ interrupts \in Nat
    /\ good \subseteq Task /\ ran \subseteq Task
    /\ forced \subseteq Task /\ orphaned \subseteq Task
    /\ seen \in [Task -> SUBSET Task]
    /\ inputs \in [Pid -> SUBSET Task]

\* A task never runs beside a second execution of itself or of anything it
\* depends on, directly or not, in the same invocation: what runq_buildable,
\* runq_running and task_complete are for.
NoOverlap ==
    \A p, q \in own :
        p # q /\ Alive(p) /\ Alive(q) => ptask[p] \notin MarkActive({ptask[q]})

\* BB_NUMBER_THREADS bounds the children that have not been reaped (one is
\* always allowed), the one an interrupt kept out of build_pids included.
SlotLimit == Cardinality(own) <= IF NumberTasks = 0 THEN 1 ELSE NumberTasks

\* A stamp that check_stamp_task calls current belongs to a task whose last
\* execution ended well.  A failed or killed task leaves its old stamp behind,
\* so this rests on whatever made it run making it run again.
CurrentIsGood == \A t \in Task \ orphaned : StampCurrent(t) => t \in good

\* After an invocation that reported success every task of its queue is the
\* product of a good execution that read the last output of each dependency
\* its stamp is compared with, over any history of failures, interrupts,
\* forced and cleaned builds.  A task that has had a process outlive its
\* master is excepted: such a process can stamp work done on old inputs.  So
\* is a selfstamp dependency: its stamp says that it has been executed once,
\* and stays as it is when it is executed again.
UpToDate ==
    master = "idle" /\ outcome = "success" =>
        \A t \in runq \ orphaned :
            /\ t \in good
            /\ \A d \in Depends[t] \ (orphaned \cup SelfStamp) : Compared(t, d) => d \in seen[t]

\* What the sanity checks after the first return of finish_runqueue look for
\* ("never buildable", "never ran", "never completed") and never report.
SuccessCompletes ==
    master = "idle" /\ outcome = "success" => runq_complete = runq /\ runq_running = runq

\* -f: the target is executed, whatever stamps there were.
ForcedRuns ==
    master = "idle" /\ outcome = "success" => forced \ orphaned \subseteq ran

\* -k: when tasks have failed, exactly the tasks that do not need one of them
\* have been completed.
KeepGoing ==
    master = "idle" /\ outcome = "TaskFailure" /\ ~abort =>
        \A t \in runq :
            t \in runq_complete <=> MarkActive({t}) \cap (ran \ runq_complete) = {}

\* Without -k nothing more is started once a failure has been seen.
AbortStops ==
    [][abort /\ failed_fnids # {} /\ master # "idle" => ran' = ran]_vars

\* An invocation that is not interrupted reaps every child before it exits.
ReapsAll ==
    [][master = "finish" /\ master' = "idle" /\ pending # "KeyboardInterrupt"
          /\ interrupts' = interrupts => own = {}]_vars

\* Every invocation ends: interrupted or not, failing or not, with whatever
\* children it lost track of.
RunEnds == (master # "idle") ~> (master = "idle")
=============================================================================
