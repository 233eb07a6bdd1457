--------------------------- MODULE RunQueueProofs ---------------------------
(***************************************************************************)
(* Proofs about the executor, for every queue, number of slots and history *)
(* of invocations: it never breaks the order of the tasks, keeps to its    *)
(* slots, reaps its children, implements DependencyOrder, and when it ends *)
(* the tasks are complete and up to date.                                  *)
(***************************************************************************)
EXTENDS RunQueueOrder, FiniteSetTheorems, TLAPS

\* What ties the kernel's view of the children to the master's tables.
ProcInv ==
    /\ \A p \in Pid : phase[p] # "free" => ptask[p] \in Task
    /\ \A p \in own : phase[p] # "free"
    /\ master \in {"loop", "wait"} => \A p \in own : build_pids[p] = ptask[p]
    /\ master = "idle" => own = {}

\* What makes the flags of the tasks mean what they say.
OrderInv ==
    /\ runq_complete \subseteq runq_running
    /\ \A t \in runq_buildable : Depends[t] \subseteq runq_complete
    /\ \A t \in runq_running : Depends[t] \subseteq runq_complete
    /\ \A p \in own : ptask[p] \notin runq_complete /\ Depends[ptask[p]] \subseteq runq_complete
    /\ \A p, q \in own : p # q => ptask[p] # ptask[q]
    /\ master \in {"loop", "wait"} => \A p \in own : ptask[p] \in runq_running

Inv == TypeOK /\ ProcInv /\ OrderInv

LEMMA InitInv == Init => Inv
  BY QueueAssumption, NumberTasksAssumption
     DEF Init, Inv, TypeOK, ProcInv, OrderInv, Outcomes, Phases

\* A set that mark_active builds contains its targets' dependencies only once
\* they are all marked: it is closed, and least among the closed sets.
LEMMA MarkActiveSubset == ASSUME NEW T, NEW t \in MarkActive(T) PROVE t \in Task
  BY DEF MarkActive

LEMMA MarkActiveLeast ==
    ASSUME NEW S \in SUBSET Task, NEW T \in SUBSET S, DependClosed(S)
    PROVE  MarkActive(T) \subseteq S
  BY DEF MarkActive

\* Every step but the start of an invocation leaves the queue alone.
LEMMA StartRunInv ==
    ASSUME Inv, NEW T \in Targets, NEW force \in BOOLEAN, NEW keepGoing \in BOOLEAN,
           StartRun(T, force, keepGoing)
    PROVE  Inv'
<1> USE QueueAssumption DEF Inv
<1>1. MarkActive(T) \subseteq Task
  BY DEF MarkActive
<1>2. TypeOK'
  <2>1. stamp' \in [Task -> Nat]
    BY DEF StartRun, ForcedStamps, TypeOK
  <2>2. forced' \subseteq Task
    BY DEF StartRun, TypeOK
  <2> QED
    BY <1>1, <2>1, <2>2 DEF StartRun, TypeOK, Outcomes, procVars, histVars
<1>3. ProcInv'
  BY DEF StartRun, TypeOK, ProcInv, procVars
<1>4. OrderInv'
  BY <1>1 DEF StartRun, ProcInv, OrderInv, procVars
<1> QED
  BY <1>2, <1>3, <1>4

LEMMA CleanInv ==
    ASSUME Inv, NEW fn \in Fn, Clean(fn)
    PROVE  Inv'
  BY QueueAssumption
     DEF Inv, TypeOK, ProcInv, OrderInv, Clean, queueVars, taskVars, pidVars, procVars,
         boundVars, Outcomes

\* task_complete keeps the order when the task it completes has all its
\* dependencies complete and no child of its own.
LEMMA SkipInv ==
    ASSUME Inv, NEW t \in Task, Skip(t)
    PROVE  Inv'
<1> USE QueueAssumption DEF Inv, Skip, TaskComplete, Candidates, queueVars, pidVars, procVars,
        boundVars, histVars
<1>1. TypeOK'
  <2>1. stats' \in [completed : Nat, skipped : Nat, failed : Nat]
    BY DEF TypeOK
  <2>2. runq_running' \subseteq runq /\ runq_complete' \subseteq runq /\ runq_buildable' \subseteq runq
    BY DEF TypeOK
  <2> QED
    BY <2>1, <2>2 DEF TypeOK
<1>2. ProcInv'
  BY DEF ProcInv
<1>3. OrderInv'
  BY DEF ProcInv, OrderInv, TypeOK
<1> QED
  BY <1>1, <1>2, <1>3

LEMMA ForkTaskInv ==
    ASSUME Inv, NEW t \in Task, NEW p \in Pid, ForkTask(t, p)
    PROVE  Inv'
<1> USE QueueAssumption DEF Inv, ForkTask, Fork, Candidates, queueVars
<1>1. TypeOK'
  BY DEF TypeOK, Phases
<1>2. ProcInv'
  BY DEF ProcInv, TypeOK
<1>3. OrderInv'
  BY DEF ProcInv, OrderInv, TypeOK
<1> QED
  BY <1>1, <1>2, <1>3

LEMMA ForkInterruptedInv ==
    ASSUME Inv, NEW t \in Task, NEW p \in Pid, ForkInterrupted(t, p)
    PROVE  Inv'
<1> USE QueueAssumption DEF Inv, ForkInterrupted, Fork, Candidates, queueVars, pidVars
<1>1. TypeOK'
  BY DEF TypeOK, Phases
<1>2. ProcInv'
  BY DEF ProcInv, TypeOK
<1>3. OrderInv'
  BY DEF ProcInv, OrderInv, TypeOK
<1> QED
  BY <1>1, <1>2, <1>3

LEMMA TaskSucceedsInv ==
    ASSUME Inv, NEW p \in Pid, TaskSucceeds(p)
    PROVE  Inv'
<1> USE QueueAssumption DEF Inv, TaskSucceeds, Waiting, Reap, Release, TaskComplete, queueVars,
        histVars
<1>1. build_pids[p] = ptask[p] /\ ptask[p] \in Task /\ ptask[p] \in runq_running
  BY DEF ProcInv, OrderInv, TypeOK
<1>2. TypeOK'
  BY <1>1 DEF TypeOK, Phases
<1>3. ProcInv'
  BY <1>1 DEF ProcInv, TypeOK
<1>4. OrderInv'
  BY <1>1 DEF ProcInv, OrderInv, TypeOK
<1> QED
  BY <1>2, <1>3, <1>4

LEMMA TaskFailsInv ==
    ASSUME Inv, NEW p \in Pid, TaskFails(p)
    PROVE  Inv'
<1> USE QueueAssumption DEF Inv, TaskFails, Waiting, Reap, Release, AfterFailure, queueVars,
        taskVars, histVars
<1>1. build_pids[p] = ptask[p] /\ ptask[p] \in Task
  BY DEF ProcInv, OrderInv, TypeOK
<1>2. TypeOK'
  BY <1>1 DEF TypeOK, Phases, Fn
<1>3. ProcInv'
  BY <1>1 DEF ProcInv, TypeOK
<1>4. OrderInv'
  BY <1>1 DEF ProcInv, OrderInv, TypeOK
<1> QED
  BY <1>2, <1>3, <1>4

LEMMA ReapInterruptedInv ==
    ASSUME Inv, NEW p \in Pid, ReapInterrupted(p)
    PROVE  Inv'
<1> USE QueueAssumption DEF Inv, ReapInterrupted, Waiting, Reap, Release, queueVars, taskVars,
        pidVars, histVars
<1>1. TypeOK'
  BY DEF TypeOK, Phases
<1>2. ProcInv'
  BY DEF ProcInv, TypeOK
<1>3. OrderInv'
  BY DEF ProcInv, OrderInv, TypeOK
<1> QED
  BY <1>1, <1>2, <1>3

\* ^C in the loop, a fork that fails and the end of the loop only change where
\* the master is.
LEMMA LeaveLoopInv ==
    ASSUME Inv, Interrupt \/ LoopReturns \/ (\E t \in Task : ForkFails(t))
    PROVE  Inv'
<1>1. /\ master' = "finish"
      /\ pending' \in {"none", "KeyboardInterrupt", "SystemExit"}
      /\ interrupts' \in Nat
      /\ UNCHANGED <<queueVars, taskVars, pidVars, failed_fnids, stats, outcome, procVars,
                     stamp, clock, runs, histVars, ran, orphaned>>
  BY DEF Inv, TypeOK, Interrupt, LoopReturns, ForkFails, boundVars
<1> QED
  BY <1>1 DEF Inv, TypeOK, ProcInv, OrderInv, queueVars, taskVars, pidVars, procVars, histVars

LEMMA FinishReapsInv ==
    ASSUME Inv, NEW p \in Pid, FinishReaps(p)
    PROVE  Inv'
<1> USE QueueAssumption DEF Inv, FinishReaps, AllReaped, Reap, Release, queueVars, taskVars,
        histVars
<1>1. TypeOK'
  <2>1. build_pids[p] \in Task
    BY DEF TypeOK
  <2>2. failed_fnids' \subseteq Fn /\ stats' \in [completed : Nat, skipped : Nat, failed : Nat]
    BY <2>1 DEF TypeOK, Fn
  <2>3. active_builds' \in Nat
    BY DEF TypeOK
  <2>4. UNCHANGED <<taskVars, master, pending, interrupts, queueVars, outcome, stamp, clock,
                    runs, histVars, ran, orphaned>>
    OBVIOUS
  <2>5. /\ build_pids' \in [Pid -> Task \cup {NoTask}]
        /\ phase' \in [Pid -> Phases]
        /\ ptask' \in [Pid -> Task \cup {NoTask}]
        /\ inputs' \in [Pid -> SUBSET Task]
        /\ own' \subseteq Pid
    BY DEF TypeOK, Phases
  <2> QED
    BY <2>2, <2>3, <2>4, <2>5 DEF TypeOK
<1>2. ProcInv'
  BY DEF ProcInv, TypeOK
<1>3. OrderInv'
  BY DEF ProcInv, OrderInv, TypeOK
<1> QED
  BY <1>1, <1>2, <1>3

LEMMA EndRunInv ==
    ASSUME Inv, NEW how \in Outcomes, NEW killed \in SUBSET own, EndRun(how, killed),
           failed_fnids' \subseteq Fn, stats' = stats, interrupts' \in Nat
    PROVE  Inv'
<1> USE QueueAssumption DEF Inv, EndRun, Release, queueVars, taskVars, pidVars, histVars
<1>1. TypeOK'
  <2>1. orphaned' \subseteq Task
    BY DEF TypeOK, ProcInv
  <2> QED
    BY <2>1 DEF TypeOK, Phases
<1>2. ProcInv'
  BY DEF ProcInv, TypeOK
<1>3. OrderInv'
  BY DEF OrderInv, TypeOK
<1> QED
  BY <1>1, <1>2, <1>3

LEMMA FinishEndsInv ==
    ASSUME Inv,
           \/ \E p \in Pid : FinishUnknownPid(p)
           \/ FinishNoChild \/ FinishInterrupted \/ FinishReturns
    PROVE  Inv'
<1>1. CASE \E p \in Pid : FinishUnknownPid(p)
  BY <1>1, EndRunInv DEF FinishUnknownPid, Inv, TypeOK, Outcomes
<1>2. CASE FinishNoChild
  BY <1>2, EndRunInv DEF FinishNoChild, Inv, TypeOK, Outcomes
<1>3. CASE FinishInterrupted
  <2>1. PICK killed \in SUBSET own : EndRun("KeyboardInterrupt", killed)
    BY <1>3 DEF FinishInterrupted
  <2> QED
    BY <1>3, <2>1, EndRunInv DEF FinishInterrupted, Inv, TypeOK, Outcomes
<1>4. CASE FinishReturns
  <2>1. PICK how \in Outcomes : EndRun(how, {})
    BY <1>4 DEF FinishReturns, Inv, TypeOK, Outcomes
  <2> QED
    BY <1>4, <2>1, EndRunInv DEF FinishReturns, Inv, TypeOK
<1> QED
  BY <1>1, <1>2, <1>3, <1>4

\* A child changes its own entry in the kernel's table, the stamps and the
\* history, and nothing of its master's.
LEMMA ChildInv ==
    ASSUME Inv, NEW p \in Pid, ChildStep(p)
    PROVE  Inv'
<1> USE QueueAssumption DEF Inv
<1> UNCHANGED <<master, queueVars, taskVars, pidVars, failed_fnids, stats, pending, outcome,
                own, clock, boundVars, ran, orphaned>>
  BY DEF ChildStep, ExecSucceeds, ChildFails, StampInternal, CreateStamp, ChildUnchanged
<1>1. phase[p] # "free" /\ ptask[p] \in Task
  BY DEF ChildStep, ExecSucceeds, ChildFails, StampInternal, CreateStamp, Alive, ProcInv
<1>2. /\ phase' \in [Pid -> Phases]
      /\ ptask' \in [Pid -> Task \cup {NoTask}]
      /\ \A q \in Pid : phase'[q] # "free" => phase[q] # "free" /\ ptask'[q] = ptask[q]
      /\ \A q \in own : phase[q] # "free" => phase'[q] # "free"
      /\ \A q \in own : ptask'[q] = ptask[q]
  <2> USE DEF TypeOK, Phases, Exit, Release
  <2>1. CASE ExecSucceeds(p)
    BY <1>1, <2>1 DEF ExecSucceeds, ProcInv
  <2>2. CASE ChildFails(p)
    BY <1>1, <2>2 DEF ChildFails, ProcInv
  <2>3. CASE StampInternal(p)
    BY <1>1, <2>3 DEF StampInternal, ProcInv
  <2>4. CASE CreateStamp(p)
    BY <1>1, <2>4 DEF CreateStamp, ProcInv
  <2> QED
    BY <2>1, <2>2, <2>3, <2>4 DEF ChildStep
<1>3. /\ good' \subseteq Task
      /\ seen' \in [Task -> SUBSET Task]
      /\ inputs' \in [Pid -> SUBSET Task]
      /\ stamp' \in [Task -> Nat]
  <2> USE <1>1 DEF TypeOK, Exit, Release, histVars
  <2>1. CASE ExecSucceeds(p)
    BY <2>1 DEF ExecSucceeds
  <2>2. CASE ChildFails(p)
    BY <2>2 DEF ChildFails
  <2>3. CASE StampInternal(p)
    BY <2>3 DEF StampInternal
  <2>4. CASE CreateStamp(p)
    BY <2>4 DEF CreateStamp
  <2> QED
    BY <2>1, <2>2, <2>3, <2>4 DEF ChildStep
<1> USE DEF queueVars, taskVars, pidVars, boundVars
<1>4. TypeOK'
  BY <1>2, <1>3 DEF TypeOK
<1>5. ProcInv'
  BY <1>2 DEF ProcInv, TypeOK
<1>6. OrderInv'
  BY <1>2 DEF OrderInv, ProcInv, TypeOK
<1> QED
  BY <1>4, <1>5, <1>6

LEMMA TickInv == ASSUME Inv, Tick PROVE Inv'
  BY DEF Tick, Inv, TypeOK, ProcInv, OrderInv, queueVars, taskVars, pidVars, procVars,
         boundVars, histVars

LEMMA StutterInv == ASSUME Inv, UNCHANGED vars PROVE Inv'
  BY DEF Inv, TypeOK, ProcInv, OrderInv, vars, queueVars, taskVars, pidVars, procVars,
         boundVars, histVars

LEMMA NextInv == Inv /\ [Next]_vars => Inv'
<1> SUFFICES ASSUME Inv, [Next]_vars PROVE Inv'
  OBVIOUS
<1>1. CASE \E T \in Targets, force \in BOOLEAN, keepGoing \in BOOLEAN :
               StartRun(T, force, keepGoing)
  BY <1>1, StartRunInv
<1>2. CASE \E fn \in Fn : Clean(fn)
  BY <1>2, CleanInv
<1>3. CASE MasterStep
  BY <1>3, SkipInv, ForkTaskInv, TaskSucceedsInv, TaskFailsInv, LeaveLoopInv, FinishReapsInv,
     FinishEndsInv DEF MasterStep
<1>4. CASE \E p \in Pid : ChildStep(p)
  BY <1>4, ChildInv
<1>5. CASE Disturbance
  BY <1>5, ForkInterruptedInv, ReapInterruptedInv, LeaveLoopInv, FinishEndsInv DEF Disturbance
<1>6. CASE Tick
  BY <1>6, TickInv
<1>7. CASE Terminated \/ UNCHANGED vars
  BY <1>7, StutterInv DEF Terminated
<1> QED
  BY <1>1, <1>2, <1>3, <1>4, <1>5, <1>6, <1>7 DEF Next

\* The executor's flags, tables and counters keep their types, and Inv ties
\* them together, in every behaviour.
THEOREM InvHolds == Spec => []Inv
  BY InitInv, NextInv, PTL DEF Spec

\* TypeOK is an invariant of every instance.
THEOREM TypeCorrect == Spec => []TypeOK
<1>1. Inv => TypeOK
  BY DEF Inv
<1> QED
  BY <1>1, InvHolds, PTL

\* No task ever runs beside a second execution of itself or of anything it
\* depends on: the completed tasks together with a running one are closed under
\* Depends, so what mark_active would build for it holds no other running task.
THEOREM NoOverlapHolds == Spec => []NoOverlap
<1>1. Inv => NoOverlap
  <2> SUFFICES ASSUME Inv, NEW p \in own, NEW q \in own, p # q, Alive(p), Alive(q),
                      ptask[p] \in MarkActive({ptask[q]})
               PROVE  FALSE
    BY DEF NoOverlap
  <2> DEFINE S == runq_complete \cup {ptask[q]}
  <2>1. ptask[q] \in Task /\ S \in SUBSET Task
    BY DEF Inv, TypeOK, ProcInv
  <2>2. DependClosed(S)
    BY DEF Inv, TypeOK, OrderInv, DependClosed
  <2>3. ptask[p] \in S
    BY <2>1, <2>2, MarkActiveLeast
  <2> QED
    BY <2>3 DEF Inv, OrderInv
<1> QED
  BY <1>1, InvHolds, PTL
-----------------------------------------------------------------------------
(***************************************************************************)
(* A current stamp means a good execution.                                 *)
(***************************************************************************)

\* A stamp as new as the clock was written by this invocation, for a task it
\* forked; no stamp is newer.
FreshInv ==
    /\ \A t \in Task : stamp[t] <= clock
    /\ \A t \in Task \ orphaned : stamp[t] = clock => t \in good /\ t \in ran
    /\ 0 < clock
    /\ master \in {"loop", "wait"} => ran \subseteq runq_running

\* A child of the master that writes its stamp has ended well; a process that
\* is nobody's child is known as an orphan.
WriterInv ==
    /\ \A p \in own : ptask[p] \in ran
    /\ \A p \in own : phase[p] \in {"stamp", "create"} => ptask[p] \in good
    /\ \A p \in Pid \ own : Alive(p) => ptask[p] \in orphaned

StampInv == FreshInv /\ WriterInv /\ CurrentIsGood

LEMMA StampInit == Init => StampInv
  BY QueueAssumption DEF Init, StampInv, FreshInv, WriterInv, CurrentIsGood, StampCurrent, Alive

\* Removing stamps makes no task current.
LEMMA RemovalCurrent ==
    ASSUME stamp \in [Task -> Nat], stamp' \in [Task -> Nat], Depends \in [Task -> SUBSET Task],
           \A t \in Task : stamp'[t] \in {0, stamp[t]},
           NEW t \in Task, StampCurrent(t)'
    PROVE  StampCurrent(t)
<1>1. \A d \in Depends[t] : d \in Task
  OBVIOUS
<1>2. \A d \in Depends[t] : Compared(t, d)' = Compared(t, d)
  BY DEF Compared
<1> QED
  BY <1>1, <1>2 DEF StampCurrent

\* A step that leaves the stamps alone makes no task current.
LEMMA SameCurrent ==
    ASSUME UNCHANGED stamp, NEW t
    PROVE  StampCurrent(t)' <=> StampCurrent(t)
  BY DEF StampCurrent, Compared

\* A step that touches neither stamps, clock nor history, starts nothing and
\* may only free processes.
LEMMA QuietStep ==
    ASSUME Inv, StampInv,
           UNCHANGED <<stamp, clock, good, ran>>,
           orphaned \subseteq orphaned',
           \A p \in own' : p \in own /\ phase'[p] = phase[p] /\ ptask'[p] = ptask[p],
           \A p \in Pid \ own' : phase'[p] \in {"exec", "stamp", "create"} => ptask'[p] \in orphaned',
           master' \in {"loop", "wait"} =>
               master \in {"loop", "wait"} /\ runq_running \subseteq runq_running'
    PROVE  StampInv'
<1>1. FreshInv'
  BY DEF StampInv, FreshInv
<1>2. WriterInv'
  BY DEF StampInv, WriterInv, Alive
<1>3. CurrentIsGood'
  BY SameCurrent DEF StampInv, CurrentIsGood
<1> QED
  BY <1>1, <1>2, <1>3 DEF StampInv

LEMMA QuietTask ==
    ASSUME Inv, StampInv, NEW t \in Task, Skip(t) \/ ForkFails(t)
    PROVE  StampInv'
  BY QuietStep DEF Skip, ForkFails, StampInv, WriterInv, Alive, queueVars, taskVars, procVars,
                   histVars, boundVars

LEMMA QuietLeave ==
    ASSUME Inv, StampInv, Interrupt \/ LoopReturns
    PROVE  StampInv'
  BY QuietStep DEF Interrupt, LoopReturns, StampInv, WriterInv, Alive, queueVars, taskVars,
                   procVars, histVars, boundVars

LEMMA QuietReap ==
    ASSUME Inv, StampInv, NEW p \in Pid,
           TaskSucceeds(p) \/ TaskFails(p) \/ ReapInterrupted(p) \/ FinishReaps(p)
    PROVE  StampInv'
<1> USE DEF histVars
<1>1. Reap(p) /\ orphaned' = orphaned /\ ran' = ran /\ own' = own \ {p}
  BY DEF TaskSucceeds, TaskFails, ReapInterrupted, FinishReaps, Reap
<1>2. \A q \in own' : q \in own /\ phase'[q] = phase[q] /\ ptask'[q] = ptask[q]
  BY <1>1 DEF Reap, Release, Inv, TypeOK
<1>3. \A q \in Pid \ own' : phase'[q] \in {"exec", "stamp", "create"} => ptask'[q] \in orphaned'
  BY <1>1 DEF Reap, Release, Inv, TypeOK, StampInv, WriterInv, Alive
<1>4. UNCHANGED <<stamp, clock, good>>
  BY <1>1 DEF Reap
<1>5. master' \in {"loop", "wait"} =>
         master \in {"loop", "wait"} /\ runq_running \subseteq runq_running'
  BY DEF TaskSucceeds, TaskFails, ReapInterrupted, FinishReaps, Waiting, taskVars
<1> QED
  BY <1>1, <1>2, <1>3, <1>4, <1>5, QuietStep

LEMMA QuietEnd ==
    ASSUME Inv, StampInv, NEW how, NEW killed \in SUBSET own, EndRun(how, killed)
    PROVE  StampInv'
<1> USE DEF histVars
<1>1. \A p \in Pid \ own' : phase'[p] \in {"exec", "stamp", "create"} => ptask'[p] \in orphaned'
  BY DEF EndRun, Release, Inv, TypeOK, StampInv, WriterInv, Alive, Zombie
<1> QED
  BY <1>1, QuietStep DEF EndRun

\* A task is forked because its stamp is not current, so losing its good
\* execution costs nothing; and nothing that is forked was stamped already.
LEMMA ForkStamp ==
    ASSUME Inv, StampInv, NEW t \in Task, NEW p \in Pid, ForkTask(t, p) \/ ForkInterrupted(t, p)
    PROVE  StampInv'
<1> USE DEF Inv, StampInv, histVars, taskVars
<1>1. Fork(t, p)
  BY DEF ForkTask, ForkInterrupted
<1>2. t \notin ran
  BY <1>1 DEF Fork, Candidates, FreshInv
<1>3. FreshInv'
  BY <1>1, <1>2 DEF FreshInv, Fork, ForkTask, ForkInterrupted, TypeOK
<1>4. \A q \in own : ptask[q] # t
  BY <1>1 DEF Fork, OrderInv, Candidates
<1>5. WriterInv'
  BY <1>1, <1>4 DEF Fork, WriterInv, Alive, TypeOK
<1>6. CurrentIsGood'
  BY <1>1, SameCurrent DEF Fork, CurrentIsGood
<1> QED
  BY <1>3, <1>5, <1>6

LEMMA StartRunStamp ==
    ASSUME Inv, StampInv, NEW T \in Targets, NEW force \in BOOLEAN, NEW keepGoing \in BOOLEAN,
           StartRun(T, force, keepGoing)
    PROVE  StampInv'
<1> USE DEF Inv, StampInv, histVars, procVars
<1>1. stamp \in [Task -> Nat] /\ stamp' \in [Task -> Nat] /\ clock \in Nat
  BY DEF TypeOK, StartRun, ForcedStamps
<1>2. \A t \in Task : stamp'[t] \in {0, stamp[t]}
  BY DEF TypeOK, StartRun, ForcedStamps
<1>3. FreshInv'
  BY <1>1, <1>2 DEF StartRun, FreshInv
<1>4. WriterInv'
  BY DEF StartRun, WriterInv, Alive, ProcInv
<1>5. CurrentIsGood'
  BY <1>1, <1>2, RemovalCurrent, QueueAssumption DEF StartRun, CurrentIsGood
<1> QED
  BY <1>3, <1>4, <1>5

LEMMA CleanStamp ==
    ASSUME Inv, StampInv, NEW fn \in Fn, Clean(fn)
    PROVE  StampInv'
<1> USE DEF Inv, StampInv, procVars
<1>1. stamp \in [Task -> Nat] /\ stamp' \in [Task -> Nat] /\ clock \in Nat
  BY DEF TypeOK, Clean
<1>2. \A t \in Task : stamp'[t] \in {0, stamp[t]} /\ (FnOf[t] = fn => stamp'[t] = 0)
  BY DEF TypeOK, Clean
<1>3. FreshInv'
  BY <1>1, <1>2 DEF Clean, FreshInv
<1>4. WriterInv'
  BY DEF Clean, WriterInv, Alive, ProcInv
<1>5. CurrentIsGood'
  <2> SUFFICES ASSUME NEW t \in Task \ orphaned, StampCurrent(t)' PROVE t \in good'
    BY DEF CurrentIsGood, Clean
  <2>1. FnOf[t] # fn
    BY <1>2 DEF StampCurrent
  <2>2. StampCurrent(t)
    BY <1>1, <1>2, RemovalCurrent, QueueAssumption
  <2> QED
    BY <2>1, <2>2 DEF Clean, CurrentIsGood
<1> QED
  BY <1>3, <1>4, <1>5

\* A new stamp is newer than the stamp of every task that is not good, so it
\* makes none of them current.
LEMMA CreateStampStamp ==
    ASSUME Inv, StampInv, NEW p \in Pid, CreateStamp(p)
    PROVE  StampInv'
<1> USE DEF Inv, StampInv, histVars
<1> DEFINE u == ptask[p]
<1>1. /\ u \in Task /\ stamp' = [stamp EXCEPT ![u] = clock]
      /\ UNCHANGED <<clock, good, ran, own, orphaned, master, runq_running>>
  BY DEF CreateStamp, ChildUnchanged, ProcInv, taskVars
<1>2. stamp \in [Task -> Nat] /\ clock \in Nat
  BY DEF TypeOK
<1>3. u \in orphaned \/ (u \in good /\ u \in ran)
  BY DEF CreateStamp, WriterInv, Alive
<1>4. FreshInv'
  BY <1>1, <1>2, <1>3 DEF FreshInv
<1>5. WriterInv'
  BY <1>1 DEF CreateStamp, Exit, Release, WriterInv, Alive, TypeOK
<1>6. CurrentIsGood'
  <2> SUFFICES ASSUME NEW t \in Task \ orphaned, StampCurrent(t)', t \notin good PROVE FALSE
    BY <1>1 DEF CurrentIsGood
  <2>1. t # u /\ stamp[t] < clock
    BY <1>1, <1>2, <1>3 DEF FreshInv
  <2>2. ~StampCurrent(t)
    BY DEF CurrentIsGood
  <2>3. \A d \in Depends[t] : Compared(t, d)' = Compared(t, d)
    BY DEF Compared
  <2>4. \A d \in Depends[t] : Compared(t, d) => stamp[d] # 0 /\ ~(stamp[t] < stamp[d])
    BY <1>1, <1>2, <2>1, <2>3, QueueAssumption DEF StampCurrent
  <2> QED
    BY <1>1, <2>1, <2>2, <2>4 DEF StampCurrent
<1> QED
  BY <1>4, <1>5, <1>6

\* The other steps of a child remove a stamp, or leave the stamps alone.
LEMMA ChildStamp ==
    ASSUME Inv, StampInv, NEW p \in Pid, ChildStep(p)
    PROVE  StampInv'
<1> USE DEF Inv, StampInv, histVars
<1>1. CASE CreateStamp(p)
  BY <1>1, CreateStampStamp
<1>2. CASE ~CreateStamp(p)
  <2> ExecSucceeds(p) \/ ChildFails(p) \/ StampInternal(p)
    BY <1>2 DEF ChildStep
  <2>1. /\ ptask[p] \in Task /\ good \subseteq good'
        /\ UNCHANGED <<clock, ran, own, orphaned, master, runq_running>>
    BY DEF ExecSucceeds, ChildFails, StampInternal, ChildUnchanged, ProcInv, taskVars, Alive,
           boundVars
  <2>2. /\ stamp \in [Task -> Nat] /\ stamp' \in [Task -> Nat] /\ clock \in Nat
        /\ \A t \in Task : stamp'[t] \in {0, stamp[t]}
    BY <2>1 DEF TypeOK, ExecSucceeds, ChildFails, StampInternal
  <2>3. FreshInv'
    BY <2>1, <2>2 DEF FreshInv
  <2>4. WriterInv'
    <3>1. CASE ExecSucceeds(p)
      BY <2>1, <3>1 DEF ExecSucceeds, WriterInv, Alive, TypeOK
    <3>2. CASE ChildFails(p)
      BY <2>1, <3>2 DEF ChildFails, Exit, Release, WriterInv, Alive, TypeOK
    <3>3. CASE StampInternal(p)
      BY <2>1, <3>3 DEF StampInternal, WriterInv, Alive, TypeOK
    <3> QED
      BY <3>1, <3>2, <3>3
  <2>5. CurrentIsGood'
    BY <2>1, <2>2, RemovalCurrent, QueueAssumption DEF CurrentIsGood
  <2> QED
    BY <2>3, <2>4, <2>5
<1> QED
  BY <1>1, <1>2

LEMMA TickStamp == ASSUME Inv, StampInv, Tick PROVE StampInv'
<1> USE DEF Inv, StampInv
<1>1. FreshInv'
  BY DEF Tick, FreshInv, TypeOK, taskVars
<1>2. WriterInv'
  BY DEF Tick, WriterInv, Alive, procVars, histVars
<1>3. CurrentIsGood'
  BY SameCurrent DEF Tick, CurrentIsGood, histVars
<1> QED
  BY <1>1, <1>2, <1>3

LEMMA StampNext == Inv /\ StampInv /\ [Next]_vars => StampInv'
<1> SUFFICES ASSUME Inv, StampInv, [Next]_vars PROVE StampInv'
  OBVIOUS
<1>1. CASE \E T \in Targets, force \in BOOLEAN, keepGoing \in BOOLEAN :
               StartRun(T, force, keepGoing)
  BY <1>1, StartRunStamp
<1>2. CASE \E fn \in Fn : Clean(fn)
  BY <1>2, CleanStamp
<1>3. CASE \E t \in Task, p \in Pid : ForkTask(t, p) \/ ForkInterrupted(t, p)
  BY <1>3, ForkStamp
<1>4. CASE \E t \in Task : Skip(t) \/ ForkFails(t)
  BY <1>4, QuietTask
<1>5. CASE \E p \in Pid : TaskSucceeds(p) \/ TaskFails(p) \/ ReapInterrupted(p) \/ FinishReaps(p)
  BY <1>5, QuietReap
<1>6. CASE Interrupt \/ LoopReturns
  BY <1>6, QuietLeave
<1>7. CASE \/ \E p \in Pid : FinishUnknownPid(p)
           \/ FinishNoChild \/ FinishInterrupted \/ FinishReturns
  <2>1. CASE (\E p \in Pid : FinishUnknownPid(p)) \/ FinishNoChild
    BY <2>1, QuietEnd DEF FinishUnknownPid, FinishNoChild
  <2>2. CASE FinishInterrupted
    BY <2>2, QuietEnd DEF FinishInterrupted
  <2>3. CASE FinishReturns
    BY <2>3, QuietEnd DEF FinishReturns
  <2> QED
    BY <1>7, <2>1, <2>2, <2>3
<1>8. CASE \E p \in Pid : ChildStep(p)
  BY <1>8, ChildStamp
<1>9. CASE Tick
  BY <1>9, TickStamp
<1>10. CASE Terminated \/ UNCHANGED vars
  <2>1. UNCHANGED vars
    BY <1>10 DEF Terminated
  <2> QED
    BY <2>1, QuietStep
       DEF vars, StampInv, WriterInv, Alive, taskVars, procVars, histVars
<1> QED
  BY <1>1, <1>2, <1>3, <1>4, <1>5, <1>6, <1>7, <1>8, <1>9, <1>10 DEF Next, MasterStep, Disturbance

LEMMA StampInvHolds == Spec => []StampInv
  BY StampInit, StampNext, InvHolds, PTL DEF Spec

\* A stamp that check_stamp_task would accept belongs to a task whose last
\* execution ended well, over any number of invocations, failures, interrupts,
\* forced and cleaned builds: the reason why a task is executed survives its
\* failure, because every later stamp of a dependency is newer still.
THEOREM CurrentIsGoodHolds == Spec => []CurrentIsGood
  BY StampInvHolds, PTL DEF StampInv

-----------------------------------------------------------------------------
(* How the executor counts, and ends *)

Limit == IF NumberTasks = 0 THEN 1 ELSE NumberTasks

RecordedPids == {p \in Pid : build_pids[p] # NoTask}

\* The queue is being left before its end.
IsCut == pending # "none" \/ (abort /\ failed_fnids # {})

\* active_builds counts the entries of build_pids, and these are the children
\* until an interrupt comes between a system call and its record.
CountInv ==
    /\ IsFiniteSet(RecordedPids)
    /\ active_builds = Cardinality(RecordedPids)
    /\ \A p, q \in RecordedPids : p # q => build_pids[p] # build_pids[q]
    /\ \A p \in RecordedPids : build_pids[p] \in runq_running \ runq_complete
    /\ master # "idle" /\ pending # "KeyboardInterrupt" => own = RecordedPids

\* Where the master may be with how many children, and why it leaves the loop.
LoopInv ==
    /\ master \in {"loop", "wait"} => pending = "none" /\ (abort => failed_fnids = {})
    /\ master = "loop" => active_builds < Limit
    /\ master = "wait" => active_builds <= Limit
    /\ master = "finish" /\ ~IsCut => active_builds = 0 /\ Candidates = {}

\* A task is buildable as soon as it can be.
ReadyInv ==
    /\ \A t \in runq : Depends[t] \subseteq runq
    /\ \A t \in runq \ runq_running : Depends[t] \subseteq runq_complete => t \in runq_buildable

SlotInv == IsFiniteSet(own) /\ Cardinality(own) <= Limit

\* What becomes of a task that has begun: it is complete, has a child, or has
\* failed.
BegunInv ==
    /\ master # "idle" /\ pending = "none" /\ failed_fnids = {} =>
          runq_running \ runq_complete \subseteq Recorded
    /\ runq_running \subseteq ran \cup runq_complete
    /\ master # "idle" => ran \subseteq runq

\* What an ending that was not cut short leaves.
EndInv ==
    master = "idle" /\ (outcome = "success" \/ (outcome = "TaskFailure" /\ ~abort)) =>
        /\ Candidates = {}
        /\ outcome = "success" => runq_running = runq_complete

QueueInv == CountInv /\ LoopInv /\ ReadyInv /\ SlotInv /\ BegunInv /\ EndInv

LEMMA LimitType == Limit \in Nat /\ 0 < Limit
  BY NumberTasksAssumption DEF Limit

LEMMA QueueInit == Init => QueueInv
<1> SUFFICES ASSUME Init PROVE QueueInv
  OBVIOUS
<1>1. RecordedPids = {}
  BY DEF Init, RecordedPids
<1>2. CountInv
  BY <1>1, FS_EmptySet DEF Init, CountInv
<1>3. SlotInv
  BY FS_EmptySet, LimitType DEF Init, SlotInv
<1>4. LoopInv /\ ReadyInv /\ BegunInv /\ EndInv
  BY DEF Init, LoopInv, ReadyInv, BegunInv, EndInv
<1> QED
  BY <1>2, <1>3, <1>4 DEF QueueInv

\* Recording a child adds an entry to build_pids, reaping one removes it.
LEMMA Record ==
    ASSUME TypeOK, NEW p \in Pid, NEW t \in Task, build_pids' = [build_pids EXCEPT ![p] = t]
    PROVE  RecordedPids' = RecordedPids \cup {p}
  BY QueueAssumption DEF TypeOK, RecordedPids

LEMMA Forget ==
    ASSUME TypeOK, NEW p \in Pid, build_pids' = [build_pids EXCEPT ![p] = NoTask]
    PROVE  RecordedPids' = RecordedPids \ {p}
  BY DEF TypeOK, RecordedPids

\* What counts the children, follows the loop and orders the tasks is
\* untouched by the children, by the clock and by a clean.
LEMMA BystanderQueue ==
    ASSUME QueueInv,
           UNCHANGED <<master, queueVars, taskVars, pidVars, failed_fnids, pending, own, ran>>,
           outcome' \in {outcome, "none"}
    PROVE  QueueInv'
<1> USE DEF queueVars, taskVars, pidVars
<1>1. CountInv'
  BY DEF QueueInv, CountInv, RecordedPids
<1>2. LoopInv'
  BY DEF QueueInv, LoopInv, IsCut, Candidates
<1>3. ReadyInv' /\ SlotInv'
  BY DEF QueueInv, ReadyInv, SlotInv
<1>4. BegunInv'
  BY DEF QueueInv, BegunInv, Recorded
<1>5. EndInv'
  BY DEF QueueInv, EndInv, Candidates
<1> QED
  BY <1>1, <1>2, <1>3, <1>4, <1>5 DEF QueueInv

\* The tasks mark_active leaves in the queue bring their dependencies along.
LEMMA MarkActiveClosed == ASSUME NEW T PROVE DependClosed(MarkActive(T))
  BY QueueAssumption DEF MarkActive, DependClosed

LEMMA MarkActiveHolds == ASSUME NEW T \in SUBSET Task PROVE T \subseteq MarkActive(T)
  BY DEF MarkActive

LEMMA StartRunQueue ==
    ASSUME Inv, QueueInv, NEW T \in Targets, NEW force \in BOOLEAN, NEW keepGoing \in BOOLEAN,
           StartRun(T, force, keepGoing)
    PROVE  QueueInv'
<1> USE DEF StartRun, procVars
<1>1. own' = {}
  BY DEF Inv, ProcInv
<1>2. RecordedPids' = {}
  BY DEF RecordedPids
<1>3. CountInv'
  BY <1>1, <1>2, FS_EmptySet DEF CountInv
<1>4. LoopInv' /\ EndInv'
  BY LimitType DEF LoopInv, EndInv
<1>5. ReadyInv'
  BY MarkActiveClosed, MarkActiveSubset, QueueAssumption DEF ReadyInv, DependClosed
<1>6. SlotInv'
  BY <1>1, FS_EmptySet, LimitType DEF SlotInv
<1>7. BegunInv'
  BY DEF BegunInv
<1> QED
  BY <1>3, <1>4, <1>5, <1>6, <1>7 DEF QueueInv

\* task_complete makes buildable what has become ready.
LEMMA TaskCompleteReady ==
    ASSUME TypeOK, ReadyInv, NEW t \in runq, TaskComplete(t), runq' = runq,
           runq_running \subseteq runq_running'
    PROVE  ReadyInv'
<1> SUFFICES ASSUME NEW r \in runq \ runq_running, Depends[r] \subseteq runq_complete \cup {t}
             PROVE  r \in runq_buildable'
  BY DEF ReadyInv, TaskComplete
<1>1. CASE t \in Depends[r]
  BY <1>1 DEF TaskComplete
<1>2. CASE t \notin Depends[r]
  BY <1>2 DEF ReadyInv, TaskComplete
<1> QED
  BY <1>1, <1>2

LEMMA SkipQueue ==
    ASSUME Inv, QueueInv, NEW t \in Task, Skip(t)
    PROVE  QueueInv'
<1> USE DEF Inv, QueueInv, Skip, queueVars, pidVars, procVars
<1>1. t \in runq /\ t \notin runq_running /\ runq_complete' = runq_complete \cup {t}
  BY DEF Candidates, TaskComplete
<1>2. CountInv'
  BY <1>1 DEF CountInv, RecordedPids
<1>3. LoopInv'
  BY DEF LoopInv
<1>4. ReadyInv'
  BY <1>1, TaskCompleteReady
<1>5. BegunInv'
  BY <1>1 DEF BegunInv, Recorded
<1> QED
  BY <1>2, <1>3, <1>4, <1>5 DEF SlotInv, EndInv

\* A child that is forked gets a slot that was free.
LEMMA ForkSlot ==
    ASSUME Inv, QueueInv, NEW t \in Task, NEW p \in Pid, Fork(t, p)
    PROVE  /\ own = RecordedPids /\ p \notin own
           /\ t \in runq \ runq_running
           /\ active_builds + 1 = Cardinality(own \cup {p})
           /\ SlotInv'
<1> USE DEF Inv, QueueInv, Fork
<1>1. own = RecordedPids
  BY DEF CountInv, LoopInv
<1>2. p \notin own /\ own' = own \cup {p} /\ t \in runq \ runq_running
  BY DEF ProcInv, Candidates
<1>3. IsFiniteSet(own \cup {p}) /\ Cardinality(own \cup {p}) = active_builds + 1
  BY <1>1, <1>2, FS_AddElement DEF CountInv
<1>4. SlotInv'
  BY <1>2, <1>3, LimitType DEF SlotInv, LoopInv, TypeOK
<1> QED
  BY <1>1, <1>2, <1>3, <1>4

LEMMA ForkTaskQueue ==
    ASSUME Inv, QueueInv, NEW t \in Task, NEW p \in Pid, ForkTask(t, p)
    PROVE  QueueInv'
<1> USE DEF Inv, QueueInv, ForkTask, Fork, queueVars
<1>1. /\ own = RecordedPids /\ p \notin own /\ t \in runq \ runq_running
      /\ active_builds + 1 = Cardinality(own \cup {p}) /\ SlotInv'
  BY ForkSlot
<1>2. RecordedPids' = own \cup {p}
  BY <1>1, Record
<1>3. CountInv'
  <2>1. IsFiniteSet(RecordedPids') /\ active_builds' = Cardinality(RecordedPids')
    BY <1>1, <1>2 DEF SlotInv
  <2>2. \A q \in RecordedPids : build_pids'[q] = build_pids[q] /\ build_pids[q] # t
    BY <1>1 DEF CountInv, RecordedPids, TypeOK
  <2>3. build_pids'[p] = t /\ t \in runq_running' \ runq_complete'
    BY <1>1 DEF TypeOK, OrderInv
  <2> QED
    BY <1>1, <1>2, <2>1, <2>2, <2>3 DEF CountInv
<1>4. LoopInv'
  BY LimitType, NumberTasksAssumption DEF LoopInv, TypeOK, Limit, SlotLeft
<1>5. ReadyInv'
  BY DEF ReadyInv
<1>6. BegunInv'
  <2>1. Recorded' = Recorded \cup {t}
    BY <1>1, QueueAssumption DEF Recorded, RecordedPids, TypeOK
  <2> QED
    BY <1>1, <2>1 DEF BegunInv, LoopInv
<1> QED
  BY <1>1, <1>3, <1>4, <1>5, <1>6 DEF EndInv

LEMMA ForkInterruptedQueue ==
    ASSUME Inv, QueueInv, NEW t \in Task, NEW p \in Pid, ForkInterrupted(t, p)
    PROVE  QueueInv'
<1> USE DEF Inv, QueueInv, ForkInterrupted, Fork, queueVars, pidVars
<1>1. SlotInv' /\ t \in runq
  BY ForkSlot
<1>2. CountInv'
  BY DEF CountInv, RecordedPids
<1> QED
  BY <1>1, <1>2 DEF LoopInv, IsCut, ReadyInv, BegunInv, EndInv

\* An interrupt, a failed fork and the end of the loop.
LEMMA LeaveLoopQueue ==
    ASSUME Inv, QueueInv, Interrupt \/ LoopReturns \/ (\E t \in Task : ForkFails(t))
    PROVE  QueueInv'
<1>1. /\ master \in {"loop", "wait"} /\ master' = "finish"
      /\ \/ pending' \in {"KeyboardInterrupt", "SystemExit"}
         \/ pending' = pending /\ active_builds = 0 /\ Candidates = {}
      /\ UNCHANGED <<queueVars, taskVars, pidVars, failed_fnids, outcome, own, ran>>
  BY DEF Interrupt, LoopReturns, ForkFails, procVars
<1> USE <1>1 DEF QueueInv, queueVars, taskVars, pidVars
<1>2. CountInv'
  BY DEF CountInv, RecordedPids, LoopInv
<1>3. LoopInv'
  BY DEF LoopInv, IsCut, Candidates
<1>4. BegunInv'
  BY DEF BegunInv, Recorded, LoopInv
<1> QED
  BY <1>2, <1>3, <1>4 DEF ReadyInv, SlotInv, EndInv

\* A child that is reaped frees its slot.
LEMMA ReapSlot ==
    ASSUME Inv, QueueInv, NEW p \in Pid, Reap(p)
    PROVE  SlotInv'
<1>1. own' = own \ {p} /\ p \in own
  BY DEF Reap
<1>2. IsFiniteSet(own \ {p}) /\ Cardinality(own \ {p}) = Cardinality(own) - 1
  BY <1>1, FS_RemoveElement DEF QueueInv, SlotInv
<1>3. Cardinality(own) \in Nat
  BY FS_CardinalityType DEF QueueInv, SlotInv
<1> QED
  BY <1>1, <1>2, <1>3, LimitType DEF QueueInv, SlotInv

\* A child that is reaped and forgotten leaves build_pids and active_builds in
\* step, whatever becomes of its task.
LEMMA ForgetCount ==
    ASSUME Inv, QueueInv, NEW p \in RecordedPids, Reap(p),
           build_pids' = [build_pids EXCEPT ![p] = NoTask],
           active_builds' = active_builds - 1,
           runq_running' = runq_running,
           runq_complete' \subseteq runq_complete \cup {build_pids[p]},
           pending' = pending, master # "idle"
    PROVE  CountInv' /\ Recorded' = Recorded \ {build_pids[p]}
<1> USE DEF Inv, QueueInv
<1>1. p \in Pid /\ RecordedPids' = RecordedPids \ {p}
  BY Forget DEF RecordedPids
<1>2. IsFiniteSet(RecordedPids') /\ active_builds' = Cardinality(RecordedPids')
  BY <1>1, FS_RemoveElement DEF CountInv
<1>3. \A q \in RecordedPids' : build_pids'[q] = build_pids[q] /\ build_pids[q] # build_pids[p]
  BY <1>1 DEF CountInv, RecordedPids, TypeOK
<1>4. CountInv'
  BY <1>1, <1>2, <1>3 DEF CountInv, Reap
<1>5. Recorded' = Recorded \ {build_pids[p]}
  BY <1>1, <1>3 DEF Recorded, RecordedPids, TypeOK
<1> QED
  BY <1>4, <1>5

\* In the loop every child is recorded, under the task it runs.
LEMMA WaitingRecorded ==
    ASSUME Inv, QueueInv, Waiting, NEW p \in own
    PROVE  /\ p \in RecordedPids /\ master \in {"loop", "wait"} /\ pending = "none"
           /\ build_pids[p] = ptask[p] /\ build_pids[p] \in runq
  BY DEF Inv, QueueInv, CountInv, LoopInv, Waiting, ProcInv, OrderInv, TypeOK

LEMMA TaskSucceedsQueue ==
    ASSUME Inv, QueueInv, NEW p \in Pid, TaskSucceeds(p)
    PROVE  QueueInv'
<1> USE DEF Inv, QueueInv, TaskSucceeds
<1>1. /\ Reap(p) /\ p \in own /\ UNCHANGED <<queueVars, outcome, ran>>
      /\ runq_complete' = runq_complete \cup {build_pids[p]}
  BY DEF Reap, TaskComplete
<1>2. /\ p \in RecordedPids /\ master \in {"loop", "wait"} /\ pending = "none"
      /\ build_pids[p] \in runq
  BY <1>1, WaitingRecorded
<1>3. CountInv' /\ Recorded' = Recorded \ {build_pids[p]}
  BY <1>1, <1>2, ForgetCount
<1>4. LoopInv'
  BY <1>1, <1>2, LimitType DEF LoopInv, Waiting, TypeOK, queueVars
<1>5. ReadyInv'
  BY <1>1, <1>2, TaskCompleteReady DEF queueVars
<1>6. SlotInv'
  BY <1>1, ReapSlot
<1>7. BegunInv'
  BY <1>1, <1>2, <1>3 DEF BegunInv, queueVars
<1> QED
  BY <1>3, <1>4, <1>5, <1>6, <1>7 DEF EndInv

LEMMA TaskFailsQueue ==
    ASSUME Inv, QueueInv, NEW p \in Pid, TaskFails(p)
    PROVE  QueueInv'
<1> USE DEF Inv, QueueInv, TaskFails, taskVars
<1>1. Reap(p) /\ p \in own /\ UNCHANGED <<queueVars, outcome, ran>>
  BY DEF Reap
<1>2. /\ p \in RecordedPids /\ master \in {"loop", "wait"} /\ pending = "none"
      /\ build_pids[p] \in runq
  BY <1>1, WaitingRecorded
<1>3. CountInv'
  BY <1>1, <1>2, ForgetCount
<1>4. LoopInv'
  <2>1. CASE abort
    <3>1. master' = "finish" /\ IsCut'
      BY <1>1, <2>1 DEF IsCut, AfterFailure, queueVars
    <3> QED
      BY <3>1 DEF LoopInv
  <2>2. CASE ~abort
    <3>1. master' = "loop" /\ pending' = "none" /\ ~abort' /\ active_builds' < Limit
      BY <1>1, <1>2, <2>2, LimitType DEF LoopInv, AfterFailure, Waiting, TypeOK, queueVars
    <3> QED
      BY <3>1 DEF LoopInv
  <2> QED
    BY <2>1, <2>2
<1>5. SlotInv'
  BY <1>1, ReapSlot
<1>6. BegunInv'
  BY <1>1, <1>2 DEF BegunInv, queueVars
<1> QED
  BY <1>1, <1>3, <1>4, <1>5, <1>6 DEF ReadyInv, EndInv, AfterFailure, queueVars

LEMMA ReapInterruptedQueue ==
    ASSUME Inv, QueueInv, NEW p \in Pid, ReapInterrupted(p)
    PROVE  QueueInv'
<1> USE DEF Inv, QueueInv, ReapInterrupted, taskVars, pidVars
<1>1. Reap(p) /\ UNCHANGED <<queueVars, outcome, ran>>
  BY DEF Reap
<1>2. SlotInv'
  BY <1>1, ReapSlot
<1>3. CountInv'
  BY DEF CountInv, RecordedPids
<1>4. LoopInv' /\ ReadyInv'
  BY <1>1 DEF LoopInv, IsCut, ReadyInv, queueVars
<1>5. BegunInv' /\ EndInv'
  BY <1>1 DEF BegunInv, EndInv, Waiting, queueVars
<1> QED
  BY <1>2, <1>3, <1>4, <1>5

\* finish_runqueue only has children to reap when the queue was cut short.
LEMMA FinishReapsQueue ==
    ASSUME Inv, QueueInv, NEW p \in Pid, FinishReaps(p)
    PROVE  QueueInv'
<1> USE DEF Inv, QueueInv, FinishReaps, taskVars
<1>1. Reap(p) /\ p \in RecordedPids /\ UNCHANGED <<queueVars, outcome, ran>>
  BY DEF Reap, RecordedPids
<1>2. CountInv'
  BY <1>1, ForgetCount
<1>3. IsCut /\ IsCut' /\ failed_fnids \subseteq failed_fnids'
  BY <1>1 DEF LoopInv, IsCut, AllReaped, queueVars
<1>4. LoopInv'
  BY <1>3 DEF LoopInv
<1>5. SlotInv'
  BY <1>1, ReapSlot
<1>6. BegunInv'
  BY <1>1, <1>3 DEF BegunInv, IsCut, queueVars
<1> QED
  BY <1>1, <1>2, <1>4, <1>5, <1>6 DEF ReadyInv, EndInv, queueVars

\* An exit that says how the loop ended follows one that was not cut short.
LEMMA EndRunQueue ==
    ASSUME Inv, QueueInv, NEW how, NEW killed, EndRun(how, killed), failed_fnids' = failed_fnids,
           how = "success" \/ (how = "TaskFailure" /\ ~abort) =>
               /\ master = "finish" /\ pending = "none"
               /\ how = "success" <=> failed_fnids = {}
    PROVE  QueueInv'
<1> USE DEF Inv, QueueInv, EndRun, queueVars, taskVars, pidVars
<1>1. CountInv'
  BY DEF CountInv, RecordedPids
<1>2. LoopInv' /\ ReadyInv'
  BY DEF LoopInv, ReadyInv
<1>3. SlotInv'
  BY FS_EmptySet, LimitType DEF SlotInv
<1>4. BegunInv'
  BY DEF BegunInv
<1>5. EndInv'
  <2> SUFFICES ASSUME how = "success" \/ (how = "TaskFailure" /\ ~abort)
               PROVE  Candidates = {} /\ (how = "success" => runq_running = runq_complete)
    BY DEF EndInv, Candidates
  <2>1. active_builds = 0 /\ Candidates = {}
    BY DEF LoopInv, IsCut
  <2>2. RecordedPids = {}
    BY <2>1, FS_EmptySet DEF CountInv
  <2>3. Recorded = {}
    BY <2>2 DEF Recorded, RecordedPids
  <2>4. how = "success" => runq_running \ runq_complete \subseteq {}
    BY <2>3 DEF BegunInv
  <2> QED
    BY <2>1, <2>4 DEF OrderInv
<1> QED
  BY <1>1, <1>2, <1>3, <1>4, <1>5

LEMMA FinishEndsQueue ==
    ASSUME Inv, QueueInv,
           \/ \E p \in Pid : FinishUnknownPid(p)
           \/ FinishNoChild \/ FinishInterrupted \/ FinishReturns
    PROVE  QueueInv'
<1>1. CASE \E p \in Pid : FinishUnknownPid(p)
  BY <1>1, EndRunQueue DEF FinishUnknownPid
<1>2. CASE FinishNoChild
  BY <1>2, EndRunQueue DEF FinishNoChild
<1>3. CASE FinishInterrupted
  <2>1. PICK killed \in SUBSET own : EndRun("KeyboardInterrupt", killed)
    BY <1>3 DEF FinishInterrupted
  <2> QED
    BY <1>3, <2>1, EndRunQueue DEF FinishInterrupted
<1>4. CASE FinishReturns
  <2> DEFINE how == CASE pending # "none" -> pending
                      [] pending = "none" /\ failed_fnids = {} -> "success"
                      [] OTHER -> "TaskFailure"
  <2>1. EndRun(how, {}) /\ master = "finish" /\ failed_fnids' = failed_fnids
    BY <1>4 DEF FinishReturns
  <2>2. how = "success" \/ how = "TaskFailure" =>
            pending = "none" /\ (how = "success" <=> failed_fnids = {})
    BY DEF Inv, TypeOK
  <2> HIDE DEF how
  <2> QED
    BY <2>1, <2>2, EndRunQueue
<1> QED
  BY <1>1, <1>2, <1>3, <1>4

LEMMA QueueNext == Inv /\ QueueInv /\ [Next]_vars => QueueInv'
<1> SUFFICES ASSUME Inv, QueueInv, [Next]_vars PROVE QueueInv'
  OBVIOUS
<1>1. CASE \E T \in Targets, force \in BOOLEAN, keepGoing \in BOOLEAN :
               StartRun(T, force, keepGoing)
  BY <1>1, StartRunQueue
<1>2. CASE \E fn \in Fn : Clean(fn)
  BY <1>2, BystanderQueue DEF Clean, procVars
<1>3. CASE MasterStep
  BY <1>3, SkipQueue, ForkTaskQueue, TaskSucceedsQueue, TaskFailsQueue, LeaveLoopQueue,
     FinishReapsQueue, FinishEndsQueue DEF MasterStep
<1>4. CASE \E p \in Pid : ChildStep(p)
  BY <1>4, BystanderQueue
     DEF ChildStep, ExecSucceeds, ChildFails, StampInternal, CreateStamp, ChildUnchanged
<1>5. CASE Disturbance
  BY <1>5, ForkInterruptedQueue, ReapInterruptedQueue, LeaveLoopQueue, FinishEndsQueue
     DEF Disturbance
<1>6. CASE Tick
  BY <1>6, BystanderQueue DEF Tick, procVars
<1>7. CASE Terminated \/ UNCHANGED vars
  BY <1>7, BystanderQueue DEF Terminated, vars, procVars
<1> QED
  BY <1>1, <1>2, <1>3, <1>4, <1>5, <1>6, <1>7 DEF Next

LEMMA QueueInvHolds == Spec => []QueueInv
  BY QueueInit, QueueNext, InvHolds, PTL DEF Spec
-----------------------------------------------------------------------------
(***************************************************************************)
(* What follows.                                                           *)
(***************************************************************************)

\* BB_NUMBER_THREADS bounds the children, the one an interrupt kept out of
\* build_pids included: in the loop there is a slot left.
THEOREM SlotLimitHolds == Spec => []SlotLimit
<1>1. QueueInv => SlotLimit
  BY DEF QueueInv, SlotInv, SlotLimit, Limit
<1> QED
  BY <1>1, QueueInvHolds, PTL

\* An invocation that is not interrupted reaps every child before it exits:
\* without an interrupt build_pids holds exactly the children, so the KeyError
\* and the ECHILD of finish_runqueue cannot happen and no entry means no child.
THEOREM ReapsAllHolds == Spec => ReapsAll
<1> DEFINE A == master = "finish" /\ master' = "idle" /\ pending # "KeyboardInterrupt"
                  /\ interrupts' = interrupts => own = {}
<1>1. Inv /\ QueueInv /\ [Next]_vars => [A]_vars
  <2> SUFFICES ASSUME Inv, QueueInv, Next, master = "finish", master' = "idle",
                      pending # "KeyboardInterrupt", interrupts' = interrupts
               PROVE  own = {}
    OBVIOUS
  <2>1. own = RecordedPids
    BY DEF QueueInv, CountInv
  <2>2. CASE \E p \in Pid : FinishUnknownPid(p)
    BY <2>1, <2>2 DEF FinishUnknownPid, RecordedPids
  <2>3. CASE FinishNoChild
    BY <2>3 DEF FinishNoChild
  <2>4. CASE FinishReturns
    BY <2>1, <2>4, FS_EmptySet DEF FinishReturns, AllReaped, QueueInv, CountInv
  <2>5. CASE FinishInterrupted
    BY <2>5 DEF FinishInterrupted, Inv, TypeOK
  <2>6. CASE \E p \in Pid : ChildStep(p)
    BY <2>6 DEF ChildStep, ExecSucceeds, ChildFails, StampInternal, CreateStamp, ChildUnchanged
  <2> QED
    BY <2>2, <2>3, <2>4, <2>5, <2>6
       DEF Next, MasterStep, Disturbance, StartRun, Clean, Skip, Fork, ForkTask, ForkInterrupted,
           ForkFails, TaskSucceeds, TaskFails, ReapInterrupted, Waiting, Interrupt, LoopReturns,
           FinishReaps, Tick, Terminated, vars
<1> QED
  BY <1>1, InvHolds, QueueInvHolds, PTL DEF Spec, ReapsAll

\* Without -k nothing is started once a failure has been seen: the master is
\* then out of the loop for good.
THEOREM AbortStopsHolds == Spec => AbortStops
<1> DEFINE A == abort /\ failed_fnids # {} /\ master # "idle" => ran' = ran
<1>1. QueueInv /\ [Next]_vars => [A]_vars
  <2> SUFFICES ASSUME QueueInv, Next, abort, failed_fnids # {}, master # "idle"
               PROVE  ran' = ran
    OBVIOUS
  <2>1. master \notin {"loop", "wait"}
    BY DEF QueueInv, LoopInv
  <2>2. CASE \E p \in Pid : ChildStep(p)
    BY <2>2 DEF ChildStep, ExecSucceeds, ChildFails, StampInternal, CreateStamp, ChildUnchanged
  <2>3. CASE \E p \in Pid : FinishReaps(p)
    BY <2>3 DEF FinishReaps, Reap
  <2>4. CASE (\E p \in Pid : FinishUnknownPid(p)) \/ FinishNoChild \/ FinishInterrupted
             \/ FinishReturns
    BY <2>4 DEF FinishUnknownPid, FinishNoChild, FinishInterrupted, FinishReturns, EndRun
  <2> QED
    BY <2>1, <2>2, <2>3, <2>4
       DEF Next, MasterStep, Disturbance, StartRun, Clean, Skip, Fork, ForkTask, ForkInterrupted,
           ForkFails, TaskSucceeds, TaskFails, ReapInterrupted, Waiting, Interrupt, LoopReturns,
           Tick, Terminated, vars
<1> QED
  BY <1>1, QueueInvHolds, PTL DEF Spec, AbortStops

\* With nothing left to start, a task that is not complete needs a task that
\* has begun and is not complete: otherwise a least such task would be ready.
LEMMA NothingForgotten ==
    ASSUME Inv, QueueInv, Candidates = {}, NEW t \in runq \ runq_complete
    PROVE  MarkActive({t}) \cap (runq_running \ runq_complete) # {}
<1> USE DEF Inv, QueueInv
<1> DEFINE Stuck == {r \in runq \ runq_complete :
                        MarkActive({r}) \cap (runq_running \ runq_complete) = {}}
<1> SUFFICES ASSUME Stuck # {} PROVE FALSE
  OBVIOUS
<1>1. Stuck \in SUBSET Task
  BY DEF TypeOK
<1>2. PICK r \in Stuck : Depends[r] \cap Stuck = {}
  BY <1>1, AcyclicAssumption
<1>3. r \in Task /\ r \in MarkActive({r})
  BY <1>1, MarkActiveHolds
<1>4. ASSUME NEW d \in Depends[r] PROVE d \in runq_complete
  <2>1. d \in runq /\ d \in Task
    BY <1>1, <1>4, QueueAssumption DEF ReadyInv, TypeOK
  <2>2. MarkActive({r}) \in SUBSET Task /\ d \in MarkActive({r})
    BY <1>3, <1>4, MarkActiveClosed, MarkActiveSubset DEF DependClosed
  <2>3. MarkActive({d}) \subseteq MarkActive({r})
    BY <2>2, MarkActiveClosed, MarkActiveLeast
  <2> QED
    BY <1>2, <1>4, <2>1, <2>3
<1>5. r \in runq_running
  BY <1>4 DEF ReadyInv, Candidates
<1> QED
  BY <1>3, <1>5

\* The tasks that are complete are closed under Depends.
LEMMA CompleteClosed ==
    ASSUME Inv, NEW t \in runq_complete
    PROVE  MarkActive({t}) \subseteq runq_complete
<1>1. DependClosed(runq_complete) /\ runq_complete \in SUBSET Task
  BY DEF Inv, TypeOK, OrderInv, DependClosed
<1> QED
  BY <1>1, MarkActiveLeast

\* An invocation reports success only when every task of its queue is
\* complete: what the sanity checks at the end of execute_runqueue_internal
\* look for never happens, for any queue without a circular dependency.
THEOREM SuccessCompletesHolds == Spec => []SuccessCompletes
<1>1. Inv /\ QueueInv => SuccessCompletes
  <2> SUFFICES ASSUME Inv, QueueInv, master = "idle", outcome = "success"
               PROVE  runq_complete = runq /\ runq_running = runq
    BY DEF SuccessCompletes
  <2>1. Candidates = {} /\ runq_running = runq_complete
    BY DEF QueueInv, EndInv
  <2>2. runq \ runq_complete = {}
    BY <2>1, NothingForgotten
  <2> QED
    BY <2>1, <2>2 DEF Inv, TypeOK
<1> QED
  BY <1>1, InvHolds, QueueInvHolds, PTL

\* -k goes as far as it can: when an invocation ends with failures, a task is
\* complete exactly when it does not need one that was executed and failed.
THEOREM KeepGoingHolds == Spec => []KeepGoing
<1>1. Inv /\ QueueInv => KeepGoing
  <2> SUFFICES ASSUME Inv, QueueInv, master = "idle", outcome = "TaskFailure", ~abort,
                      NEW t \in runq
               PROVE  t \in runq_complete <=> MarkActive({t}) \cap (ran \ runq_complete) = {}
    BY DEF KeepGoing
  <2>1. CASE t \in runq_complete
    BY <2>1, CompleteClosed
  <2>2. CASE t \notin runq_complete
    <3>1. Candidates = {}
      BY DEF QueueInv, EndInv
    <3>2. MarkActive({t}) \cap (runq_running \ runq_complete) # {}
      BY <2>2, <3>1, NothingForgotten
    <3>3. runq_running \ runq_complete \subseteq ran \ runq_complete
      BY DEF QueueInv, BegunInv
    <3> QED
      BY <2>2, <3>2, <3>3
  <2> QED
    BY <2>1, <2>2
<1> QED
  BY <1>1, InvHolds, QueueInvHolds, PTL
-----------------------------------------------------------------------------
(***************************************************************************)
(* The refinement.                                                         *)
(***************************************************************************)

\* The loop of finish_runqueue ends with no child recorded.
LEMMA NoneRecorded ==
    ASSUME QueueInv
    PROVE  active_builds = 0 <=> Recorded = {}
<1>1. active_builds = 0 <=> RecordedPids = {}
  BY FS_EmptySet DEF QueueInv, CountInv
<1>2. RecordedPids = {} <=> Recorded = {}
  BY DEF RecordedPids, Recorded
<1> QED
  BY <1>1, <1>2

\* A task the scheduler returns is one that may begin.
LEMMA CandidateReady ==
    ASSUME Inv, NEW t \in Candidates
    PROVE  Order!Ready(t)
  BY DEF Candidates, Order!Ready, Inv, OrderInv

\* When the scheduler returns none there is none that may.
LEMMA NoCandidateReady ==
    ASSUME Inv, QueueInv, Candidates = {}, NEW t
    PROVE  ~Order!Ready(t)
  BY DEF Candidates, Order!Ready, QueueInv, ReadyInv

\* A step that changes none of these is a stutter of DependencyOrder.
LEMMA OrderStutter ==
    ASSUME UNCHANGED <<master, queueVars, taskVars, pidVars, failed_fnids, pending>>
    PROVE  UNCHANGED Order!vars
  BY DEF Order!vars, Recorded, queueVars, taskVars, pidVars

LEMMA StartRunOpens ==
    ASSUME Inv, NEW T \in Targets, NEW force \in BOOLEAN, NEW keepGoing \in BOOLEAN,
           StartRun(T, force, keepGoing)
    PROVE  Order!Open(MarkActive(T)) /\ MarkActive(T) \in SUBSET Task
<1>1. Recorded' = {}
  BY DEF StartRun, Recorded
<1>2. \A t \in MarkActive(T) : Depends[t] \subseteq MarkActive(T)
  BY MarkActiveClosed DEF DependClosed
<1>3. MarkActive(T) \in SUBSET Task
  BY MarkActiveSubset
<1> QED
  BY <1>1, <1>2, <1>3 DEF StartRun, Order!Open

LEMMA SkipOrder ==
    ASSUME Inv, QueueInv, NEW t \in Task, Skip(t)
    PROVE  Order!Skip(t)
<1>1. Order!Ready(t)
  BY CandidateReady DEF Skip
<1>2. /\ master = "loop" /\ runq_running' = runq_running \cup {t}
      /\ runq_complete' = runq_complete \cup {t}
      /\ Recorded' = Recorded
      /\ UNCHANGED <<master, runq, abort, failed_fnids, pending>>
  BY DEF Skip, TaskComplete, queueVars, pidVars, Recorded
<1> QED
  BY <1>1, <1>2 DEF Order!Skip

LEMMA ForkTaskBegins ==
    ASSUME Inv, QueueInv, NEW t \in Task, NEW p \in Pid, ForkTask(t, p)
    PROVE  Order!Begin(t)
<1>1. Order!Ready(t) /\ Fork(t, p)
  BY CandidateReady DEF ForkTask, Fork
<1>2. build_pids[p] = NoTask
  BY <1>1, ForkSlot DEF RecordedPids
<1>3. Recorded' = Recorded \cup {t}
  BY <1>2, QueueAssumption DEF ForkTask, Recorded, Inv, TypeOK
<1>4. /\ master = "loop" /\ master' \in {"loop", "wait"}
      /\ runq_running' = runq_running \cup {t}
      /\ UNCHANGED <<runq, runq_complete>>
  BY DEF ForkTask, Fork, queueVars
<1> QED
  BY <1>1, <1>3, <1>4 DEF Order!Begin

LEMMA TaskSucceedsCompletes ==
    ASSUME Inv, QueueInv, NEW p \in Pid, TaskSucceeds(p)
    PROVE  build_pids[p] \in Task /\ Order!Complete(build_pids[p])
<1>1. /\ Reap(p) /\ p \in own /\ Waiting
      /\ runq_complete' = runq_complete \cup {build_pids[p]}
  BY DEF TaskSucceeds, Reap, TaskComplete
<1>2. /\ p \in RecordedPids /\ master \in {"loop", "wait"} /\ pending = "none"
      /\ build_pids[p] \in Task
  BY <1>1, WaitingRecorded DEF Inv, TypeOK
<1>3. Recorded' = Recorded \ {build_pids[p]}
  BY <1>1, <1>2, ForgetCount DEF TaskSucceeds
<1>4. build_pids[p] \in Recorded
  BY <1>2 DEF Recorded, RecordedPids
<1>5. master' = "loop" /\ UNCHANGED <<runq, runq_running>>
  BY <1>1 DEF TaskSucceeds, Reap, queueVars
<1> QED
  BY <1>1, <1>2, <1>3, <1>4, <1>5 DEF Order!Complete

LEMMA TaskFailsFails ==
    ASSUME Inv, QueueInv, NEW p \in Pid, TaskFails(p)
    PROVE  build_pids[p] \in Task /\ Order!Fail(build_pids[p])
<1>1. Reap(p) /\ p \in own /\ Waiting
  BY DEF TaskFails, Reap
<1>2. /\ p \in RecordedPids /\ master \in {"loop", "wait"} /\ pending = "none"
      /\ build_pids[p] \in Task
  BY <1>1, WaitingRecorded DEF Inv, TypeOK
<1>3. Recorded' = Recorded \ {build_pids[p]}
  BY <1>1, <1>2, ForgetCount DEF TaskFails, taskVars
<1>4. build_pids[p] \in Recorded
  BY <1>2 DEF Recorded, RecordedPids
<1>5. UNCHANGED <<runq, runq_running, runq_complete, pending, abort>> /\ failed_fnids' # {}
  BY <1>1 DEF TaskFails, Reap, queueVars, taskVars
<1>6. master' = IF abort THEN "finish" ELSE "loop"
  BY DEF TaskFails, AfterFailure
<1> QED
  BY <1>2, <1>3, <1>4, <1>5, <1>6 DEF Order!Fail

\* An interrupt, or a fork that fails, cuts the queue short.
LEMMA DisturbanceCuts ==
    ASSUME Inv, QueueInv,
           \/ \E t \in Task, p \in Pid : ForkInterrupted(t, p)
           \/ \E t \in Task : ForkFails(t)
           \/ \E p \in Pid : ReapInterrupted(p)
           \/ Interrupt
    PROVE  Order!Cut
<1>1. /\ master \in {"loop", "wait"} /\ master' = "finish"
      /\ pending' \in {"KeyboardInterrupt", "SystemExit"}
      /\ UNCHANGED <<runq, runq_running, runq_complete, build_pids>>
  BY DEF ForkInterrupted, Fork, ForkFails, ReapInterrupted, Waiting, Reap, Interrupt, queueVars,
         taskVars, pidVars
<1>2. Recorded' = Recorded
  BY <1>1 DEF Recorded
<1> QED
  BY <1>1, <1>2 DEF Order!Cut

LEMMA LoopReturnsEnds ==
    ASSUME Inv, QueueInv, LoopReturns
    PROVE  Order!End
<1>1. Recorded = {} /\ Recorded' = Recorded
  BY NoneRecorded DEF LoopReturns, Recorded, pidVars
<1>2. \A t \in Task : ~Order!Ready(t)
  BY NoCandidateReady DEF LoopReturns
<1>3. /\ master = "loop" /\ master' = "finish" /\ pending = "none"
      /\ abort => failed_fnids = {}
      /\ UNCHANGED <<runq, runq_running, runq_complete, pending, abort, failed_fnids>>
  BY DEF LoopReturns, QueueInv, LoopInv, queueVars, taskVars
<1> QED
  BY <1>1, <1>2, <1>3 DEF Order!End

LEMMA FinishReapsDrains ==
    ASSUME Inv, QueueInv, NEW p \in Pid, FinishReaps(p)
    PROVE  build_pids[p] \in Task /\ Order!Drain(build_pids[p])
<1>1. Reap(p) /\ p \in RecordedPids /\ build_pids[p] \in Task /\ build_pids[p] \in Recorded
  BY DEF FinishReaps, RecordedPids, Recorded, Inv, TypeOK
<1>2. Recorded' = Recorded \ {build_pids[p]}
  BY <1>1, ForgetCount DEF FinishReaps, taskVars
<1>3. /\ master = "finish"
      /\ failed_fnids \subseteq failed_fnids'
      /\ UNCHANGED <<master, runq, runq_running, runq_complete, pending, abort>>
  BY <1>1 DEF FinishReaps, Reap, queueVars, taskVars
<1>4. IsCut /\ IsCut'
  BY <1>3 DEF QueueInv, LoopInv, IsCut, FinishReaps, AllReaped
<1> QED
  BY <1>1, <1>2, <1>3, <1>4 DEF Order!Drain, IsCut

\* finish_runqueue leaves children behind only when the queue was cut short.
LEMMA FinishEndsCloses ==
    ASSUME Inv, QueueInv,
           \/ \E p \in Pid : FinishUnknownPid(p)
           \/ FinishNoChild \/ FinishInterrupted \/ FinishReturns
    PROVE  Order!Close
<1>1. /\ master = "finish" /\ master' = "idle"
      /\ UNCHANGED <<runq, runq_running, runq_complete>>
  BY DEF FinishUnknownPid, FinishNoChild, FinishInterrupted, FinishReturns, EndRun, queueVars,
         taskVars
<1>2. active_builds = 0 \/ IsCut
  BY <1>1 DEF QueueInv, LoopInv
<1>3. Recorded = {} \/ IsCut
  BY <1>2, NoneRecorded
<1> QED
  BY <1>1, <1>3 DEF Order!Close, IsCut

\* execute_runqueue_internal, task_complete and finish_runqueue implement
\* DependencyOrder, whatever the order in which the scheduler returns the
\* tasks, the children end and the user interrupts.
THEOREM ExecutorImplementsOrder == Spec => ImplementsOrder
<1>1. Init => Order!Init
  BY DEF Init, Order!Init
<1>2. Inv /\ QueueInv /\ [Next]_vars => [Order!Next]_(Order!vars)
  <2> SUFFICES ASSUME Inv, QueueInv, [Next]_vars
               PROVE  Order!Next \/ UNCHANGED Order!vars
    OBVIOUS
  <2>1. CASE \E T \in Targets, force \in BOOLEAN, keepGoing \in BOOLEAN :
                 StartRun(T, force, keepGoing)
    BY <2>1, StartRunOpens DEF Order!Next
  <2>2. CASE \E t \in Task : Skip(t)
    BY <2>2, SkipOrder DEF Order!Next
  <2>3. CASE \E t \in Task, p \in Pid : ForkTask(t, p)
    BY <2>3, ForkTaskBegins DEF Order!Next
  <2>4. CASE \E p \in Pid : TaskSucceeds(p) \/ TaskFails(p) \/ FinishReaps(p)
    BY <2>4, TaskSucceedsCompletes, TaskFailsFails, FinishReapsDrains DEF Order!Next
  <2>5. CASE \/ \E t \in Task, p \in Pid : ForkInterrupted(t, p)
             \/ \E t \in Task : ForkFails(t)
             \/ \E p \in Pid : ReapInterrupted(p)
             \/ Interrupt
    BY <2>5, DisturbanceCuts DEF Order!Next
  <2>6. CASE LoopReturns
    BY <2>6, LoopReturnsEnds DEF Order!Next
  <2>7. CASE \/ \E p \in Pid : FinishUnknownPid(p)
             \/ FinishNoChild \/ FinishInterrupted \/ FinishReturns
    BY <2>7, FinishEndsCloses DEF Order!Next
  <2>8. CASE \E p \in Pid : ChildStep(p)
    BY <2>8, OrderStutter
       DEF ChildStep, ExecSucceeds, ChildFails, StampInternal, CreateStamp, ChildUnchanged
  <2>9. CASE Tick \/ (\E fn \in Fn : Clean(fn))
    BY <2>9, OrderStutter DEF Tick, Clean
  <2>10. CASE Terminated \/ UNCHANGED vars
    BY <2>10, OrderStutter DEF Terminated, vars
  <2> QED
    BY <2>1, <2>2, <2>3, <2>4, <2>5, <2>6, <2>7, <2>8, <2>9, <2>10
       DEF Next, MasterStep, Disturbance
<1> QED
  BY <1>1, <1>2, InvHolds, QueueInvHolds, PTL DEF Spec, ImplementsOrder, Order!Spec

-----------------------------------------------------------------------------
(* What a successful invocation has built: -f executes its targets, and every  *)
(* task is a good execution that read the last output of what it depends on.   *)

\* A forced target has no stamp until this invocation executes it.
ForcedInv ==
    /\ forced \subseteq runq
    /\ \A t \in forced \ orphaned : t \in ran \/ (stamp[t] = 0 /\ t \notin runq_complete)

\* The dependencies whose last output a good execution of t has read.
Matter(t) == {d \in Depends[t] \ (orphaned \cup SelfStamp) : Compared(t, d)}

\* What a child is about: it executes a task that is not good, on outputs that
\* no one replaces meanwhile, and its stamp is newer than those of the tasks
\* that have not been executed.
ExecInv ==
    /\ \A t \in ran : Depends[t] \subseteq runq_complete
    /\ \A t \in NoStamp : stamp[t] = 0
    /\ \A p \in Pid : phase[p] \in {"stamp", "create"} => ptask[p] \notin NoStamp
    /\ \A p \in own : ptask[p] \notin orphaned =>
          /\ phase[p] = "exec" => ptask[p] \notin good /\ Matter(ptask[p]) \subseteq inputs[p]
          /\ phase[p] \in {"stamp", "create", "ok"} =>
                ptask[p] \in good /\ Matter(ptask[p]) \subseteq seen[ptask[p]]
          /\ phase[p] = "ok" /\ ptask[p] \notin NoStamp \cup SelfStamp =>
                \A u \in Task \ (ran \cup orphaned) : stamp[u] < stamp[ptask[p]]

\* A task that is complete, or has been stamped just now, has seen what it
\* depends on; one with an older stamp has seen it wherever that is current or
\* complete.
SeenInv ==
    \A t \in Task \ orphaned :
        /\ stamp[t] = clock => Matter(t) \subseteq seen[t]
        /\ t \in runq_complete => Matter(t) \subseteq seen[t]
        /\ StampCurrent(t) =>
              \A d \in Matter(t) : StampCurrent(d) \/ d \in runq_complete => d \in seen[t]

CompleteInv ==
    master # "idle" \/ outcome = "success" => runq_complete \subseteq good \cup orphaned

BuiltInv == ForcedInv /\ ExecInv /\ SeenInv /\ CompleteInv

AllInv == Inv /\ StampInv /\ QueueInv

LEMMA BuiltInit == Init => BuiltInv
  BY QueueAssumption
     DEF Init, BuiltInv, ForcedInv, ExecInv, SeenInv, CompleteInv, StampCurrent

\* Matter only shrinks when tasks become orphaned.
LEMMA MatterShrinks ==
    ASSUME orphaned \subseteq orphaned', NEW t
    PROVE  Matter(t)' \subseteq Matter(t)
  BY DEF Matter, Compared

LEMMA MatterSame == ASSUME UNCHANGED orphaned, NEW t PROVE Matter(t)' = Matter(t)
  BY DEF Matter, Compared

\* Steps that write no stamp and complete no task, and take children away or
\* make them fail.
LEMMA QuietBuilt ==
    ASSUME AllInv, BuiltInv,
           UNCHANGED <<runq, forced, stamp, clock, good, seen, ran, runq_complete>>,
           orphaned \subseteq orphaned',
           \A p \in own' : /\ p \in own /\ ptask'[p] = ptask[p] /\ inputs'[p] = inputs[p]
                           /\ phase'[p] \in {phase[p], "fail"},
           \A p \in Pid : phase'[p] \in {"stamp", "create"} =>
               phase'[p] = phase[p] /\ ptask'[p] = ptask[p],
           master' # "idle" \/ outcome' = "success" => master # "idle" \/ outcome = "success"
    PROVE  BuiltInv'
<1> USE DEF BuiltInv
<1>1. ForcedInv'
  BY DEF ForcedInv
<1>2. ExecInv'
  <2>1. /\ \A t \in ran' : Depends[t] \subseteq runq_complete'
        /\ \A t \in NoStamp : stamp'[t] = 0
        /\ \A p \in Pid : phase'[p] \in {"stamp", "create"} => ptask'[p] \notin NoStamp
    BY DEF ExecInv
  <2>2. ASSUME NEW p \in own', ptask'[p] \notin orphaned'
        PROVE  /\ phase'[p] = "exec" => ptask'[p] \notin good' /\ Matter(ptask[p])' \subseteq inputs'[p]
               /\ phase'[p] \in {"stamp", "create", "ok"} =>
                     ptask'[p] \in good' /\ Matter(ptask[p])' \subseteq seen'[ptask'[p]]
               /\ phase'[p] = "ok" /\ ptask'[p] \notin NoStamp \cup SelfStamp =>
                     \A u \in Task \ (ran' \cup orphaned') : stamp'[u] < stamp'[ptask'[p]]
    BY <2>2, MatterShrinks DEF ExecInv
  <2> QED
    BY <2>1, <2>2 DEF ExecInv
<1>3. SeenInv'
  BY MatterShrinks, SameCurrent DEF SeenInv
<1>4. CompleteInv'
  BY DEF CompleteInv
<1> QED
  BY <1>1, <1>2, <1>3, <1>4

LEMMA QuietLeaveBuilt ==
    ASSUME AllInv, BuiltInv, Interrupt \/ LoopReturns \/ (\E t \in Task : ForkFails(t))
    PROVE  BuiltInv'
  BY QuietBuilt DEF Interrupt, LoopReturns, ForkFails, queueVars, taskVars, procVars, histVars

LEMMA QuietReapBuilt ==
    ASSUME AllInv, BuiltInv, NEW p \in Pid, TaskFails(p) \/ ReapInterrupted(p) \/ FinishReaps(p)
    PROVE  BuiltInv'
<1>1. /\ Reap(p) /\ UNCHANGED runq_complete
      /\ master # "idle"
  BY DEF TaskFails, ReapInterrupted, FinishReaps, Waiting, taskVars
<1>2. UNCHANGED <<runq, forced, stamp, clock, good, seen, ran, orphaned>> /\ own' = own \ {p}
  BY <1>1 DEF Reap, queueVars, histVars
<1>3. \A q \in Pid \ {p} : phase'[q] = phase[q] /\ ptask'[q] = ptask[q] /\ inputs'[q] = inputs[q]
  BY <1>1 DEF Reap, Release
<1>4. phase'[p] = "free" /\ own \subseteq Pid
  BY <1>1 DEF Reap, Release, AllInv, Inv, TypeOK
<1> QED
  BY <1>1, <1>2, <1>3, <1>4, QuietBuilt

LEMMA QuietEndBuilt ==
    ASSUME AllInv, BuiltInv, NEW how, NEW killed, EndRun(how, killed), master # "idle"
    PROVE  BuiltInv'
<1>1. \A p \in Pid : phase'[p] \in {"stamp", "create"} =>
          phase'[p] = phase[p] /\ ptask'[p] = ptask[p]
  BY DEF EndRun, Release
<1> QED
  BY <1>1, QuietBuilt DEF EndRun, queueVars, taskVars, histVars

LEMMA TickBuilt == ASSUME AllInv, BuiltInv, Tick PROVE BuiltInv'
<1>1. \A t \in Task : stamp[t] < clock'
  BY DEF Tick, AllInv, Inv, TypeOK, StampInv, FreshInv
<1>2. UNCHANGED <<runq, forced, stamp, good, seen, ran, runq_complete, orphaned, own, phase,
                  ptask, inputs, master, outcome>>
  BY DEF Tick, queueVars, taskVars, procVars, histVars
<1>3. ForcedInv' /\ CompleteInv'
  BY <1>2 DEF BuiltInv, ForcedInv, CompleteInv
<1>4. ExecInv'
  BY <1>2, MatterSame DEF BuiltInv, ExecInv
<1>5. SeenInv'
  <2>1. \A t \in Task : stamp'[t] # clock'
    BY <1>1, <1>2 DEF AllInv, Inv, TypeOK
  <2> QED
    BY <1>2, <2>1, MatterSame, SameCurrent DEF BuiltInv, SeenInv
<1> QED
  BY <1>3, <1>4, <1>5 DEF BuiltInv

LEMMA StartRunBuilt ==
    ASSUME AllInv, BuiltInv, NEW T \in Targets, NEW force \in BOOLEAN, NEW keepGoing \in BOOLEAN,
           StartRun(T, force, keepGoing)
    PROVE  BuiltInv'
<1> USE QueueAssumption DEF AllInv, Inv, BuiltInv, StartRun, procVars, histVars
<1>1. stamp \in [Task -> Nat] /\ stamp' \in [Task -> Nat] /\ clock \in Nat /\ own' = {}
  BY DEF TypeOK, ProcInv, ForcedStamps
<1>2. \A t \in Task : stamp'[t] \in {0, stamp[t]} /\ (force /\ t \in T => stamp'[t] = 0)
  BY DEF TypeOK, ForcedStamps
<1>3. ForcedInv'
  <2>1. T \subseteq MarkActive(T)
    BY MarkActiveHolds
  <2> QED
    BY <1>2, <2>1 DEF ForcedInv
<1>4. ExecInv'
  <2>1. \A t \in NoStamp : t \in Task
    OBVIOUS
  <2> QED
    BY <1>1, <1>2, <2>1 DEF ExecInv
<1>5. SeenInv'
  <2>1. \A t \in Task : stamp'[t] # clock'
    BY <1>1, <1>2 DEF StampInv, FreshInv
  <2>2. \A t \in Task : StampCurrent(t)' => StampCurrent(t)
    BY <1>1, <1>2, RemovalCurrent
  <2>3. \A t \in Task : Matter(t)' = Matter(t) /\ Matter(t) \subseteq Task
    BY MatterSame DEF Matter
  <2> QED
    BY <2>1, <2>2, <2>3 DEF SeenInv
<1>6. CompleteInv'
  BY DEF CompleteInv
<1> QED
  BY <1>3, <1>4, <1>5, <1>6

LEMMA CleanBuilt ==
    ASSUME AllInv, BuiltInv, NEW fn \in Fn, Clean(fn)
    PROVE  BuiltInv'
<1> USE QueueAssumption DEF AllInv, Inv, BuiltInv, Clean, queueVars, taskVars, procVars
<1>1. stamp \in [Task -> Nat] /\ stamp' \in [Task -> Nat] /\ clock \in Nat /\ own' = {}
  BY DEF TypeOK, ProcInv
<1>2. \A t \in Task : stamp'[t] \in {0, stamp[t]}
  BY DEF TypeOK
<1>3. ForcedInv'
  BY <1>2 DEF ForcedInv, TypeOK
<1>4. ExecInv'
  <2>1. \A t \in NoStamp : t \in Task
    OBVIOUS
  <2> QED
    BY <1>1, <1>2, <2>1 DEF ExecInv
<1>5. SeenInv'
  <2>1. \A t \in Task : stamp'[t] = clock' => stamp[t] = clock
    BY <1>1, <1>2 DEF StampInv, FreshInv
  <2>2. \A t \in Task : StampCurrent(t)' => StampCurrent(t)
    BY <1>1, <1>2, RemovalCurrent
  <2>3. \A t \in Task : Matter(t)' = Matter(t) /\ Matter(t) \subseteq Task
    BY MatterSame DEF Matter
  <2> QED
    BY <2>1, <2>2, <2>3 DEF SeenInv
<1>6. CompleteInv'
  BY DEF CompleteInv
<1> QED
  BY <1>3, <1>4, <1>5, <1>6

\* A task whose stamp is current is good and has seen what it depends on, for
\* that is complete.
LEMMA SkipBuilt ==
    ASSUME AllInv, BuiltInv, NEW t \in Task, Skip(t)
    PROVE  BuiltInv'
<1> USE DEF AllInv, Inv, BuiltInv, queueVars, procVars, histVars
<1>1. /\ t \in runq_buildable /\ StampCurrent(t) /\ master' # "idle" /\ master # "idle"
      /\ runq_complete' = runq_complete \cup {t}
      /\ UNCHANGED <<runq, forced, stamp, clock, good, seen, ran, orphaned, own, phase, ptask,
                     inputs>>
  BY DEF Skip, Candidates, TaskComplete
<1>2. ForcedInv'
  BY <1>1 DEF ForcedInv, StampCurrent
<1>3. ExecInv'
  <2>1. \A u \in ran' : Depends[u] \subseteq runq_complete'
    BY <1>1 DEF ExecInv
  <2> QED
    BY <1>1, <2>1, MatterSame DEF ExecInv
<1>4. SeenInv'
  <2>1. t \in orphaned \/ Matter(t) \subseteq seen[t]
    BY <1>1 DEF SeenInv, Matter, OrderInv
  <2> QED
    BY <1>1, <2>1, MatterSame, SameCurrent DEF SeenInv
<1>5. CompleteInv'
  BY <1>1 DEF CompleteInv, StampInv, CurrentIsGood
<1> QED
  BY <1>2, <1>3, <1>4, <1>5

\* A task is forked once everything it depends on is complete.
LEMMA ForkBuilt ==
    ASSUME AllInv, BuiltInv, NEW t \in Task, NEW p \in Pid, ForkTask(t, p) \/ ForkInterrupted(t, p)
    PROVE  BuiltInv'
<1> USE DEF AllInv, Inv, BuiltInv, queueVars, pidVars
<1>1. Fork(t, p) /\ master' # "idle"
  BY DEF ForkTask, ForkInterrupted, SlotLeft
<1>2. /\ Depends[t] \subseteq runq_complete /\ t \notin runq_complete
      /\ \A q \in own : ptask[q] # t /\ q # p
  BY <1>1 DEF Fork, Candidates, OrderInv, ProcInv
<1>3. /\ ran' = ran \cup {t} /\ good' = good \ {t} /\ own' = own \cup {p}
      /\ UNCHANGED <<runq, forced, stamp, clock, seen, orphaned, runq_complete>>
  BY <1>1 DEF Fork
<1>4. ForcedInv'
  BY <1>3 DEF ForcedInv
<1>5. ExecInv'
  <2>1. /\ phase'[p] = "exec" /\ ptask'[p] = t /\ inputs'[p] = Depends[t]
        /\ \A q \in Pid \ {p} : phase'[q] = phase[q] /\ ptask'[q] = ptask[q] /\ inputs'[q] = inputs[q]
    BY <1>1 DEF Fork, TypeOK
  <2>2. /\ \A u \in ran' : Depends[u] \subseteq runq_complete'
        /\ \A u \in NoStamp : stamp'[u] = 0
        /\ \A q \in Pid : phase'[q] \in {"stamp", "create"} => ptask'[q] \notin NoStamp
    BY <1>2, <1>3, <2>1 DEF ExecInv
  <2>3. Matter(t) \subseteq Depends[t] /\ own \subseteq Pid
    BY DEF Matter, TypeOK
  <2> QED
    BY <1>2, <1>3, <2>1, <2>2, <2>3, MatterSame DEF ExecInv
<1>6. SeenInv'
  BY <1>3, MatterSame, SameCurrent DEF SeenInv
<1>7. CompleteInv'
  BY <1>1, <1>2, <1>3 DEF CompleteInv, Fork
<1> QED
  BY <1>4, <1>5, <1>6, <1>7

\* No stamp that has not been renewed in this invocation is current beside the
\* stamp of a task that has.
LEMMA TaskSucceedsBuilt ==
    ASSUME AllInv, BuiltInv, NEW p \in Pid, TaskSucceeds(p)
    PROVE  BuiltInv'
<1> USE DEF AllInv, Inv, BuiltInv
<1> DEFINE u == ptask[p]
<1>1. /\ Reap(p) /\ p \in own /\ phase[p] = "ok" /\ Waiting /\ TaskComplete(build_pids[p])
  BY DEF TaskSucceeds, Reap
<1>2. build_pids[p] = u /\ u \in runq /\ master # "idle"
  BY <1>1, WaitingRecorded
<1>3. /\ runq_complete' = runq_complete \cup {u} /\ own' = own \ {p}
      /\ UNCHANGED <<runq, forced, stamp, clock, good, seen, ran, orphaned>>
      /\ \A q \in Pid \ {p} : phase'[q] = phase[q] /\ ptask'[q] = ptask[q] /\ inputs'[q] = inputs[q]
  BY <1>1, <1>2 DEF Reap, Release, TaskComplete, queueVars, histVars
<1>4. phase'[p] = "free" /\ own \subseteq Pid
  BY <1>1 DEF Reap, Release, TypeOK
<1>5. /\ u \in Task /\ u \in ran /\ u \notin runq_complete
      /\ u \in orphaned \/ (u \in good /\ Matter(u) \subseteq seen[u])
  BY <1>1, <1>2 DEF StampInv, WriterInv, OrderInv, ExecInv, TypeOK
<1>6. ForcedInv'
  BY <1>3, <1>5 DEF ForcedInv
<1>7. ExecInv'
  <2>1. \A t \in ran' : Depends[t] \subseteq runq_complete'
    BY <1>3 DEF ExecInv
  <2> QED
    BY <1>3, <1>4, <2>1, MatterSame DEF ExecInv
<1>8. SeenInv'
  <2>1. ASSUME NEW t \in Task \ orphaned, StampCurrent(t), u \in Matter(t) PROVE FALSE
    <3>1. u \in Depends[t] /\ Compared(t, u) /\ u \notin orphaned /\ u \notin SelfStamp
      BY <2>1 DEF Matter
    <3>2. t \notin ran
      BY <1>5, <3>1 DEF ExecInv
    <3>3. u \notin NoStamp /\ ~(stamp[t] < stamp[u])
      BY <2>1, <3>1 DEF StampCurrent, ExecInv
    <3> QED
      BY <1>1, <3>1, <3>2, <3>3 DEF ExecInv
  <2> QED
    BY <1>3, <1>5, <2>1, MatterSame, SameCurrent DEF SeenInv
<1>9. CompleteInv'
  BY <1>2, <1>3, <1>5 DEF CompleteInv
<1> QED
  BY <1>6, <1>7, <1>8, <1>9

\* A process that is at work has its task in ran or among the orphaned; in the
\* first case it is its master's only child for a task that is not complete.
LEMMA Worker ==
    ASSUME AllInv, NEW p \in Pid, Alive(p)
    PROVE  /\ ptask[p] \in Task
           /\ ptask[p] \in orphaned \/ (p \in own /\ ptask[p] \in ran)
           /\ ptask[p] \notin orphaned => ptask[p] \notin runq_complete
           /\ \A q \in own : q # p /\ ptask[q] \notin orphaned => ptask[q] # ptask[p]
  BY DEF AllInv, Inv, ProcInv, OrderInv, StampInv, WriterInv, Alive

\* The dependencies of what has been executed or completed are not being
\* executed, so what was seen of them stays seen.
LEMMA ExecSucceedsBuilt ==
    ASSUME AllInv, BuiltInv, NEW p \in Pid, ExecSucceeds(p)
    PROVE  BuiltInv'
<1> USE DEF AllInv, Inv, BuiltInv
<1> DEFINE u == ptask[p]
<1>1. phase[p] = "exec" /\ Alive(p)
  BY DEF ExecSucceeds, Alive
<1>2. /\ u \in Task
      /\ u \in orphaned \/ (p \in own /\ u \in ran)
      /\ u \notin orphaned => u \notin runq_complete
      /\ \A q \in own : q # p /\ ptask[q] \notin orphaned => ptask[q] # u
  BY <1>1, Worker
<1>3. /\ good' = good \cup {u}
      /\ UNCHANGED <<runq, forced, stamp, clock, ran, orphaned, runq_complete, own, master, outcome>>
      /\ \A t \in Task : seen'[t] = IF t = u THEN inputs[p] ELSE seen[t] \ {u}
  BY DEF ExecSucceeds, ChildUnchanged, queueVars, taskVars
<1>4. \A t \in Task : t \in runq_complete \/ t \in ran => u \notin Matter(t)
  BY <1>2 DEF Matter, ExecInv, OrderInv
<1>5. u \notin orphaned => u \notin good /\ ~StampCurrent(u) /\ Matter(u) \subseteq inputs[p]
  BY <1>1, <1>2 DEF ExecInv, StampInv, CurrentIsGood
<1>6. ForcedInv' /\ CompleteInv'
  BY <1>3 DEF ForcedInv, CompleteInv
<1>7. ExecInv'
  <2>1. /\ phase'[p] = "stamp" => u \notin NoStamp
        /\ phase'[p] # "create"
        /\ phase'[p] = "ok" => u \in NoStamp \cup SelfStamp
        /\ phase'[p] # "exec"
        /\ p \in own => ptask'[p] = u
        /\ phase'[p] = "stamp" => ptask'[p] = u
    BY <1>2 DEF ExecSucceeds, WritesStamp, TypeOK
  <2>2. \A q \in Pid \ {p} : /\ phase'[q] = phase[q] /\ ptask'[q] = ptask[q]
                             /\ inputs'[q] = inputs[q] \ {u}
    BY <1>2 DEF ExecSucceeds, TypeOK
  <2>3. /\ \A t \in ran' : Depends[t] \subseteq runq_complete'
        /\ \A t \in NoStamp : stamp'[t] = 0
        /\ \A q \in Pid : phase'[q] \in {"stamp", "create"} => ptask'[q] \notin NoStamp
    BY <1>3, <2>1, <2>2 DEF ExecInv
  <2>4. ASSUME NEW q \in own, ptask'[q] \notin orphaned
        PROVE  /\ phase'[q] = "exec" =>
                     ptask'[q] \notin good' /\ Matter(ptask'[q]) \subseteq inputs'[q]
               /\ phase'[q] \in {"stamp", "create", "ok"} =>
                     ptask'[q] \in good' /\ Matter(ptask'[q]) \subseteq seen'[ptask'[q]]
               /\ phase'[q] = "ok" /\ ptask'[q] \notin NoStamp \cup SelfStamp =>
                     \A v \in Task \ (ran' \cup orphaned') : stamp'[v] < stamp'[ptask'[q]]
    <3>1. CASE q = p
      BY <1>2, <1>3, <1>5, <2>1, <2>4, <3>1
    <3>2. CASE q # p
      <4>1. q \in Pid /\ ptask'[q] = ptask[q] /\ ptask[q] # u /\ ptask[q] \in ran /\ ptask[q] \in Task
        BY <1>2, <2>2, <2>4, <3>2 DEF TypeOK, StampInv, WriterInv
      <4>2. /\ phase'[q] = phase[q] /\ inputs'[q] = inputs[q] \ {u}
            /\ seen'[ptask[q]] = seen[ptask[q]] \ {u} /\ u \notin Matter(ptask[q])
        BY <1>3, <1>4, <2>2, <3>2, <4>1
      <4>3. /\ phase[q] = "exec" => ptask[q] \notin good /\ Matter(ptask[q]) \subseteq inputs[q]
            /\ phase[q] \in {"stamp", "create", "ok"} =>
                  ptask[q] \in good /\ Matter(ptask[q]) \subseteq seen[ptask[q]]
            /\ phase[q] = "ok" /\ ptask[q] \notin NoStamp \cup SelfStamp =>
                  \A v \in Task \ (ran \cup orphaned) : stamp[v] < stamp[ptask[q]]
        BY <2>4, <4>1 DEF ExecInv
      <4> QED
        BY <1>3, <4>1, <4>2, <4>3
    <3> QED
      BY <3>1, <3>2
  <2> QED
    BY <1>3, <2>3, <2>4, MatterSame DEF ExecInv
<1>8. SeenInv'
  <2> SUFFICES ASSUME NEW t \in Task \ orphaned
               PROVE  /\ stamp[t] = clock => Matter(t) \subseteq seen'[t]
                      /\ t \in runq_complete => Matter(t) \subseteq seen'[t]
                      /\ StampCurrent(t) =>
                            \A d \in Matter(t) :
                                StampCurrent(d) \/ d \in runq_complete => d \in seen'[t]
    BY <1>3, MatterSame, SameCurrent DEF SeenInv
  <2>1. CASE t = u
    BY <1>2, <1>3, <1>5, <2>1
  <2>2. CASE t # u
    <3>1. stamp[t] = clock => t \in ran
      BY DEF StampInv, FreshInv
    <3>2. StampCurrent(t) =>
              \A d \in Matter(t) : StampCurrent(d) \/ d \in runq_complete => d # u
      BY <1>2, <1>5 DEF Matter
    <3> QED
      BY <1>3, <1>4, <2>2, <3>1, <3>2 DEF SeenInv
  <2> QED
    BY <2>1, <2>2
<1> QED
  BY <1>6, <1>7, <1>8

LEMMA ChildFailsBuilt ==
    ASSUME AllInv, BuiltInv, NEW p \in Pid, ChildFails(p)
    PROVE  BuiltInv'
<1>1. /\ UNCHANGED <<runq, forced, stamp, clock, good, seen, ran, runq_complete, orphaned, own,
                     master, outcome>>
      /\ own \subseteq Pid
  BY DEF ChildFails, ChildUnchanged, queueVars, taskVars, histVars, AllInv, Inv, TypeOK
<1>2. \A q \in own : ptask'[q] = ptask[q] /\ inputs'[q] = inputs[q] /\ phase'[q] \in {phase[q], "fail"}
  BY <1>1 DEF ChildFails, Exit, Release, AllInv, Inv, TypeOK
<1>3. \A q \in Pid : phase'[q] \in {"stamp", "create"} =>
          phase'[q] = phase[q] /\ ptask'[q] = ptask[q]
  BY DEF ChildFails, Exit, Release, AllInv, Inv, TypeOK
<1> QED
  BY <1>1, <1>2, <1>3, QuietBuilt

LEMMA StampInternalBuilt ==
    ASSUME AllInv, BuiltInv, NEW p \in Pid, StampInternal(p)
    PROVE  BuiltInv'
<1> USE QueueAssumption DEF AllInv, Inv, BuiltInv
<1> DEFINE u == ptask[p]
<1>1. phase[p] = "stamp" /\ Alive(p)
  BY DEF StampInternal, Alive
<1>2. /\ u \in Task
      /\ \A q \in own : q # p /\ ptask[q] \notin orphaned => ptask[q] # u
  BY <1>1, Worker
<1>3. /\ UNCHANGED <<runq, forced, good, seen, clock, ran, orphaned, runq_complete, own, master,
                     outcome, ptask, inputs>>
      /\ \A q \in Pid \ {p} : phase'[q] = phase[q]
      /\ phase'[p] = "create"
      /\ stamp' = [stamp EXCEPT ![u] = 0]
  BY DEF StampInternal, ChildUnchanged, queueVars, taskVars, histVars, TypeOK
<1>4. stamp \in [Task -> Nat] /\ stamp' \in [Task -> Nat]
  BY <1>2, <1>3 DEF TypeOK
<1>5. ForcedInv' /\ CompleteInv'
  BY <1>2, <1>3, <1>4 DEF ForcedInv, CompleteInv, TypeOK
<1>6. ExecInv'
  <2>1. /\ \A t \in ran' : Depends[t] \subseteq runq_complete'
        /\ \A t \in NoStamp : stamp'[t] = 0
        /\ \A q \in Pid : phase'[q] \in {"stamp", "create"} => ptask'[q] \notin NoStamp
    BY <1>1, <1>3, <1>4 DEF ExecInv
  <2>2. ASSUME NEW q \in own, ptask[q] \notin orphaned
        PROVE  /\ phase'[q] = "exec" => ptask[q] \notin good /\ Matter(ptask[q]) \subseteq inputs[q]
               /\ phase'[q] \in {"stamp", "create", "ok"} =>
                     ptask[q] \in good /\ Matter(ptask[q]) \subseteq seen[ptask[q]]
               /\ phase'[q] = "ok" /\ ptask[q] \notin NoStamp \cup SelfStamp =>
                     \A v \in Task \ (ran \cup orphaned) : stamp'[v] < stamp'[ptask[q]]
    <3>1. CASE q = p
      BY <1>1, <1>3, <2>2, <3>1 DEF ExecInv
    <3>2. CASE q # p
      <4>1. phase'[q] = phase[q] /\ ptask[q] # u /\ ptask[q] \in Task
        BY <1>2, <1>3, <2>2, <3>2 DEF TypeOK, StampInv, WriterInv
      <4>2. \A v \in Task : stamp'[v] <= stamp[v] /\ stamp'[ptask[q]] = stamp[ptask[q]]
        BY <1>3, <1>4, <4>1
      <4>3. \A v \in Task : stamp[v] \in Nat /\ stamp'[v] \in Nat
        BY <1>4
      <4> QED
        BY <2>2, <4>1, <4>2, <4>3 DEF ExecInv
    <3> QED
      BY <3>1, <3>2
  <2> QED
    BY <1>3, <2>1, <2>2, MatterSame DEF ExecInv
<1>7. SeenInv'
  <2>1. \A t \in Task : stamp'[t] = clock' => stamp[t] = clock
    BY <1>2, <1>3, <1>4 DEF StampInv, FreshInv
  <2>2. \A t \in Task : StampCurrent(t)' => StampCurrent(t)
    BY <1>2, <1>3, <1>4, RemovalCurrent
  <2>3. \A t \in Task : Matter(t)' = Matter(t) /\ Matter(t) \subseteq Task
    BY <1>3, MatterSame DEF Matter
  <2> QED
    BY <1>3, <2>1, <2>2, <2>3 DEF SeenInv
<1> QED
  BY <1>5, <1>6, <1>7

\* A new stamp can only make a stamp current that is as new as itself.
LEMMA OlderCurrent ==
    ASSUME stamp \in [Task -> Nat], clock \in Nat, NEW u \in Task,
           stamp' = [stamp EXCEPT ![u] = clock],
           NEW t \in Task, stamp'[t] < clock, StampCurrent(t)'
    PROVE  /\ StampCurrent(t)
           /\ u \in Depends[t] => ~Compared(t, u)
<1>1. t # u /\ stamp'[t] = stamp[t] /\ stamp'[u] = clock
  OBVIOUS
<1>2. \A d \in Depends[t] : d \in Task /\ (Compared(t, d)' <=> Compared(t, d))
  BY QueueAssumption DEF Compared
<1>3. u \in Depends[t] => ~Compared(t, u)
  BY <1>1, <1>2 DEF StampCurrent
<1>4. StampCurrent(t)
  BY <1>1, <1>2, <1>3 DEF StampCurrent
<1> QED
  BY <1>3, <1>4

LEMMA CreateStampBuilt ==
    ASSUME AllInv, BuiltInv, NEW p \in Pid, CreateStamp(p)
    PROVE  BuiltInv'
<1> USE QueueAssumption DEF AllInv, Inv, BuiltInv
<1> DEFINE u == ptask[p]
<1>1. phase[p] = "create" /\ Alive(p)
  BY DEF CreateStamp, Alive
<1>2. /\ u \in Task
      /\ u \in orphaned \/ (p \in own /\ u \in ran)
      /\ \A q \in own : q # p /\ ptask[q] \notin orphaned => ptask[q] # u
  BY <1>1, Worker
<1>3. /\ UNCHANGED <<runq, forced, good, seen, clock, ran, orphaned, runq_complete, own, master,
                     outcome>>
      /\ stamp' = [stamp EXCEPT ![u] = clock]
  BY DEF CreateStamp, ChildUnchanged, queueVars, taskVars, histVars
<1>4. /\ stamp \in [Task -> Nat] /\ stamp' \in [Task -> Nat] /\ clock \in Nat
      /\ own \subseteq Pid
  BY <1>2, <1>3 DEF TypeOK
<1>5. ForcedInv' /\ CompleteInv'
  BY <1>2, <1>3, <1>4 DEF ForcedInv, CompleteInv, TypeOK
<1>6. u \in orphaned \/ (u \in good /\ Matter(u) \subseteq seen[u])
  BY <1>1, <1>2 DEF ExecInv
<1>7. ExecInv'
  <2>1. /\ \A q \in own : ptask'[q] = ptask[q] /\ inputs'[q] = inputs[q]
        /\ \A q \in Pid \ {p} : phase'[q] = phase[q] /\ ptask'[q] = ptask[q]
        /\ phase'[p] \in {"ok", "free"}
    BY <1>4 DEF CreateStamp, Exit, Release, TypeOK
  <2>2. /\ \A t \in ran' : Depends[t] \subseteq runq_complete'
        /\ \A t \in NoStamp : stamp'[t] = 0
        /\ \A q \in Pid : phase'[q] \in {"stamp", "create"} => ptask'[q] \notin NoStamp
    BY <1>1, <1>3, <1>4, <2>1 DEF ExecInv
  <2>3. ASSUME NEW q \in own, ptask[q] \notin orphaned
        PROVE  /\ phase'[q] = "exec" => ptask[q] \notin good /\ Matter(ptask[q]) \subseteq inputs[q]
               /\ phase'[q] \in {"stamp", "create", "ok"} =>
                     ptask[q] \in good /\ Matter(ptask[q]) \subseteq seen[ptask[q]]
               /\ phase'[q] = "ok" /\ ptask[q] \notin NoStamp \cup SelfStamp =>
                     \A v \in Task \ (ran \cup orphaned) : stamp'[v] < stamp'[ptask[q]]
    <3>1. CASE q = p
      <4>1. \A v \in Task \ (ran \cup orphaned) : stamp'[v] < clock
        BY <1>2, <1>3, <1>4 DEF StampInv, FreshInv
      <4>2. stamp'[u] = clock
        BY <1>2, <1>3, <1>4
      <4> QED
        BY <1>6, <2>1, <2>3, <3>1, <4>1, <4>2
    <3>2. CASE q # p
      <4>1. q \in Pid /\ phase'[q] = phase[q] /\ ptask[q] # u /\ ptask[q] \in Task
        BY <1>2, <1>4, <2>1, <2>3, <3>2 DEF TypeOK, StampInv, WriterInv
      <4>2. \A v \in Task \ (ran \cup orphaned) : stamp'[v] = stamp[v]
        BY <1>2, <1>3, <1>4
      <4>3. stamp'[ptask[q]] = stamp[ptask[q]]
        BY <1>3, <1>4, <4>1
      <4> QED
        BY <2>3, <4>1, <4>2, <4>3 DEF ExecInv
    <3> QED
      BY <3>1, <3>2
  <2> QED
    BY <1>3, <2>1, <2>2, <2>3, MatterSame DEF ExecInv
<1>8. SeenInv'
  <2> SUFFICES ASSUME NEW t \in Task \ orphaned
               PROVE  /\ stamp'[t] = clock => Matter(t) \subseteq seen[t]
                      /\ t \in runq_complete => Matter(t) \subseteq seen[t]
                      /\ StampCurrent(t)' =>
                            \A d \in Matter(t) :
                                StampCurrent(d)' \/ d \in runq_complete => d \in seen[t]
    BY <1>3, MatterSame DEF SeenInv
  <2>1. stamp'[t] = clock => Matter(t) \subseteq seen[t]
    <3>1. CASE t = u
      BY <1>6, <3>1
    <3>2. CASE t # u
      BY <1>3, <1>4, <3>2 DEF SeenInv
    <3> QED
      BY <3>1, <3>2
  <2>2. t \in runq_complete => Matter(t) \subseteq seen[t]
    BY DEF SeenInv
  <2>3. ASSUME StampCurrent(t)', NEW d \in Matter(t), StampCurrent(d)' \/ d \in runq_complete
        PROVE  d \in seen[t]
    <3>1. CASE stamp'[t] = clock
      BY <2>1, <3>1
    <3>2. CASE stamp'[t] # clock
      <4>1. /\ d \in Task /\ d \in Depends[t] /\ Compared(t, d)
            /\ Compared(t, d)' <=> Compared(t, d)
        BY DEF Matter, Compared
      <4>2. stamp'[t] < clock /\ stamp'[d] <= stamp'[t]
        BY <1>2, <1>3, <1>4, <2>3, <3>2, <4>1 DEF StampInv, FreshInv, StampCurrent
      <4>3. StampCurrent(t)
        BY <1>2, <1>3, <1>4, <2>3, <4>2, OlderCurrent
      <4>4. StampCurrent(d) \/ d \in runq_complete
        <5>1. stamp'[d] < clock
          BY <1>4, <4>1, <4>2
        <5> QED
          BY <1>2, <1>3, <1>4, <2>3, <4>1, <5>1, OlderCurrent
      <4> QED
        BY <4>3, <4>4 DEF SeenInv
    <3> QED
      BY <3>1, <3>2
  <2> QED
    BY <2>1, <2>2, <2>3
<1> QED
  BY <1>5, <1>7, <1>8

LEMMA BuiltNext == AllInv /\ BuiltInv /\ [Next]_vars => BuiltInv'
<1> SUFFICES ASSUME AllInv, BuiltInv, [Next]_vars PROVE BuiltInv'
  OBVIOUS
<1>1. CASE \E T \in Targets, force \in BOOLEAN, keepGoing \in BOOLEAN :
               StartRun(T, force, keepGoing)
  BY <1>1, StartRunBuilt
<1>2. CASE \E fn \in Fn : Clean(fn)
  BY <1>2, CleanBuilt
<1>3. CASE \E t \in Task : Skip(t)
  BY <1>3, SkipBuilt
<1>4. CASE \E t \in Task, p \in Pid : ForkTask(t, p) \/ ForkInterrupted(t, p)
  BY <1>4, ForkBuilt
<1>5. CASE Interrupt \/ LoopReturns \/ (\E t \in Task : ForkFails(t))
  BY <1>5, QuietLeaveBuilt
<1>6. CASE \E p \in Pid : TaskSucceeds(p)
  BY <1>6, TaskSucceedsBuilt
<1>7. CASE \E p \in Pid : TaskFails(p) \/ ReapInterrupted(p) \/ FinishReaps(p)
  BY <1>7, QuietReapBuilt
<1>8. CASE \/ \E p \in Pid : FinishUnknownPid(p)
           \/ FinishNoChild \/ FinishInterrupted \/ FinishReturns
  BY <1>8, QuietEndBuilt DEF FinishUnknownPid, FinishNoChild, FinishInterrupted, FinishReturns
<1>9. CASE \E p \in Pid : ChildStep(p)
  BY <1>9, ExecSucceedsBuilt, ChildFailsBuilt, StampInternalBuilt, CreateStampBuilt DEF ChildStep
<1>10. CASE Tick
  BY <1>10, TickBuilt
<1>11. CASE Terminated \/ UNCHANGED vars
  BY <1>11, QuietBuilt DEF Terminated, vars, queueVars, taskVars, procVars, histVars
<1> QED
  BY <1>1, <1>2, <1>3, <1>4, <1>5, <1>6, <1>7, <1>8, <1>9, <1>10, <1>11
     DEF Next, MasterStep, Disturbance

LEMMA BuiltInvHolds == Spec => [](AllInv /\ BuiltInv)
<1>1. Inv /\ StampInv /\ QueueInv => AllInv
  BY DEF AllInv
<1> QED
  BY <1>1, BuiltInit, BuiltNext, InvHolds, StampInvHolds, QueueInvHolds, PTL DEF Spec

\* A successful invocation leaves every task of its queue the product of a good
\* execution that read the last output of each dependency its stamp is compared
\* with, whatever failures, interrupts, forced and cleaned builds came before:
\* what make_stamp and check_stamp_task are for.
THEOREM UpToDateHolds == Spec => []UpToDate
<1>1. AllInv /\ BuiltInv /\ SuccessCompletes => UpToDate
  <2> SUFFICES ASSUME AllInv, BuiltInv, SuccessCompletes, master = "idle", outcome = "success",
                      NEW t \in runq \ orphaned
               PROVE  t \in good /\ Matter(t) \subseteq seen[t]
    BY DEF UpToDate, Matter
  <2>1. t \in runq_complete /\ t \in Task
    BY DEF SuccessCompletes, AllInv, Inv, TypeOK
  <2> QED
    BY <2>1 DEF BuiltInv, CompleteInv, SeenInv
<1> QED
  BY <1>1, BuiltInvHolds, SuccessCompletesHolds, PTL

\* -f executes its targets: one of them is complete in the end, and the only
\* stamp by which it could have been passed over was removed.
THEOREM ForcedRunsHolds == Spec => []ForcedRuns
<1>1. AllInv /\ BuiltInv /\ SuccessCompletes => ForcedRuns
  BY DEF BuiltInv, ForcedInv, SuccessCompletes, ForcedRuns
<1> QED
  BY <1>1, BuiltInvHolds, SuccessCompletesHolds, PTL
=============================================================================
