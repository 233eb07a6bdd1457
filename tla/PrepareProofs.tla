---------------------------- MODULE PrepareProofs ----------------------------
(***************************************************************************)
(* Proofs about Prepare: what Closure computes, that a queue is given up   *)
(* for its loops exactly when it has one, what its tasks weigh, and what   *)
(* [recrdeptask] waits for.                                                *)
(***************************************************************************)
EXTENDS Prepare, FiniteSetTheorems, TLAPS

-----------------------------------------------------------------------------
(* What can be reached. *)

LEMMA Smallest ==
    ASSUME NEW S \in SUBSET Nat, S # {}
    PROVE  \E m \in S : \A n \in S : ~(n < m)
  <1>1. PICK m \in S : \A n \in S : <<n, m>> \notin OpToRel(<, Nat)
    BY NatLessThanWellFounded, WFMin
  <1>2. \A n \in S : ~(n < m)
    BY <1>1 DEF OpToRel
  <1> QED BY <1>2

\* Induction over 0 .. N, for a set.
LEMMA Counting ==
    ASSUME NEW N \in Nat, NEW P, 0 \in P,
           \A n \in 0 .. N - 1 : n \in P => n + 1 \in P
    PROVE  0 .. N \subseteq P
  <1> DEFINE missing == {n \in 0 .. N : n \notin P}
  <1> SUFFICES ASSUME missing # {} PROVE FALSE
    OBVIOUS
  <1>0. missing \in SUBSET Nat
    OBVIOUS
  <1>1. PICK m \in missing : \A n \in missing : ~(n < m)
    <2> HIDE DEF missing
    <2> QED BY <1>0, Smallest
  <1>2. m - 1 \in 0 .. N - 1 /\ m - 1 \notin missing
    BY <1>1
  <1> QED BY <1>2

\* One step further.
Grow(w, f) == w \cup UNION {f[x] : x \in w}

IsWithin(g, m, S, f) ==
    g = [n \in 0 .. m |-> IF n = 0 THEN S ELSE UNION {w \cup UNION {f[x] : x \in w} : w \in {g[n - 1]}}]

LEMMA OneStep == ASSUME NEW f, NEW v
                 PROVE UNION {w \cup UNION {f[x] : x \in w} : w \in {v}} = Grow(v, f)
  BY DEF Grow

LEMMA WithinExists ==
    ASSUME NEW N \in Nat, NEW S, NEW f
    PROVE  \E g : IsWithin(g, N, S, f)
  <1> DEFINE P == {m \in Nat : \E g : IsWithin(g, m, S, f)}
  <1>1. 0 \in P
    <2> DEFINE g == [n \in 0 .. 0 |-> S]
    <2>1. IsWithin(g, 0, S, f)
      BY DEF IsWithin
    <2> QED BY <2>1
  <1>2. ASSUME NEW m \in 0 .. N - 1, m \in P PROVE m + 1 \in P
    <2>1. PICK g : IsWithin(g, m, S, f)
      BY <1>2
    <2> DEFINE h == [n \in 0 .. m + 1 |-> IF n = m + 1 THEN Grow(g[m], f) ELSE g[n]]
    <2>2. ASSUME NEW n \in 0 .. m + 1
          PROVE  h[n] = IF n = 0 THEN S
                        ELSE UNION {w \cup UNION {f[x] : x \in w} : w \in {h[n - 1]}}
      <3>1. CASE n = m + 1
        <4>1. h[n] = Grow(g[m], f) /\ h[n - 1] = g[m] /\ n # 0
          BY <3>1
        <4> QED BY <4>1, OneStep
      <3>2. CASE n \in 0 .. m
        <4>1. g[n] = IF n = 0 THEN S
                     ELSE UNION {w \cup UNION {f[x] : x \in w} : w \in {g[n - 1]}}
          BY <2>1, <3>2 DEF IsWithin
        <4>2. h[n] = g[n] /\ (n # 0 => h[n - 1] = g[n - 1])
          BY <3>2
        <4> QED BY <4>1, <4>2
      <3> QED BY <3>1, <3>2
    <2>3. IsWithin(h, m + 1, S, f)
      BY <2>2 DEF IsWithin
    <2> QED BY <2>3
  <1> HIDE DEF P
  <1>3. 0 .. N \subseteq P
    BY <1>1, <1>2, Counting
  <1>4. N \in P
    BY <1>3
  <1> QED BY <1>4 DEF P

\* Closure in terms of one function.
LEMMA ClosureWithin ==
    ASSUME NEW S, NEW f, Cardinality(DOMAIN f) \in Nat
    PROVE  \E g : /\ Closure(S, f) = g[Cardinality(DOMAIN f)]
                  /\ g[0] = S
                  /\ \A n \in 0 .. Cardinality(DOMAIN f) - 1 : g[n + 1] = Grow(g[n], f)
  <1> DEFINE N == Cardinality(DOMAIN f)
             g == CHOOSE g : IsWithin(g, N, S, f)
  <1>1. IsWithin(g, N, S, f)
    BY WithinExists
  <1>2. Closure(S, f) = g[N]
    BY DEF Closure, IsWithin
  <1> HIDE DEF g
  <1>3. g[0] = S
    BY <1>1 DEF IsWithin
  <1>4. ASSUME NEW n \in 0 .. N - 1 PROVE g[n + 1] = Grow(g[n], f)
    <2>1. n + 1 \in 0 .. N /\ n + 1 # 0 /\ (n + 1) - 1 = n
      OBVIOUS
    <2>2. g[n + 1] = UNION {w \cup UNION {f[x] : x \in w} : w \in {g[(n + 1) - 1]}}
      BY <1>1, <2>1 DEF IsWithin
    <2> QED BY <2>1, <2>2, OneStep
  <1> QED BY <1>2, <1>3, <1>4

Closed(C, f) == \A x \in C : f[x] \subseteq C

\* Closure is within D, holds S, is closed, and no closed set is smaller.
LEMMA ClosureIs ==
    ASSUME NEW D, IsFiniteSet(D), NEW S \in SUBSET D, NEW f \in [D -> SUBSET D]
    PROVE  /\ Closure(S, f) \subseteq D
           /\ S \subseteq Closure(S, f)
           /\ Closed(Closure(S, f), f)
           /\ \A C : S \subseteq C /\ Closed(C, f) => Closure(S, f) \subseteq C
  <1> DEFINE N == Cardinality(D)
  <1>0. N \in Nat /\ DOMAIN f = D
    BY FS_CardinalityType
  <1>1. PICK g : /\ Closure(S, f) = g[N]
                 /\ g[0] = S
                 /\ \A n \in 0 .. N - 1 : g[n + 1] = Grow(g[n], f)
    BY <1>0, ClosureWithin
  <1> DEFINE P == {n \in Nat : /\ g[n] \subseteq D /\ S \subseteq g[n]
                               /\ Closed(g[n], f) \/ Cardinality(g[n]) >= n}
  <1>2. 0 \in P
    <2>1. IsFiniteSet(S) /\ Cardinality(S) \in Nat
      BY FS_Subset, FS_CardinalityType
    <2> QED BY <1>1, <2>1
  <1>3. ASSUME NEW n \in 0 .. N - 1, n \in P PROVE n + 1 \in P
    <2>1. g[n + 1] = Grow(g[n], f)
      BY <1>1
    <2>2. g[n + 1] \subseteq D /\ g[n] \subseteq g[n + 1]
      BY <1>3, <2>1 DEF Grow
    <2>3. CASE Closed(g[n], f)
      <3>1. g[n + 1] = g[n]
        BY <2>1, <2>3 DEF Grow, Closed
      <3> QED BY <1>0, <1>3, <2>3, <3>1
    <2>4. CASE ~Closed(g[n], f)
      <3>1. g[n + 1] # g[n]
        BY <2>1, <2>4 DEF Grow, Closed
      <3>2. IsFiniteSet(g[n + 1]) /\ g[n] \in SUBSET g[n + 1] /\ IsFiniteSet(g[n])
        BY <2>2, FS_Subset
      <3>3. Cardinality(g[n]) <= Cardinality(g[n + 1]) /\ Cardinality(g[n]) # Cardinality(g[n + 1])
        BY <3>1, <3>2, FS_Subset
      <3>4. Cardinality(g[n]) \in Nat /\ Cardinality(g[n + 1]) \in Nat
        BY <3>2, FS_CardinalityType
      <3>5. Cardinality(g[n]) >= n
        BY <1>3, <2>4
      <3>6. Cardinality(g[n + 1]) >= n + 1
        BY <3>3, <3>4, <3>5, <1>0
      <3> QED BY <1>0, <1>3, <2>2, <3>6
    <2> QED BY <2>3, <2>4
  <1>4. N \in P
    <2> HIDE DEF P, N
    <2>1. 0 .. N \subseteq P
      BY <1>0, <1>2, <1>3, Counting
    <2> QED BY <1>0, <2>1
  <1>5. Closed(g[N], f)
    <2> SUFFICES ASSUME Cardinality(g[N]) >= N PROVE Closed(g[N], f)
      BY <1>4
    <2>1. g[N] \in SUBSET D /\ Cardinality(g[N]) <= N /\ Cardinality(g[N]) \in Nat
      BY <1>4, FS_Subset, FS_CardinalityType
    <2>2. Cardinality(g[N]) = N
      BY <1>0, <2>1
    <2>3. g[N] = D
      BY <2>1, <2>2, FS_Subset
    <2> QED BY <2>3 DEF Closed
  <1>6. ASSUME NEW C, S \subseteq C, Closed(C, f) PROVE g[N] \subseteq C
    <2> DEFINE Q == {n \in Nat : g[n] \subseteq C}
    <2>1. 0 \in Q
      BY <1>1, <1>6
    <2>2. ASSUME NEW n \in 0 .. N - 1, n \in Q PROVE n + 1 \in Q
      <3>1. g[n + 1] = Grow(g[n], f) /\ n + 1 \in Nat
        BY <1>1
      <3> QED BY <1>6, <2>2, <3>1 DEF Grow, Closed
    <2> HIDE DEF Q, N
    <2>3. 0 .. N \subseteq Q
      BY <1>0, <2>1, <2>2, Counting
    <2> QED BY <1>0, <2>3 DEF Q
  <1> QED BY <1>1, <1>4, <1>5, <1>6

\* The same, in the form the proofs below use.
LEMMA ClosureOfTasks ==
    ASSUME NEW S \in SUBSET Task, NEW f \in [Task -> SUBSET Task]
    PROVE  /\ Closure(S, f) \subseteq Task
           /\ S \subseteq Closure(S, f)
           /\ Closed(Closure(S, f), f)
           /\ \A C : S \subseteq C /\ Closed(C, f) => Closure(S, f) \subseteq C
  <1>1. IsFiniteSet(Task)
    BY PrepareAssumption, FS_Interval DEF Task
  <1> QED BY <1>1, ClosureIs

-----------------------------------------------------------------------------
(* What preparation computes is made of tasks. *)

Types ==
    /\ pc \in {"resolve", "mark", "check", "weigh", "execute", "done", "fatal", "failed"}
    /\ task \in Task
    /\ tasks_tdepends \in [Task -> SUBSET Task]
    /\ tasks_idepends \in [Task -> SUBSET (Name \X TaskName)]
    /\ depends \subseteq Task
    /\ recursive_tdepends \in [Task -> (SUBSET Task) \cup {NotYet}]
    /\ runq_depends \in [Task -> SUBSET Task]
    /\ runq \subseteq Task

LEMMA ChosenType == ASSUME NEW n \in Name PROVE Chosen(n) \subseteq File
  BY PrepareAssumption DEF Chosen, build_targets, Name

LEMMA TaskIdType == ASSUME NEW f \in File, NEW n \in TaskName PROVE TaskId(f, n) \subseteq Task
  BY DEF TaskId, tasks_lookup

LEMMA TaskIdsType == ASSUME NEW f \in File PROVE TaskIds(f) \subseteq Task
  BY DEF TaskIds, tasks_lookup

LEMMA DirectType == ASSUME Types PROVE Direct \subseteq Task
<1> DEFINE deptasks(n) == UNION {UNION {TaskId(f, name) : f \in Chosen(n)} : name \in deptask[task]}
           intertasks(i) == UNION {TaskId(f, i[2]) : f \in Chosen(i[1])}
<1>1. /\ task \in Task /\ tasks_fnid[task] \in File
      /\ tasks_tdepends[task] \subseteq Task
      /\ tasks_idepends[task] \subseteq Name \X TaskName
  BY DEF Types, File
<1>2. depids[tasks_fnid[task]] \subseteq Name /\ deptask[task] \subseteq TaskName
  BY <1>1, PrepareAssumption
<1>3. ASSUME NEW n \in depids[tasks_fnid[task]] PROVE deptasks(n) \subseteq Task
  <2>1. ASSUME NEW name \in deptask[task], NEW f \in Chosen(n) PROVE TaskId(f, name) \subseteq Task
    BY <1>2, ChosenType, TaskIdType
  <2> QED BY <2>1
<1>4. ASSUME NEW i \in tasks_idepends[task] PROVE intertasks(i) \subseteq Task
  <2>1. i[1] \in Name /\ i[2] \in TaskName
    BY <1>1
  <2>2. ASSUME NEW f \in Chosen(i[1]) PROVE TaskId(f, i[2]) \subseteq Task
    BY <2>1, ChosenType, TaskIdType
  <2> QED BY <2>2
<1>5. Direct = tasks_tdepends[task]
                   \cup (UNION {deptasks(n) : n \in depids[tasks_fnid[task]]})
                   \cup UNION {intertasks(i) : i \in tasks_idepends[task]}
  BY DEF Direct
<1> HIDE DEF deptasks, intertasks
<1> QED BY <1>1, <1>3, <1>4, <1>5

LEMMA RecursiveTdependsType ==
    ASSUME Types, NEW t \in Task
    PROVE  RecursiveTdepends(t) \subseteq Task
  <1>1. [tasks_tdepends EXCEPT ![task] = Direct] \in [Task -> SUBSET Task]
    BY DirectType DEF Types
  <1>2. TaskIds(tasks_fnid[t]) \in SUBSET Task
    BY TaskIdsType DEF File
  <1>3. Closure(TaskIds(tasks_fnid[t]), [tasks_tdepends EXCEPT ![task] = Direct]) \subseteq Task
    BY <1>1, <1>2, ClosureOfTasks
  <1>4. recursive_tdepends[t] # NotYet => recursive_tdepends[t] \subseteq Task
    BY DEF Types
  <1> QED BY <1>3, <1>4 DEF RecursiveTdepends

LEMMA RecursiveIdependsType ==
    ASSUME Types, NEW ts \in SUBSET Task
    PROVE  RecursiveIdepends(ts) \subseteq Name
  BY RecursiveTdependsType DEF RecursiveIdepends, Types

\* The recipes RecursiveFiles finds: the providers of a set of names that holds
\* what f needs and what they need.
LEMMA RecursiveFilesIs ==
    ASSUME Types, NEW f \in File, NEW name \in TaskName
    PROVE  /\ RecursiveFiles(f, name) \subseteq File
           /\ \E N \in SUBSET Name :
                 /\ RecursiveFiles(f, name) = UNION {Chosen(n) : n \in N}
                 /\ \A g \in {f} \cup RecursiveFiles(f, name) :
                       depids[g] \cup RecursiveIdepends(TaskId(g, name)) \subseteq N
  <1> DEFINE needs(g) == depids[g] \cup RecursiveIdepends(TaskId(g, name))
             succ == [n \in Name |-> UNION {needs(g) : g \in Chosen(n)}]
             N == Closure(needs(f), succ)
  <1>1. ASSUME NEW g \in File PROVE needs(g) \subseteq Name
    <2>1. TaskId(g, name) \in SUBSET Task
      BY TaskIdType
    <2> QED BY <2>1, RecursiveIdependsType, PrepareAssumption
  <1>2. succ \in [Name -> SUBSET Name]
    BY <1>1, ChosenType
  <1>3. /\ N \subseteq Name /\ needs(f) \subseteq N
        /\ Closed(N, succ)
    <2>1. IsFiniteSet(Name) /\ needs(f) \in SUBSET Name
      BY <1>1, PrepareAssumption
    <2> HIDE DEF needs, succ
    <2> QED BY <1>2, <2>1, ClosureIs
  <1>4. RecursiveFiles(f, name) = UNION {Chosen(n) : n \in N}
    BY DEF RecursiveFiles, RecursiveNames
  <1>5. ASSUME NEW g \in RecursiveFiles(f, name) PROVE needs(g) \subseteq N
    <2>1. PICK n \in N : g \in Chosen(n)
      BY <1>4
    <2>2. needs(g) \subseteq succ[n]
      BY <1>3, <2>1
    <2> QED BY <1>3, <2>2 DEF Closed
  <1> QED BY <1>3, <1>4, <1>5, ChosenType

LEMMA RecursiveType == ASSUME Types PROVE Recursive(tasks_fnid[task]) \subseteq Task
<1> USE DEF Types
<1>1. tasks_fnid[task] \in File /\ recrdeptask[task] \subseteq TaskName
  BY PrepareAssumption DEF File
<1>2. ASSUME NEW n \in recrdeptask[task], NEW g \in RecursiveFiles(tasks_fnid[task], n)
      PROVE  TaskId(g, n) \subseteq Task
  <2>1. g \in File /\ n \in TaskName
    BY <1>1, RecursiveFilesIs
  <2> QED BY <2>1, TaskIdType
<1> QED BY <1>2 DEF Recursive
LEMMA TypesInit == Init => Types
  BY PrepareAssumption DEF Init, Types, Task

LEMMA ResolveTypes == ASSUME Types, Resolve PROVE Types'
<1> USE DEF Types
<1>1. /\ depends' \subseteq Task /\ tasks_tdepends' \in [Task -> SUBSET Task]
      /\ recursive_tdepends' \in [Task -> (SUBSET Task) \cup {NotYet}]
  <2>1. CASE tasks_fnid[task] \in failed_fnids
    BY <2>1 DEF Resolve
  <2>2. CASE tasks_fnid[task] \notin failed_fnids
    <3> DEFINE all == Direct \cup Recursive(tasks_fnid[task])
    <3>1. all \subseteq Task
      BY DirectType, RecursiveType
    <3>2. /\ tasks_tdepends' = [tasks_tdepends EXCEPT ![task] = all]
          /\ depends' = all \ {task}
      BY <2>2 DEF Resolve
    <3>3. PICK looked : recursive_tdepends' =
                            [t \in Task |-> IF t \in looked THEN RecursiveTdepends(t)
                                            ELSE recursive_tdepends[t]]
      BY <2>2 DEF Resolve
    <3>4. recursive_tdepends' \in [Task -> (SUBSET Task) \cup {NotYet}]
      BY <3>3, RecursiveTdependsType
    <3> HIDE DEF all
    <3> QED BY <3>1, <3>2, <3>4
  <2> QED BY <2>1, <2>2
<1>2. runq_depends' \in [Task -> SUBSET Task]
  BY <1>1 DEF Resolve
<1>3. task' \in Task /\ pc' \in {"resolve", "mark"} /\ UNCHANGED <<tasks_idepends, runq>>
  BY PrepareAssumption DEF Resolve, Task
<1> QED BY <1>1, <1>2, <1>3

\* The queue is what the targets need.
LEMMA MarkActiveQueue ==
    ASSUME Types, MarkActive
    PROVE  runq' \subseteq Task /\ Closed(runq', runq_depends)
  <1> DEFINE asked == UNION {UNION {TaskId(f, t[2]) : f \in Chosen(t[1])} : t \in Targets}
  <1>1. asked \in SUBSET Task
    <2>1. ASSUME NEW t \in Targets, NEW f \in Chosen(t[1]) PROVE TaskId(f, t[2]) \subseteq Task
      <3>1. t[1] \in Name /\ t[2] \in TaskName
        BY PrepareAssumption
      <3> QED BY <3>1, ChosenType, TaskIdType
    <2> QED BY <2>1
  <1>2. runq' = Closure(asked, runq_depends)
    BY DEF MarkActive
  <1> HIDE DEF asked
  <1> QED BY <1>1, <1>2, ClosureOfTasks DEF Types

LEMMA TypesNext == ASSUME Types, [Next]_vars PROVE Types'
<1>1. CASE Resolve
  BY <1>1, ResolveTypes
<1>2. CASE MarkActive
  BY <1>2, MarkActiveQueue DEF MarkActive, Types, taskData
<1>3. CASE CheckPairs \/ Weigh \/ Weighed \/ Succeed \/ Raise \/ ResolveRaises \/ UNCHANGED vars
  BY <1>3 DEF CheckPairs, Weigh, Weighed, Succeed, Raise, ResolveRaises, vars, Types, taskData
<1>4. CASE Retry
  <2>1. /\ UNCHANGED <<tasks_tdepends, tasks_idepends>>
        /\ \/ pc' = "failed" /\ UNCHANGED <<task, depends, recursive_tdepends, runq_depends, runq>>
           \/ Reset
    BY <1>4 DEF Retry
  <2>2. ASSUME Reset PROVE Types'
    <3>1. task' \in Task
      BY <2>2, PrepareAssumption DEF Reset, Task
    <3>2. /\ recursive_tdepends' \in [Task -> (SUBSET Task) \cup {NotYet}]
          /\ runq_depends' \in [Task -> SUBSET Task]
      BY <2>2 DEF Reset
    <3> QED BY <2>1, <2>2, <3>1, <3>2 DEF Types, Reset
  <2> QED BY <2>1, <2>2 DEF Types
<1> QED BY <1>1, <1>2, <1>3, <1>4 DEF Next, Step

-----------------------------------------------------------------------------
(* The weighing. *)

\* The tasks whose weight has been passed on.
Passed == task_done \ endpoints

\* A task is weighed as soon as all that need it have passed theirs on, and no
\* sooner; no set of weighed tasks is such that each is needed by another.
WeighInv ==
    /\ endpoints \subseteq task_done /\ task_done \subseteq runq
    /\ deps_left \in [Task -> Nat]
    /\ \A t \in Task : deps_left[t] = Cardinality(Revdeps(t) \ Passed)
    /\ \A t \in task_done : Revdeps(t) \subseteq Passed
    /\ \A t \in runq : Revdeps(t) \subseteq Passed => t \in task_done
    /\ \A C \in SUBSET task_done : C # {} => \E t \in C : Revdeps(t) \cap C = {}

LoopInv ==
    /\ pc \notin {"resolve", "mark", "failed"} => Closed(runq, runq_depends)
    /\ pc = "weigh" => WeighInv
    /\ LoopsFound

LEMMA RevdepsFinite ==
    ASSUME Types, NEW t
    PROVE  IsFiniteSet(Revdeps(t)) /\ Revdeps(t) \subseteq runq /\ Cardinality(Revdeps(t)) \in Nat
  <1>1. IsFiniteSet(Task)
    BY PrepareAssumption, FS_Interval DEF Task
  <1>2. Revdeps(t) \in SUBSET Task
    BY DEF Revdeps, Types
  <1> QED BY <1>1, <1>2, FS_Subset, FS_CardinalityType DEF Revdeps

\* Taking out what has just been passed on.
LEMMA CountDown ==
    ASSUME NEW R, IsFiniteSet(R), NEW P, NEW E, P \cap E = {}
    PROVE  Cardinality(R \ (P \cup E)) = Cardinality(R \ P) - Cardinality(R \cap E)
  <1>1. IsFiniteSet(R \ P)
    BY FS_Difference
  <1>2. Cardinality((R \ P) \ E) = Cardinality(R \ P) - Cardinality((R \ P) \cap E)
    BY <1>1, FS_Difference
  <1>3. (R \ P) \ E = R \ (P \cup E) /\ (R \ P) \cap E = R \cap E
    OBVIOUS
  <1> QED BY <1>2, <1>3

LEMMA CheckPairsWeigh ==
    ASSUME Types, CheckPairs, pc' = "weigh"
    PROVE  WeighInv'
<1>1. /\ endpoints' = {t \in runq : Revdeps(t) = {}}
      /\ task_done' = endpoints'
      /\ deps_left' = [t \in Task |-> Cardinality(Revdeps(t))]
      /\ UNCHANGED <<runq, runq_depends>>
  BY DEF CheckPairs
<1>2. \A t : Revdeps(t)' = Revdeps(t)
  BY <1>1 DEF Revdeps
<1>3. Passed' = {}
  BY <1>1 DEF Passed
<1>4. deps_left' \in [Task -> Nat]
  BY <1>1, RevdepsFinite
<1>5. \A t \in Task : deps_left'[t] = Cardinality(Revdeps(t)' \ Passed')
  BY <1>1, <1>2, <1>3
<1>6. \A C \in SUBSET task_done' : C # {} => \E t \in C : Revdeps(t)' \cap C = {}
  BY <1>1, <1>2
<1> QED BY <1>1, <1>2, <1>3, <1>4, <1>5, <1>6 DEF WeighInv

LEMMA WeighWeigh ==
    ASSUME Types, WeighInv, Weigh
    PROVE  WeighInv'
<1> DEFINE by(t) == Revdeps(t) \cap endpoints
<1>1. /\ deps_left' = [t \in Task |-> deps_left[t] - Cardinality(by(t))]
      /\ endpoints' = {t \in runq : by(t) # {} /\ deps_left'[t] = 0}
      /\ task_done' = task_done \cup endpoints'
      /\ UNCHANGED <<runq, runq_depends>>
  BY DEF Weigh
<1>2. \A t : Revdeps(t)' = Revdeps(t)
  BY <1>1 DEF Revdeps
<1>3. endpoints' \cap task_done = {}
  BY <1>1 DEF WeighInv, Passed
<1>4. Passed' = task_done
  BY <1>1, <1>3 DEF Passed
<1>5. ASSUME NEW t \in Task
      PROVE  deps_left'[t] = Cardinality(Revdeps(t) \ task_done) /\ deps_left'[t] \in Nat
  <2>1. Passed \cap endpoints = {} /\ Passed \cup endpoints = task_done
    BY DEF WeighInv, Passed
  <2>2. Cardinality(Revdeps(t) \ task_done) = Cardinality(Revdeps(t) \ Passed) - Cardinality(by(t))
    BY <2>1, CountDown, RevdepsFinite
  <2>3. deps_left'[t] = Cardinality(Revdeps(t) \ task_done)
    BY <1>1, <2>2 DEF WeighInv
  <2>4. Cardinality(Revdeps(t) \ task_done) \in Nat
    BY RevdepsFinite, FS_Difference, FS_CardinalityType
  <2> QED BY <2>3, <2>4
<1>6. deps_left' \in [Task -> Nat]
  BY <1>1, <1>5
<1>7. \A t \in Task : deps_left'[t] = 0 <=> Revdeps(t) \subseteq task_done
  <2> SUFFICES ASSUME NEW t \in Task
               PROVE  deps_left'[t] = 0 <=> Revdeps(t) \subseteq task_done
    OBVIOUS
  <2>1. IsFiniteSet(Revdeps(t) \ task_done)
    BY RevdepsFinite, FS_Difference
  <2> QED BY <1>5, <2>1, FS_EmptySet
<1>8. endpoints' \subseteq task_done' /\ task_done' \subseteq runq'
  BY <1>1 DEF WeighInv
<1>9. \A t \in task_done' : Revdeps(t) \subseteq task_done
  BY <1>1, <1>7 DEF WeighInv, Passed, Types
<1>10. ASSUME NEW t \in runq, Revdeps(t) \subseteq task_done PROVE t \in task_done'
  BY <1>1, <1>7, <1>10 DEF WeighInv, Passed, Types
<1>11. ASSUME NEW C \in SUBSET task_done', C # {} PROVE \E t \in C : Revdeps(t) \cap C = {}
  <2>1. CASE C \cap task_done = {}
    BY <1>9, <1>11, <2>1
  <2>2. CASE C \cap task_done # {}
    <3>1. PICK t \in C \cap task_done : Revdeps(t) \cap (C \cap task_done) = {}
      BY <2>2 DEF WeighInv
    <3> QED BY <1>9, <3>1, <1>1
  <2> QED BY <2>1, <2>2
<1> HIDE DEF by
<1> QED BY <1>1, <1>2, <1>4, <1>5, <1>6, <1>8, <1>9, <1>10, <1>11 DEF WeighInv

-----------------------------------------------------------------------------
(* Loops. *)

\* What t needs, itself included if it is in a loop.
Needed(t) == Closure(runq_depends[t], runq_depends)

LEMMA NeededIs ==
    ASSUME Types, NEW t \in Task
    PROVE  /\ Needed(t) \subseteq Task
           /\ runq_depends[t] \subseteq Needed(t)
           /\ Closed(Needed(t), runq_depends)
           /\ \A C : runq_depends[t] \subseteq C /\ Closed(C, runq_depends) => Needed(t) \subseteq C
  <1>1. runq_depends[t] \in SUBSET Task /\ runq_depends \in [Task -> SUBSET Task]
    BY DEF Types
  <1> QED BY <1>1, ClosureOfTasks DEF Needed

\* Two tasks that need each other are a loop.
LEMMA PairCyclic ==
    ASSUME Types, NEW t \in runq, Revdeps(t) \cap runq_depends[t] # {}
    PROVE  Cyclic
  <1>1. PICK u \in runq : t \in runq_depends[u] /\ u \in runq_depends[t]
    BY DEF Revdeps
  <1>2. t \in Task
    BY DEF Types
  <1>3. u \in Needed(t)
    BY <1>1, <1>2, NeededIs
  <1>4. t \in Needed(t)
    BY <1>1, <1>2, <1>3, NeededIs DEF Closed
  <1> QED BY <1>4 DEF Cyclic, Needed

\* Among tasks each of which is needed by another of them, one is in a loop:
\* one that needs the most.
LEMMA UnweighedCyclic ==
    ASSUME Types, NEW U \in SUBSET runq, U # {}, \A t \in U : Revdeps(t) \cap U # {}
    PROVE  Cyclic
  <1> DEFINE size(t) == Cardinality(Needed(t))
             N == Cardinality(Task)
             room == {N - size(t) : t \in U}
  <1>1. IsFiniteSet(Task)
    BY PrepareAssumption, FS_Interval DEF Task
  <1>2. ASSUME NEW t \in U
        PROVE  t \in Task /\ IsFiniteSet(Needed(t)) /\ size(t) \in Nat /\ N \in Nat /\ size(t) <= N
    <2>1. t \in Task
      BY DEF Types
    <2> QED BY <1>1, <2>1, NeededIs, FS_Subset, FS_CardinalityType
  <1>3. PICK t \in U : \A u \in U : size(u) <= size(t)
    <2>1. room \in SUBSET Nat /\ room # {}
      BY <1>2
    <2>2. PICK m \in room : \A n \in room : ~(n < m)
      <3> HIDE DEF room
      <3> QED BY <2>1, Smallest
    <2>3. PICK t \in U : m = N - size(t)
      OBVIOUS
    <2>4. ASSUME NEW u \in U PROVE size(u) <= size(t)
      <3>1. ~(N - size(u) < N - size(t))
        BY <2>2, <2>3
      <3> HIDE DEF size, N
      <3> QED BY <1>2, <3>1
    <2> QED BY <2>4
  <1>4. PICK u \in U : t \in runq_depends[u]
    BY <1>3 DEF Revdeps
  <1>5. t \in Needed(u)
    BY <1>2, <1>4, NeededIs
  <1>6. Needed(t) \subseteq Needed(u)
    <2>1. runq_depends[t] \subseteq Needed(u) /\ Closed(Needed(u), runq_depends)
      BY <1>2, <1>5, NeededIs DEF Closed
    <2> QED BY <1>2, <2>1, NeededIs
  <1>7. Needed(t) = Needed(u)
    <2>1. size(t) <= size(u) /\ size(u) <= size(t) /\ size(t) \in Nat /\ size(u) \in Nat
      BY <1>2, <1>3, <1>6, FS_Subset
    <2>2. size(t) = size(u)
      BY <2>1
    <2> QED BY <1>2, <1>6, <2>2, FS_Subset
  <1>8. t \in Needed(t) /\ t \in runq
    BY <1>5, <1>7
  <1> QED BY <1>8 DEF Cyclic, Needed

\* Tasks that could all be weighed are in no loop.
LEMMA WeighedAcyclic ==
    ASSUME Types, WeighInv, Closed(runq, runq_depends), task_done = runq
    PROVE  ~Cyclic
  <1> SUFFICES ASSUME NEW t \in runq, t \in Needed(t) PROVE FALSE
    BY DEF Cyclic, Needed
  <1>0. t \in Task
    BY DEF Types
  <1>1. Needed(t) \subseteq runq
    BY <1>0, NeededIs DEF Closed
  <1>2. PICK m \in Needed(t) : Revdeps(m) \cap Needed(t) = {}
    BY <1>1 DEF WeighInv
  <1> DEFINE C == Needed(t) \ {m}
  <1>3. runq_depends[t] \subseteq C
    <2>1. m \notin runq_depends[t]
      BY <1>2 DEF Revdeps
    <2> QED BY <1>0, <2>1, NeededIs
  <1>4. Closed(C, runq_depends)
    <2> SUFFICES ASSUME NEW x \in C PROVE runq_depends[x] \subseteq C
      BY DEF Closed
    <2>1. runq_depends[x] \subseteq Needed(t)
      BY <1>0, NeededIs DEF Closed
    <2>2. m \notin runq_depends[x]
      BY <1>1, <1>2 DEF Revdeps
    <2> QED BY <2>1, <2>2
  <1>5. Needed(t) \subseteq C
    BY <1>0, <1>3, <1>4, NeededIs
  <1> QED BY <1>2, <1>5

LEMMA CyclicSame ==
    ASSUME UNCHANGED <<runq, runq_depends>>
    PROVE  Cyclic' = Cyclic
  BY DEF Cyclic, Closure

LEMMA LoopInit == Init => LoopInv
  BY DEF Init, LoopInv, LoopsFound

LEMMA LoopNext == ASSUME Types, LoopInv, [Next]_vars PROVE LoopInv'
<1>1. CASE Resolve
  BY <1>1 DEF Resolve, LoopInv, LoopsFound
<1>2. CASE MarkActive
  <2>1. Closed(runq', runq_depends')
    BY <1>2, MarkActiveQueue DEF MarkActive
  <2>2. pc' \in {"fatal", "check"} /\ (pc' = "fatal" => runq' = {})
    BY <1>2 DEF MarkActive
  <2> QED BY <2>1, <2>2 DEF LoopInv, LoopsFound
<1>3. CASE CheckPairs
  <2>1. UNCHANGED <<runq, runq_depends>> /\ pc = "check" /\ pc' \in {"fatal", "weigh"}
    BY <1>3 DEF CheckPairs
  <2>2. pc' = "fatal" => Cyclic
    BY <1>3, PairCyclic DEF CheckPairs
  <2>3. pc' = "weigh" => WeighInv'
    BY <1>3, CheckPairsWeigh
  <2> QED BY <2>1, <2>2, <2>3, CyclicSame DEF LoopInv, LoopsFound
<1>4. CASE Weigh
  <2>1. UNCHANGED <<runq, runq_depends, pc>> /\ pc = "weigh"
    BY <1>4 DEF Weigh
  <2>2. WeighInv'
    BY <1>4, <2>1, WeighWeigh DEF LoopInv
  <2> QED BY <2>1, <2>2 DEF LoopInv, LoopsFound
<1>5. CASE Weighed
  <2>1. UNCHANGED <<runq, runq_depends>> /\ pc = "weigh" /\ endpoints = {} /\ WeighInv
    BY <1>5 DEF Weighed, LoopInv
  <2>2. CASE \E t \in runq : t \notin task_done \/ deps_left[t] # 0
    <3>1. pc' = "fatal"
      BY <1>5, <2>2 DEF Weighed
    <3>2. Passed = task_done
      BY <2>1 DEF Passed
    <3>3. runq \ task_done # {}
      <4>1. PICK t \in runq : t \notin task_done \/ deps_left[t] # 0
        BY <2>2
      <4>2. SUFFICES ASSUME deps_left[t] # 0, t \in task_done PROVE FALSE
        BY <4>1
      <4>3. Revdeps(t) \ Passed = {}
        BY <2>1, <4>2 DEF WeighInv
      <4>4. deps_left[t] = 0
        BY <2>1, <4>3, FS_EmptySet DEF WeighInv, Types
      <4> QED BY <4>2, <4>4
    <3>4. \A t \in runq \ task_done : Revdeps(t) \cap (runq \ task_done) # {}
      BY <2>1, <3>2 DEF WeighInv, Revdeps
    <3>5. Cyclic
      BY <3>3, <3>4, UnweighedCyclic
    <3> QED BY <2>1, <3>1, <3>5, CyclicSame DEF LoopInv, LoopsFound
  <2>3. CASE ~\E t \in runq : t \notin task_done \/ deps_left[t] # 0
    <3>1. pc' = "execute"
      BY <1>5, <2>3 DEF Weighed
    <3>2. task_done = runq
      BY <2>1, <2>3 DEF WeighInv
    <3>3. ~Cyclic
      BY <2>1, <3>2, WeighedAcyclic DEF LoopInv
    <3> QED BY <2>1, <3>1, <3>3, CyclicSame DEF LoopInv, LoopsFound
  <2> QED BY <2>2, <2>3
<1>6. CASE Succeed \/ Raise \/ ResolveRaises
  <2>1. /\ UNCHANGED <<runq, runq_depends>>
        /\ \/ pc = "execute" /\ pc' = "done"
           \/ pc' = "failed"
    BY <1>6 DEF Succeed, Raise, ResolveRaises
  <2> QED BY <2>1, CyclicSame DEF LoopInv, LoopsFound
<1>7. CASE Retry
  <2>1. /\ pc = "execute"
        /\ \/ pc' = "failed" /\ UNCHANGED <<runq, runq_depends>>
           \/ pc' = "resolve"
    BY <1>7 DEF Retry, Reset
  <2> QED BY <2>1 DEF LoopInv, LoopsFound
<1>8. CASE UNCHANGED vars
  <2>1. UNCHANGED <<pc, runq, runq_depends, task_done, endpoints, deps_left>>
    BY <1>8 DEF vars, weights
  <2>2. WeighInv' = WeighInv
    BY <2>1 DEF WeighInv, Revdeps, Passed
  <2> QED BY <2>1, <2>2, CyclicSame DEF LoopInv, LoopsFound
<1> QED BY <1>1, <1>2, <1>3, <1>4, <1>5, <1>6, <1>7, <1>8 DEF Next, Step

LEMMA LoopInvHolds == Spec => [](Types /\ LoopInv)
<1>1. Init => Types /\ LoopInv
  BY TypesInit, LoopInit
<1>2. Types /\ LoopInv /\ [Next]_vars => (Types /\ LoopInv)'
  BY TypesNext, LoopNext
<1> QED
  BY <1>1, <1>2, PTL DEF Spec

\* A queue with a loop is given up by one of the two checks and never executed,
\* and a queue without one is never given up: whatever the metadata, the retries
\* and the order in which tasks are weighed.
THEOREM LoopsFoundHolds == Spec => []LoopsFound
<1>1. Types /\ LoopInv => LoopsFound
  BY DEF LoopInv
<1> QED
  BY <1>1, LoopInvHolds, PTL

\* No set of tasks of the queue is such that each depends on another of them.
Acyclic == \A S \in SUBSET runq : S # {} => \E t \in S : runq_depends[t] \cap S = {}

\* Among tasks each of which needs another of them, one that needs the fewest is
\* in a loop.
LEMMA NotCyclicAcyclic == ASSUME Types, ~Cyclic PROVE Acyclic
  <1> SUFFICES ASSUME NEW S \in SUBSET runq, S # {}, \A t \in S : runq_depends[t] \cap S # {}
               PROVE  FALSE
    BY DEF Acyclic
  <1> DEFINE size(t) == Cardinality(Needed(t))
             sizes == {size(t) : t \in S}
  <1>1. IsFiniteSet(Task)
    BY PrepareAssumption, FS_Interval DEF Task
  <1>2. ASSUME NEW t \in S
        PROVE  t \in Task /\ IsFiniteSet(Needed(t)) /\ size(t) \in Nat
    <2>1. t \in Task
      BY DEF Types
    <2> QED BY <1>1, <2>1, NeededIs, FS_Subset, FS_CardinalityType
  <1>3. PICK t \in S : \A u \in S : ~(size(u) < size(t))
    <2>1. sizes \in SUBSET Nat /\ sizes # {}
      BY <1>2
    <2>2. PICK m \in sizes : \A n \in sizes : ~(n < m)
      <3> HIDE DEF sizes
      <3> QED BY <2>1, Smallest
    <2>3. PICK t \in S : m = size(t)
      OBVIOUS
    <2> HIDE DEF size
    <2> QED BY <2>2, <2>3
  <1>4. PICK u \in S : u \in runq_depends[t]
    OBVIOUS
  <1>5. u \in Needed(t)
    BY <1>2, <1>4, NeededIs
  <1>6. Needed(u) \subseteq Needed(t)
    <2>1. runq_depends[u] \subseteq Needed(t) /\ Closed(Needed(t), runq_depends)
      BY <1>2, <1>5, NeededIs DEF Closed
    <2> QED BY <1>2, <2>1, NeededIs
  <1>7. Needed(u) = Needed(t)
    <2>1. size(u) <= size(t) /\ ~(size(u) < size(t)) /\ size(t) \in Nat /\ size(u) \in Nat
      BY <1>2, <1>3, <1>6, FS_Subset
    <2>2. size(u) = size(t)
      BY <2>1
    <2> QED BY <1>2, <1>6, <2>2, FS_Subset
  <1> QED BY <1>5, <1>7 DEF Cyclic, Needed

\* The queue that is executed holds all that its tasks depend on, and no loop:
\* what the executor takes for granted (AcyclicAssumption of RunQueue).
THEOREM ExecutorGetsAcyclic ==
    Spec => [](pc \in {"execute", "done"} => Closed(runq, runq_depends) /\ Acyclic)
<1>1. Types /\ LoopInv => (pc \in {"execute", "done"} => Closed(runq, runq_depends) /\ Acyclic)
  BY NotCyclicAcyclic DEF LoopInv, LoopsFound
<1> QED
  BY <1>1, LoopInvHolds, PTL

-----------------------------------------------------------------------------
(* Sums over sets. *)

\* h sums g over the subsets of S of at most n elements.
IsTotal(h, n, g, S) ==
    \A s \in SUBSET S : Cardinality(s) <= n =>
        h[s] = IF s = {} THEN 0
               ELSE g[CHOOSE x \in s : TRUE] + h[s \ {CHOOSE x \in s : TRUE}]

LEMMA Smaller ==
    ASSUME NEW s, IsFiniteSet(s), s # {}
    PROVE  LET x == CHOOSE x \in s : TRUE IN
           /\ x \in s /\ IsFiniteSet(s \ {x}) /\ Cardinality(s) \in Nat
           /\ Cardinality(s \ {x}) = Cardinality(s) - 1
           /\ Cardinality(s) >= 1
  <1> DEFINE x == CHOOSE x \in s : TRUE
  <1>1. x \in s
    OBVIOUS
  <1> HIDE DEF x
  <1>2. IsFiniteSet(s \ {x}) /\ Cardinality(s \ {x}) = Cardinality(s) - 1
    BY <1>1, FS_RemoveElement
  <1>3. Cardinality(s) \in Nat /\ Cardinality(s \ {x}) \in Nat
    BY <1>2, FS_CardinalityType
  <1>4. Cardinality(s) # 0
    BY FS_EmptySet
  <1> QED BY <1>1, <1>2, <1>3, <1>4 DEF x

LEMMA TotalExists ==
    ASSUME NEW S, IsFiniteSet(S), NEW g, NEW N \in Nat
    PROVE  \E h : IsTotal(h, N, g, S)
  <1> DEFINE P == {n \in Nat : \E h : IsTotal(h, n, g, S)}
  <1>1. 0 \in P
    <2> DEFINE h == [s \in SUBSET S |-> 0]
    <2>1. ASSUME NEW s \in SUBSET S, Cardinality(s) <= 0 PROVE s = {}
      <3>1. IsFiniteSet(s) /\ Cardinality(s) \in Nat
        BY FS_Subset, FS_CardinalityType
      <3> QED BY <2>1, <3>1, FS_EmptySet
    <2>2. IsTotal(h, 0, g, S)
      BY <2>1 DEF IsTotal
    <2> QED BY <2>2
  <1>2. ASSUME NEW n \in 0 .. N - 1, n \in P PROVE n + 1 \in P
    <2>1. PICK h : IsTotal(h, n, g, S)
      BY <1>2
    <2> DEFINE some(s) == CHOOSE x \in s : TRUE
               k == [s \in SUBSET S |->
                        IF Cardinality(s) <= n THEN h[s] ELSE g[some(s)] + h[s \ {some(s)}]]
    <2>2. ASSUME NEW s \in SUBSET S, Cardinality(s) <= n + 1
          PROVE  k[s] = IF s = {} THEN 0 ELSE g[some(s)] + k[s \ {some(s)}]
      <3>1. IsFiniteSet(s) /\ Cardinality(s) \in Nat
        BY FS_Subset, FS_CardinalityType
      <3>2. CASE s = {}
        <4>1. Cardinality(s) = 0
          BY <3>2, FS_EmptySet
        <4>2. k[s] = h[s] /\ h[s] = 0
          BY <2>1, <3>2, <4>1 DEF IsTotal
        <4> QED BY <3>2, <4>2
      <3>3. CASE s # {}
        <4>1. Cardinality(s \ {some(s)}) <= n /\ s \ {some(s)} \in SUBSET S
          <5>1. Cardinality(s \ {some(s)}) = Cardinality(s) - 1
            BY <3>1, <3>3, Smaller
          <5> QED BY <2>2, <3>1, <5>1
        <4>2. k[s \ {some(s)}] = h[s \ {some(s)}]
          BY <4>1
        <4>3. k[s] = g[some(s)] + h[s \ {some(s)}]
          BY <2>1, <3>3 DEF IsTotal
        <4> QED BY <3>3, <4>2, <4>3
      <3> QED BY <3>2, <3>3
    <2>3. IsTotal(k, n + 1, g, S)
      BY <2>2 DEF IsTotal
    <2> QED BY <2>3
  <1> HIDE DEF P
  <1>3. 0 .. N \subseteq P
    BY <1>1, <1>2, Counting
  <1>4. N \in P
    BY <1>3
  <1> QED BY <1>4 DEF P

\* Total in terms of one function.
LEMMA TotalFunction ==
    ASSUME NEW S, IsFiniteSet(S), NEW g
    PROVE  \E h : Total(g, S) = h[S] /\ \A n \in Nat : IsTotal(h, n, g, S)
  <1> DEFINE step(h) == [s \in SUBSET S |->
                            IF s = {} THEN 0
                            ELSE g[CHOOSE x \in s : TRUE] + h[s \ {CHOOSE x \in s : TRUE}]]
             iter == CHOOSE h : h = step(h)
  <1>1. Cardinality(S) \in Nat
    BY FS_CardinalityType
  <1>2. PICK k : IsTotal(k, Cardinality(S), g, S)
    BY <1>1, TotalExists
  <1> DEFINE h == [s \in SUBSET S |-> k[s]]
  <1>3. ASSUME NEW s \in SUBSET S PROVE h[s] = step(h)[s]
    <2>1. Cardinality(s) <= Cardinality(S)
      BY FS_Subset
    <2>2. s \ {CHOOSE x \in s : TRUE} \in SUBSET S
      OBVIOUS
    <2> QED BY <1>2, <2>1, <2>2 DEF IsTotal
  <1>4. h = step(h)
    BY <1>3
  <1>5. iter = step(iter)
    BY <1>4
  <1>6. Total(g, S) = iter[S]
    BY DEF Total, MapThenSumSet, MapThenFoldSet
  <1> HIDE DEF iter, h
  <1>7. \A n \in Nat : IsTotal(iter, n, g, S)
    BY <1>5 DEF IsTotal
  <1> QED BY <1>6, <1>7

\* The sum over a set is what any of its elements adds to the rest.
LEMMA TotalStep ==
    ASSUME NEW S, IsFiniteSet(S), NEW g, \A x \in S : g[x] \in Nat
    PROVE  /\ Total(g, S) \in Nat
           /\ S = {} => Total(g, S) = 0
           /\ \A x \in S : Total(g, S) = g[x] + Total(g, S \ {x})
  <1> DEFINE P == {n \in Nat : \A s \in SUBSET S : Cardinality(s) <= n =>
                                  /\ Total(g, s) \in Nat
                                  /\ \A x \in s : Total(g, s) = g[x] + Total(g, s \ {x})}
             some(s) == CHOOSE x \in s : TRUE
  <1>0. ASSUME NEW s \in SUBSET S
        PROVE  IsFiniteSet(s) /\ Cardinality(s) \in Nat
    BY FS_Subset, FS_CardinalityType
  <1>1. ASSUME NEW s \in SUBSET S PROVE s = {} => Total(g, s) = 0
    <2>1. PICK h : Total(g, s) = h[s] /\ \A n \in Nat : IsTotal(h, n, g, s)
      BY <1>0, TotalFunction
    <2> QED BY <1>0, <2>1 DEF IsTotal
  <1>2. ASSUME NEW s \in SUBSET S, s # {}
        PROVE  Total(g, s) = g[some(s)] + Total(g, s \ {some(s)})
    <2> DEFINE r == s \ {some(s)}
    <2>1. some(s) \in s /\ r \in SUBSET s /\ r \in SUBSET S
      BY <1>2
    <2>2. PICK h : Total(g, s) = h[s] /\ \A n \in Nat : IsTotal(h, n, g, s)
      BY <1>0, TotalFunction
    <2>3. PICK k : Total(g, r) = k[r] /\ \A n \in Nat : IsTotal(k, n, g, r)
      BY <1>0, <2>1, TotalFunction
    <2> DEFINE Q == {n \in Nat : \A u \in SUBSET r : Cardinality(u) <= n => h[u] = k[u]}
    <2>4. 0 \in Q
      <3> SUFFICES ASSUME NEW u \in SUBSET r, Cardinality(u) <= 0 PROVE h[u] = k[u]
        OBVIOUS
      <3>1. u = {} /\ u \in SUBSET s
        BY <1>0, <2>1, FS_EmptySet
      <3> QED BY <2>2, <2>3, <3>1 DEF IsTotal
    <2>5. ASSUME NEW n \in 0 .. Cardinality(r) - 1, n \in Q PROVE n + 1 \in Q
      <3> SUFFICES ASSUME NEW u \in SUBSET r, Cardinality(u) <= n + 1 PROVE h[u] = k[u]
        OBVIOUS
      <3>1. u \in SUBSET s /\ u \in SUBSET S
        BY <2>1
      <3>2. /\ h[u] = IF u = {} THEN 0 ELSE g[some(u)] + h[u \ {some(u)}]
            /\ k[u] = IF u = {} THEN 0 ELSE g[some(u)] + k[u \ {some(u)}]
        <4>1. n + 1 \in Nat
          BY <2>5
        <4> QED BY <2>2, <2>3, <3>1, <4>1 DEF IsTotal
      <3>3. u # {} => h[u \ {some(u)}] = k[u \ {some(u)}]
        <4>1. SUFFICES ASSUME u # {} PROVE h[u \ {some(u)}] = k[u \ {some(u)}]
          OBVIOUS
        <4>2. Cardinality(u \ {some(u)}) = Cardinality(u) - 1 /\ Cardinality(u) \in Nat
          BY <1>0, <3>1, <4>1, Smaller
        <4>3. Cardinality(u \ {some(u)}) <= n /\ u \ {some(u)} \in SUBSET r
          BY <4>2
        <4> QED BY <2>5, <4>3
      <3> QED BY <3>2, <3>3
    <2>6. h[r] = k[r]
      <3>1. Cardinality(r) \in Nat
        BY <1>0, <2>1
      <3>2. 0 .. Cardinality(r) \subseteq Q
        <4> HIDE DEF Q, r
        <4> QED BY <2>4, <2>5, <3>1, Counting
      <3>3. Cardinality(r) \in Q
        <4> HIDE DEF Q, r
        <4> QED BY <3>1, <3>2
      <3> HIDE DEF r
      <3> QED BY <3>1, <3>3
    <2>7. h[s] = g[some(s)] + h[r]
      <3>1. Cardinality(s) \in Nat /\ s \in SUBSET s
        BY <1>0
      <3> QED BY <1>2, <2>2, <3>1 DEF IsTotal
    <2> QED BY <2>2, <2>3, <2>6, <2>7
  <1>3. 0 \in P
    <2> SUFFICES ASSUME NEW s \in SUBSET S, Cardinality(s) <= 0
                 PROVE  Total(g, s) \in Nat /\ s = {}
      OBVIOUS
    <2>1. s = {}
      BY <1>0, FS_EmptySet
    <2> QED BY <1>1, <2>1
  <1>4. ASSUME NEW n \in 0 .. Cardinality(S) - 1, n \in P PROVE n + 1 \in P
    <2> SUFFICES ASSUME NEW s \in SUBSET S, Cardinality(s) <= n + 1
                 PROVE  /\ Total(g, s) \in Nat
                        /\ \A x \in s : Total(g, s) = g[x] + Total(g, s \ {x})
      OBVIOUS
    <2>1. CASE s = {}
      BY <1>1, <2>1
    <2>2. CASE s # {}
      <3> DEFINE y == some(s)
      <3>1. y \in s /\ Total(g, s) = g[y] + Total(g, s \ {y})
        BY <1>2, <2>2
      <3> HIDE DEF y
      <3>2. ASSUME NEW x \in s
            PROVE  /\ Cardinality(s \ {x}) <= n /\ s \ {x} \in SUBSET S
                   /\ Total(g, s \ {x}) \in Nat
                   /\ \A z \in s \ {x} : Total(g, s \ {x}) = g[z] + Total(g, (s \ {x}) \ {z})
        <4>1. Cardinality(s \ {x}) = Cardinality(s) - 1 /\ Cardinality(s) \in Nat
          BY <1>0, FS_RemoveElement
        <4>2. Cardinality(s \ {x}) <= n /\ s \ {x} \in SUBSET S
          BY <4>1
        <4> QED BY <1>4, <4>2
      <3>3. Total(g, s) \in Nat
        <4>1. g[y] \in Nat /\ Total(g, s \ {y}) \in Nat
          BY <3>1, <3>2
        <4> QED BY <3>1, <4>1
      <3>4. ASSUME NEW x \in s, x # y PROVE Total(g, s) = g[x] + Total(g, s \ {x})
        <4>1. /\ Total(g, s \ {y}) = g[x] + Total(g, (s \ {y}) \ {x})
              /\ Total(g, s \ {x}) = g[y] + Total(g, (s \ {x}) \ {y})
              /\ Total(g, s \ {y}) \in Nat /\ Total(g, s \ {x}) \in Nat
          BY <3>1, <3>2, <3>4
        <4>2. (s \ {y}) \ {x} = (s \ {x}) \ {y}
          OBVIOUS
        <4> DEFINE rest == Total(g, (s \ {x}) \ {y})
        <4>3. Total(g, s) = g[y] + (g[x] + rest) /\ Total(g, s \ {x}) = g[y] + rest
          BY <3>1, <4>1, <4>2
        <4>4. g[x] \in Nat /\ g[y] \in Nat
          BY <3>1
        <4>5. rest \in Nat
          <5>1. (s \ {x}) \ {y} \in SUBSET S
            OBVIOUS
          <5>2. Cardinality((s \ {x}) \ {y}) <= n
            <6>1. IsFiniteSet(s \ {x}) /\ (s \ {x}) \ {y} \in SUBSET (s \ {x})
              BY <1>0, <3>2
            <6>2. Cardinality((s \ {x}) \ {y}) <= Cardinality(s \ {x})
              BY <6>1, FS_Subset
            <6>3. Cardinality((s \ {x}) \ {y}) \in Nat /\ Cardinality(s \ {x}) \in Nat
              BY <1>0, <3>2, <5>1
            <6>4. n \in Nat /\ Cardinality(s \ {x}) <= n
              BY <1>4, <3>2
            <6> QED BY <6>2, <6>3, <6>4
          <5> QED BY <1>4, <5>1, <5>2
        <4> HIDE DEF rest
        <4> QED BY <4>3, <4>4, <4>5
      <3> QED BY <3>1, <3>3, <3>4
    <2> QED BY <2>1, <2>2
  <1>5. Cardinality(S) \in P
    <2>1. Cardinality(S) \in Nat
      BY <1>0
    <2> HIDE DEF P
    <2>2. 0 .. Cardinality(S) \subseteq P
      BY <1>3, <1>4, <2>1, Counting
    <2> QED BY <2>1, <2>2
  <1> HIDE DEF some
  <1> QED BY <1>0, <1>1, <1>5

\* The sum over two sets apart, of values that stayed as they were.
LEMMA TotalJoin ==
    ASSUME NEW S, IsFiniteSet(S), NEW g, NEW h, \A x \in S : g[x] \in Nat /\ h[x] = g[x],
           NEW A \in SUBSET S, NEW B \in SUBSET S, A \cap B = {}
    PROVE  Total(h, A \cup B) = Total(g, A) + Total(g, B)
  <1> DEFINE P == {n \in Nat : \A X, Y \in SUBSET S : X \cap Y = {} /\ Cardinality(X \cup Y) <= n =>
                                  Total(h, X \cup Y) = Total(g, X) + Total(g, Y)}
  <1>1. ASSUME NEW X \in SUBSET S
        PROVE  /\ IsFiniteSet(X) /\ Cardinality(X) \in Nat
               /\ Total(g, X) \in Nat /\ Total(h, X) \in Nat
               /\ X = {} => Total(g, X) = 0 /\ Total(h, X) = 0
               /\ \A x \in X : Total(g, X) = g[x] + Total(g, X \ {x})
               /\ \A x \in X : Total(h, X) = g[x] + Total(h, X \ {x})
    <2>1. IsFiniteSet(X) /\ Cardinality(X) \in Nat
      BY FS_Subset, FS_CardinalityType
    <2>2. \A x \in X : g[x] \in Nat /\ h[x] \in Nat /\ h[x] = g[x]
      OBVIOUS
    <2> QED BY <2>1, <2>2, TotalStep
  <1>2. 0 \in P
    <2> SUFFICES ASSUME NEW X \in SUBSET S, NEW Y \in SUBSET S, Cardinality(X \cup Y) <= 0
                 PROVE  Total(h, X \cup Y) = Total(g, X) + Total(g, Y)
      OBVIOUS
    <2>1. X \cup Y \in SUBSET S
      OBVIOUS
    <2>2. X \cup Y = {}
      BY <1>1, <2>1, FS_EmptySet
    <2>3. X = {} /\ Y = {}
      BY <2>2
    <2>4. Total(h, X \cup Y) = 0 /\ Total(g, X) = 0 /\ Total(g, Y) = 0
      BY <1>1, <2>1, <2>2, <2>3
    <2> QED BY <2>4
  <1>3. ASSUME NEW n \in 0 .. Cardinality(S) - 1, n \in P PROVE n + 1 \in P
    <2> SUFFICES ASSUME NEW X \in SUBSET S, NEW Y \in SUBSET S, X \cap Y = {},
                        Cardinality(X \cup Y) <= n + 1
                 PROVE  Total(h, X \cup Y) = Total(g, X) + Total(g, Y)
      BY <1>3
    <2>1. X \cup Y \in SUBSET S
      OBVIOUS
    <2>2. CASE X \cup Y = {}
      <3>1. X = {} /\ Y = {}
        BY <2>2
      <3>2. Total(h, X \cup Y) = 0 /\ Total(g, X) = 0 /\ Total(g, Y) = 0
        BY <1>1, <2>1, <2>2, <3>1
      <3> QED BY <3>2
    <2>3. ASSUME NEW x \in X \cup Y
          PROVE  Cardinality((X \cup Y) \ {x}) <= n
      <3>1. /\ Cardinality((X \cup Y) \ {x}) = Cardinality(X \cup Y) - 1
            /\ Cardinality(X \cup Y) \in Nat
        BY <1>1, <2>1, FS_RemoveElement
      <3> QED BY <1>3, <3>1
    <2>4. ASSUME NEW x \in X PROVE Total(h, X \cup Y) = Total(g, X) + Total(g, Y)
      <3>1. (X \cup Y) \ {x} = (X \ {x}) \cup Y /\ X \ {x} \in SUBSET S /\ (X \ {x}) \cap Y = {}
        OBVIOUS
      <3>2. Total(h, (X \cup Y) \ {x}) = Total(g, X \ {x}) + Total(g, Y)
        BY <1>3, <2>3, <3>1
      <3>3. /\ Total(h, X \cup Y) = g[x] + Total(h, (X \cup Y) \ {x})
            /\ Total(g, X) = g[x] + Total(g, X \ {x})
            /\ g[x] \in Nat /\ Total(g, X \ {x}) \in Nat /\ Total(g, Y) \in Nat
        BY <1>1, <2>1, <3>1
      <3> QED BY <3>2, <3>3
    <2>5. ASSUME NEW x \in Y PROVE Total(h, X \cup Y) = Total(g, X) + Total(g, Y)
      <3>1. (X \cup Y) \ {x} = X \cup (Y \ {x}) /\ Y \ {x} \in SUBSET S /\ X \cap (Y \ {x}) = {}
        BY <2>5
      <3>2. Total(h, (X \cup Y) \ {x}) = Total(g, X) + Total(g, Y \ {x})
        BY <1>3, <2>3, <3>1
      <3>3. /\ Total(h, X \cup Y) = g[x] + Total(h, (X \cup Y) \ {x})
            /\ Total(g, Y) = g[x] + Total(g, Y \ {x})
            /\ g[x] \in Nat /\ Total(g, X) \in Nat /\ Total(g, Y \ {x}) \in Nat
        BY <1>1, <2>1, <3>1
      <3> QED BY <3>2, <3>3
    <2> QED BY <2>2, <2>4, <2>5
  <1>4. Cardinality(S) \in P
    <2>1. Cardinality(S) \in Nat
      BY <1>1
    <2> HIDE DEF P
    <2>2. 0 .. Cardinality(S) \subseteq P
      BY <1>2, <1>3, <2>1, Counting
    <2> QED BY <2>1, <2>2
  <1>5. A \cup B \in SUBSET S /\ Cardinality(A \cup B) <= Cardinality(S)
    BY FS_Subset
  <1> QED BY <1>4, <1>5

-----------------------------------------------------------------------------
(* Weights. *)

\* What has been passed on to a task is in its weight.
WeightInv ==
    /\ runq_weight \in [Task -> Nat]
    /\ pc = "weigh" =>
           \A t \in runq : runq_weight[t] = (IF Revdeps(t) = {} THEN 1 ELSE 0)
                                            + Total(runq_weight, Revdeps(t) \cap Passed)
    /\ WeighsChains

LEMMA WeightInit == Init => WeightInv
  BY DEF Init, WeightInv, WeighsChains

LEMMA TotalWeight ==
    ASSUME Types, runq_weight \in [Task -> Nat], NEW S \in SUBSET Task
    PROVE  /\ IsFiniteSet(S)
           /\ Total(runq_weight, S) \in Nat
           /\ S = {} => Total(runq_weight, S) = 0
  <1>1. IsFiniteSet(Task)
    BY PrepareAssumption, FS_Interval DEF Task
  <1>2. IsFiniteSet(S)
    BY <1>1, FS_Subset
  <1>3. \A x \in S : runq_weight[x] \in Nat
    OBVIOUS
  <1> QED BY <1>2, <1>3, TotalStep

LEMMA WeighWeights ==
    ASSUME Types, WeighInv, WeightInv, Weigh
    PROVE  WeightInv'
<1> DEFINE by(t) == Revdeps(t) \cap endpoints
<1>0. runq_weight \in [Task -> Nat] /\ runq \subseteq Task
  BY DEF WeightInv, Types
<1>1. /\ endpoints' = {t \in runq : by(t) # {} /\ deps_left'[t] = 0}
      /\ task_done' = task_done \cup endpoints'
      /\ UNCHANGED <<runq, runq_depends, pc>> /\ pc = "weigh"
  BY DEF Weigh
<1>2. runq_weight' = [t \in Task |-> runq_weight[t] + Total(runq_weight, by(t))]
  BY DEF Weigh
<1>3. \A t : Revdeps(t)' = Revdeps(t) /\ Revdeps(t) \subseteq Task
  BY <1>0, <1>1 DEF Revdeps
<1>4. Passed' = task_done
  BY <1>1 DEF WeighInv, Passed
<1>5. ASSUME NEW t \in Task
      PROVE  by(t) \in SUBSET Task /\ Total(runq_weight, by(t)) \in Nat
  <2>1. by(t) \in SUBSET Task
    BY <1>3
  <2> HIDE DEF by
  <2> QED BY <1>0, <2>1, TotalWeight
<1>6. runq_weight' \in [Task -> Nat]
  BY <1>0, <1>2, <1>5
<1>7. ASSUME NEW t \in task_done PROVE runq_weight'[t] = runq_weight[t]
  <2>1. by(t) = {} /\ t \in Task
    BY <1>0 DEF WeighInv, Passed
  <2>2. Total(runq_weight, by(t)) = 0
    BY <1>0, <1>5, <2>1, TotalWeight
  <2> QED BY <1>0, <1>2, <2>1, <2>2
<1>8. ASSUME NEW t \in runq
      PROVE  runq_weight'[t] = (IF Revdeps(t) = {} THEN 1 ELSE 0)
                               + Total(runq_weight', Revdeps(t) \cap task_done)
  <2> DEFINE S == Revdeps(t) \cap task_done
             old == Revdeps(t) \cap Passed
  <2>1. S = old \cup by(t) /\ old \cap by(t) = {} /\ S \in SUBSET Task /\ old \in SUBSET S
        /\ by(t) \in SUBSET S /\ t \in Task
    BY <1>0, <1>3 DEF WeighInv, Passed
  <2>2. IsFiniteSet(S)
    BY <1>0, <2>1, TotalWeight
  <2>3. \A x \in S : runq_weight[x] \in Nat /\ runq_weight'[x] = runq_weight[x]
    BY <1>0, <1>3, <1>7
  <2>4. Total(runq_weight', S) = Total(runq_weight, old) + Total(runq_weight, by(t))
    <3> HIDE DEF S, old, by
    <3> QED BY <2>1, <2>2, <2>3, TotalJoin
  <2>5. runq_weight[t] = (IF Revdeps(t) = {} THEN 1 ELSE 0) + Total(runq_weight, old)
    BY <1>1 DEF WeightInv
  <2>6. runq_weight'[t] = runq_weight[t] + Total(runq_weight, by(t))
    BY <1>2, <2>1
  <2>7. Total(runq_weight, old) \in Nat /\ Total(runq_weight, by(t)) \in Nat
    <3>1. old \in SUBSET Task
      BY <2>1
    <3> HIDE DEF old, by
    <3> QED BY <1>0, <1>5, <2>1, <3>1, TotalWeight
  <2> HIDE DEF S, old, by
  <2>8. runq_weight'[t] = (IF Revdeps(t) = {} THEN 1 ELSE 0) + Total(runq_weight', S)
    BY <2>4, <2>5, <2>6, <2>7
  <2> QED BY <2>8 DEF S
<1> QED BY <1>1, <1>3, <1>4, <1>6, <1>8 DEF WeightInv, WeighsChains

LEMMA WeightNext == ASSUME Types, LoopInv, WeightInv, [Next]_vars PROVE WeightInv'
<1>1. CASE Resolve \/ MarkActive
  BY <1>1 DEF Resolve, MarkActive, WeightInv, WeighsChains, weights
<1>2. CASE CheckPairs
  <2>1. CASE pc' = "fatal"
    BY <1>2, <2>1 DEF CheckPairs, WeightInv, WeighsChains, weights
  <2>2. CASE pc' # "fatal"
    <3>1. /\ pc' = "weigh"
          /\ endpoints' = {t \in runq : Revdeps(t) = {}}
          /\ task_done' = endpoints'
          /\ runq_weight' = [t \in Task |-> IF t \in endpoints' THEN 1 ELSE 0]
          /\ UNCHANGED <<runq, runq_depends>>
      BY <1>2, <2>2 DEF CheckPairs
    <3>2. \A t : Revdeps(t)' = Revdeps(t)
      BY <3>1 DEF Revdeps
    <3>3. runq_weight' \in [Task -> Nat]
      BY <3>1
    <3>4. Passed' = {}
      BY <3>1 DEF Passed
    <3>5. Types' /\ {} \in SUBSET Task
      BY TypesNext
    <3>6. Total(runq_weight', {}) = 0
      <4>1. IsFiniteSet({})
        BY FS_EmptySet
      <4> QED BY <4>1, TotalStep
    <3>7. \A t \in runq : Revdeps(t)' \cap Passed' = {}
      BY <3>4
    <3>8. \A t \in runq : runq_weight'[t] = IF Revdeps(t) = {} THEN 1 ELSE 0
      BY <3>1 DEF Types
    <3>9. ASSUME NEW t \in runq
          PROVE  runq_weight'[t] = (IF Revdeps(t)' = {} THEN 1 ELSE 0)
                                   + Total(runq_weight', Revdeps(t)' \cap Passed')
      <4>1. Total(runq_weight', Revdeps(t)' \cap Passed') = 0
        BY <3>6, <3>7
      <4> QED BY <3>2, <3>8, <4>1
    <3> QED BY <3>1, <3>3, <3>9 DEF WeightInv, WeighsChains
  <2> QED BY <2>1, <2>2
<1>3. CASE Weigh
  BY <1>3, WeighWeights DEF Weigh, LoopInv
<1>4. CASE Weighed
  <2>1. /\ pc = "weigh" /\ endpoints = {} /\ pc' \in {"fatal", "execute"}
        /\ UNCHANGED <<runq, runq_depends, weights>>
    BY <1>4 DEF Weighed
  <2>2. ASSUME pc' = "execute", NEW t \in runq
        PROVE  runq_weight[t] = IF Revdeps(t) = {} THEN 1 ELSE Total(runq_weight, Revdeps(t))
    <3>1. task_done = runq
      BY <1>4, <2>2 DEF Weighed, LoopInv, WeighInv
    <3>2. Revdeps(t) \cap Passed = Revdeps(t) /\ Revdeps(t) \in SUBSET Task
      BY <2>1, <3>1 DEF Passed, Revdeps, Types
    <3>3. Total(runq_weight, Revdeps(t)) \in Nat /\ (Revdeps(t) = {} => Total(runq_weight, Revdeps(t)) = 0)
      BY <3>2, TotalWeight DEF WeightInv
    <3>4. runq_weight[t] = (IF Revdeps(t) = {} THEN 1 ELSE 0) + Total(runq_weight, Revdeps(t))
      BY <2>1, <3>2 DEF WeightInv
    <3> QED BY <3>3, <3>4
  <2>3. /\ runq_weight' = runq_weight
        /\ \A t : Revdeps(t)' = Revdeps(t)
    BY <2>1 DEF weights, Revdeps
  <2>4. pc' = "execute" =>
            \A t \in runq' : runq_weight'[t] = IF Revdeps(t)' = {} THEN 1
                                               ELSE Total(runq_weight', Revdeps(t)')
    BY <2>1, <2>2, <2>3
  <2>5. WeighsChains'
    BY <2>4 DEF WeighsChains
  <2> QED BY <2>1, <2>3, <2>5 DEF WeightInv
<1>5. CASE Succeed \/ Raise \/ ResolveRaises
  BY <1>5 DEF Succeed, Raise, ResolveRaises, WeightInv, WeighsChains, weights
<1>6. CASE Retry
  <2>1. /\ pc' \in {"failed", "resolve"}
        /\ \/ UNCHANGED runq_weight
           \/ runq_weight' = [t \in Task |-> 0]
    BY <1>6 DEF Retry, Reset, weights
  <2> QED BY <2>1 DEF WeightInv, WeighsChains
<1>7. CASE UNCHANGED vars
  <2>1. /\ pc' = pc /\ runq' = runq /\ runq_weight' = runq_weight
        /\ \A t : Revdeps(t)' = Revdeps(t)
        /\ Passed' = Passed
    BY <1>7 DEF vars, weights, Revdeps, Passed
  <2>2. pc = "execute" =>
            \A t \in runq : runq_weight[t] = IF Revdeps(t) = {} THEN 1
                                             ELSE Total(runq_weight, Revdeps(t))
    BY DEF WeightInv, WeighsChains
  <2>3. pc' = "execute" =>
            \A t \in runq' : runq_weight'[t] = IF Revdeps(t)' = {} THEN 1
                                               ELSE Total(runq_weight', Revdeps(t)')
    BY <2>1, <2>2
  <2>4. WeighsChains'
    BY <2>3 DEF WeighsChains
  <2>5. pc' = "weigh" =>
           \A t \in runq' : runq_weight'[t] = (IF Revdeps(t)' = {} THEN 1 ELSE 0)
                                              + Total(runq_weight', Revdeps(t)' \cap Passed')
    BY <2>1 DEF WeightInv
  <2> QED BY <2>1, <2>4, <2>5 DEF WeightInv
<1> QED BY <1>1, <1>2, <1>3, <1>4, <1>5, <1>6, <1>7 DEF Next, Step

\* In a queue that is executed every task weighs as much as the tasks that need
\* it together, an end as one: calculate_task_weights passes every weight on
\* once, after it is complete.
THEOREM WeighsChainsHolds == Spec => []WeighsChains
<1>1. Init => WeightInv
  BY WeightInit
<1>2. Types /\ LoopInv /\ WeightInv /\ [Next]_vars => WeightInv'
  BY WeightNext
<1>3. WeightInv => WeighsChains
  BY DEF WeightInv
<1> QED
  BY <1>1, <1>2, <1>3, LoopInvHolds, PTL DEF Spec

-----------------------------------------------------------------------------
(* [recrdeptask] *)

\* Step A has been at t.
SeenTo(t) == pc # "failed" /\ (pc = "resolve" => t < task)

\* What get_recursive_tdepends returns for a task holds its recipe's tasks, and
\* every task that was seen to has what the recipes it requires add to it.
RecursiveInv ==
    /\ \A t \in Task : recursive_tdepends[t] # NotYet =>
           TaskIds(tasks_fnid[t]) \subseteq recursive_tdepends[t]
    /\ \A t \in Task : SeenTo(t) /\ tasks_fnid[t] \notin failed_fnids =>
           \A n \in recrdeptask[t] : \A g \in Required(tasks_fnid[t], n) :
               TaskId(g, n) \subseteq runq_depends[t] \cup {t}

LEMMA TdependsHoldsTasks ==
    ASSUME Types, RecursiveInv, NEW t \in Task
    PROVE  TaskIds(tasks_fnid[t]) \subseteq RecursiveTdepends(t)
  <1>1. [tasks_tdepends EXCEPT ![task] = Direct] \in [Task -> SUBSET Task]
    BY DirectType DEF Types
  <1>2. TaskIds(tasks_fnid[t]) \in SUBSET Task
    BY TaskIdsType DEF File
  <1>3. TaskIds(tasks_fnid[t])
            \subseteq Closure(TaskIds(tasks_fnid[t]), [tasks_tdepends EXCEPT ![task] = Direct])
    BY <1>1, <1>2, ClosureOfTasks
  <1> QED BY <1>3 DEF RecursiveTdepends, RecursiveInv

LEMMA FileFinite == IsFiniteSet(File)
  <1> DEFINE fnid == [t \in Task |-> tasks_fnid[t]]
  <1>1. IsFiniteSet(Task)
    BY PrepareAssumption, FS_Interval DEF Task
  <1>2. fnid \in Surjection(Task, File)
    BY DEF Surjection, File
  <1> QED BY <1>1, <1>2, FS_Surjection

\* The walk of add_recursive_build and add_recursive_run comes to every recipe
\* that is required.
LEMMA WalkComplete ==
    ASSUME Types, RecursiveInv, NEW f \in File, NEW n \in TaskName
    PROVE  Required(f, n) \subseteq RecursiveFiles(f, n)
  <1> DEFINE walk == RecursiveFiles(f, n)
             few(g) == IF TaskId(g, n) \subseteq {0} THEN {} ELSE TaskIds(g)
             asks(g) == depids[g] \cup {i[1] : i \in UNION {tasks_idepends[u] : u \in few(g)}}
             first == UNION {Chosen(m) : m \in asks(f)}
             succ == [g \in File |-> UNION {Chosen(m) : m \in asks(g)}]
  <1>1. PICK N \in SUBSET Name :
             /\ walk = UNION {Chosen(m) : m \in N}
             /\ \A g \in {f} \cup walk :
                   depids[g] \cup RecursiveIdepends(TaskId(g, n)) \subseteq N
    BY RecursiveFilesIs
  <1>2. walk \subseteq File
    BY RecursiveFilesIs
  <1>3. ASSUME NEW g \in File PROVE asks(g) \subseteq depids[g] \cup RecursiveIdepends(TaskId(g, n))
    <2> SUFFICES ASSUME NEW u \in few(g), NEW i \in tasks_idepends[u]
                 PROVE  i[1] \in RecursiveIdepends(TaskId(g, n))
      OBVIOUS
    <2>1. u \in TaskIds(g) /\ ~(TaskId(g, n) \subseteq {0})
      OBVIOUS
    <2>2. PICK t \in TaskId(g, n) \ {0} : TRUE
      BY <2>1
    <2>3. t \in Task /\ tasks_fnid[t] = g
      BY <2>2 DEF TaskId, tasks_lookup
    <2>4. u \in RecursiveTdepends(t)
      BY <2>1, <2>3, TdependsHoldsTasks
    <2> QED BY <2>2, <2>4 DEF RecursiveIdepends
  <1>4. asks(f) \subseteq N /\ \A g \in walk : asks(g) \subseteq N
    <2> HIDE DEF asks, walk
    <2> QED BY <1>1, <1>2, <1>3
  <1>5. first \subseteq walk /\ \A g \in walk : succ[g] \subseteq walk
    <2>1. \A m \in N : Chosen(m) \subseteq walk
      BY <1>1
    <2> HIDE DEF asks, walk
    <2> QED BY <1>2, <1>4, <2>1
  <1>6. succ \in [File -> SUBSET File] /\ first \in SUBSET File
    <2>1. ASSUME NEW g \in File PROVE asks(g) \subseteq Name
      <3>1. TaskId(g, n) \in SUBSET Task
        BY TaskIdType
      <3>2. RecursiveIdepends(TaskId(g, n)) \subseteq Name /\ depids[g] \subseteq Name
        BY <3>1, RecursiveIdependsType, PrepareAssumption
      <3> HIDE DEF asks
      <3> QED BY <1>3, <3>2
    <2> HIDE DEF asks
    <2> QED BY <2>1, ChosenType
  <1>7. Required(f, n) = Closure(first, succ)
    BY DEF Required
  <1>8. Closed(walk, succ) /\ first \subseteq walk
    BY <1>5 DEF Closed
  <1> HIDE DEF first, succ, walk
  <1>9. Closure(first, succ) \subseteq walk
    BY FileFinite, <1>6, <1>8, ClosureIs
  <1> QED BY <1>7, <1>9 DEF walk

LEMMA RecursiveInit == Init => RecursiveInv
  BY PrepareAssumption DEF Init, RecursiveInv, SeenTo, Task

LEMMA RequiredSame ==
    ASSUME UNCHANGED <<tasks_idepends, failed_fnids>>, NEW f, NEW n
    PROVE  Required(f, n)' = Required(f, n)
  BY DEF Required, Closure, Chosen, build_targets

LEMMA ResolveRecursive == ASSUME Types, RecursiveInv, Resolve PROVE RecursiveInv'
<1> DEFINE f == tasks_fnid[task]
<1>0. /\ pc = "resolve" /\ task \in Task /\ f \in File
      /\ runq_depends' = [runq_depends EXCEPT ![task] = depends']
      /\ UNCHANGED <<tasks_idepends, failed_fnids>>
      /\ \A t \in Task : SeenTo(t)' => t = task \/ SeenTo(t)
  <2>1. pc = "resolve" /\ task \in Task /\ f \in File
    BY DEF Resolve, Types, File
  <2>2. ASSUME NEW t \in Task, SeenTo(t)' PROVE t = task \/ SeenTo(t)
    <3>1. NumTasks \in Nat /\ t \in 0 .. NumTasks - 1 /\ task \in 0 .. NumTasks - 1
      BY <2>1, PrepareAssumption DEF Task
    <3>2. CASE task + 1 < NumTasks
      <4>1. task' = task + 1 /\ pc' = pc
        BY <3>2 DEF Resolve
      <4> QED BY <2>1, <2>2, <3>1, <4>1 DEF SeenTo
    <3>3. CASE ~(task + 1 < NumTasks)
      BY <2>1, <3>1, <3>3 DEF SeenTo
    <3> QED BY <3>2, <3>3
  <2> QED BY <2>1, <2>2 DEF Resolve
<1>1. ASSUME NEW t \in Task, recursive_tdepends'[t] # NotYet
      PROVE  TaskIds(tasks_fnid[t]) \subseteq recursive_tdepends'[t]
  <2>1. CASE f \in failed_fnids
    BY <1>1, <2>1 DEF Resolve, RecursiveInv
  <2>2. CASE f \notin failed_fnids
    <3>1. PICK looked : recursive_tdepends' =
                            [u \in Task |-> IF u \in looked THEN RecursiveTdepends(u)
                                            ELSE recursive_tdepends[u]]
      BY <2>2 DEF Resolve
    <3>2. recursive_tdepends'[t] = IF t \in looked THEN RecursiveTdepends(t)
                                   ELSE recursive_tdepends[t]
      BY <3>1
    <3>3. CASE t \in looked
      BY <3>2, <3>3, TdependsHoldsTasks
    <3>4. CASE t \notin looked
      BY <1>1, <3>2, <3>4 DEF RecursiveInv
    <3> QED BY <3>3, <3>4
  <2> QED BY <2>1, <2>2
<1>2. ASSUME NEW t \in Task, SeenTo(t)', tasks_fnid[t] \notin failed_fnids,
             NEW n \in recrdeptask[t], NEW g \in Required(tasks_fnid[t], n)
      PROVE  TaskId(g, n) \subseteq runq_depends'[t] \cup {t}
  <2>1. CASE t = task
    <3>1. runq_depends'[t] = (Direct \cup Recursive(f)) \ {t}
      BY <1>0, <1>2, <2>1 DEF Resolve, Types
    <3>2. n \in TaskName
      BY PrepareAssumption
    <3>3. g \in RecursiveFiles(f, n)
      BY <1>0, <1>2, <2>1, <3>2, WalkComplete
    <3>4. TaskId(g, n) \subseteq Recursive(f)
      BY <2>1, <3>3 DEF Recursive
    <3> QED BY <3>1, <3>4
  <2>2. CASE t # task
    <3>1. SeenTo(t) /\ runq_depends'[t] = runq_depends[t]
      BY <1>0, <1>2, <2>2 DEF Types
    <3> QED BY <1>2, <3>1 DEF RecursiveInv
  <2> QED BY <2>1, <2>2
<1>3. ASSUME NEW t \in Task, NEW n \in recrdeptask[t]
      PROVE  Required(tasks_fnid[t], n)' = Required(tasks_fnid[t], n)
  BY <1>0, RequiredSame
<1>4. ASSUME NEW t \in Task, SeenTo(t)', tasks_fnid[t] \notin failed_fnids',
             NEW n \in recrdeptask[t], NEW g \in Required(tasks_fnid[t], n)'
      PROVE  TaskId(g, n) \subseteq runq_depends'[t] \cup {t}
  BY <1>0, <1>2, <1>3, <1>4
<1> QED BY <1>1, <1>4 DEF RecursiveInv

LEMMA RecursiveNext == ASSUME Types, RecursiveInv, [Next]_vars PROVE RecursiveInv'
<1>1. CASE Resolve
  BY <1>1, ResolveRecursive
<1>2. CASE MarkActive \/ CheckPairs \/ Weigh \/ Weighed \/ Succeed \/ Raise \/ ResolveRaises \/ UNCHANGED vars
  <2>1. /\ UNCHANGED <<tasks_idepends, failed_fnids, recursive_tdepends, runq_depends>>
        /\ \A t : SeenTo(t)' => SeenTo(t)
    BY <1>2 DEF MarkActive, CheckPairs, Weigh, Weighed, Succeed, Raise, ResolveRaises, vars, taskData, SeenTo
  <2>2. \A t \in Task : \A n \in recrdeptask[t] :
            Required(tasks_fnid[t], n)' = Required(tasks_fnid[t], n)
    BY <2>1, RequiredSame
  <2>3. ASSUME NEW t \in Task, SeenTo(t)', tasks_fnid[t] \notin failed_fnids',
               NEW n \in recrdeptask[t], NEW g \in Required(tasks_fnid[t], n)'
        PROVE  TaskId(g, n) \subseteq runq_depends'[t] \cup {t}
    BY <2>1, <2>2, <2>3 DEF RecursiveInv
  <2>4. \A t \in Task : recursive_tdepends'[t] # NotYet =>
            TaskIds(tasks_fnid[t]) \subseteq recursive_tdepends'[t]
    BY <2>1 DEF RecursiveInv
  <2> QED BY <2>3, <2>4 DEF RecursiveInv
<1>3. CASE Retry
  <2>1. \/ pc' = "failed" /\ UNCHANGED recursive_tdepends
        \/ pc' = "resolve" /\ task' = 0 /\ recursive_tdepends' = [t \in Task |-> NotYet]
    BY <1>3 DEF Retry, Reset
  <2>2. \A t \in Task : ~SeenTo(t)'
    BY <2>1, PrepareAssumption DEF SeenTo, Task
  <2> QED BY <2>1, <2>2 DEF RecursiveInv, TaskIds, tasks_lookup
<1> QED BY <1>1, <1>2, <1>3 DEF Next, Step

\* A task with [recrdeptask] waits for its namesakes of every recipe required,
\* directly or on the way, for any metadata and also after retries: neither the
\* cache of get_recursive_tdepends, filled while tasks are still to be seen to,
\* nor its blind spot for task number 0 loses more than the model says.
THEOREM RecursiveCompleteHolds == Spec => []RecursiveComplete
<1>1. Types /\ RecursiveInv => RecursiveComplete
  BY DEF Types, RecursiveInv, RecursiveComplete, SeenTo
<1>2. Types /\ RecursiveInv /\ [Next]_vars => RecursiveInv'
  BY RecursiveNext
<1> QED
  BY <1>1, <1>2, RecursiveInit, LoopInvHolds, PTL DEF Spec

-----------------------------------------------------------------------------
(* Types. *)

\* g holds the first m values of the iteration of step from S.
IsIteration(g, m, S, step) ==
    \A n \in 0 .. m : g[n] = IF n = 0 THEN S ELSE step[g[n - 1]]

LEMMA IterationExists ==
    ASSUME NEW D, NEW S \in D, NEW step \in [D -> D], NEW N \in Nat
    PROVE  \E g : g \in [0 .. N -> D] /\ IsIteration(g, N, S, step)
  <1> DEFINE P == {m \in Nat : \E g : g \in [0 .. m -> D] /\ IsIteration(g, m, S, step)}
  <1>1. 0 \in P
    <2> DEFINE g == [n \in 0 .. 0 |-> S]
    <2>1. g \in [0 .. 0 -> D] /\ IsIteration(g, 0, S, step)
      BY DEF IsIteration
    <2> QED BY <2>1
  <1>2. ASSUME NEW m \in 0 .. N - 1, m \in P PROVE m + 1 \in P
    <2>1. PICK g : g \in [0 .. m -> D] /\ IsIteration(g, m, S, step)
      BY <1>2
    <2> DEFINE h == [n \in 0 .. m + 1 |-> IF n = m + 1 THEN step[g[m]] ELSE g[n]]
    <2>2. h \in [0 .. m + 1 -> D]
      BY <2>1
    <2>3. ASSUME NEW n \in 0 .. m + 1
          PROVE  h[n] = IF n = 0 THEN S ELSE step[h[n - 1]]
      <3>1. CASE n = m + 1
        <4>1. h[n] = step[g[m]] /\ h[n - 1] = g[m] /\ n # 0
          BY <3>1
        <4> QED BY <4>1
      <3>2. CASE n \in 0 .. m
        <4>1. g[n] = IF n = 0 THEN S ELSE step[g[n - 1]]
          BY <2>1, <3>2 DEF IsIteration
        <4>2. h[n] = g[n] /\ (n # 0 => h[n - 1] = g[n - 1])
          BY <3>2
        <4> QED BY <4>1, <4>2
      <3> QED BY <3>1, <3>2
    <2>4. IsIteration(h, m + 1, S, step)
      BY <2>3 DEF IsIteration
    <2> QED BY <2>2, <2>4
  <1> HIDE DEF P
  <1>3. 0 .. N \subseteq P
    BY <1>1, <1>2, Counting
  <1>4. N \in P
    BY <1>3
  <1> QED BY <1>4 DEF P

LEMMA GivenUpType == ASSUME NEW files \in SUBSET File PROVE GivenUp(files) \subseteq File
  <1> DEFINE needs(f) == depids[f] \cup {i[1] : i \in UNION {tasks_idepends[t] : t \in {u \in Task : tasks_fnid[u] = f}}}
             gone(fs) == {n \in Name : Providers[n] # <<>> /\ ToSet(Providers[n]) \subseteq fs}
             more(fs) == fs \cup {f \in File : needs(f) \cap gone(fs) # {}}
             step == [fs \in SUBSET File |-> more(fs)]
             N == Cardinality(File)
             table(g) == [n \in 0 .. N |-> IF n = 0 THEN files ELSE more(g[n - 1])]
             given == CHOOSE g : g = table(g)
  <1>1. N \in Nat
    BY FileFinite, FS_CardinalityType
  <1>2. step \in [SUBSET File -> SUBSET File] /\ \A fs \in SUBSET File : step[fs] = more(fs)
    OBVIOUS
  <1> HIDE DEF more, step
  <1>3. PICK g : g \in [0 .. N -> SUBSET File] /\ IsIteration(g, N, files, step)
    BY <1>1, <1>2, IterationExists
  <1>4. g = table(g)
    <2>1. ASSUME NEW n \in 0 .. N PROVE g[n] = IF n = 0 THEN files ELSE more(g[n - 1])
      <3>1. n # 0 => g[n - 1] \in SUBSET File
        BY <1>1, <1>3
      <3> QED BY <1>2, <1>3, <3>1 DEF IsIteration
    <2> QED BY <1>3, <2>1
  <1>5. given = table(given)
    BY <1>4
  <1>6. GivenUp(files) = given[N]
    BY DEF GivenUp, more
  <1> HIDE DEF given
  <1> DEFINE P == {n \in Nat : given[n] \subseteq File}
  <1>7. 0 \in P
    BY <1>1, <1>5
  <1>8. ASSUME NEW n \in 0 .. N - 1, n \in P PROVE n + 1 \in P
    <2>1. n + 1 \in 0 .. N /\ n + 1 # 0 /\ (n + 1) - 1 = n /\ n + 1 \in Nat
      BY <1>1
    <2>2. given[n + 1] = more(given[n])
      BY <1>5, <2>1
    <2>3. given[n] \in SUBSET File
      BY <1>8
    <2> QED BY <1>2, <2>1, <2>2, <2>3
  <1>9. N \in P
    <2> HIDE DEF P, N
    <2>1. 0 .. N \subseteq P
      BY <1>1, <1>7, <1>8, Counting
    <2> QED BY <1>1, <2>1
  <1> QED BY <1>6, <1>9

\* Nothing is weighed before the queue is there.
CleanInv ==
    /\ failed_fnids \subseteq File
    /\ deps_left \in [Task -> Nat]
    /\ task_done \subseteq runq /\ endpoints \subseteq runq
    /\ pc \in {"resolve", "mark", "check"} => task_done = {} /\ endpoints = {}

LEMMA CleanNext == ASSUME Types, LoopInv, CleanInv, [Next]_vars PROVE CleanInv'
<1>1. CASE Resolve \/ MarkActive
  BY <1>1 DEF Resolve, MarkActive, CleanInv, weights, taskData
<1>2. CASE CheckPairs
  <2>1. pc' = "weigh" => WeighInv'
    BY <1>2, CheckPairsWeigh
  <2>2. /\ UNCHANGED <<failed_fnids, runq>>
        /\ \/ pc' = "weigh"
           \/ pc' = "fatal" /\ UNCHANGED weights
    BY <1>2 DEF CheckPairs, taskData
  <2> QED BY <2>1, <2>2 DEF CleanInv, WeighInv, weights
<1>3. CASE Weigh
  <2>1. WeighInv' /\ UNCHANGED <<failed_fnids, runq, pc>> /\ pc = "weigh"
    BY <1>3, WeighWeigh DEF Weigh, LoopInv, taskData
  <2> QED BY <2>1 DEF CleanInv, WeighInv
<1>4. CASE Weighed \/ Succeed \/ Raise \/ ResolveRaises \/ UNCHANGED vars
  BY <1>4 DEF Weighed, Succeed, Raise, ResolveRaises, vars, CleanInv, weights, taskData
<1>5. CASE Retry
  <2>1. PICK ts \in SUBSET MayFail :
            failed_fnids' = failed_fnids \cup GivenUp(failed_fnids \cup {tasks_fnid[t] : t \in ts})
    BY <1>5 DEF Retry, Failures
  <2>2. failed_fnids' \subseteq File
    <3>1. failed_fnids \cup {tasks_fnid[t] : t \in ts} \in SUBSET File
      BY <2>1 DEF CleanInv, MayFail, Types, File
    <3> QED BY <2>1, <3>1, GivenUpType DEF CleanInv
  <2>3. \/ pc' = "failed" /\ UNCHANGED <<runq, weights>>
        \/ runq' = {} /\ deps_left' = [t \in Task |-> 0] /\ task_done' = {} /\ endpoints' = {}
    BY <1>5 DEF Retry, Reset
  <2> QED BY <2>2, <2>3 DEF CleanInv, weights
<1> QED BY <1>1, <1>2, <1>3, <1>4, <1>5 DEF Next, Step

\* The tables of prepare_runqueue hold tasks and numbers that count.
THEOREM TypeCorrect == Spec => []TypeOK
<1>1. Init => CleanInv
  BY DEF Init, CleanInv
<1>2. Types /\ LoopInv /\ CleanInv /\ [Next]_vars => CleanInv'
  BY CleanNext
<1>3. Types /\ WeightInv /\ CleanInv => TypeOK
  BY DEF Types, WeightInv, CleanInv, TypeOK
<1> QED
  BY <1>1, <1>2, <1>3, WeightInit, WeightNext, LoopInvHolds, PTL DEF Spec
=============================================================================
