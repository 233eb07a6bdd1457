----------------------------- MODULE Scheduler -----------------------------
(***************************************************************************)
(* The priority maps of RunQueueSchedulerSpeed and                         *)
(* RunQueueSchedulerCompletion in bb/runqueue.py, made from the weights    *)
(* that Prepare ends with.  next() goes through a map from the front and   *)
(* takes the first task that is buildable and not running: a task that is  *)
(* not in it never runs.                                                   *)
(***************************************************************************)
EXTENDS Integers, Prepare

\* What is left after step C, in the order it had.
listed == SelectSeq([i \in 1 .. NumTasks |-> i - 1], LAMBDA t : t \in runq)

\* The next place goes to the first task of this weight that has none yet.
Place(s, weight) ==
    LET idx == SelectInSeq(s.copyweight, LAMBDA w : w = weight) IN
    [prio_map |-> Append(s.prio_map, idx),
     copyweight |-> [s.copyweight EXCEPT ![idx] = -1]]

\* Mutant: the lightest first.
SpeedReversed ==
    LET tasks == listed
        weight == [i \in DOMAIN tasks |-> runq_weight[tasks[i]]]
        places == FoldLeft(Place, [prio_map |-> <<>>, copyweight |-> weight], SortSeq(weight, <))
    IN  [i \in DOMAIN tasks |-> tasks[places.prio_map[i]]]

\* RunQueueSchedulerSpeed
Speed ==
    LET tasks == listed
        weight == [i \in DOMAIN tasks |-> runq_weight[tasks[i]]]
        places == FoldLeft(Place, [prio_map |-> <<>>, copyweight |-> weight], SortSeq(weight, <))
    IN  Reverse([i \in DOMAIN tasks |-> tasks[places.prio_map[i]]])

\* Mutant: the front ones are deleted first and the others move up.
GroupFromFront(s) ==
    LET entry == Head(s.basemap)
        rest == Tail(s.basemap)
        same == SelectSeq(rest, LAMBDA t : tasks_fnid[t] = tasks_fnid[entry])
        todel == [i \in DOMAIN same |-> SelectInSeq(rest, LAMBDA t : t = same[i])]
    IN  [basemap |-> FoldLeft(RemoveAt, rest, todel),
         prio_map |-> s.prio_map \o <<entry>> \o same]

\* The first entry left and, after it, the others of its recipe, which are
\* deleted by index, the last one first.
Group(s) ==
    LET entry == Head(s.basemap)
        rest == Tail(s.basemap)
        same == SelectSeq(rest, LAMBDA t : tasks_fnid[t] = tasks_fnid[entry])
        todel == [i \in DOMAIN same |-> SelectInSeq(rest, LAMBDA t : t = same[i])]
    IN  [basemap |-> FoldLeft(RemoveAt, rest, Reverse(todel)),
         prio_map |-> s.prio_map \o <<entry>> \o same]

\* RunQueueSchedulerCompletion.  Every round takes an entry or more, so there
\* are no more rounds than entries.
Completion ==
    LET basemap == Speed IN
    FoldLeft(LAMBDA s, t : IF s.basemap = <<>> THEN s ELSE Group(s),
             [basemap |-> basemap, prio_map |-> <<>>], basemap).prio_map

-----------------------------------------------------------------------------
\* Both maps, of which one is made by finding equal weights one after the other
\* and one by deleting entries by index, have every task of the queue once: a
\* task that is left out is never started, and nothing reports it.
EachTaskOnce ==
    pc = "execute" =>
        \A prio_map \in {Speed, Completion} :
            Len(prio_map) = Cardinality(runq) /\ ToSet(prio_map) = runq

\* By the second map a recipe is completed once it is begun: nothing is between
\* two of its tasks.  The heavier task comes first among the tasks of a recipe,
\* and the recipe with the heavier first task among recipes.
RecipesTogether ==
    pc = "execute" =>
        LET prio_map == Completion
            fnid(i) == tasks_fnid[prio_map[i]]
            weight(i) == runq_weight[prio_map[i]]
            begins(i) == \A j \in 1 .. i - 1 : fnid(j) # fnid(i) IN
        \A i, j \in DOMAIN prio_map : i < j =>
            /\ fnid(i) = fnid(j) => weight(i) >= weight(j) /\ \A k \in i .. j : fnid(k) = fnid(i)
            /\ begins(i) /\ begins(j) => weight(i) >= weight(j)
=============================================================================
