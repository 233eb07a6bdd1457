-------------------------- MODULE DependencyOrder ---------------------------
(***************************************************************************)
(* What executing a queue of tasks promises, without processes, slots or   *)
(* stamps: a task begins once, after everything it depends on is done, and *)
(* the queue is only left when nothing more can begin, unless it is cut    *)
(* short by a failure or by the user.                                      *)
(***************************************************************************)
CONSTANTS Task, Depends

VARIABLES
    mode,       \* "closed", "open" or "draining"
    queue,      \* the tasks to execute
    begun,      \* tasks begun or found to need no work
    active,     \* tasks being executed
    done,       \* tasks that need nothing more
    cut         \* the queue is left before its end

vars == <<mode, queue, begun, active, done, cut>>

Ready(t) == t \in queue \ begun /\ Depends[t] \subseteq done

Init ==
    /\ mode = "closed" /\ cut = FALSE
    /\ queue = {} /\ begun = {} /\ active = {} /\ done = {}

\* A queue holds the dependencies of its tasks.
Open(Q) ==
    /\ mode = "closed"
    /\ \A t \in Q : Depends[t] \subseteq Q
    /\ mode' = "open" /\ queue' = Q
    /\ begun' = {} /\ active' = {} /\ done' = {} /\ cut' = FALSE

Skip(t) ==
    /\ mode = "open" /\ Ready(t)
    /\ begun' = begun \cup {t} /\ done' = done \cup {t}
    /\ UNCHANGED <<mode, queue, active, cut>>

Begin(t) ==
    /\ mode = "open" /\ Ready(t)
    /\ begun' = begun \cup {t} /\ active' = active \cup {t}
    /\ UNCHANGED <<mode, queue, done, cut>>

Complete(t) ==
    /\ mode = "open" /\ t \in active
    /\ active' = active \ {t} /\ done' = done \cup {t}
    /\ UNCHANGED <<mode, queue, begun, cut>>

\* A failed task is not done; the failure may cut the queue short.
Fail(t) ==
    /\ mode = "open" /\ t \in active
    /\ active' = active \ {t}
    /\ \/ UNCHANGED <<mode, cut>>
       \/ mode' = "draining" /\ cut' = TRUE
    /\ UNCHANGED <<queue, begun, done>>

Cut ==
    /\ mode = "open"
    /\ mode' = "draining" /\ cut' = TRUE
    /\ UNCHANGED <<queue, begun, active, done>>

End ==
    /\ mode = "open"
    /\ active = {}
    /\ \A t \in Task : ~Ready(t)
    /\ mode' = "draining"
    /\ UNCHANGED <<queue, begun, active, done, cut>>

Drain(t) ==
    /\ mode = "draining" /\ t \in active
    /\ active' = active \ {t}
    /\ UNCHANGED <<mode, queue, begun, done, cut>>

\* Tasks may be left behind only when the queue was cut short.
Close ==
    /\ mode = "draining"
    /\ active = {} \/ cut
    /\ mode' = "closed" /\ active' = {} /\ cut' = FALSE
    /\ UNCHANGED <<queue, begun, done>>

Next ==
    \/ \E Q \in SUBSET Task : Open(Q)
    \/ \E t \in Task : Skip(t) \/ Begin(t) \/ Complete(t) \/ Fail(t) \/ Drain(t)
    \/ Cut \/ End \/ Close

Spec == Init /\ [][Next]_vars
=============================================================================
