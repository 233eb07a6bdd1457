------------------------------ MODULE TaskData ------------------------------
(***************************************************************************)
(* bb/taskdata.py: from the targets on the command line to the recipe      *)
(* files that will be built.  Every name that turns up as a dependency is  *)
(* resolved to its providers, and what cannot be built is taken out again, *)
(* with everything that needs it.                                          *)
(*                                                                         *)
(* Build and runtime names go through the same code twice; RunTarget tells *)
(* them apart where the code does.  A provider list is the one             *)
(* bb.providers.filterProviders returns.                                   *)
(*                                                                         *)
(* fail_fnid and remove_buildtarget call each other; an exception can end  *)
(* all of these calls at once.  The call stack is a variable, and a step   *)
(* is one round of the loop of the innermost call.                         *)
(***************************************************************************)
EXTENDS Naturals, Sequences, FiniteSets, SequencesExt

CONSTANTS
    Fn,             \* recipe files
    Target,         \* build and runtime names
    RunTarget,      \* the runtime names
    Ignored,        \* ignored_dependencies: ASSUME_PROVIDED
    DataCaches,     \* the metadata to resolve: records of providers, deps and idepends
    CommandLine     \* the targets asked for, in order

ASSUME TargetAssumption ==
    /\ IsFiniteSet(Fn)
    /\ RunTarget \subseteq Target /\ Ignored \subseteq Target
    /\ CommandLine \in Seq(Target \ RunTarget) /\ CommandLine # <<>>
    /\ \A d \in DataCaches :
          /\ d.providers \in [Target -> Seq(Fn)]
          /\ d.deps \in [Fn -> Seq(Target)] /\ d.idepends \in [Fn -> Seq(Target \ RunTarget)]

VARIABLES
    dataCache,      \* [providers: Target -> Seq(Fn), deps, idepends: Fn -> Seq(Target)]
    abort,          \* FALSE under -k
    td,             \* the TaskData object
    pc,             \* where the caller is: a member of Places
    asked,          \* how many targets of the command line have been looked at
    todo,           \* names still to be looked at in this pass of add_unresolved
    item,           \* the name that is being resolved
    files,          \* files its loop has still to come to: eligible, or failed_fnids
    added,          \* whether this pass has resolved something
    calls           \* fail_fnid and remove_*target under way, the innermost first

vars == <<dataCache, abort, td, pc, asked, todo, item, files, added, calls>>

Places ==
    {"targets", "add_provider",                 \* the loop of buildTargets
     "build", "run", "try", "except", "done",   \* add_unresolved
     "retrying", "retried",                     \* execute_runqueue
     "raised"}                                  \* nobody has caught NoProvider

Providers(t) == dataCache.providers[t]
Deps(f) == ToSet(dataCache.deps[f])
Idepends(f) == ToSet(dataCache.idepends[f])

(***************************************************************************)
(* The TaskData object.  "names" are the indices of build and run names in *)
(* order of creation, "known" the files add_tasks has seen, in order, and  *)
(* "have" the names build_targets and run_targets have an entry for.       *)
(***************************************************************************)
EmptyTaskData ==
    [names |-> <<>>, known |-> <<>>, have |-> {}, providers |-> [t \in Target |-> <<>>],
     external |-> {}, failed_deps |-> {}, failed_fnids |-> {}]

AddNames(names, new) ==
    LET with[n \in 0 .. Len(new)] ==
            IF n = 0
            THEN names
            ELSE LET before == with[n - 1]
                 IN  IF Contains(before, new[n]) THEN before ELSE Append(before, new[n])
    IN  with[Len(new)]

\* The element of S that comes first in the sequence.
FirstOf(seq, S) ==
    seq[CHOOSE i \in DOMAIN seq : seq[i] \in S /\ \A j \in DOMAIN seq : seq[j] \in S => i <= j]

\* list.remove
Without(list, f) == RemoveAt(list, CHOOSE i \in DOMAIN list : list[i] = f)

-----------------------------------------------------------------------------
(* The two calls, up to their loops *)

Call(proc, arg) == [proc |-> proc, arg |-> arg]

FailFnid(s, f) ==
    /\ td' = [s EXCEPT !.failed_fnids = @ \cup {f}]
    /\ calls' = <<Call("fail_fnid", f)>> \o calls

RemoveTarget(s, t, outer) ==
    /\ td' = [s EXCEPT !.failed_deps = @ \cup {t}]
    /\ calls' = <<Call("remove_target", t)>> \o outer

Return == calls' = Tail(calls) /\ UNCHANGED <<td, pc, files>>

\* NoProvider unwinds the stack.  add_unresolved catches it while it resolves a
\* build name, whoever raised it, unless that name is itself one of the command
\* line; add_provider does not catch it without -k, and the loop over the
\* runtime names only NoRProvider.
Raise ==
    /\ files' = <<>>
    /\ IF pc = "try" /\ item \notin RunTarget /\ item \notin td.external
       THEN RemoveTarget(td, item, <<>>) /\ pc' = "except"
       ELSE pc' = "raised" /\ calls' = <<>> /\ UNCHANGED td

\* Mutant: a name is given up with the first of its providers.
RemoveProviderEager(f, t) ==
    RemoveTarget([td EXCEPT !.providers[t] = Without(@, f)], t, calls)

\* Mutant: the removal stops at the name.
RemoveProviderOnly(f, t) ==
    LET rest == [td EXCEPT !.providers[t] = Without(@, f)]
    IN  /\ td' = IF rest.providers[t] = <<>> THEN [rest EXCEPT !.failed_deps = @ \cup {t}] ELSE rest
        /\ UNCHANGED calls

RemoveProvider(f, t) ==
    LET rest == [td EXCEPT !.providers[t] = Without(@, f)]
    IN  IF rest.providers[t] = <<>>
        THEN RemoveTarget(rest, t, calls)
        ELSE td' = rest /\ UNCHANGED calls

-----------------------------------------------------------------------------
(* A round of the innermost loop *)

Listing(f) == {t \in ToSet(td.names) : Contains(td.providers[t], f)}

\* fail_fnid goes through build_targets, then run_targets.  A file that was
\* taken from a list does not come back into it, so the next list it is in is
\* the next of the walk.
FailRound ==
    /\ calls # <<>> /\ Head(calls).proc = "fail_fnid"
    /\ LET f == Head(calls).arg
           build == Listing(f) \ RunTarget
       IN  \/ /\ Listing(f) # {}
              /\ RemoveProvider(f, FirstOf(td.names, IF build # {} THEN build ELSE Listing(f)))
              /\ UNCHANGED <<pc, files>>
           \/ Listing(f) = {} /\ Return
    /\ UNCHANGED <<dataCache, abort, asked, todo, item, added>>

\* remove_buildtarget and remove_runtarget fail the files that need the name,
\* then those with a task that does; fail_fnid returns at once for a file that
\* has failed already.
RemoveRound ==
    /\ calls # <<>> /\ Head(calls).proc = "remove_target"
    /\ LET t == Head(calls).arg
           left == ToSet(td.known) \ td.failed_fnids
           dependees == {f \in left : t \in Deps(f)}
           idependees == {f \in left : t \notin RunTarget /\ t \in Idepends(f)}
       IN  \/ /\ dependees \cup idependees # {}
              /\ FailFnid(td, FirstOf(td.known, IF dependees # {} THEN dependees ELSE idependees))
              /\ UNCHANGED <<pc, files>>
           \/ dependees \cup idependees = {} /\ ~(abort /\ t \in td.external) /\ Return
           \/ dependees \cup idependees = {} /\ abort /\ t \in td.external /\ Raise
    /\ UNCHANGED <<dataCache, abort, asked, todo, item, added>>

-----------------------------------------------------------------------------
(* Resolving a name *)

\* "for p in eligible: if failed: eligible.remove(p)": removing an element
\* while iterating makes the loop pass over the next one.
DropFailed(eligible, failed) ==
    LET loop[n \in 0 .. Len(eligible)] ==
            IF n = 0
            THEN [left |-> <<>>, over |-> FALSE]
            ELSE LET before == loop[n - 1]
                 IN  IF ~before.over /\ eligible[n] \in failed
                     THEN [before EXCEPT !.over = TRUE]
                     ELSE [left |-> Append(before.left, eligible[n]), over |-> FALSE]
    IN  loop[Len(eligible)].left

Eligible(t) == DropFailed(Providers(t), td.failed_fnids)

\* Where add_provider_internal and add_rprovider return early, and where they
\* raise NoProvider and NoRProvider.
Skipped(t) == t \in Ignored \/ t \in td.have
NothingEligible(t) == ~Skipped(t) /\ Eligible(t) = <<>>

\* The state in which the loop over the eligible providers starts.
AddProviders(t) ==
    /\ ~NothingEligible(t)
    /\ files' = IF Skipped(t) THEN <<>> ELSE Eligible(t)
    /\ UNCHANGED calls

\* Mutant: without the look at failed_deps and failed_rdeps.
AddTasksUnchecked(s, f) ==
    /\ td' = IF Contains(s.known, f) THEN s
             ELSE [s EXCEPT !.known = Append(@, f),
                            !.names = AddNames(@, dataCache.idepends[f] \o dataCache.deps[f])]
    /\ UNCHANGED calls

\* add_tasks: the names the file needs are created; if one of them is known
\* to be unbuildable, so is the file.
AddTasks(s, f) ==
    LET with == [s EXCEPT !.known = Append(@, f),
                          !.names = AddNames(@, dataCache.idepends[f] \o dataCache.deps[f])]
    IN  \/ Contains(s.known, f) /\ td' = s /\ UNCHANGED calls
        \/ ~Contains(s.known, f) /\ Deps(f) \cap s.failed_deps = {} /\ td' = with /\ UNCHANGED calls
        \/ ~Contains(s.known, f) /\ Deps(f) \cap s.failed_deps # {} /\ FailFnid(with, f)

\* A round of the loop over the eligible providers.
AddEligible ==
    /\ pc \in {"add_provider", "try"} /\ calls = <<>> /\ files # <<>>
    /\ LET p == Head(files)
       IN  \/ p \in td.failed_fnids /\ UNCHANGED <<td, calls>>
           \/ /\ p \notin td.failed_fnids
              /\ AddTasks([td EXCEPT !.have = @ \cup {item},
                                     !.providers[item] = IF Contains(@, p) THEN @ ELSE Append(@, p)], p)
    /\ files' = Tail(files)
    /\ UNCHANGED <<dataCache, abort, pc, asked, todo, item, added>>

\* Mutant: names that have providers are looked at again.
UnresolvedHave(kind) == (ToSet(td.names) \cap kind) \ (Ignored \cup td.failed_deps)

Unresolved(kind) == (ToSet(td.names) \cap kind) \ (Ignored \cup td.failed_deps \cup td.have)

-----------------------------------------------------------------------------
Init ==
    /\ dataCache \in DataCaches
    /\ abort \in BOOLEAN
    /\ td = EmptyTaskData
    /\ pc = "targets" /\ asked = 0 /\ item = CommandLine[1]
    /\ todo = {} /\ files = <<>> /\ added = FALSE
    /\ calls = <<>>

\* buildTargets calls add_provider for each target of the command line.  With
\* -k the target is given up when nothing provides it.
AddTarget ==
    /\ pc = "targets" /\ asked < Len(CommandLine)
    /\ asked' = asked + 1 /\ item' = CommandLine[asked + 1]
    /\ LET named == [td EXCEPT !.names = AddNames(@, <<item'>>)]
       IN  \/ AddProviders(item') /\ td' = named /\ pc' = "add_provider"
           \/ /\ NothingEligible(item') /\ ~abort
              /\ RemoveTarget(named, item', <<>>) /\ pc' = "add_provider" /\ UNCHANGED files
           \/ NothingEligible(item') /\ abort /\ td' = named /\ pc' = "raised" /\ UNCHANGED <<files, calls>>
    /\ UNCHANGED <<dataCache, abort, todo, added>>

MarkExternal ==
    /\ pc = "add_provider" /\ calls = <<>> /\ files = <<>>
    /\ td' = [td EXCEPT !.external = @ \cup {item}]
    /\ pc' = "targets"
    /\ UNCHANGED <<dataCache, abort, asked, todo, item, files, added, calls>>

\* add_unresolved starts a pass over the build names nobody has resolved.
StartPass ==
    /\ pc = "targets" /\ asked = Len(CommandLine)
    /\ pc' = "build" /\ todo' = Unresolved(Target \ RunTarget)
    /\ UNCHANGED <<dataCache, abort, td, asked, item, files, added, calls>>

\* NoProvider is caught here.
ResolveBuild ==
    /\ pc = "build" /\ todo # {}
    /\ item' = FirstOf(td.names, todo) /\ todo' = todo \ {item'}
    /\ \/ AddProviders(item') /\ pc' = "try" /\ UNCHANGED td
       \/ /\ NothingEligible(item') /\ ~(abort /\ item' \in td.external)
          /\ RemoveTarget(td, item', <<>>) /\ pc' = "except" /\ UNCHANGED files
       \/ /\ NothingEligible(item') /\ abort /\ item' \in td.external
          /\ pc' = "raised" /\ UNCHANGED <<td, files, calls>>
    /\ UNCHANGED <<dataCache, abort, asked, added>>

StartRunPass ==
    /\ pc = "build" /\ todo = {}
    /\ pc' = "run" /\ todo' = Unresolved(RunTarget)
    /\ UNCHANGED <<dataCache, abort, td, asked, item, files, added, calls>>

\* NoRProvider is caught here.
ResolveRun ==
    /\ pc = "run" /\ todo # {}
    /\ item' = FirstOf(td.names, todo) /\ todo' = todo \ {item'}
    /\ \/ AddProviders(item') /\ pc' = "try" /\ UNCHANGED td
       \/ NothingEligible(item') /\ RemoveTarget(td, item', <<>>) /\ pc' = "except" /\ UNCHANGED files
    /\ UNCHANGED <<dataCache, abort, asked, added>>

\* The end of a round of one of these loops: what was not caught is counted.
EndResolve ==
    /\ pc \in {"try", "except"} /\ calls = <<>> /\ files = <<>>
    /\ pc' = IF item \in RunTarget THEN "run" ELSE "build"
    /\ added' = (added \/ pc = "try")
    /\ UNCHANGED <<dataCache, abort, td, asked, todo, item, files, calls>>

\* Passes go on until one of them adds nothing.
EndPass ==
    /\ pc = "run" /\ todo = {}
    /\ IF added
       THEN pc' = "build" /\ todo' = Unresolved(Target \ RunTarget)
       ELSE pc' = "done" /\ UNCHANGED todo
    /\ added' = FALSE
    /\ UNCHANGED <<dataCache, abort, td, asked, item, files, calls>>

-----------------------------------------------------------------------------
\* The files the queue is made of: of every name the first provider.  The
\* least set that has them for the command line and for what its files need.
Selected(needs) ==
    LET Chosen(names) == {td.providers[t][1] : t \in {n \in names : td.providers[n] # <<>>}}
        Closed(queue) == Chosen(ToSet(CommandLine) \cup UNION {needs[f] : f \in queue}) \subseteq queue
    IN  {f \in Fn : \A queue \in SUBSET Fn : Closed(queue) => f \in queue}

Needed == [f \in Fn |-> Deps(f)]
AllNeeds == [f \in Fn |-> Deps(f) \cup Idepends(f)]

\* With tryaltconfigs, the files whose tasks have failed are taken out one by
\* one and the queue is made again from what is left.
TryAltConfigs ==
    /\ pc \in {"done", "retried"}
    /\ \E failed \in (SUBSET Selected(AllNeeds)) \ {{}} : files' = SetToSeq(failed)
    /\ pc' = "retrying"
    /\ UNCHANGED <<dataCache, abort, td, asked, todo, item, added, calls>>

FailNext ==
    /\ pc = "retrying" /\ calls = <<>> /\ files # <<>>
    /\ IF Head(files) \in td.failed_fnids THEN UNCHANGED <<td, calls>> ELSE FailFnid(td, Head(files))
    /\ files' = Tail(files)
    /\ UNCHANGED <<dataCache, abort, pc, asked, todo, item, added>>

EndRetry ==
    /\ pc = "retrying" /\ calls = <<>> /\ files = <<>>
    /\ pc' = "retried"
    /\ UNCHANGED <<dataCache, abort, td, asked, todo, item, files, added, calls>>

Stopped == pc \in {"done", "retried", "raised"} /\ UNCHANGED vars

Step ==
    \/ AddTarget \/ MarkExternal \/ StartPass \/ ResolveBuild \/ StartRunPass \/ ResolveRun
    \/ EndResolve \/ EndPass \/ AddEligible \/ FailRound \/ RemoveRound \/ FailNext \/ EndRetry

Next == Step \/ TryAltConfigs \/ Stopped

Spec == Init /\ [][Next]_vars

\* It is one thread.
FairSpec == Spec /\ WF_vars(Step)

-----------------------------------------------------------------------------
Frames == [proc : {"fail_fnid"}, arg : Fn] \cup [proc : {"remove_target"}, arg : Target]

TypeOK ==
    /\ dataCache \in DataCaches /\ abort \in BOOLEAN /\ added \in BOOLEAN
    /\ pc \in Places
    /\ asked \in 0 .. Len(CommandLine) /\ item \in Target
    /\ todo \subseteq Target
    /\ files \in Seq(Fn) /\ calls \in Seq(Frames)
    /\ td \in [names : Seq(Target), known : Seq(Fn), have : SUBSET Target,
               providers : [Target -> Seq(Fn)], external : SUBSET Target,
               failed_deps : SUBSET Target, failed_fnids : SUBSET Fn]

\* Files that cannot be built whatever is chosen: a name is dead when all its
\* providers are, a file when one of the names it needs is.
Dead(needs) ==
    LET DeadName(dead, t) == t \notin Ignored /\ ToSet(Providers(t)) \subseteq dead
        Closed(dead) == \A f \in Fn : (\E t \in needs[f] : DeadName(dead, t)) => f \in dead
    IN  {f \in Fn : \A dead \in SUBSET Fn : Closed(dead) => f \in dead}

Complete(needs) ==
    \A f \in Selected(needs) :
        /\ f \notin td.failed_fnids
        /\ \A t \in needs[f] \ Ignored : td.providers[t] # <<>>

\* Under -k, what is left of the metadata when add_unresolved returns, and
\* after every retry of tryaltconfigs, is closed: each file that will be built
\* is buildable and each DEPENDS and RDEPENDS of it has a provider
\* (prepare_runqueue takes the first without looking).
QueueComplete == ~abort /\ pc \in {"done", "retried"} => Complete(Needed)

\* Under -k, no file whose dependencies cannot be met is left for the queue,
\* however long the chain or the cycle that decides it.
DeadAreFailed == ~abort /\ pc = "done" => Dead(Needed) \cap ToSet(td.known) \subseteq td.failed_fnids

\* A name that has providers is given up only when the last of them is gone,
\* unless NoProvider for another one comes up while it is being resolved
\* without -k; and a file, except by a retry, only when something it needs is
\* given up.
GivenUpForReason ==
    [][/\ \A t \in td.have :
             t \in td'.failed_deps \ td.failed_deps =>
                 td'.providers[t] = <<>> \/ (abort /\ pc = "try" /\ t = item)
       /\ \A f \in td'.failed_fnids \ td.failed_fnids :
             pc = "retrying" \/ AllNeeds[f] \cap td'.failed_deps # {}]_vars

\* taskdata.py:493 "Mark a build target as failed (unbuildable)": a name that
\* is given up under -k has no provider that can be built.
FailedNamesUnbuildable ==
    ~abort /\ pc = "done" => \A t \in td.failed_deps : ToSet(Providers(t)) \subseteq td.failed_fnids

\* taskdata.py:494 "Trigger removal of any files that have this as a
\* dependency": also when the dependency is one of a task of the file.
IdependsComplete == ~abort /\ pc = "done" => Complete(AllNeeds)

\* taskdata.py:533 "Resolve all unresolved build and runtime targets": the
\* passes end, on circular metadata and whatever was given up on the way.
AlwaysTerminates == <>(pc \in {"done", "raised"})

\* So they do as long as no name has two failed providers, of which the code
\* can take one for eligible again (it removes them from the list it walks).
TwoFailed(t) == Cardinality(ToSet(Providers(t)) \cap td.failed_fnids) > 1
Terminates == <>(pc \in {"done", "raised"} \/ \E t \in Target : TwoFailed(t))
=============================================================================
