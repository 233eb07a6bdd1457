# BitBake, specified

This directory holds TLA+ specifications of BitBake, the build tool in
`src/bitbake` that OpenEmbedded is built with, the TLC configurations that check
them on small instances, and TLAPS proofs about them. `PROJECT.json` maps every
definition to the lines it translates, lists the runs, the mutants that show
that each checked property can fail, the hazards and the theorems.

The repository is mostly metadata (18 000 recipes, classes and configuration
files). The program is `src/bitbake/lib/bb`, about 10 000 lines of Python 2, and
that is what is modelled. The C and C++ under `src/recipes` (some 90 000 lines) is
what recipes carry along: firmware images, copied headers, drawing tables and
drivers of other projects, patched here. One part of it is a small
concurrent system of its own, the StorCenter daemon `sccd`, and is modelled as
well.

    tlc -workers 2 -config MCRunQueueChain.cfg MCRunQueue
    tlapm RunQueueProofs.tla

## 1. Inventory

| Component | State it keeps | Operations | Interacts with |
|---|---|---|---|
| Cooker (`cooker.py`) | configuration, status, CacheData | parseConfigurationFile, parse_bbfiles, buildTargets | everything below, in this order |
| Parsers (`parse/`) | `__mtime_cache`, `__depends` of the store | handle, include, mark_dependency | cache, metadata store |
| Metadata store (`data_smart.py`, `COW.py`) | variables, flags, expansion cache | setVar, getVar, createCopy, update_data | parsers, classes, tasks |
| Recipe cache (`cache.py`) | `bb_cache.dat`, depends_cache, cacheclean | loadData, cacheValidUpdate, setData, skip, remove, sync | parse_bbfiles, the mtimes of files |
| Provider choice (`providers.py`) | none | filterProviders, findBestProvider, vercmp | TaskData |
| Target resolution (`taskdata.py`) | tables of names, files, providers, failed ones | add_provider, add_unresolved, add_tasks, fail_fnid, remove_buildtarget | queue preparation, tryaltconfigs |
| Queue preparation (`runqueue.py`) | runq_depends, weights, prio_map | prepare_runqueue, schedulers | TaskData, executor |
| Task executor (`runqueue.py`) | buildable, running and complete flags, build_pids, failed_fnids | execute_runqueue, task_complete, finish_runqueue, check_stamp_task | child processes, stamps |
| Task execution (`build.py`) | the process of one task | exec_task, exec_func | stamps, lock files |
| Stamps (`build.py`) | one file per task in `STAMP` | stamp_internal, make_stamp, del_stamp | executor: they outlive every process |
| Lock files (`utils.py`) | a path, its inodes, flocks | lockfile, unlockfile | exec_func, the fetchers |
| Fetchers (`fetch/`) | downloads, `.md5` stamps, revisions | go, try_mirrors, sortable_revision | lock files, persistent data |
| Persistent data (`persist_data.py`) | sqlite tables | getValue, setValue | fetchers |
| Events (`event.py`) | table of handlers | register, fire | all |
| StorCenter daemon (`recipes/sccd/files`) | the packet it shows the controller, saverate, shutdown_called | handle_clnt, the refresh every half second, halt | scc clients over a socket, the microcontroller over a serial line |

What is hard, by component (the lines are under `hazards` in `PROJECT.json`):

* **Executor.** Children end in any order, fail, are interrupted, outlive the
  master; the stamp directory carries what happened into later invocations that
  may be forced, cleaned, continued or interrupted in their turn. Correct means:
  order, slots, `-k`, every invocation ends, and a stamp that is believed is
  right.
* **Lock files.** A lock file is unlinked by whoever holds it while others wait
  for a flock on the unlinked inode. Correct means: one at a time, and the
  retries end.
* **Resolution.** Files are added and removed in mutual recursion over tables
  that are being walked; exceptions leave in the middle. Correct means: it ends,
  what is left is closed, and nothing buildable is thrown out.
* **Queue preparation.** Lists that are appended to while they are copied, three
  recursions with sets of what was seen, and a second preparation over what the
  first one left. Correct means: nothing a task needs is missing and no loop
  reaches the executor.
* **Metadata store.** Copies share what they have not written, two indexes are
  shared in another way than the values, values are cached expanded. Correct
  means: a copy is a copy, what is pending is found, what is cached is right.
* **Fetchers.** Tasks of one or of several invocations fetch the same file; they
  are killed and leave a part, or a command that goes on. Correct means: one
  writer, and what is stamped is what was asked for.
* **sccd.** Answers come late and are read as answers to something else; clients
  use the line themselves. Correct means: what clients asked for is what is
  shown, and the power switch is obeyed.
* **Recipe cache.** Files change while they are read, configuration has another
  rule than recipes, a save can be interrupted. Correct means: nothing stale is
  built from, no failure outlives its cause, and nothing is parsed twice.

## 2. The modules

| Module | What it is |
|---|---|
| `DependencyOrder` | abstract: tasks are started once each, when what they depend on is complete |
| `RunQueue` | the executor, its children, the stamps, successive invocations |
| `RunQueueOrder` | `RunQueue` with the refinement mapping to `DependencyOrder` |
| `MCRunQueue` | instances for TLC: a chain, a diamond, a join |
| `RunQueueProofs` | type correctness, order, stamps, slots, -k, what success means, what is up to date, and that the executor implements `DependencyOrder`, proved |
| `LockFile` | `lockfile` and `unlockfile` over a file system with inodes and flocks |
| `MCLockFile`, `LockFileProofs` | instance and proofs |
| `TaskData`, `MCTaskData` | target resolution over all small metadata |
| `TaskDataProofs` | the queue is closed, what cannot be built is out of it, nothing is given up without a reason, proved |
| `Cache`, `MCCache` | the recipe cache over edits, interrupts and kills |
| `CacheProofs` | nothing stale, nothing parsed twice, no failure without a cause, proved |
| `Prepare`, `MCPrepare` | `prepare_runqueue` and the retries of `tryaltconfigs` around it |
| `Scheduler` | the priority maps of the speed and the completion scheduler |
| `PrepareProofs` | loops, weights and recrdeptask, proved |
| `DataSmart`, `MCDataSmart` | the metadata store, its copies and `update_data` |
| `DataSmartProofs` | copies, indexes, overrides, appends and the expansion cache, proved |
| `Fetch`, `MCFetch` | `go` of the fetchers with wget and git, `base_do_fetch` |
| `FetchProofs` | one writer, no second download, stamps and checksums, proved |
| `Sccd`, `MCSccd` | the StorCenter daemon, its clients and the controller |
| `SccdProofs` | clients are obeyed, a halt is not late, proved |

### RunQueue

The master is at one of four points: `idle` between invocations, `loop` in
`execute_runqueue_internal`, `wait` when it has left the inner loop for
`os.waitpid`, `finish` in `finish_runqueue`. Its variables have the names of the
attributes. Flags that the code keeps in lists of 0 and 1 are sets of tasks.

| Action | Code |
|---|---|
| `StartRun` | `prepare_runqueue` Steps B, C and -f; `execute_runqueue_initVars` |
| `Skip` | `check_stamp_task` is true: counted complete without running |
| `ForkTask`, `ForkInterrupted`, `ForkFails` | the fork; ^C before the child is recorded; fork fails |
| `TaskSucceeds`, `TaskFails`, `ReapInterrupted` | `os.waitpid` and what follows |
| `LoopReturns`, `Interrupt` | the two ways out of the loop that are not a failure |
| `FinishReaps`, `FinishUnknownPid`, `FinishNoChild`, `FinishInterrupted`, `FinishReturns` | `finish_runqueue`, with the KeyError and the ECHILD an interrupt can lead it to |
| `ExecSucceeds`, `ChildFails`, `StampInternal`, `CreateStamp` | the child: `exec_task`, `make_stamp` |
| `Clean`, `Tick` | `base_do_clean` between invocations; the clock of the file system |

The scheduler is left open: `next()` returns some candidate whenever there is
one, so every order that either scheduler can give is covered, and the properties
hold without relying on one. (`Scheduler` has the orders themselves.) Dependencies are
a constant (what Step A computes). The clock advances at the start of an
invocation (it parses for longer than a second) and by `MaxTicks` more; between
ticks two stamps get the same mtime. `good`, `seen`, `inputs`, `ran` and
`orphaned` are history: they record what was really executed and on which
outputs, and no action reads them to decide anything.

`UpToDate` has two exceptions, both named in its comment: a task that had a
process outlive its master (an orphan can stamp work done on old inputs), and a
dependency on a selfstamp task (its stamp is not renewed when it runs again).

### LockFile

`pc` is where each process is between two system calls of `lockfile` and
`unlockfile`: `open`, `flock`, `exists`, `stat`, `in`, `unlock`. `disk` is the
inode the path names; `fd` and `flock` are the kernel's. `Crash` releases what a
process holds at any point; `CrashLeavingShell` is a task that dies while a shell
of `exec_func_shell` keeps the descriptor. An exception inside the
protected function ends the process, as it does in a task.

### TaskData

`td` is the object: names and files in the order they are created (dictionaries
are walked in that order), the provider lists, the failed names and files. `pc` is
where the caller is: the loop of `buildTargets` (`targets`, `add_provider`), the two
loops of `add_unresolved` (`build`, `run`, with `try` for the call and `except` for the
handler), and the retries of `tryaltconfigs`. `item` is the name at hand, `files` what its
loop over the eligible providers has still to come to.

`fail_fnid` and `remove_buildtarget` call each other. `calls` is the stack of the
calls under way, the innermost first, and a step is one round of the loop of the
innermost: `FailRound` takes the file out of the next list it is in, and calls
`remove_buildtarget` when that was the last provider; `RemoveRound` fails the next file
that needs the name. A round finds its place again by looking: a file that was taken
from a list, and a file that has failed, are not come to twice, so the stack needs no loop
variables. `Raise` is NoProvider: it drops the stack, up to the handler if there is one.
`FirstOf` keeps the order of the walks.

| Action | Code |
|---|---|
| `AddTarget`, `MarkExternal` | `add_provider` for a target of the command line |
| `StartPass`, `ResolveBuild`, `StartRunPass`, `ResolveRun`, `EndResolve`, `EndPass` | the loops of `add_unresolved`, up to the loop over the eligible providers and after it |
| `AddEligible` | one of the eligible providers: `add_build_target`, `add_tasks` |
| `FailRound`, `RemoveRound` | `fail_fnid`, `remove_buildtarget`, `remove_runtarget` |
| `TryAltConfigs`, `FailNext`, `EndRetry` | `execute_runqueue`, between two attempts |

`TryAltConfigs` fails any files of the queue, one after the other, any number of times.
What `filterProviders` returns is input: every list of up to `MaxProviders` distinct
files.

### Cache

A file is a number that stands for its mtime and content; 0 is no file. `pc`
follows one recipe through `parse_bbfiles`: `check`, `parse`, `setdata`, `stamp`,
`handle`; then `dump`. `todo` holds the positions in `Recipes` (the list of
files) that are still to come, `first` is the next. An entry has `vars`, the groups of variables that have
been filled in: an interrupt can leave it with fewer. `seen` is, for each file,
the versions it has had during this invocation: `NeverStale` says that what goes
into `CacheData` comes from those.

Assumed: two edits never leave the same mtime (`numeric_edge` in the hazards);
one invocation at a time; the configuration is parsed in one step; an include
file is edited in place (its mtime is taken before it is read); only files in
`Restored` come back with an old mtime. Restoring an include file that was
edited in the middle of an invocation is outside the checked instance: the mtime
in `__mtime_cache` can then belong to a content that was not the one read.

### Prepare

`pc` follows `prepare_runqueue`: `resolve` (Step A, one task per step), `mark`
(Step B and C), `check` (Step D: loops of two), `weigh`
(`calculate_task_weights`, one round per step), `execute`. `depends` is the local
variable, which keeps the value of the task before when a recipe is not to be
built. Step A appends to the lists of TaskData, so what is resolved in one
preparation is in `tasks_tdepends` in the next: `Retry` removes the recipes that
failed (`GivenUp`) and prepares again. `RecursiveTdepends` keeps the cache the code
keeps, and `RecursiveIdepends` the test `if not task`, which takes task 0 for
none. What `add_tasks` leaves in TaskData is input: `tasks_tdepends` starts as any
of `Parents`, loops among them included. `RecursiveComplete` is stated with a
definition of its own of what recrdeptask promises, over recipes where the code walks
over names; for a recipe that was given up it promises nothing: what is left of it
in the queue gets the list of the task before.

The rest of `execute_runqueue` is outlines. `broken` is which tasks fail, `abort` is
bitbake without -k: `Failures` is then any of the tasks that can fail, those that were
beside the first included, and under -k all of them. `Retry` without -k ends where a
name of the command line is given up (NoProvider); under -k it leaves the name out.
`ResolveRaises` is the IndexError of `build_targets[depid][0]` for a list that has lost
all its recipes (`Emptied`, `LooksAt`).

### Scheduler

Not a state machine: `Speed` and `Completion` are what the constructors of the two
schedulers make of the weights of the queue, when `Prepare` has come to `execute`.
`Place` is one weight looked up in `copyweight` and marked there, `Group` one round of
the `while` loop, with the deletions by index in the order in which the code makes them.
`MCPrepare` checks both on every queue that `Prepare` can end with.

### DataSmart

A variable's name is the sequence of its parts and a value a sequence of texts and
references. `dict`, `special`, `seen` and `expand_cache` are the attributes of every
store; `above` is the chain of `_data`, along which COW classes inherit too. A COW
set is copied into a class when it is first read for writing: `Members` and the
`EXCEPT` of `Seen` are that. `UpdateData` is all of `update_data`: the overrides in
the order of OVERRIDES, then appends and prepends. `behind` marks the copies of a
store that was written to later. The code does not carry such writes into the
indexes and caches of the copies, BitBake does not rely on it, and
`IndexComplete`, `CacheFresh`, `AppendedOnce` and `LastOverrideWins` leave those
stores out. (For `AppendedOnce` this is needed: a variable with a pending prepend
that is renamed to the same name in a copy and in the store above it has the text
twice in the copy.) `Ending` has the variables whose expansion does not come back to
one that it is in; where it does the code raises, in `GetVarRaises` and in place of
`UpdateData`, and what was expanded before that stays in the cache. The model
does not say in which order: any set that has with a variable what its expansion
comes to is allowed. `UpdateData` has no step where the loop over the overrides raises
RuntimeError (`FilesItself`): the caller has lost the store then.

### Fetch

`pc` of a task follows `base_do_fetch` and `go`: `next` URL, `lock`, then `wget` and
`fetching` or git's `access`, `clone`, `refs`, `readtree`, `checkout`, `tar`; `md5`,
`unlock`, `failed` or `done`. A file is absent, partial, or whole, and what a wrong
site sends is bad. Every git command may fail, with what it has done by then.
`Md5` and `Listed` say of each task whether its URL has an md5sum= and an entry in
`conf/checksums.ini`: the same file can be checked in two ways, or in one task only.
`Kill` and `KillLeavingWget` are deaths: a command that is left
behind inherits the lock and goes on writing. `Again` is the task in the next
invocation.

### Sccd

The line is two queues, `line` to the controller and `tty` back; `TimedOut` may
happen while an answer is under way, which then stays for the next exchange. A
client sends its packet to the daemon (`Connect`, `SendPacket`, or is cut off half way),
or to the controller (`GoDirect`, `DirectSend`). Where the code uses `saverate` before it
is set, or has restored it from such a value, the packet may be any of `Junk` and
`undefined` notes it. The controller is outside the repository: it obeys a packet
with a valid checksum, answers every packet with its state and reports a stop
from when the switch is pressed.

## 3. The runs

Each distinct question is one run; every property of a passing run has a mutant
of the code that breaks it.

| Run | Instance | Checks |
|---|---|---|
| `executor_restart` | chain of three tasks in two recipes, one selfstamp; 3 invocations, 1 interrupt, 1 tick; policy full; 3 process ids | `TypeOK`, `CurrentIsGood`, `UpToDate`, `ForcedRuns` |
| `executor_diamond` | five tasks, one nostamp, policy perfile, 2 slots, 2 invocations, 1 interrupt | `ReapsAll`, `NoOverlap`, `SlotLimit`, `SuccessCompletes`, `KeepGoing`, `AbortStops`, `ImplementsOrder` |
| `executor_ends` | three tasks, 1 invocation, 2 interrupts, fair | `RunEnds` |
| `lock` | 3 processes, 4 inodes, fair | `MutualExclusion`, `SomebodyEnters` |
| `resolution` | 3 files, the targets `image` (two providers or none) and `tool` (one), the build name `lib` and the runtime name `dev` with up to 2 providers each, with and without a [depends] on `lib`, with and without -k; every choice of providers and needs; fair | `QueueComplete`, `DeadAreFailed`, `GivenUpForReason`, `Terminates` |
| `cache_fresh` | 2 recipes, a shared class, one configuration file; 3 invocations, 2 edits, 1 interrupt or kill | `NeverStale`, `FailsOnlyAfterInterrupt`, `NothingParsedTwice` |
| `prepare` | 3 recipes with 7 tasks (one with 3), 2 targets, deptask and recrdeptask; 128 orders and loops within the recipes, 6 choices of [depends], 4 sets of broken tasks, with and without -a and -k; fair | `LoopsFound`, `RecursiveComplete`, `EachTaskOnce`, `RecipesTogether`, `PreparationEnds` |
| `weights` | a recipe of four tasks in a row beside two recipes with one; both others need the third | `MostNeededHeaviest` is violated |
| `data` | 5 variables, 2 overrides, 3 stores, 6 operations | `IndexComplete`, `CacheFresh`, `AppendedOnce`, `CopiesOnly`, `LastOverrideWins` |
| `data_kept` | 2 stores, 4 operations | `KeptAppends` is violated |
| `fetch` | 2 tasks that share a tarball, one with a second tarball, one with a git tag; 2 sites, the second wrong; one task dies and a failed task is run again once; fair | `OneWriter`, `StampedIsGood`, `DoneIsVerified`, `NoSecondDownload`, `FetchEnds` |
| `sccd` | 2 clients, one with -d that stops the machine; 1 fault, 2 starts of the daemon; fair | `Obeyed`, `HaltSoon`, `SwitchHalts`, `Shown` |

Why the bounds are enough. A wrong stamp needs one invocation that makes it,
one that disturbs it (a failure, -f, clean, ^C) and one that believes it: three.
A chain has the dependencies of dependencies; policy full compares the most. The
diamond has a task that waits for others that run side by side, and with three
ready for two slots one of them is held back. Three processes are one that holds the
lock, one that waits on the unlinked inode and one that opens the new one; one
inode more than processes lets the path always have a fresh one. In resolution a
third file is the shortest chain in which a removal removes further; two
providers are the first list that can lose an element and keep one. In the
cache, three invocations are one to make the cache, one to spoil it and one to
use it. In preparation the third recipe is the other provider of a name, with
a need of its own, and two tasks each are the fewest that can be in a loop inside
a recipe, across two, or with themselves; with a third task in one of them the completion
scheduler deletes two entries in one round, and the second target stays in the queue
when the first recipe is given up under -k. Six operations are the shortest history with
an append, an override, a copy, a change on either side and two calls of
update_data; the third store is a copy of a copy or a sister. Two tasks and two
executions are one that dies, one that finds what it left, and one that waits
meanwhile. One fault is enough to put every later answer of the daemon one
exchange late.

Every module has a type invariant. It is checked for `RunQueue`, and proved there,
for `Fetch`, `Prepare`, `DataSmart` and `TaskData`; the others say no more than their run would show
by failing.

`NumberTasks`, `Pid`, `MaxRuns`, `MaxInterrupts`, `MaxTicks`, `MaxEdits`,
`MaxProviders`, `MaxStores`, `MaxOps`, `MaxTries`, `Sites`, `MaxFaults` and
`MaxStarts` are all the bounds. Deadlock is checked in the first six runs:
`Terminated`, `Stopped` and `Done` are the only places where those systems stop. The
others may stop: preparation and fetching end, a store is used a bounded number
of times, a machine is off; where they must not stop early a liveness property
says so.

Fairness. `RunQueue`: the master is one thread that runs whenever it can, and a
task ends (`WF` of `MasterStep` and of each `ChildStep`). BitBake has no timeout
on a task, so without the second nothing could be said. `LockFile`: a process
that can go on does, protected work ends, and the kernel gives a free flock to
somebody waiting; which one is open (the code's comment calls it unfair), so
only `SomebodyEnters` is claimed, and only when deaths stop. `TaskData` and
`Prepare`: one thread, weak fairness of its step. (`Terminates` says
nothing once a name has two failed providers, where the code can loop: section 5.) `Fetch`: processes go on and
commands end, for wget and git give up by themselves; `LockUrl` is strongly fair,
for a task of a bounded set waits behind finitely many others. `Sccd`: the
daemon is one thread whose every wait has a timeout except `recv` from a client
that has connected, which sends or dies; the controller answers in the end, which
can be after the timeout. `DataSmart` claims no liveness.

## 4. What is proved

In `RunQueueProofs`, `LockFileProofs`, `TaskDataProofs`, `PrepareProofs`,
`FetchProofs`, `CacheProofs`, `SccdProofs` and `DataSmartProofs`, for every value of
the constants that the theorem does not restrict: any task graph, any number of
processes, invocations, interrupts, recipes, tasks, sites, deaths, clients, faults,
stores and operations. The inductive invariants below were checked by TLC on the
runs before they were proved.

Executor (`RunQueueProofs`):

* `TypeCorrect`, `RunQueue!TypeOK`. It is not inductive: `TaskSucceeds` marks
  `build_pids[p]` complete and must find a task of the queue there. The invariant
  `Inv` adds `ProcInv` (outside `finish_runqueue` every child is recorded, under the
  task it runs; between invocations there is none) and `OrderInv`.
* `NoOverlapHolds`, `NoOverlap`, from `OrderInv`: what is buildable or running has
  all its direct dependencies complete, a complete task has no child, and no two
  children run the same task. The complete tasks with one running task are then
  closed under `Depends`, so by the lemma `MarkActiveLeast` everything the task
  depends on, directly or not, is complete and not running.
* `CurrentIsGoodHolds`, `CurrentIsGood`. A stamp says nothing of a later execution
  that failed, so it has to stop being current by then and stay so. `FreshInv`: no
  stamp is newer than the clock, and one as new as the clock belongs, orphans
  apart, to a task this invocation forked and that ended well. `WriterInv`: a child
  about to write its stamp has ended well, and a process without a master runs an
  orphaned task. A task is forked only when its stamp is not current; removing a
  stamp makes none current (`RemovalCurrent`), and a stamp that is written is as
  new as the clock, so it makes current only what is good.
* `SlotLimitHolds`, `ReapsAllHolds`, `AbortStopsHolds`, `SuccessCompletesHolds`,
  `KeepGoingHolds`, from `QueueInv`. `CountInv`: `active_builds` is the number of
  entries of `build_pids`, and these are the children unless an interrupt has come
  between a system call and its record. `LoopInv`: where the master may be with how
  many children; in the loop there is a slot left, and `finish` is reached without a
  cut only with no child and nothing buildable. `ReadyInv`: a task is buildable as
  soon as it can be. `BegunInv`: a task that has begun is complete, has a child or
  has failed. `EndInv` keeps of all this what an ending leaves.
* `SuccessCompletes` and `KeepGoing` rest on `NothingForgotten`: of the tasks that
  are not complete and need no failed one, `AcyclicAssumption` gives one that depends
  on none of the others; by `ReadyInv` it is buildable, so the master has not
  ended. This is the point at which the executor needs `prepare_runqueue` to have
  refused circular dependencies.
* `ExecutorImplementsOrder`, `ImplementsOrder`: every step of `RunQueue` is, under the
  mapping of `RunQueueOrder`, one of `DependencyOrder` or leaves it alone. A fork is
  `Begin`; the way out of the loop is `End`, where by `LoopInv` no child is left and by
  `ReadyInv` no task is ready, or `Cut`, and an invocation that was not cut has no
  child left when it is closed.
* `UpToDateHolds` and `ForcedRunsHolds`, from `BuiltInv`. `ExecInv`: a child executes a
  task that is not good, on outputs nobody replaces meanwhile, and in the end its
  stamp is newer than that of every task not executed in this invocation. `SeenInv`:
  a task that is complete, or stamped just now, has seen the last output of what
  it depends on; one with an older stamp that is current has seen it wherever that
  is current or complete. The last is what survives into the next invocations: a
  dependency executed again gets a stamp newer than its dependents', and
  these stop being current.

Lock files:

* `LockIsExclusive`, `MutualExclusion`. The invariant `LockInv`: from the moment flock
  returns until it closes the file a process holds the flock of the inode it has
  open, and whoever works under the lock has the inode the path names open. Two of
  them would hold the same flock.

Resolution (`TaskDataProofs`), for any metadata, any targets on the command line and any
number of retries:

* `Inv`, inductive (`NextInv` has one lemma per action), is `TypeOK` with two parts.
  `CoreInv` is about the tables: a list has known files, each once, and a name whose list
  is empty is given up (`ListInv`); what a known file needs has a name (`TableInv`); what
  remove_target works on is given up (`ReasonInv`); and under -k, whatever a removal has
  still to do is on the stack (`RemovalInv`): a failed file is in a list only while its
  `fail_fnid` is under way, and a good file needs a name that is given up only while
  that name's `remove_buildtarget` is. Without -k this is false, for Raise drops the
  stack. `PhaseInv` is about the caller: a pass of `add_unresolved` that has added nothing
  has no unresolved name but those it has still to come to (`PassInv`), also when
  removals changed the tables meanwhile, for they only give names up (`SamePhase`).
* `QueueCompleteHolds`, `QueueComplete`. With an empty stack and no unresolved name
  (`Settled`), the known files that have not failed are closed under taking first
  providers, so the queue, which is the least such set, is within them.
* `DeadAreFailedHolds`, `DeadAreFailed`. The files that have failed or are not known are
  closed under the rule that makes a file dead, and the dead ones are the least such set.
* `GivenUpForReasonHolds`, `GivenUpForReason`, an action property: `StepForReason` goes
  through the actions with `Inv`.
* `TypeCorrect`, `TaskData!TypeOK`.

What the model's loops over sequences return is shown by induction over a set
(`Recursion`, `AddNamesIs`, `DropFailedIs`, `WithoutIs`).

Fetchers:

* `OneWriterHolds` and `NoSecondDownloadHolds`. `FetchInv`: whoever works on a URL, a
  command left behind included, holds its lock, and from the lock on the file has
  no stamp. That is why `go` looks for the stamp again once it has the lock.
* `StampedDownloadIsGood` and `DoneDownloadIsVerified`, under `GitIsSafe`: no two tags
  of one git repository are wanted, and no task that wants one is killed. Both are
  false of the code without it (section 5); the instance of `fetch`, with one tag
  and one mortal task, satisfies it. `GitInv`: between `read-tree` and
  `checkout-index` the index is that of the task's own tag, so is the checkout while
  tar reads it, and a tarball is whole but for the one tar is writing. `DownloadInv`
  adds that a task at `md5` has a whole file, that what has left its list is
  stamped, and that a stamped file does not change.

Queue preparation (`PrepareProofs`):

* `ClosureIs` is the lemma the rest leans on: `Closure(S, f)` over a finite set holds
  `S`, is closed under `f`, and is within every set of which that is true. The
  recursion in it stops after as many rounds as there are elements, which is
  enough because a set that is not closed yet grows (`Counting` is the induction,
  over sets and not over operators, that the provers can use).
* `LoopsFoundHolds`. `WeighInv`: a task is weighed as soon as all tasks that need it
  have passed their weights on, and no sooner; `deps_left` counts those that have
  not; no set of weighed tasks is such that each is needed by another. In a
  queue weighed to the end the last of these leaves no loop (`WeighedAcyclic`);
  if some tasks are left, each is needed by another of them, and
  one that needs the most is in a loop (`UnweighedCyclic`).
* `ExecutorGetsAcyclic`: the queue that is executed is closed and without loops
  in the form of `AcyclicAssumption`, so what the executor's proofs assume of `Depends`
  over its tasks is what preparation ensures.
* `WeighsChainsHolds`, `WeighsChains`: what the weights are, which is not what the comments
  say (`weights`, section 5), so no run claims it. `WeightInv`: while tasks are weighed, what has been passed on to a
  task is in its weight, and the weight of a task that is counted done does not change.
  `TotalStep` and `TotalJoin` say what the sum over a set is.
* `RecursiveCompleteHolds`. `RecursiveInv`: what `get_recursive_tdepends` remembers
  holds the tasks of the recipe, however early it was asked, and every task seen to
  has what it requires. `WalkComplete`: the walk over names comes to every recipe that
  the definition over recipes requires.
* `TypeCorrect`, `Prepare!TypeOK`: `deps_left` does not go below zero.

Recipe cache (`CacheProofs`):

* `FailsOnlyAfterInterruptHolds`. `UsableInv`: until an interrupt every entry, in memory
  and in the file, has what `loadData` and `skip` look for, but for the one entry
  that is being made.
* `NeverStaleHolds`, under `Tracked`. `StaleInv`: the content an entry was made from is,
  for every file it depends on, the one of the mtime it has recorded, or one the
  file has had in this invocation, or the file has another mtime now, so that the
  entry is not used (`MemoryInv`); entries in the file were made from the present
  configuration or are older than it (`FileInv`); the mtimes that are
  known belong to versions this invocation could have seen (`VersionInv`). Each conjunct of `Tracked`
  leaves out edits for which `NeverStale` is false of the code, all of them in
  section 5: a file that was missing when it was included, `conf/bitbake.conf`, a
  recipe or configuration file edited while recipes are parsed, and a file that
  comes back with an old mtime where only the newest is compared. The
  instance of `cache_fresh` satisfies it.
* `NothingParsedTwiceHolds`, for all constants. `TwiceInv`: once an invocation has built
  and nothing was edited since, the file is whole, newer than the configuration,
  and has a good entry for every recipe that may be cached (`SavedInv`); while an
  invocation loops, the same holds in memory for the recipes it is done with
  (`SafeInv`), as long as nothing was edited and no error occurred.

StorCenter daemon (`SccdProofs`):

* `HaltSoonHolds`. `LagInv`: every packet on the line and every answer not read belongs
  to the exchange under way, to a fault, or to a client that has used the line.
  `StaleInv`: once the switch is pressed only the first so many answers can be older
  than that.
* `ObeyedHolds`: no answer is put into w1 and w2 after the first, so what the daemon
  shows is what its clients merged into it; inductive together with the above.

Metadata store (`DataSmartProofs`):

* `CopiesOnlyHolds`, `CopiesOnly`. `Shape`: the tables have an entry for every
  store, and a store that is not made yet reads from none. What is read in a store
  is decided by the nearest one above it with an entry, which is one of those above
  it (`Greatest`, `LookupSame`), and an operation writes the entries of one store
  only (`Local`).
* `IndexCompleteHolds`, `IndexComplete`. `ChainInv`: the stores above a store are
  those its own was copied from, in one chain. `TablesInv`: the types, and nothing
  yet for stores to come. What a store writes is the nearest to itself (`OwnFound`,
  `OwnMembers`); a set that is copied where it is first written is
  seen as before by everything below (`CopiedMembers`), which matters for an
  `update_data` that finds nothing to do and leaves nobody behind. The hypothesis
  `NoneApart` says that None is neither a set of names nor an entry of a
  dictionary: it is a value of its own.
* `TypeCorrect`, `DataSmart!TypeOK`, from `ValueInv`. The recursive functions of the
  model are shown to exist, step by step (`Recursion`, with `Counting` as above), and
  to give sequences of tokens (`ExpandingIs`, `FlattenIs`, `KeptIs`) and tables (`LoopIs`).
* `LastOverrideWinsHolds`. `After` says of every prefix of OVERRIDES what the loop has made
  of a variable: the value for the last override of the prefix it has something for.
  With `IndexComplete` nothing that counts is missing from the index the loop goes by, and
  what is added to both ends afterwards is what applies (`SumIs`, `AddedIs`).
* `AppendedOnceHolds`. `OnceInv`, of the store and not of one value: no text is pending
  twice, whether for one variable or two; no text that is pending is in a value
  already; none that was not set yet is anywhere. `TextsApart` says that two appends have
  different texts, and values that are set none of them: else a text could not be
  followed. TLC evaluates it on the instance.
* `CacheFreshHolds`. `FreshInv`: in a store that is not left behind what is cached has an
  expansion that ends, and is that expansion. `EndingFixed` is the lemma behind it:
  there are no more levels of references than variables, so a variable's expansion
  ends exactly if those of its references do. For these the rounds of an
  expansion change nothing after the last level (`ExpandingEnds`), so it does not matter
  which of the values on the way came from the cache (`ExpandingFresh`).
  Nothing is assumed of what refers to what: cycles raise.

The assumptions are `QueueAssumption`, `AcyclicAssumption`, `NumberTasksAssumption`,
`BoundsAssumption`, `TargetAssumption`, `FetchAssumption`, `CacheAssumption`, `SccdAssumption`,
`DataAssumption`, `ValueAssumption`, `PrepareAssumption` and those of `LockFile`. `AcyclicAssumption` is what
`prepare_runqueue` ensures (`ExecutorGetsAcyclic`; the tasks of `RunQueue` are those
that some target asks for); the others say the types of the
constants. TLC evaluates them on every run.

Only model-checked, and why:

* all liveness: `RunEnds`, `SomebodyEnters`, `Terminates`, `PreparationEnds`,
  `FetchEnds`, `SwitchHalts`, `Shown` (fairness and ENABLED are out of the prover's reach);
* `EachTaskOnce` and `RecipesTogether`, about folds over sequences of any length: a proof
  would be an induction over them.

Every other invariant and every action property of the passing runs is proved, three of them
for fewer constants than the modules allow: `StampedIsGood` and `DoneIsVerified`
under `GitIsSafe`, `NeverStale` under `Tracked`.

## 5. What the code does otherwise than it says

`findings` in `PROJECT.json` has the lines and the quotation.

* `data_kept`: when one pending append of a variable applies, `delVarFlag` removes
  the list with the others in it (`data.py:522`), although "maybe the OVERRIDE was
  not yet added so keep the append".
* `weights`: a task weighs what the tasks that need it weigh together (`runqueue.py:288`),
  so chains are counted. The comments speak of "tasks needed by the most other tasks"
  (`runqueue.py:83`) and "more dependencies" (261): the first task of a chain of four
  weighs 1 with three tasks behind it, and runs after one that two tasks need.

The following have a configuration that reproduces them, without being a run:

* `MCTaskDataLoops.cfg`, `AlwaysTerminates`: a list is changed while it is iterated over
  (`taskdata.py:381`); with two failed providers add_unresolved never ends.
* `MCTaskDataUnbuildable.cfg`, `FailedNamesUnbuildable`: a name is given up because its
  first provider fails while it is being added, with a good provider next
  (`taskdata.py:404`).
* `MCTaskDataIdepends.cfg`, `IdependsComplete`: a file whose task depends on a name
  already given up stays in the queue and the dependency is dropped without a
  word (`taskdata.py:190`).
* `MCCachePoisoned.cfg`, `FailsForReason`: ^C saves half an entry
  (`cooker.py:757`); every invocation after it fails.
* `MCCacheConfRace.cfg`, `NeverStale`: configuration edited while recipes are parsed
  is older than the cache that was made without it, and is never read again
  (`cache.py:82`).
* `MCPrepareRetry.cfg`, `GivenUpIsLeftOut`: after a retry of tryaltconfigs tasks keep
  the dependencies of the provider that failed, whose tasks run again
  (`runqueue.py:357`: `depends` is the list in TaskData).
* `MCFetchTags.cfg`, `StampedIsGood`: two tags of one git repository are fetched at
  once; the lock is on the tarball of each, the index is shared, and one tarball
  gets the tree of the other (`git.py:111-112`).
* `MCSccdAlone.cfg`, `ClientsAlone`: the first exchange writes the controller's answer
  over the daemon's state (`sccd.c:327`), although "Only a client should alter w1
  and w2" (`sccd.c:384`).

### Observations

Met while modelling, with no configuration of their own. The first four are
instances of `MCCacheConfRace.cfg` with other constants.

* `conf/bitbake.conf` is in no `__depends` (`cooker.py:390` reads it with
  `include=0`): editing it invalidates nothing. `EditIdle = {"bitbake.conf"}`,
  `EditBusy = {}`: `NeverStale` is violated.
* A missing file of an `include` line is not a dependency (`ConfHandler.py:108`):
  when it appears the recipe is not parsed again. `Optional = EditIdle =
  {"common.inc"}`, `EditBusy = {}`.
* The mtime of a new recipe is taken after it was parsed (`cache.py:140`).
  `EditBusy = {"app.bb"}`.
* A configuration file that comes back with an older mtime leaves the cache in
  force (`cache.py:76-82` compares the newest mtime only): what was made from the other
  configuration is used. `Restored = EditIdle = {"local.conf"}`, `EditBusy = {}`.
* Without -k, NoProvider for a target of the command line can be raised while
  another name is resolved, and the handler takes it for that name's own
  (`taskdata.py:540`).
* `finish_runqueue` prints "Attempted 0 tasks of which 0 didn't need to be rerun
  and 1 failed" when the only task fails (`runqueue.py:997`): a failed task is
  not counted among the attempted.
* `get_recursive_tdepends` and `get_recursive_idepends` test `if not task`
  (`runqueue.py:402`, `426`): task number 0 is taken for no task. A recipe on the way
  of recrdeptask that does not have the task itself has its [depends] not followed.
* After a retry with -a, preparation can end with IndexError: the tasks of a recipe that
  was given up are still among what `get_recursive_tdepends` finds, and a name of their
  [depends] has an empty list (`runqueue.py:446`). `ResolveRaises` fires in `prepare`.
* A loop that came to the executor would end in silence: with nothing buildable and
  nothing active it returns (`runqueue.py:979`), and the checks after that
  (1008-1015) cannot be reached.
* `str(depid) in dep_seen` is never true (`runqueue.py:442`, `473`): numbers are
  appended. The callers' own tests make up for it.
* update_data is called twice on every recipe (`BBHandler.py:151`, `171`) and again by
  exec_task. A variable with an override that applies and an unconditional append
  loses the append in the second call: the override is applied again and the
  append is no longer pending.
* An override that was deleted sets the variable to nothing: `d[var]` is None and
  raises nothing (`data.py:511`).
* A write to a store does not clear `expand_cache` of its copies, nor reach their
  copies of the indexes. delVarFlags of a variable without content, in a copy,
  shows the flags of the parent again (`data_smart.py:254`).
* A file of another content that a mirror sent is "resumed" by the next execution
  (`wget.py:57-59`), and fails its checksum again.
* The `.md5` stamp belongs to a file name, md5sum= to a URL: what was fetched and stamped
  for a URL without md5sum is taken by a URL of the same basename that has one and
  never compared (`fetch/__init__.py:151`, `498-507`). `Summed` excepts it.
* A variable with an override twice in its name (`A_arm_arm`) is filed under it a second
  time while the loop over that set is under way: RuntimeError (`data.py:508`).
* A git tarball that a killed tar left half written is taken as it is
  (`git.py:65`).
* scc puts the host's id into the wrong word of its reset packet (`scc.c:230`);
  `saverate` can be used before it is set (`sccd.c:375`); a client's LED rate is lost
  when it comes during blinking; a packet that is cut short leaks a descriptor
  (`sccd.c:226`); a client that connects and sends nothing stops the daemon.

## 6. Not modelled

Provider choice and persistent data (planned); events (one thread
calls the handlers in turn); several lock files held by one task
(planned); `check_stamp_fn` with the StampUpdate handler; `buildFile`; the shell and
the command line. Of the store: flags other than content, appends and prepends,
`initVar`, `:=` and ${@python}; the default arguments that a second
root store would share (`data_smart.py:45`). Of the fetchers: the commands of the
version control systems other than git, AUTOREV. The line grammar of the parsers, running
shell and python functions, logging and the metadata itself are text processing
and I/O. Two invocations at once in one TMPDIR are outside `RunQueue` and `Cache`:
nothing in the code guards against that, and no stamp property survives it.

Of the C and C++ in the repository only `sccd` is modelled. The rest is not this
project's program: firmware images and pictures as arrays, X11 and GNOME headers,
frame buffer drivers of mplayer and kernel modules of other projects, GUI
applications with one thread of callbacks. The lines have no state machine
to specify, or one whose other half (a kernel, a device, a toolkit) is not here.

## 7. Plan

Order: what loses work or builds the wrong thing first.

1. All eight models with their runs, and the proofs of section 4: done.
2. Composition of `Prepare` with the executor: what is weighed is what is run, over
   a retry, and the tasks kept from the failed provider.
3. Lock files in exec_func: several names per task, taken in order.
4. `Providers` and vercmp as pure operators, `PersistData`.
5. Proofs: all safety properties of the runs, done; the next ones come with 2 to 4.
