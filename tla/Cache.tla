------------------------------- MODULE Cache -------------------------------
(***************************************************************************)
(* bb/cache.py and parse_bbfiles of bb/cooker.py: the recipe cache, kept   *)
(* in one file from one invocation to the next, while people edit recipes, *)
(* include files and configuration.                                        *)
(*                                                                         *)
(* A version of a file stands for its mtime and its content; 0 is a file   *)
(* that is not there.  Two edits never leave the same mtime.               *)
(***************************************************************************)
EXTENDS Naturals, Sequences, FiniteSets, Functions

CONSTANTS
    Recipes,        \* the recipe files, in the order they are parsed
    Inc,            \* the files recipes include
    Includes,       \* [recipe -> SUBSET Inc]
    Optional,       \* those named by "include", not by "require" or "inherit"
    MainConf,       \* conf/bitbake.conf
    ConfInc,        \* the files it includes
    DontCache,      \* recipes that set __BB_DONT_CACHE
    EditIdle,       \* files that are edited while bitbake does not run
    EditBusy,       \* files that are edited while it runs
    RemoveBusy,     \* files that are removed while it runs
    Restored,       \* files whose older versions come back, with their mtime
    MaxRuns, MaxEdits, MaxInterrupts

Fn == Range(Recipes)
Conf == {MainConf} \cup ConfInc
File == Fn \cup Inc \cup Conf

\* What a recipe is made of.
Sources(fn) == Conf \cup {fn} \cup Includes[fn]

ASSUME CacheAssumption ==
    /\ Recipes \in Seq(Fn)
    /\ Includes \in [Fn -> SUBSET Inc] /\ Optional \subseteq Inc /\ DontCache \subseteq Fn
    /\ EditIdle \cup EditBusy \cup RemoveBusy \cup Restored \subseteq File
    /\ RemoveBusy \cap Conf = {}
    /\ MaxRuns \in Nat /\ MaxEdits \in Nat /\ MaxInterrupts \in Nat

VARIABLES
    disk,           \* the version of each file
    clock,          \* the last version given out
    cachefile,      \* bb_cache.dat: mtime (0: none), whole, entries
    pc,             \* "idle", "load", "check", "parse", "setdata", "stamp", "handle",
                    \* "dump", "built", "failed" or "interrupted"
    mtimes,         \* __mtime_cache: 0 for a file not looked at yet
    conf,           \* the configuration this invocation has read
    depends_cache,  \* the entries in memory
    cacheclean,     \* nothing to save
    todo,           \* positions in Recipes still to do
    parsed,         \* what parsing the current recipe gave
    status,         \* what went into CacheData, per recipe
    errors,         \* an error was counted
    parseErrors,    \* a recipe could not be parsed
    interrupted,    \* ^C was pressed
    seen,           \* the versions each file has had during this invocation
    quiet,          \* nothing was edited since an invocation began that built, and its save is whole
    runs, edits, interrupts

memory == <<mtimes, conf, depends_cache, cacheclean, todo, parsed, status>>
result == <<errors, parseErrors, interrupted>>
world == <<disk, clock, seen, edits>>
vars == <<world, cachefile, pc, memory, result, quiet, runs, interrupts>>

Empty == [x \in {} |-> 0]
NoEntry == [vars |-> {}, depends |-> Empty, stamp |-> 0, content |-> Empty]

Without(f, x) == Restrict(f, DOMAIN f \ {x})
With(f, x, v) == [y \in DOMAIN f \cup {x} |-> IF y = x THEN v ELSE f[y]]

\* cached_mtime_noerror: the first look at a file that is there is kept.
Mtime(f) == IF mtimes[f] # 0 THEN mtimes[f] ELSE disk[f]
Looked(files) == [f \in File |-> IF f \in files THEN Mtime(f) ELSE mtimes[f]]

Init ==
    /\ disk = [f \in File |-> 1] /\ clock = 1
    /\ cachefile = [mtime |-> 0, whole |-> FALSE, entries |-> Empty]
    /\ pc = "idle"
    /\ mtimes = [f \in File |-> 0] /\ conf = Empty
    /\ depends_cache = Empty /\ cacheclean = TRUE /\ todo = {}
    /\ parsed = NoEntry /\ status = Empty
    /\ errors = FALSE /\ parseErrors = FALSE /\ interrupted = FALSE
    /\ seen = [f \in File |-> {1}]
    /\ quiet = FALSE
    /\ runs = 0 /\ edits = 0 /\ interrupts = 0

-----------------------------------------------------------------------------
Running == pc \notin {"idle", "built", "failed", "interrupted"}

\* The configuration is parsed at the start of every invocation; the main file
\* is not among its dependencies, only what it includes is marked.
Start ==
    /\ pc = "idle" /\ runs < MaxRuns
    /\ runs' = runs + 1
    /\ pc' = "load"
    /\ conf' = Restrict(disk, Conf)
    /\ mtimes' = [f \in File |-> IF f \in ConfInc THEN disk[f] ELSE 0]
    /\ depends_cache' = Empty /\ cacheclean' = TRUE /\ todo' = {}
    /\ parsed' = NoEntry /\ status' = Empty
    /\ errors' = FALSE /\ parseErrors' = FALSE /\ interrupted' = FALSE
    /\ seen' = [f \in File |-> {disk[f]}]
    /\ UNCHANGED <<disk, clock, edits, cachefile, quiet, interrupts>>

\* The cache is not loaded when the configuration is newer.
UpToDate == \A f \in ConfInc : cachefile.mtime >= mtimes[f]

\* Cache.__init__; the recipes are those that are there.
Load ==
    /\ pc = "load"
    /\ depends_cache' = IF UpToDate /\ cachefile.whole
                        THEN cachefile.entries ELSE Empty
    /\ todo' = {i \in DOMAIN Recipes : disk[Recipes[i]] # 0}
    /\ pc' = "check"
    /\ UNCHANGED <<world, cachefile, mtimes, conf, cacheclean, parsed, status, result, quiet, runs,
                   interrupts>>

first == CHOOSE i \in todo : \A j \in todo : i <= j
fn == Recipes[first]
entry == depends_cache[fn]
Cached == fn \in DOMAIN depends_cache
Stamped == Cached /\ "CACHETIMESTAMP" \in entry.vars

\* Mutant: only the recipe's own mtime is compared.
CleanOwn == Stamped /\ Mtime(fn) # 0 /\ Mtime(fn) = entry.stamp

Clean ==
    /\ Stamped
    /\ Mtime(fn) # 0 /\ Mtime(fn) = entry.stamp
    /\ \A i \in DOMAIN entry.depends : Mtime(i) = entry.depends[i]

NextRecipe == pc' = "check" /\ todo' = todo \ {first}

Evict == depends_cache' = Without(depends_cache, fn)

\* cacheValidUpdate finds no entry, and has not looked at the file.
CheckNotCached ==
    /\ pc = "check" /\ todo # {} /\ ~Cached
    /\ pc' = "parse"
    /\ UNCHANGED <<world, cachefile, memory, result, quiet, runs, interrupts>>

\* It finds that the file is gone or something has changed.
CheckOutdated ==
    /\ pc = "check" /\ todo # {} /\ Cached /\ ~Clean
    /\ Mtime(fn) = 0 \/ Stamped
    /\ \E looked \in SUBSET DOMAIN entry.depends :
          /\ looked = {} <=> Mtime(fn) = 0 \/ Mtime(fn) # entry.stamp
          /\ looked # {} => \E i \in looked : Mtime(i) # entry.depends[i]
          /\ mtimes' = Looked({fn} \cup looked)
    /\ Evict
    /\ pc' = "parse"
    /\ UNCHANGED <<world, cachefile, conf, cacheclean, todo, parsed, status, result, quiet, runs,
                   interrupts>>

\* The entry is used: SKIPPED, or every variable of handle_data is there.
UseEntry ==
    /\ pc = "check" /\ todo # {} /\ Clean
    /\ {"SKIPPED", "variables"} \cap entry.vars # {}
    /\ mtimes' = Looked({fn} \cup DOMAIN entry.depends)
    /\ status' = IF "SKIPPED" \in entry.vars THEN status ELSE With(status, fn, entry.content)
    /\ NextRecipe
    /\ UNCHANGED <<world, cachefile, conf, depends_cache, cacheclean, parsed, result, quiet, runs,
                   interrupts>>

\* getVar raises KeyError on an entry that lacks a variable; parse_bbfiles
\* counts an error and takes the recipe out.
EntryIncomplete ==
    /\ pc = "check" /\ todo # {} /\ Cached /\ Mtime(fn) # 0
    /\ ~Stamped \/ (Clean /\ {"SKIPPED", "variables"} \cap entry.vars = {})
    /\ mtimes' = Looked({fn} \cup IF Stamped THEN DOMAIN entry.depends ELSE {})
    /\ Evict
    /\ errors' = TRUE
    /\ NextRecipe
    /\ UNCHANGED <<world, cachefile, conf, cacheclean, parsed, status, parseErrors, interrupted, quiet,
                   runs, interrupts>>

\* load_bbfile.  An optional file that is not there is passed over, and is not a
\* dependency; the others are marked with their mtime before they are read.
Parse ==
    /\ pc = "parse" /\ disk[fn] # 0
    /\ \A i \in Includes[fn] \ Optional : disk[i] # 0
    /\ LET there == {i \in Includes[fn] : disk[i] # 0}
       IN  /\ mtimes' = Looked(there)
           /\ \E skip \in {{}, {"SKIPPED"}} :
                 parsed' = [vars |-> skip, depends |-> [i \in there |-> Mtime(i)], stamp |-> 0,
                            content |-> [f \in Sources(fn) |-> IF f \in Conf THEN conf[f] ELSE disk[f]]]
    /\ pc' = "setdata"
    /\ UNCHANGED <<world, cachefile, conf, depends_cache, cacheclean, todo, status, result, quiet, runs,
                   interrupts>>

\* A parse error is counted; a recipe that cannot be opened is not.
ParseFails ==
    /\ pc = "parse"
    /\ mtimes' = IF disk[fn] = 0 THEN mtimes ELSE Looked({i \in Includes[fn] : disk[i] # 0})
    /\ errors' = (errors \/ disk[fn] # 0)
    /\ parseErrors' = (parseErrors \/ disk[fn] # 0)
    /\ Evict
    /\ NextRecipe
    /\ UNCHANGED <<world, cachefile, conf, cacheclean, parsed, status, interrupted, quiet, runs,
                   interrupts>>

\* setData: __depends first, then the time stamp.
SetDepends ==
    /\ pc = "setdata"
    /\ depends_cache' = With(depends_cache, fn, [parsed EXCEPT !.vars = {"__depends"}])
    /\ cacheclean' = FALSE
    /\ pc' = "stamp"
    /\ UNCHANGED <<world, cachefile, mtimes, conf, todo, parsed, status, result, quiet, runs, interrupts>>

SetStamp ==
    /\ pc = "stamp" /\ Mtime(fn) # 0
    /\ mtimes' = Looked({fn})
    /\ depends_cache' = [depends_cache EXCEPT ![fn].vars = @ \cup {"CACHETIMESTAMP"},
                                              ![fn].stamp = Mtime(fn)]
    /\ pc' = "handle"
    /\ UNCHANGED <<world, cachefile, conf, cacheclean, todo, parsed, status, result, quiet, runs,
                   interrupts>>

\* os.stat raises OSError when the recipe has gone meanwhile.
StampFails ==
    /\ pc = "stamp" /\ Mtime(fn) = 0
    /\ errors' = TRUE /\ parseErrors' = TRUE
    /\ Evict
    /\ NextRecipe
    /\ UNCHANGED <<world, cachefile, mtimes, conf, cacheclean, parsed, status, interrupted, quiet, runs,
                   interrupts>>

\* Mutant: skip does not mark the entry.
HandledUnmarked == IF "SKIPPED" \in parsed.vars THEN {} ELSE {"variables"}

\* skip or handle_data: what they add to the entry.
Handled == IF "SKIPPED" \in parsed.vars THEN {"SKIPPED"} ELSE {"variables"}

Handle ==
    /\ pc = "handle"
    /\ depends_cache' = [depends_cache EXCEPT ![fn].vars = @ \cup Handled]
    /\ status' = IF "SKIPPED" \in parsed.vars THEN status ELSE With(status, fn, parsed.content)
    /\ NextRecipe
    /\ UNCHANGED <<world, cachefile, mtimes, conf, cacheclean, parsed, result, quiet, runs, interrupts>>

Outcome == CASE interrupted -> "interrupted"
             [] ~interrupted /\ errors -> "failed"
             [] OTHER -> "built"

\* sync: nothing is written when nothing was learnt.  The file is truncated
\* when it is opened, and complete when the dump is.
SyncClean ==
    /\ pc = "check" /\ todo = {} /\ cacheclean
    /\ pc' = Outcome
    /\ UNCHANGED <<world, cachefile, memory, result, quiet, runs, interrupts>>

SyncOpen ==
    /\ pc = "check" /\ todo = {} /\ ~cacheclean
    /\ cachefile' = [mtime |-> clock, whole |-> FALSE, entries |-> Empty]
    /\ pc' = "dump"
    /\ UNCHANGED <<world, memory, result, quiet, runs, interrupts>>

\* Mutant: the recipes that were skipped are left out.
SavedNoSkipped == {f \in DOMAIN depends_cache \ DontCache : "SKIPPED" \notin depends_cache[f].vars}

\* __BB_DONT_CACHE is the last variable handle_data reads.
Saved == {f \in DOMAIN depends_cache : ~(f \in DontCache /\ "variables" \in depends_cache[f].vars)}

Dump ==
    /\ pc = "dump"
    /\ cachefile' = [mtime |-> clock, whole |-> TRUE, entries |-> Restrict(depends_cache, Saved)]
    /\ pc' = Outcome
    /\ UNCHANGED <<world, memory, result, quiet, runs, interrupts>>

\* ^C while recipes are handled: parse_bbfiles saves what there is.
Interrupt ==
    /\ pc \in {"check", "parse", "setdata", "stamp", "handle"} /\ todo # {}
    /\ interrupts < MaxInterrupts
    /\ interrupts' = interrupts + 1
    /\ interrupted' = TRUE
    /\ pc' = "check" /\ todo' = {}
    /\ UNCHANGED <<world, cachefile, mtimes, conf, depends_cache, cacheclean, parsed, status, errors,
                   parseErrors, quiet, runs>>

\* The process is killed.
Kill ==
    /\ Running /\ interrupts < MaxInterrupts
    /\ interrupts' = interrupts + 1
    /\ pc' = "idle"
    /\ quiet' = (quiet /\ pc # "dump")
    /\ UNCHANGED <<world, cachefile, memory, result, runs>>

Finish ==
    /\ pc \in {"built", "failed", "interrupted"}
    /\ pc' = "idle"
    /\ quiet' = (quiet \/ (pc = "built" /\ \A f \in File : seen[f] = {disk[f]}))
    /\ UNCHANGED <<world, cachefile, memory, result, runs, interrupts>>

NewVersions(f) ==
    IF pc # "idle" /\ f \notin EditBusy
    THEN {0}
    ELSE {clock + 1} \cup (IF f \in Conf THEN {} ELSE {0})
                     \cup (IF f \in Restored THEN 1 .. clock ELSE {})

\* Somebody changes, restores or removes a file.
Edit(f) ==
    /\ edits < MaxEdits
    /\ f \in IF pc = "idle" THEN EditIdle ELSE EditBusy \cup RemoveBusy
    /\ edits' = edits + 1
    /\ \E v \in NewVersions(f) \ {disk[f]} :
          /\ disk' = [disk EXCEPT ![f] = v]
          /\ seen' = [seen EXCEPT ![f] = @ \cup {v}]
    /\ clock' = clock + 1
    /\ quiet' = FALSE
    /\ UNCHANGED <<cachefile, pc, memory, result, runs, interrupts>>

\* Everybody has had enough.
Done == pc = "idle" /\ runs = MaxRuns /\ UNCHANGED vars

Next ==
    \/ Start \/ Load \/ CheckNotCached \/ CheckOutdated \/ UseEntry \/ EntryIncomplete
    \/ Parse \/ ParseFails \/ SetDepends \/ SetStamp \/ StampFails \/ Handle
    \/ SyncClean \/ SyncOpen \/ Dump \/ Interrupt \/ Kill \/ Finish \/ Done
    \/ \E f \in File : Edit(f)

Spec == Init /\ [][Next]_vars

-----------------------------------------------------------------------------
\* cache.py:423 "For each cached file we need to track" its mtime and the
\* mtimes of all its dependencies.  Whatever bitbake builds from was in the
\* file it comes from at some moment of this very invocation, over edits,
\* files that come and go, kills and interrupts.
NeverStale == \A f \in DOMAIN status : \A s \in Sources(f) : status[f][s] \in seen[s]

\* cache.py:430 "Files causing parsing errors are evicted from the cache": an
\* invocation fails only because a recipe could not be parsed in it, never
\* because of what an earlier one left in the cache.
FailsForReason == pc = "failed" => parseErrors

\* The same, as long as nobody has interrupted or killed an invocation: skipped
\* recipes, recipes that come and go and failures saved around leave no entry
\* that getVar cannot use.
FailsOnlyAfterInterrupt == interrupts = 0 => FailsForReason

\* When nothing has been edited since an invocation that built everything, no
\* recipe is parsed again, whatever ended the invocations in between, unless
\* one was killed while it saved.
NothingParsedTwice == quiet /\ pc = "parse" => fn \in DontCache

TypeOK ==
    /\ disk \in [File -> 0 .. clock] /\ mtimes \in [File -> 0 .. clock]
    /\ todo \subseteq DOMAIN Recipes
    /\ cachefile.mtime \in 0 .. clock
    /\ DOMAIN depends_cache \cup DOMAIN status \subseteq Fn
    /\ \A f \in DOMAIN depends_cache :
          /\ DOMAIN depends_cache[f].depends \subseteq Includes[f]
          /\ DOMAIN depends_cache[f].content = Sources(f)
          /\ "__depends" \in depends_cache[f].vars
=============================================================================
