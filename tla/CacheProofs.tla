----------------------------- MODULE CacheProofs ------------------------------
(***************************************************************************)
(* Proofs about the recipe cache, for any recipes and any number of edits, *)
(* invocations and interrupts.                                             *)
(***************************************************************************)
EXTENDS Cache, WellFoundedInduction, TLAPS

\* A recipe is being parsed; its entry is being made.
Parsing == pc \in {"parse", "setdata", "stamp", "handle"}
Making == pc \in {"stamp", "handle"}

EntryShape(e) ==
    /\ e = [vars |-> e.vars, depends |-> e.depends, stamp |-> e.stamp, content |-> e.content]
    /\ DOMAIN e.depends \subseteq File

ShapeInv ==
    /\ interrupts \in Nat
    /\ todo \subseteq DOMAIN Recipes
    /\ Parsing => todo # {}
    /\ Making => fn \in DOMAIN depends_cache
    /\ EntryShape(parsed) /\ parsed.vars \subseteq {"SKIPPED"}
    /\ depends_cache = [f \in DOMAIN depends_cache |-> depends_cache[f]]
    /\ cachefile = [mtime |-> cachefile.mtime, whole |-> cachefile.whole,
                    entries |-> cachefile.entries]
    /\ cachefile.entries = [f \in DOMAIN cachefile.entries |-> cachefile.entries[f]]
    /\ \A f \in DOMAIN depends_cache : EntryShape(depends_cache[f])
    /\ \A f \in DOMAIN cachefile.entries : EntryShape(cachefile.entries[f])

-----------------------------------------------------------------------------
\* A set of positions has a least one.
LEMMA FirstInTodo ==
    ASSUME ShapeInv, todo # {} PROVE first \in todo /\ fn \in Fn
<1>1. DOMAIN Recipes \subseteq Nat
  BY CacheAssumption
<1> DEFINE Less == {ss \in Nat \X Nat : ss[1] < ss[2]}
<1>2. IsWellFoundedOn(Less, Nat)
  BY NatLessThanWellFounded, Zenon DEF OpToRel
<1>3. PICK i \in todo : \A j \in todo : i <= j
  <2>1. PICK i \in todo : \A j \in todo : ~(<<j, i>> \in Less)
    <3> HIDE DEF Less
    <3> QED
      BY <1>1, <1>2, WFMin, Zenon DEF ShapeInv
  <2>2. \A j \in todo : i \in Nat /\ j \in Nat /\ ~(j < i)
    BY <1>1, <2>1 DEF ShapeInv
  <2> QED
    BY <2>1, <2>2
<1>4. first \in todo
  BY <1>3 DEF first
<1> QED
  BY <1>4 DEF fn, ShapeInv, Fn, Range

-----------------------------------------------------------------------------
\* Writing to the fields of an entry, and to the table of entries.
LEMMA EntryWrite ==
    ASSUME NEW e, EntryShape(e), NEW v, NEW t
    PROVE  /\ [e EXCEPT !.vars = v] = [vars |-> v, depends |-> e.depends, stamp |-> e.stamp,
                                       content |-> e.content]
           /\ [e EXCEPT !.stamp = t] = [vars |-> e.vars, depends |-> e.depends, stamp |-> t,
                                        content |-> e.content]
  BY DEF EntryShape

LEMMA WithProperties ==
    ASSUME NEW f, NEW x, NEW v
    PROVE  /\ With(f, x, v) = [y \in DOMAIN With(f, x, v) |-> With(f, x, v)[y]]
           /\ DOMAIN With(f, x, v) = DOMAIN f \cup {x}
           /\ With(f, x, v)[x] = v
           /\ \A y \in DOMAIN f : y # x => With(f, x, v)[y] = f[y]
  BY DEF With

LEMMA WithoutProperties ==
    ASSUME NEW f, NEW x
    PROVE  /\ Without(f, x) = [y \in DOMAIN Without(f, x) |-> Without(f, x)[y]]
           /\ DOMAIN Without(f, x) = DOMAIN f \ {x}
           /\ \A y \in DOMAIN f : y # x => Without(f, x)[y] = f[y]
  BY DEF Without, Restrict

LEMMA RestrictProperties ==
    ASSUME NEW f, NEW S
    PROVE  /\ Restrict(f, S) = [y \in DOMAIN Restrict(f, S) |-> Restrict(f, S)[y]]
           /\ DOMAIN Restrict(f, S) = S
           /\ \A y \in S : Restrict(f, S)[y] = f[y]
  BY DEF Restrict

\* What setData and what follows it leave in the entry of the recipe.
LEMMA MadeEntry ==
    ASSUME ShapeInv
    PROVE  /\ SetDepends =>
                /\ DOMAIN depends_cache' = DOMAIN depends_cache \cup {fn}
                /\ depends_cache'[fn] = [vars |-> {"__depends"}, depends |-> parsed.depends,
                                         stamp |-> parsed.stamp, content |-> parsed.content]
           /\ SetStamp =>
                /\ DOMAIN depends_cache' = DOMAIN depends_cache
                /\ depends_cache'[fn] =
                      [depends_cache[fn] EXCEPT !.vars = @ \cup {"CACHETIMESTAMP"}, !.stamp = Mtime(fn)]
           /\ Handle =>
                /\ DOMAIN depends_cache' = DOMAIN depends_cache
                /\ depends_cache'[fn] = [depends_cache[fn] EXCEPT !.vars = @ \cup Handled]
           /\ SetDepends \/ SetStamp \/ Handle =>
                /\ depends_cache' = [f \in DOMAIN depends_cache' |-> depends_cache'[f]]
                /\ \A f \in DOMAIN depends_cache : f # fn => depends_cache'[f] = depends_cache[f]
<1>1. ASSUME SetDepends
      PROVE  /\ DOMAIN depends_cache' = DOMAIN depends_cache \cup {fn}
             /\ depends_cache'[fn] = [vars |-> {"__depends"}, depends |-> parsed.depends,
                                         stamp |-> parsed.stamp, content |-> parsed.content]
             /\ depends_cache' = [f \in DOMAIN depends_cache' |-> depends_cache'[f]]
             /\ \A f \in DOMAIN depends_cache : f # fn => depends_cache'[f] = depends_cache[f]
  <2> DEFINE e == [parsed EXCEPT !.vars = {"__depends"}]
  <2>1. e = [vars |-> {"__depends"}, depends |-> parsed.depends,
             stamp |-> parsed.stamp, content |-> parsed.content]
    BY EntryWrite DEF ShapeInv
  <2>2. depends_cache' = With(depends_cache, fn, e)
    BY <1>1 DEF SetDepends
  <2> HIDE DEF e
  <2>3. /\ DOMAIN depends_cache' = DOMAIN depends_cache \cup {fn}
        /\ depends_cache' = [f \in DOMAIN depends_cache' |-> depends_cache'[f]]
    BY <2>2 DEF With
  <2>4. depends_cache'[fn] = e
    BY <2>2 DEF With
  <2>5. \A f \in DOMAIN depends_cache : f # fn => depends_cache'[f] = depends_cache[f]
    BY <2>2 DEF With
  <2> QED
    BY <2>1, <2>3, <2>4, <2>5
<1>2. ASSUME SetStamp
      PROVE  /\ DOMAIN depends_cache' = DOMAIN depends_cache
             /\ depends_cache'[fn] =
                      [depends_cache[fn] EXCEPT !.vars = @ \cup {"CACHETIMESTAMP"}, !.stamp = Mtime(fn)]
             /\ depends_cache' = [f \in DOMAIN depends_cache' |-> depends_cache'[f]]
             /\ \A f \in DOMAIN depends_cache : f # fn => depends_cache'[f] = depends_cache[f]
  BY <1>2 DEF SetStamp, ShapeInv, Making
<1>3. ASSUME Handle
      PROVE  /\ DOMAIN depends_cache' = DOMAIN depends_cache
             /\ depends_cache'[fn] = [depends_cache[fn] EXCEPT !.vars = @ \cup Handled]
             /\ depends_cache' = [f \in DOMAIN depends_cache' |-> depends_cache'[f]]
             /\ \A f \in DOMAIN depends_cache : f # fn => depends_cache'[f] = depends_cache[f]
  BY <1>3 DEF Handle, ShapeInv, Making
<1> QED
  BY <1>1, <1>2, <1>3

LEMMA EvictProperties ==
    ASSUME Evict
    PROVE  /\ depends_cache' = [f \in DOMAIN depends_cache' |-> depends_cache'[f]]
           /\ DOMAIN depends_cache' = DOMAIN depends_cache \ {fn}
           /\ \A f \in DOMAIN depends_cache' : depends_cache'[f] = depends_cache[f]
  BY DEF Evict, Without, Restrict

LEMMA ShapeInit == Init => ShapeInv
  BY DEF Init, ShapeInv, Parsing, Making, EntryShape, NoEntry, Empty

LEMMA ShapeMade ==
    ASSUME ShapeInv, SetDepends \/ SetStamp \/ Handle PROVE ShapeInv'
<1>1. EntryShape(depends_cache'[fn]) /\ fn \in DOMAIN depends_cache'
  <2>1. CASE SetDepends
    BY <2>1, MadeEntry DEF EntryShape, ShapeInv
  <2>2. CASE SetStamp
    <3>1. EntryShape(depends_cache[fn]) /\ fn \in DOMAIN depends_cache
      BY <2>2 DEF SetStamp, ShapeInv, Making
    <3> QED
      BY <2>2, <3>1, MadeEntry DEF EntryShape
  <2>3. CASE Handle
    <3>1. EntryShape(depends_cache[fn]) /\ fn \in DOMAIN depends_cache
      BY <2>3 DEF Handle, ShapeInv, Making
    <3> QED
      BY <2>3, <3>1, MadeEntry DEF EntryShape
  <2> QED
    BY <2>1, <2>2, <2>3
<1>2. \A f \in DOMAIN depends_cache' : EntryShape(depends_cache'[f])
  <2> SUFFICES ASSUME NEW f \in DOMAIN depends_cache' PROVE EntryShape(depends_cache'[f])
    OBVIOUS
  <2>1. CASE f = fn
    BY <1>1, <2>1
  <2>2. CASE f # fn
    <3>1. f \in DOMAIN depends_cache /\ depends_cache'[f] = depends_cache[f]
      BY <2>2, MadeEntry
    <3> QED
      BY <3>1 DEF ShapeInv
  <2> QED
    BY <2>1, <2>2
<1>3. depends_cache' = [f \in DOMAIN depends_cache' |-> depends_cache'[f]]
  BY MadeEntry
<1>4. UNCHANGED <<cachefile, parsed, interrupts>>
  BY DEF SetDepends, SetStamp, Handle
<1>5. todo' \subseteq todo /\ (Parsing' => UNCHANGED todo /\ todo # {}) /\ (Making' => fn \in DOMAIN depends_cache')
  BY <1>1 DEF SetDepends, SetStamp, Handle, NextRecipe, ShapeInv, Parsing, Making
<1>6. Making' => fn' = fn
  BY DEF SetDepends, SetStamp, Handle, NextRecipe, fn, first, Making
<1> QED
  BY <1>2, <1>3, <1>4, <1>5, <1>6 DEF ShapeInv

LEMMA ShapeNext == ShapeInv /\ [Next]_vars => ShapeInv'
<1> SUFFICES ASSUME ShapeInv, [Next]_vars PROVE ShapeInv'
  OBVIOUS
<1> USE DEF ShapeInv, Parsing, Making
<1>1. CASE UNCHANGED vars
  BY <1>1 DEF vars, memory, world, result, fn, first
<1>2. CASE Start
  BY <1>2 DEF Start, EntryShape, NoEntry, Empty
<1>3. CASE Load
  BY <1>3 DEF Load, Empty
<1>4. CASE CheckNotCached
  BY <1>4 DEF CheckNotCached, memory
<1>5. CASE CheckOutdated \/ EntryIncomplete \/ ParseFails \/ StampFails
  <2>1. Evict /\ UNCHANGED <<cachefile, parsed, interrupts>> /\ todo' \subseteq todo /\ ~Making'
        /\ (Parsing' => UNCHANGED todo /\ todo # {})
    BY <1>5 DEF CheckOutdated, EntryIncomplete, ParseFails, StampFails, NextRecipe
  <2> QED
    BY <2>1, EvictProperties
<1>6. CASE UseEntry
  BY <1>6 DEF UseEntry, NextRecipe
<1>7. CASE Parse
  <2>1. fn \in Fn /\ Includes[fn] \subseteq File
    BY <1>7, FirstInTodo, CacheAssumption DEF Parse, File
  <2>2. EntryShape(parsed') /\ parsed'.vars \subseteq {"SKIPPED"}
    BY <1>7, <2>1 DEF Parse, EntryShape
  <2> QED
    BY <1>7, <2>2 DEF Parse
<1>8. CASE SetDepends \/ SetStamp \/ Handle
  BY <1>8, ShapeMade
<1>9. CASE SyncClean
  BY <1>9 DEF SyncClean, memory, Outcome
<1>10. CASE SyncOpen
  BY <1>10 DEF SyncOpen, memory, Empty
<1>11. CASE Dump
  <2>1. \A f \in Saved : f \in DOMAIN depends_cache
    BY DEF Saved
  <2> QED
    BY <1>11, <2>1 DEF Dump, memory, Outcome, Restrict
<1>12. CASE Interrupt
  BY <1>12 DEF Interrupt
<1>13. CASE Kill
  BY <1>13 DEF Kill, memory
<1>14. CASE Finish
  BY <1>14 DEF Finish, memory
<1>15. ASSUME NEW f \in File, Edit(f) PROVE ShapeInv'
  BY <1>15 DEF Edit, memory, fn, first
<1> QED
  BY <1>1, <1>2, <1>3, <1>4, <1>5, <1>6, <1>7, <1>8, <1>9, <1>10, <1>11, <1>12, <1>13,
     <1>14, <1>15 DEF Next, Done

-----------------------------------------------------------------------------
(***************************************************************************)
(* Only an interrupt leaves an entry that cannot be used.                  *)
(***************************************************************************)
Usable(e) == "CACHETIMESTAMP" \in e.vars /\ {"SKIPPED", "variables"} \cap e.vars # {}

\* Until an interrupt every entry is complete but the one that is being made,
\* and whatever is counted as an error is one of parsing.
UsableInv ==
    interrupts = 0 =>
        /\ \A f \in DOMAIN cachefile.entries : Usable(cachefile.entries[f])
        /\ \A f \in DOMAIN depends_cache : Usable(depends_cache[f]) \/ (Making /\ f = fn)
        /\ pc = "handle" => "CACHETIMESTAMP" \in depends_cache[fn].vars
        /\ errors => parseErrors
        /\ pc = "failed" => errors

LEMMA UsableInit == Init => UsableInv
  BY DEF Init, UsableInv, Empty

LEMMA UsableMade ==
    ASSUME ShapeInv, UsableInv, interrupts = 0, SetDepends \/ SetStamp \/ Handle
    PROVE  /\ \A f \in DOMAIN depends_cache' : Usable(depends_cache'[f]) \/ (Making' /\ f = fn')
           /\ pc' = "handle" => "CACHETIMESTAMP" \in depends_cache'[fn'].vars
<1>1. ASSUME NEW f \in DOMAIN depends_cache', f # fn PROVE Usable(depends_cache'[f])
  <2>1. f \in DOMAIN depends_cache /\ depends_cache'[f] = depends_cache[f]
    BY <1>1, MadeEntry
  <2> QED
    BY <1>1, <2>1 DEF UsableInv
<1>2. CASE SetDepends
  BY <1>1, <1>2 DEF SetDepends, Making, fn, first
<1>3. CASE SetStamp
  <2>1. EntryShape(depends_cache[fn])
    BY <1>3 DEF SetStamp, ShapeInv, Making
  <2>2. "CACHETIMESTAMP" \in depends_cache'[fn].vars
    BY <1>3, <2>1, MadeEntry DEF EntryShape
  <2> QED
    BY <1>1, <1>3, <2>2 DEF SetStamp, Making, fn, first
<1>4. CASE Handle
  <2>1. EntryShape(depends_cache[fn]) /\ "CACHETIMESTAMP" \in depends_cache[fn].vars
    BY <1>4 DEF Handle, ShapeInv, Making, UsableInv
  <2>2. Usable(depends_cache'[fn])
    BY <1>4, <2>1, MadeEntry DEF EntryShape, Usable, Handled
  <2> QED
    BY <1>1, <1>4, <2>2 DEF Handle, NextRecipe
<1> QED
  BY <1>2, <1>3, <1>4

LEMMA UsableNext == ShapeInv /\ UsableInv /\ [Next]_vars => UsableInv'
<1> SUFFICES ASSUME ShapeInv, UsableInv, [Next]_vars, interrupts' = 0 PROVE UsableInv'
  BY DEF UsableInv
<1>1. CASE UNCHANGED vars
  BY <1>1 DEF vars, memory, world, result, UsableInv, Making, fn, first
<1>2. CASE Start
  BY <1>2 DEF Start, UsableInv, Empty
<1>3. CASE Load
  BY <1>3 DEF Load, UsableInv, Empty, Making, result
<1>4. CASE CheckNotCached
  BY <1>4 DEF CheckNotCached, memory, result, UsableInv, Making
<1>5. CASE CheckOutdated \/ ParseFails
  BY <1>5, EvictProperties DEF CheckOutdated, ParseFails, NextRecipe, result, UsableInv, Making
<1>6. CASE StampFails
  BY <1>6, EvictProperties DEF StampFails, NextRecipe, UsableInv, Making
<1>7. CASE EntryIncomplete
  BY <1>7 DEF EntryIncomplete, UsableInv, Usable, Making, Cached, Stamped, entry
<1>8. CASE UseEntry
  BY <1>8 DEF UseEntry, NextRecipe, result, UsableInv, Making
<1>9. CASE Parse
  BY <1>9 DEF Parse, result, UsableInv, Making
<1>10. CASE SetDepends \/ SetStamp \/ Handle
  <2>1. interrupts = 0
    BY <1>10 DEF SetDepends, SetStamp, Handle
  <2> QED
    BY <1>10, <2>1, UsableMade DEF SetDepends, SetStamp, Handle, NextRecipe, result, UsableInv
<1>11. CASE SyncClean
  BY <1>11 DEF SyncClean, memory, result, UsableInv, Making, Outcome
<1>12. CASE SyncOpen
  BY <1>12 DEF SyncOpen, memory, result, UsableInv, Making, Empty
<1>13. CASE Dump
  <2>1. \A f \in Saved : f \in DOMAIN depends_cache
    BY DEF Saved
  <2> QED
    BY <1>13, <2>1 DEF Dump, memory, result, UsableInv, Making, Outcome, Restrict
<1>14. CASE Interrupt \/ Kill
  BY <1>14 DEF Interrupt, Kill, ShapeInv
<1>15. CASE Finish
  BY <1>15 DEF Finish, memory, result, UsableInv, Making
<1>16. ASSUME NEW f \in File, Edit(f) PROVE UsableInv'
  BY <1>16 DEF Edit, memory, result, UsableInv, Making, fn, first
<1> QED
  BY <1>1, <1>2, <1>3, <1>4, <1>5, <1>6, <1>7, <1>8, <1>9, <1>10, <1>11, <1>12, <1>13,
     <1>14, <1>15, <1>16 DEF Next, Done

LEMMA ShapeInvHolds == Spec => []ShapeInv
  BY ShapeInit, ShapeNext, PTL DEF Spec

\* However often invocations are ended by the failures of recipes, recipes come
\* and go, and configuration changes: until an invocation is interrupted or
\* killed one fails only because a recipe of that invocation cannot be parsed.
THEOREM FailsOnlyAfterInterruptHolds == Spec => []FailsOnlyAfterInterrupt
<1>1. UsableInv => FailsOnlyAfterInterrupt
  BY DEF UsableInv, FailsOnlyAfterInterrupt, FailsForReason
<1> QED
  BY <1>1, UsableInit, UsableNext, ShapeInvHolds, PTL DEF Spec

-----------------------------------------------------------------------------
(***************************************************************************)
(* What the cache can keep track of.  Each conjunct leaves out a case in   *)
(* which NeverStale does not hold: a file that is no dependency, one whose *)
(* content is not the one of the mtime that is kept for it, and one that   *)
(* gets back the mtime that was kept for another content.                  *)
(***************************************************************************)
Tracked ==
    /\ Optional = {}
    /\ MainConf \notin EditIdle \cup EditBusy
    /\ EditBusy \cap (Conf \cup Fn) = {}
    /\ Restored \cap (Conf \cup EditBusy) = {}

VersionInv ==
    /\ clock \in Nat
    /\ disk \in [File -> 0 .. clock] /\ mtimes \in [File -> 0 .. clock]
    /\ seen \in [File -> SUBSET Nat]
    /\ \A f \in Conf : disk[f] # 0
    /\ \A f \in File : disk[f] \in seen[f]
    /\ \A f \in File : mtimes[f] # 0 => mtimes[f] \in seen[f]
    \* Of a file that was looked at the mtime is known, unless it changes meanwhile.
    /\ pc # "idle" =>
           \A f \in File \ EditBusy : mtimes[f] # 0 => disk[f] \in {0, mtimes[f]}
    /\ pc # "idle" => conf = [f \in Conf |-> disk[f]]
    /\ pc # "idle" => \A f \in ConfInc : mtimes[f] = disk[f]
    /\ pc = "load" => \A f \in File \ ConfInc : mtimes[f] = 0

EntryType(e, f) ==
    /\ DOMAIN e.content = Sources(f) /\ DOMAIN e.depends = Includes[f]
    /\ \A s \in Includes[f] : e.depends[s] \in 1 .. clock

\* The mtime of a dependency is that of its content, or nothing will ever have
\* that mtime again.
Saveable(e, s) ==
    e.content[s] = e.depends[s] \/ (s \notin Restored /\ disk[s] # e.depends[s])

\* The entries in memory: beyond that, what this invocation still takes for
\* the mtime of such a dependency makes the entry outdated, or it was read just now.
InMemory(e, f) ==
    /\ EntryType(e, f)
    /\ "CACHETIMESTAMP" \in e.vars => e.stamp = e.content[f]
    /\ \A s \in Conf : e.content[s] = disk[s]
    /\ \A s \in Includes[f] :
          /\ Saveable(e, s)
          /\ \/ e.content[s] = e.depends[s]
             \/ mtimes[s] # e.depends[s]
             \/ e.content[s] \in seen[s]

MemoryInv ==
    pc # "idle" =>
        \A f \in DOMAIN depends_cache : f \in Fn /\ InMemory(depends_cache[f], f)

\* The entries in the file: what was made from another configuration is older
\* than the configuration.
InFile(e, f) ==
    /\ EntryType(e, f)
    /\ "CACHETIMESTAMP" \in e.vars => e.stamp = e.content[f]
    /\ \A s \in Conf : \/ e.content[s] = disk[s]
                       \/ s \in ConfInc /\ cachefile.mtime < disk[s]
    /\ \A s \in Includes[f] : Saveable(e, s)

FileInv ==
    /\ cachefile.mtime \in 0 .. clock
    /\ \A f \in DOMAIN cachefile.entries : f \in Fn /\ InFile(cachefile.entries[f], f)

\* A recipe that was parsed in this invocation; until it is stamped its mtime is
\* the one of its content.
Read(e) ==
    /\ EntryType(e, fn)
    /\ \A s \in Sources(fn) : e.content[s] \in seen[s]
    /\ \A s \in Conf : e.content[s] = disk[s]
    /\ \A s \in Includes[fn] : Saveable(e, s)

Unchanged(e) ==
    e.content[fn] # 0 /\ disk[fn] \in {0, e.content[fn]} /\ mtimes[fn] \in {0, e.content[fn]}

ParsedInv ==
    /\ pc \in {"setdata", "stamp", "handle"} => Read(parsed)
    /\ pc = "setdata" => Unchanged(parsed)
    /\ pc = "stamp" => Unchanged(depends_cache[fn])

StatusInv == DOMAIN status \subseteq Fn /\ NeverStale

StaleInv == VersionInv /\ MemoryInv /\ FileInv /\ ParsedInv /\ StatusInv

-----------------------------------------------------------------------------
LEMMA StaleInit == Init => StaleInv
<1> SUFFICES ASSUME Init PROVE StaleInv
  OBVIOUS
<1>1. VersionInv
  BY DEF Init, VersionInv, File, Empty
<1>2. MemoryInv /\ FileInv /\ ParsedInv /\ StatusInv
  BY DEF Init, MemoryInv, FileInv, ParsedInv, StatusInv, NeverStale, Empty
<1> QED
  BY <1>1, <1>2 DEF StaleInv

\* Looking at files changes no mtime that is known, and takes the others from the disk.
LEMMA VersionLook ==
    ASSUME VersionInv, pc # "idle", pc' # "load", UNCHANGED <<disk, clock, seen, conf>>,
           NEW files, mtimes' = Looked(files)
    PROVE  /\ VersionInv'
           /\ \A f \in File : /\ mtimes'[f] \in {mtimes[f], disk[f]}
                              /\ mtimes[f] # 0 => mtimes'[f] = mtimes[f]
                              /\ f \in files => mtimes'[f] = Mtime(f)
<1>1. mtimes' = [f \in File |-> IF f \in files THEN Mtime(f) ELSE mtimes[f]]
  BY DEF Looked
<1>2. \A f \in File : /\ mtimes'[f] \in {mtimes[f], disk[f]}
                      /\ mtimes[f] # 0 => mtimes'[f] = mtimes[f]
                      /\ f \in files => mtimes'[f] = Mtime(f)
  BY <1>1 DEF Mtime
<1>3. mtimes' \in [File -> 0 .. clock']
  BY <1>1, <1>2 DEF VersionInv
<1> QED
  BY <1>2, <1>3 DEF VersionInv, Conf, File

LEMMA VersionSame ==
    ASSUME VersionInv, UNCHANGED <<disk, clock, seen, conf, mtimes>>,
           pc = "idle" => pc' = "idle", pc' = "load" => pc = "load"
    PROVE  VersionInv'
  BY DEF VersionInv

\* What a change on disk can be, and that configuration never changes while
\* bitbake runs.
LEMMA EditFacts ==
    ASSUME Tracked, VersionInv, NEW f \in File, Edit(f)
    PROVE  /\ UNCHANGED pc /\ clock' = clock + 1
           /\ disk'[f] \in 0 .. clock + 1 /\ disk'[f] \in seen'[f]
           /\ disk' = [disk EXCEPT ![f] = disk'[f]]
           /\ seen' = [seen EXCEPT ![f] = @ \cup {disk'[f]}]
           /\ f \in Conf => disk'[f] = clock + 1 /\ pc = "idle" /\ f # MainConf
           /\ f \notin Restored => disk'[f] \in {0, clock + 1}
           /\ pc # "idle" /\ f \notin EditBusy => disk'[f] = 0
<1>1. PICK v \in NewVersions(f) : disk' = [disk EXCEPT ![f] = v] /\ seen' = [seen EXCEPT ![f] = @ \cup {v}]
  BY DEF Edit
<1>2. disk'[f] = v
  BY <1>1 DEF VersionInv
<1> QED
  BY <1>1, <1>2, CacheAssumption DEF Edit, NewVersions, Tracked, VersionInv

LEMMA EditVersion ==
    ASSUME Tracked, VersionInv, NEW f \in File, Edit(f) PROVE VersionInv'
<1>1. UNCHANGED <<mtimes, conf>>
  BY DEF Edit, memory
<1>2. \A g \in File : g # f => disk'[g] = disk[g] /\ seen'[g] = seen[g]
  BY EditFacts DEF VersionInv
<1>3. disk' \in [File -> 0 .. clock'] /\ mtimes' \in [File -> 0 .. clock'] /\ clock' \in Nat
  BY <1>1, EditFacts DEF VersionInv
<1>4. seen' \in [File -> SUBSET Nat] /\ \A g \in File : disk'[g] \in seen'[g] /\ seen[g] \subseteq seen'[g]
  BY <1>2, EditFacts DEF VersionInv
<1>5. \A g \in Conf : disk'[g] # 0 /\ (pc # "idle" => disk'[g] = disk[g])
  BY <1>2, EditFacts DEF VersionInv, File
<1>6. pc # "idle" => \A g \in File \ EditBusy : mtimes[g] # 0 => disk'[g] \in {0, mtimes[g]}
  BY <1>2, EditFacts DEF VersionInv
<1> QED
  BY <1>1, <1>3, <1>4, <1>5, <1>6, EditFacts DEF VersionInv, Conf, File

LEMMA VersionNext == Tracked /\ VersionInv /\ [Next]_vars => VersionInv'
<1> SUFFICES ASSUME Tracked, VersionInv, [Next]_vars PROVE VersionInv'
  OBVIOUS
<1>1. CASE UNCHANGED vars
  BY <1>1, VersionSame DEF vars, memory, world
<1>2. CASE Start
  <2>1. UNCHANGED <<disk, clock>> /\ pc' = "load" /\ conf' = [f \in Conf |-> disk[f]]
        /\ mtimes' = [f \in File |-> IF f \in ConfInc THEN disk[f] ELSE 0]
        /\ seen' = [f \in File |-> {disk[f]}]
    BY <1>2 DEF Start, Restrict
  <2> QED
    BY <2>1 DEF VersionInv, Conf, File
<1>3. CASE Load \/ CheckNotCached \/ SetDepends \/ StampFails \/ Handle \/ SyncClean \/ SyncOpen
           \/ Dump \/ Interrupt \/ Kill \/ Finish
  <2>1. UNCHANGED <<disk, clock, seen, conf, mtimes>> /\ pc # "idle" /\ pc' # "load"
    BY <1>3 DEF Load, CheckNotCached, SetDepends, StampFails, Handle, SyncClean, SyncOpen,
                Dump, Interrupt, Kill, Finish, NextRecipe, Outcome, Running, memory, world
  <2> QED
    BY <2>1, VersionSame
<1>4. CASE CheckOutdated \/ UseEntry \/ EntryIncomplete \/ Parse \/ ParseFails \/ SetStamp
  <2>1. UNCHANGED <<disk, clock, seen, conf>> /\ pc # "idle" /\ pc' # "load"
    BY <1>4 DEF CheckOutdated, UseEntry, EntryIncomplete, Parse, ParseFails, SetStamp,
                NextRecipe, world
  <2>2. CASE UNCHANGED mtimes
    BY <2>1, <2>2, VersionSame
  <2>3. ASSUME NEW files, mtimes' = Looked(files) PROVE VersionInv'
    BY <2>1, <2>3, VersionLook
  <2> QED
    BY <1>4, <2>2, <2>3 DEF CheckOutdated, UseEntry, EntryIncomplete, Parse, ParseFails, SetStamp
<1>5. ASSUME NEW f \in File, Edit(f) PROVE VersionInv'
  BY <1>5, EditVersion
<1> QED
  BY <1>1, <1>2, <1>3, <1>4, <1>5 DEF Next, Done

-----------------------------------------------------------------------------
LEMMA IncludesType == ASSUME NEW f \in Fn PROVE Includes[f] \subseteq File
  BY CacheAssumption DEF File

\* Looking at files makes no dependency look like what it is not.
LEMMA InMemoryLook ==
    ASSUME VersionInv, NEW f \in Fn, NEW e, InMemory(e, f), UNCHANGED <<disk, clock, seen>>,
           \A g \in File : /\ mtimes'[g] \in {mtimes[g], disk[g]}
                           /\ mtimes[g] # 0 => mtimes'[g] = mtimes[g]
    PROVE  InMemory(e, f)'
  BY IncludesType DEF InMemory, EntryType, Saveable, VersionInv

\* Nor does a change on disk.
LEMMA SaveableEdit ==
    ASSUME Tracked, VersionInv, NEW g \in File, Edit(g), NEW e, NEW s \in File,
           e.depends[s] \in 1 .. clock, Saveable(e, s)
    PROVE  Saveable(e, s)'
<1>1. CASE s = g
  BY <1>1, EditFacts DEF Saveable, VersionInv
<1>2. CASE s # g
  BY <1>2, EditFacts DEF Saveable, VersionInv
<1> QED
  BY <1>1, <1>2

LEMMA EditElsewhere ==
    ASSUME Tracked, VersionInv, NEW g \in File, Edit(g)
    PROVE  /\ \A s \in File : seen[s] \subseteq seen'[s]
           /\ pc # "idle" => \A s \in Conf : disk'[s] = disk[s]
           /\ \A s \in Conf : disk'[s] = disk[s] \/ (s # MainConf /\ disk'[s] = clock + 1)
           /\ UNCHANGED <<mtimes, conf, depends_cache, parsed, todo, status, cachefile, pc>>
           /\ clock' = clock + 1
<1>1. \A s \in File : s # g => disk'[s] = disk[s] /\ seen'[s] = seen[s]
  BY EditFacts DEF VersionInv
<1>2. seen[g] \subseteq seen'[g]
  BY EditFacts DEF VersionInv
<1> QED
  BY <1>1, <1>2, EditFacts DEF Edit, memory, Conf, File

LEMMA InMemoryEdit ==
    ASSUME Tracked, VersionInv, pc # "idle", NEW g \in File, Edit(g),
           NEW f \in Fn, NEW e, InMemory(e, f)
    PROVE  InMemory(e, f)'
<1>1. \A s \in Includes[f] : s \in File /\ e.depends[s] \in 1 .. clock /\ Saveable(e, s)
  BY IncludesType DEF InMemory, EntryType
<1>2. \A s \in Includes[f] : Saveable(e, s)'
  BY <1>1, SaveableEdit
<1>3. EntryType(e, f)'
  BY EditElsewhere DEF EntryType, InMemory, VersionInv
<1>4. \A s \in Conf : e.content[s] = disk'[s]
  BY EditElsewhere DEF InMemory
<1> QED
  BY <1>1, <1>2, <1>3, <1>4, EditElsewhere DEF InMemory

\* The entries of a cache that is not older than the configuration.
LEMMA InFileLoaded ==
    ASSUME VersionInv, pc = "load", UpToDate, FileInv, NEW f \in Fn, NEW e, InFile(e, f),
           UNCHANGED <<disk, clock, seen, mtimes>>
    PROVE  InMemory(e, f)'
<1>1. \A s \in Conf : e.content[s] = disk[s]
  BY DEF InFile, UpToDate, VersionInv, FileInv, Conf, File
<1>2. \A s \in Includes[f] : s \in File /\ mtimes[s] \in {0, disk[s]}
  BY IncludesType DEF VersionInv
<1> QED
  BY <1>1, <1>2 DEF InFile, InMemory, EntryType, Saveable

\* The entries that stay as they were, over whatever was looked at.
LEMMA MemoryLook ==
    ASSUME VersionInv, MemoryInv, pc # "idle", UNCHANGED <<disk, clock, seen, conf>>,
           pc' # "load", (\E files : mtimes' = Looked(files)) \/ UNCHANGED mtimes,
           NEW f \in DOMAIN depends_cache
    PROVE  f \in Fn /\ InMemory(depends_cache[f], f) /\
           \A e : e = depends_cache[f] => InMemory(e, f)'
<1>1. f \in Fn /\ InMemory(depends_cache[f], f)
  BY DEF MemoryInv
<1>2. \A g \in File : /\ mtimes'[g] \in {mtimes[g], disk[g]}
                      /\ mtimes[g] # 0 => mtimes'[g] = mtimes[g]
  BY VersionLook
<1>3. ASSUME NEW e, e = depends_cache[f] PROVE InMemory(e, f)'
  <2>1. InMemory(e, f)
    BY <1>1, <1>3
  <2> QED
    BY <1>1, <1>2, <2>1, InMemoryLook
<1> QED
  BY <1>1, <1>3

\* setData and what follows it.
LEMMA MemoryMade ==
    ASSUME Tracked, ShapeInv, VersionInv, MemoryInv, ParsedInv, SetDepends \/ SetStamp \/ Handle
    PROVE  MemoryInv'
<1>1. /\ pc # "idle" /\ pc' # "load" /\ UNCHANGED <<disk, clock, seen, conf>>
      /\ (\E files : mtimes' = Looked(files)) \/ UNCHANGED mtimes
  BY DEF SetDepends, SetStamp, Handle, NextRecipe, world
<1>2. fn \in Fn /\ todo # {}
  BY FirstInTodo DEF SetDepends, SetStamp, Handle, ShapeInv, Parsing
<1>3. \A s \in Includes[fn] \cup {fn} : s \in File
  BY <1>2, IncludesType DEF File
<1>0. PICK r : r = fn
  OBVIOUS
<1>4. ASSUME NEW e, e = depends_cache'[r] PROVE InMemory(e, r)'
  <2>1. CASE SetDepends
    <3>1. Read(parsed)
      BY <2>1 DEF SetDepends, ParsedInv
    <3>2. /\ e.content = parsed.content /\ e.depends = parsed.depends
          /\ "CACHETIMESTAMP" \notin e.vars
      BY <1>0, <1>4, <2>1, MadeEntry
    <3> QED
      BY <1>0, <1>1, <1>3, <3>1, <3>2 DEF Read, InMemory, EntryType, Saveable, Sources
  <2>2. CASE SetStamp
    <3>1. EntryShape(depends_cache[fn]) /\ fn \in DOMAIN depends_cache
      BY <2>2 DEF SetStamp, ShapeInv, Making
    <3>2. /\ e.content = depends_cache[fn].content /\ e.depends = depends_cache[fn].depends
          /\ e.stamp = Mtime(fn)
      BY <1>0, <1>4, <2>2, <3>1, MadeEntry DEF EntryShape
    <3>3. Mtime(fn) = depends_cache[fn].content[fn]
      BY <2>2 DEF SetStamp, ParsedInv, Unchanged, Mtime
    <3>4. PICK o : o = depends_cache[fn]
      OBVIOUS
    <3>5. InMemory(o, r)'
      BY <1>0, <1>1, <3>1, <3>4, MemoryLook
    <3> QED
      BY <1>0, <3>2, <3>3, <3>4, <3>5 DEF InMemory, EntryType, Saveable
  <2>3. CASE Handle
    <3>1. EntryShape(depends_cache[fn]) /\ fn \in DOMAIN depends_cache
      BY <2>3 DEF Handle, ShapeInv, Making
    <3>2. /\ e.content = depends_cache[fn].content /\ e.depends = depends_cache[fn].depends
          /\ e.stamp = depends_cache[fn].stamp
          /\ "CACHETIMESTAMP" \in e.vars => "CACHETIMESTAMP" \in depends_cache[fn].vars
      BY <1>0, <1>4, <2>3, <3>1, MadeEntry DEF EntryShape, Handled
    <3>3. PICK o : o = depends_cache[fn]
      OBVIOUS
    <3>4. InMemory(o, r)'
      BY <1>0, <1>1, <3>1, <3>3, MemoryLook
    <3> QED
      BY <1>0, <3>2, <3>3, <3>4 DEF InMemory, EntryType, Saveable
  <2> QED
    BY <2>1, <2>2, <2>3
<1>5. ASSUME NEW f \in DOMAIN depends_cache', f # fn, NEW e, e = depends_cache'[f]
      PROVE  f \in Fn /\ InMemory(e, f)'
  <2>1. f \in DOMAIN depends_cache /\ depends_cache'[f] = depends_cache[f]
    BY <1>5, MadeEntry
  <2> QED
    BY <1>1, <1>5, <2>1, MemoryLook
<1>6. ASSUME NEW f \in DOMAIN depends_cache', NEW e, e = depends_cache'[f]
      PROVE  f \in Fn /\ InMemory(e, f)'
  BY <1>0, <1>2, <1>4, <1>5, <1>6
<1> QED
  BY <1>6 DEF MemoryInv, InMemory, EntryType, Saveable

LEMMA MemoryNext ==
    Tracked /\ ShapeInv /\ StaleInv /\ [Next]_vars => MemoryInv'
<1> SUFFICES ASSUME Tracked, ShapeInv, VersionInv, MemoryInv, FileInv, ParsedInv, [Next]_vars,
                    pc' # "idle", NEW f \in DOMAIN depends_cache', NEW e, e = depends_cache'[f]
             PROVE  f \in Fn /\ InMemory(e, f)'
  BY DEF StaleInv, MemoryInv, InMemory, EntryType, Saveable
<1>1. CASE UNCHANGED vars
  BY <1>1 DEF vars, memory, world, MemoryInv, InMemory, EntryType, Saveable
<1>2. CASE Start
  BY <1>2 DEF Start, Empty
<1>3. CASE Load
  <2>1. f \in DOMAIN cachefile.entries /\ e = cachefile.entries[f] /\ UpToDate
    BY <1>3 DEF Load, Empty
  <2>2. f \in Fn /\ InFile(e, f)
    BY <2>1 DEF FileInv
  <2> QED
    BY <1>3, <2>1, <2>2, InFileLoaded DEF Load, world
<1>4. CASE CheckNotCached \/ CheckOutdated \/ UseEntry \/ EntryIncomplete \/ Parse \/ ParseFails
           \/ StampFails \/ SyncClean \/ SyncOpen \/ Dump \/ Interrupt
  <2>1. /\ pc # "idle" /\ pc' # "load" /\ UNCHANGED <<disk, clock, seen, conf>>
        /\ (\E files : mtimes' = Looked(files)) \/ UNCHANGED mtimes
    BY <1>4 DEF CheckNotCached, CheckOutdated, UseEntry, EntryIncomplete, Parse, ParseFails,
                StampFails, SyncClean, SyncOpen, Dump, Interrupt, NextRecipe, Outcome, memory, world
  <2>2. UNCHANGED depends_cache \/ Evict
    BY <1>4 DEF CheckNotCached, CheckOutdated, UseEntry, EntryIncomplete, Parse, ParseFails,
                StampFails, SyncClean, SyncOpen, Dump, Interrupt, memory
  <2>3. f \in DOMAIN depends_cache /\ e = depends_cache[f]
    BY <2>2, EvictProperties
  <2> QED
    BY <2>1, <2>3, MemoryLook
<1>5. CASE SetDepends \/ SetStamp \/ Handle
  <2>1. MemoryInv'
    BY <1>5, MemoryMade
  <2> QED
    BY <2>1 DEF MemoryInv, InMemory, EntryType, Saveable
<1>6. CASE Kill \/ Finish
  BY <1>6 DEF Kill, Finish
<1>7. ASSUME NEW g \in File, Edit(g) PROVE f \in Fn /\ InMemory(e, f)'
  <2>1. f \in DOMAIN depends_cache /\ e = depends_cache[f] /\ pc # "idle"
    BY <1>7, EditElsewhere
  <2>2. f \in Fn /\ InMemory(e, f)
    BY <2>1 DEF MemoryInv
  <2> QED
    BY <1>7, <2>1, <2>2, InMemoryEdit
<1> QED
  BY <1>1, <1>2, <1>3, <1>4, <1>5, <1>6, <1>7 DEF Next, Done

-----------------------------------------------------------------------------
LEMMA FileNext ==
    Tracked /\ ShapeInv /\ StaleInv /\ [Next]_vars => FileInv'
<1> SUFFICES ASSUME Tracked, ShapeInv, VersionInv, MemoryInv, FileInv, [Next]_vars
             PROVE  FileInv'
  BY DEF StaleInv
<1>1. CASE UNCHANGED <<cachefile, disk, clock>>
  BY <1>1 DEF FileInv, InFile, EntryType, Saveable
<1>2. CASE SyncOpen
  BY <1>2 DEF SyncOpen, FileInv, VersionInv, Empty, world
<1>3. CASE Dump
  <2>1. ASSUME NEW f \in DOMAIN cachefile'.entries, NEW e, e = cachefile'.entries[f]
        PROVE  f \in Fn /\ InFile(e, f)'
    <3>1. f \in DOMAIN depends_cache /\ e = depends_cache[f]
      BY <1>3, <2>1, RestrictProperties DEF Dump, Saved
    <3>2. f \in Fn /\ InMemory(e, f)
      BY <1>3, <3>1 DEF Dump, MemoryInv
    <3> QED
      BY <1>3, <3>2 DEF Dump, world, InMemory, InFile, EntryType, Saveable
  <2>2. cachefile'.mtime \in 0 .. clock'
    BY <1>3 DEF Dump, world, VersionInv
  <2> QED
    BY <2>1, <2>2 DEF FileInv, InFile, EntryType, Saveable
<1>4. ASSUME NEW g \in File, Edit(g) PROVE FileInv'
  <2>1. ASSUME NEW f \in DOMAIN cachefile'.entries, NEW e, e = cachefile'.entries[f]
        PROVE  f \in Fn /\ InFile(e, f)'
    <3>1. f \in Fn /\ InFile(e, f)
      BY <1>4, <2>1, EditElsewhere DEF FileInv
    <3>2. \A s \in Includes[f] : s \in File /\ e.depends[s] \in 1 .. clock /\ Saveable(e, s)
      BY <3>1, IncludesType DEF InFile, EntryType
    <3>3. \A s \in Includes[f] : Saveable(e, s)'
      BY <1>4, <3>2, SaveableEdit
    <3>4. EntryType(e, f)'
      BY <1>4, <3>1, EditElsewhere DEF EntryType, InFile, VersionInv
    <3>5. \A s \in Conf : \/ e.content[s] = disk'[s]
                          \/ s \in ConfInc /\ cachefile'.mtime < disk'[s]
      BY <1>4, <3>1, EditElsewhere DEF InFile, FileInv, VersionInv, Conf, File
    <3> QED
      BY <1>4, <3>1, <3>3, <3>4, <3>5, EditElsewhere DEF InFile
  <2>2. cachefile'.mtime \in 0 .. clock'
    BY <1>4, EditElsewhere DEF FileInv, VersionInv
  <2> QED
    BY <2>1, <2>2 DEF FileInv, InFile, EntryType, Saveable
<1> QED
  BY <1>1, <1>2, <1>3, <1>4
     DEF Next, Done, vars, world, Start, Load, CheckNotCached, CheckOutdated, UseEntry,
         EntryIncomplete, Parse, ParseFails, SetDepends, SetStamp, StampFails, Handle, SyncClean,
         Interrupt, Kill, Finish

\* load_bbfile reads what is on the disk now; of what can have changed since its
\* mtime was taken the old mtime does not come back.
LEMMA ParseRead ==
    ASSUME Tracked, ShapeInv, VersionInv, Parse PROVE Read(parsed)' /\ Unchanged(parsed)'
<1>1. /\ pc = "parse" /\ pc' = "setdata" /\ UNCHANGED <<disk, clock, seen, conf>>
      /\ todo # {} /\ UNCHANGED todo /\ fn \in Fn
  BY FirstInTodo DEF Parse, ShapeInv, Parsing, world
<1>2. PICK r : r = fn
  OBVIOUS
<1>3. fn' = r /\ r \in Fn /\ r \in File /\ r \notin EditBusy /\ Includes[r] \subseteq File
  BY <1>1, <1>2, IncludesType DEF fn, first, File, Tracked
<1>4. \A i \in Includes[r] : disk[i] \in Nat \ {0}
  BY <1>2, <1>3 DEF Parse, Tracked, VersionInv
<1>5. {i \in Includes[r] : disk[i] # 0} = Includes[r]
  BY <1>4
<1>6. mtimes' = Looked(Includes[r]) /\ disk[r] # 0
  BY <1>2, <1>5 DEF Parse
<1>0. PICK p : p = parsed'
  OBVIOUS
<1>7. /\ p.depends = [i \in Includes[r] |-> Mtime(i)]
      /\ p.content = [f \in Sources(r) |-> IF f \in Conf THEN conf[f] ELSE disk[f]]
  BY <1>0, <1>2, <1>5 DEF Parse
<1>8. conf = [f \in Conf |-> disk[f]] /\ Sources(r) \subseteq File
  BY <1>1, <1>3 DEF VersionInv, Sources, File
<1>9. \A f \in Sources(r) : p.content[f] = disk[f]
  BY <1>7, <1>8
<1>10. \A s \in Includes[r] : /\ p.depends[s] = Mtime(s) /\ Mtime(s) \in 1 .. clock
                              /\ s \notin EditBusy => Mtime(s) = disk[s]
  <2> SUFFICES ASSUME NEW s \in Includes[r]
               PROVE  /\ p.depends[s] = Mtime(s) /\ Mtime(s) \in 1 .. clock
                      /\ s \notin EditBusy => Mtime(s) = disk[s]
    OBVIOUS
  <2>1. s \in File /\ disk[s] \in 1 .. clock /\ mtimes[s] \in 0 .. clock
    BY <1>3, <1>4 DEF VersionInv
  <2>2. s \notin EditBusy /\ mtimes[s] # 0 => disk[s] = mtimes[s]
    BY <1>1, <2>1 DEF VersionInv
  <2> QED
    BY <1>7, <2>1, <2>2 DEF Mtime, VersionInv
<1>11. EntryType(p, r)'
  BY <1>1, <1>7, <1>10 DEF EntryType
<1>12. \A s \in Includes[r] : s \in Sources(r) /\ Saveable(p, s)'
  BY <1>1, <1>9, <1>10 DEF Saveable, Tracked, Sources
<1>13. \A s \in Sources(r) : p.content[s] \in seen'[s]
  BY <1>1, <1>8, <1>9 DEF VersionInv
<1>14. \A s \in Conf : p.content[s] = disk'[s]
  BY <1>1, <1>9 DEF Sources
<1>15. Read(parsed)'
  BY <1>0, <1>3, <1>11, <1>12, <1>13, <1>14 DEF Read, EntryType, Saveable
<1>16. mtimes'[r] \in {0, disk[r]}
  BY <1>1, <1>3, <1>6, VersionLook DEF VersionInv
<1>17. Unchanged(parsed)'
  BY <1>0, <1>1, <1>3, <1>6, <1>9, <1>16 DEF Unchanged, Sources
<1> QED
  BY <1>15, <1>17

LEMMA ParsedNext ==
    Tracked /\ ShapeInv /\ StaleInv /\ [Next]_vars => ParsedInv'
<1> SUFFICES ASSUME Tracked, ShapeInv, VersionInv, ParsedInv, [Next]_vars PROVE ParsedInv'
  BY DEF StaleInv
<1>1. CASE UNCHANGED vars
  BY <1>1 DEF vars, memory, world, ParsedInv, Read, Unchanged, EntryType, Saveable, fn, first
<1>2. CASE pc' \notin {"setdata", "stamp", "handle"}
  BY <1>2 DEF ParsedInv
<1>3. CASE Parse
  BY <1>3, ParseRead DEF Parse, ParsedInv
<1>4. CASE SetDepends
  <2>1. Read(parsed)' /\ UNCHANGED <<disk, mtimes, todo>>
    BY <1>4 DEF SetDepends, ParsedInv, Read, EntryType, Saveable, fn, first, world
  <2>2. depends_cache'[fn].content = parsed.content
    BY <1>4, MadeEntry
  <2>3. Unchanged(parsed) /\ fn' = fn
    BY <1>4 DEF SetDepends, ParsedInv, fn, first
  <2>4. Unchanged(depends_cache[fn])'
    BY <2>1, <2>2, <2>3 DEF Unchanged
  <2> QED
    BY <1>4, <2>1, <2>4 DEF SetDepends, ParsedInv
<1>5. CASE SetStamp
  BY <1>5 DEF SetStamp, ParsedInv, Read, EntryType, Saveable, fn, first, world
<1>6. ASSUME NEW g \in File, Edit(g), pc \in {"setdata", "stamp", "handle"} PROVE ParsedInv'
  <2>1. PICK r, p, c : r = fn /\ p = parsed /\ c = depends_cache[fn]
    OBVIOUS
  <2>2. fn' = r /\ parsed' = p /\ depends_cache'[r] = c /\ r \in Fn /\ r \in File /\ r \notin EditBusy
    BY <1>6, <2>1, EditElsewhere, FirstInTodo DEF fn, first, ShapeInv, Parsing, File, Tracked
  <2>3. Read(parsed)'
    <3>1. Read(p)
      BY <1>6, <2>1 DEF ParsedInv
    <3>2. \A s \in Includes[r] : s \in File /\ p.depends[s] \in 1 .. clock /\ Saveable(p, s)
      BY <2>1, <2>2, <3>1, IncludesType DEF Read, EntryType
    <3>3. \A s \in Includes[r] : Saveable(p, s)'
      BY <1>6, <3>2, SaveableEdit
    <3>4. EntryType(p, r)'
      BY <1>6, <2>1, <3>1, EditElsewhere DEF EntryType, Read, VersionInv
    <3>5. /\ \A s \in Sources(r) : s \in File /\ p.content[s] \in seen'[s]
          /\ \A s \in Conf : p.content[s] = disk'[s]
      BY <1>6, <2>1, <2>2, <3>1, IncludesType, EditElsewhere DEF Read, Sources, File
    <3> QED
      BY <2>2, <3>3, <3>4, <3>5 DEF Read, EntryType, Saveable
  <2>4. ASSUME NEW e, e.content[r] # 0, disk[r] \in {0, e.content[r]}
        PROVE  disk'[r] \in {0, e.content[r]}
    BY <1>6, <2>2, <2>4, EditFacts DEF VersionInv
  <2>5. pc = "setdata" => Unchanged(parsed)'
    BY <1>6, <2>1, <2>2, <2>4, EditElsewhere DEF ParsedInv, Unchanged
  <2>6. pc = "stamp" => Unchanged(depends_cache[fn])'
    BY <1>6, <2>1, <2>2, <2>4, EditElsewhere DEF ParsedInv, Unchanged
  <2> QED
    BY <1>6, <2>3, <2>5, <2>6, EditElsewhere DEF ParsedInv
<1>7. ASSUME NEW g \in File, Edit(g) PROVE ParsedInv'
  BY <1>2, <1>6, <1>7, EditElsewhere
<1> QED
  BY <1>1, <1>2, <1>3, <1>4, <1>5, <1>7
     DEF Next, Done, Start, Load, CheckNotCached, CheckOutdated, UseEntry, EntryIncomplete,
         ParseFails, StampFails, Handle, NextRecipe, SyncClean, SyncOpen, Dump, Interrupt, Kill,
         Finish, Outcome

\* An entry that is found clean holds what was read of each file in this invocation.
LEMMA CleanIsSeen ==
    ASSUME VersionInv, MemoryInv, UseEntry
    PROVE  \A s \in Sources(fn) : entry.content[s] \in seen[s]
<1>1. PICK r, e : r = fn /\ e = entry
  OBVIOUS
<1>2. r \in Fn /\ InMemory(e, r)
  BY <1>1 DEF UseEntry, Clean, Stamped, Cached, entry, MemoryInv
<1>3. Includes[r] \subseteq File /\ r \in File
  BY <1>2, IncludesType DEF File
<1>4. \A g \in File : Mtime(g) # 0 => Mtime(g) \in seen[g]
  BY DEF Mtime, VersionInv
<1>5. e.content[r] \in seen[r]
  BY <1>1, <1>2, <1>3, <1>4 DEF UseEntry, Clean, Stamped, InMemory
<1>6. \A s \in Conf : e.content[s] \in seen[s]
  BY <1>2 DEF InMemory, VersionInv, File
<1>7. ASSUME NEW s \in Includes[r] PROVE e.content[s] \in seen[s]
  <2>1. e.depends[s] # 0 /\ Mtime(s) = e.depends[s] /\ s \in File
    BY <1>1, <1>2, <1>3 DEF UseEntry, Clean, InMemory, EntryType
  <2>2. e.content[s] = e.depends[s] \/ e.content[s] \in seen[s]
    BY <1>2, <2>1 DEF InMemory, Saveable, Mtime
  <2> QED
    BY <1>4, <2>1, <2>2
<1> QED
  BY <1>1, <1>5, <1>6, <1>7 DEF Sources

LEMMA StatusNext ==
    Tracked /\ ShapeInv /\ StaleInv /\ [Next]_vars => StatusInv'
<1> SUFFICES ASSUME Tracked, VersionInv, MemoryInv, ParsedInv, StatusInv, ShapeInv, [Next]_vars
             PROVE  StatusInv'
  BY DEF StaleInv
<1>1. CASE UNCHANGED <<status, seen>>
  BY <1>1 DEF StatusInv, NeverStale
<1>2. CASE Start
  BY <1>2 DEF Start, StatusInv, NeverStale, Empty
<1>3. ASSUME UNCHANGED seen, todo # {}, NEW c, status' = With(status, fn, c),
             \A s \in Sources(fn) : c[s] \in seen[s]
      PROVE  StatusInv'
  <2>1. PICK r : r = fn
    OBVIOUS
  <2>2. r \in Fn
    BY <1>3, <2>1, FirstInTodo
  <2>3. status' = [f \in DOMAIN status \cup {r} |-> IF f = r THEN c ELSE status[f]]
    BY <1>3, <2>1 DEF With
  <2> QED
    BY <1>3, <2>1, <2>2, <2>3 DEF StatusInv, NeverStale
<1>4. CASE UseEntry
  BY <1>1, <1>3, <1>4, CleanIsSeen DEF UseEntry, world
<1>5. CASE Handle
  <2>1. \A s \in Sources(fn) : parsed.content[s] \in seen[s]
    BY <1>5 DEF Handle, ParsedInv, Read
  <2>2. UNCHANGED seen /\ todo # {} /\ (UNCHANGED status \/ status' = With(status, fn, parsed.content))
    BY <1>5 DEF Handle, world, ShapeInv, Parsing
  <2> QED
    BY <1>1, <1>3, <2>1, <2>2
<1>6. ASSUME NEW g \in File, Edit(g) PROVE StatusInv'
  <2>1. \A s \in File : seen[s] \subseteq seen'[s]
    BY <1>6, EditElsewhere
  <2>2. \A f \in Fn : \A s \in Sources(f) : s \in File
    BY IncludesType DEF Sources, File
  <2> QED
    BY <1>6, <2>1, <2>2, EditElsewhere DEF StatusInv, NeverStale
<1> QED
  BY <1>1, <1>2, <1>4, <1>5, <1>6
     DEF Next, Done, vars, memory, world, Load, CheckNotCached, CheckOutdated, EntryIncomplete,
         Parse, ParseFails, SetDepends, SetStamp, StampFails, SyncClean, SyncOpen, Dump,
         Interrupt, Kill, Finish

LEMMA StaleNext == Tracked /\ ShapeInv /\ StaleInv /\ [Next]_vars => StaleInv'
  BY VersionNext, MemoryNext, FileNext, ParsedNext, StatusNext DEF StaleInv

\* Over edits of everything the cache can keep track of, whatever is removed
\* and comes back, kills and interrupts: what goes into CacheData was in the files
\* it comes from in this very invocation.
THEOREM NeverStaleHolds == ASSUME Tracked PROVE Spec => []NeverStale
<1>1. ShapeInv /\ StaleInv /\ [Next]_vars => StaleInv'
  BY StaleNext
<1>2. StaleInv => NeverStale
  BY DEF StaleInv, StatusInv
<1> QED
  BY <1>1, <1>2, StaleInit, ShapeInvHolds, PTL DEF Spec

-----------------------------------------------------------------------------
(***************************************************************************)
(* Nothing is parsed twice.                                                *)
(***************************************************************************)
Unedited == \A f \in File : seen[f] = {disk[f]}

LookInv ==
    /\ clock \in Nat /\ disk \in [File -> 0 .. clock] /\ mtimes \in [File -> 0 .. clock]
    /\ \A f \in File : disk[f] \in seen[f] /\ (mtimes[f] # 0 => mtimes[f] \in seen[f])
    /\ seen = [f \in File |-> seen[f]]
    /\ pc # "idle" /\ Unedited => \A f \in ConfInc : mtimes[f] = disk[f]
    /\ pc # "idle" /\ quiet => Unedited

\* A recipe that is to be found in the cache the next time, and an entry by
\* which it is.
Kept(f) == f \in Fn \ DontCache /\ disk[f] # 0

Good(e, f) ==
    /\ Usable(e) /\ e.stamp = disk[f]
    /\ \A i \in DOMAIN e.depends : e.depends[i] = disk[i]

GoodFile ==
    \A f \in Fn : Kept(f) =>
        /\ cachefile.whole /\ \A c \in ConfInc : disk[c] <= cachefile.mtime
        /\ f \in DOMAIN cachefile.entries /\ Good(cachefile.entries[f], f)

\* The recipes whose entries in memory are good: all of them when nothing was
\* edited since an invocation that built, else those this one is done with.
Safe(f) ==
    \/ quiet
    \/ /\ Unedited /\ ~errors /\ ~interrupted
       /\ \E i \in DOMAIN Recipes \ todo : f = Recipes[i]

Looping == pc \notin {"idle", "load"}

SafeInv ==
    /\ Looping =>
           \A f \in Fn : Safe(f) /\ Kept(f) =>
               f \in DOMAIN depends_cache /\ Good(depends_cache[f], f)
    /\ Parsing => ~(Safe(fn) /\ Kept(fn))
    /\ Looping /\ Unedited => \A i \in todo : disk[Recipes[i]] # 0

\* The entry that is being made.
MadeInv ==
    Unedited =>
        /\ pc \in {"setdata", "stamp", "handle"} =>
               \A i \in DOMAIN parsed.depends : parsed.depends[i] = disk[i]
        /\ Making => \A i \in DOMAIN depends_cache[fn].depends : depends_cache[fn].depends[i] = disk[i]
        /\ pc = "handle" => /\ "CACHETIMESTAMP" \in depends_cache[fn].vars
                            /\ depends_cache[fn].stamp = disk[fn]

\* What is in the file when nothing has to be saved.
SavedInv ==
    /\ cachefile.mtime \in 0 .. clock
    /\ quiet /\ pc # "dump" => GoodFile
    /\ pc = "built" /\ Unedited => GoodFile
    /\ pc = "dump" => todo = {} /\ ~cacheclean
    /\ pc \in {"stamp", "handle"} => ~cacheclean
    /\ Looping /\ cacheclean => \A f \in DOMAIN depends_cache :
           /\ f \in DOMAIN cachefile.entries /\ cachefile.entries[f] = depends_cache[f]
           /\ cachefile.whole
           /\ Unedited => \A c \in ConfInc : disk[c] <= cachefile.mtime

TwiceInv == LookInv /\ SafeInv /\ MadeInv /\ SavedInv

LEMMA TwiceInit == Init => TwiceInv
<1> SUFFICES ASSUME Init PROVE TwiceInv
  OBVIOUS
<1>1. LookInv
  BY DEF Init, LookInv
<1>2. SafeInv /\ MadeInv /\ SavedInv
  BY DEF Init, SafeInv, MadeInv, SavedInv, Looping, Parsing, Making
<1> QED
  BY <1>1, <1>2 DEF TwiceInv

\* A change is seen as such from then on.
LEMMA EditLook ==
    ASSUME LookInv, NEW f \in File, Edit(f) PROVE LookInv' /\ ~Unedited' /\ ~quiet'
<1>1. PICK v \in NewVersions(f) \ {disk[f]} :
          disk' = [disk EXCEPT ![f] = v] /\ seen' = [seen EXCEPT ![f] = @ \cup {v}]
  BY DEF Edit
<1>2. disk[f] \in seen'[f] /\ disk'[f] = v /\ v # disk[f] /\ v \in 0 .. clock + 1
  BY <1>1, CacheAssumption DEF LookInv, NewVersions
<1>3. ~Unedited'
  BY <1>2 DEF Unedited
<1>4. clock' = clock + 1 /\ UNCHANGED <<mtimes, pc>> /\ quiet' = FALSE
  BY DEF Edit, memory
<1>5. disk' \in [File -> 0 .. clock'] /\ mtimes' \in [File -> 0 .. clock'] /\ clock' \in Nat
  BY <1>1, <1>2, <1>4 DEF LookInv
<1>6. \A g \in File : disk'[g] \in seen'[g] /\ (mtimes'[g] # 0 => mtimes'[g] \in seen'[g])
  BY <1>1, <1>2, <1>4 DEF LookInv
<1>7. seen' = [g \in File |-> seen'[g]]
  BY <1>1 DEF LookInv
<1> QED
  BY <1>3, <1>4, <1>5, <1>6, <1>7 DEF LookInv

LEMMA LookNext == LookInv /\ [Next]_vars => LookInv'
<1> SUFFICES ASSUME LookInv, [Next]_vars PROVE LookInv'
  OBVIOUS
<1>1. CASE UNCHANGED vars
  BY <1>1 DEF vars, memory, world, LookInv, Unedited
<1>2. CASE Start
  BY <1>2 DEF Start, LookInv, Unedited, File, Conf
<1>3. CASE Finish
  BY <1>3 DEF Finish, memory, world, LookInv, Unedited
<1>4. ASSUME UNCHANGED <<disk, clock, seen>>, pc # "idle", quiet' => quiet,
             NEW files, UNCHANGED mtimes \/ mtimes' = Looked(files)
      PROVE  LookInv'
  <2>1. \A f \in File : mtimes'[f] \in {mtimes[f], disk[f]}
                        /\ (mtimes[f] # 0 => mtimes'[f] = mtimes[f])
    BY <1>4 DEF Looked, Mtime
  <2>2. mtimes' = [f \in File |-> mtimes'[f]]
    BY <1>4 DEF Looked, LookInv
  <2>3. mtimes' \in [File -> 0 .. clock]
    BY <2>1, <2>2 DEF LookInv
  <2> QED
    BY <1>4, <2>1, <2>3 DEF LookInv, Unedited, File, Conf
<1>5. CASE Load \/ CheckNotCached \/ SetDepends \/ StampFails \/ Handle \/ SyncClean \/ SyncOpen
           \/ Dump \/ Interrupt
  <2>1. UNCHANGED <<disk, clock, seen, mtimes, quiet>> /\ pc # "idle"
    BY <1>5 DEF Load, CheckNotCached, SetDepends, StampFails, Handle, SyncClean, SyncOpen,
                Dump, Interrupt, memory, world
  <2> QED
    BY <1>4, <2>1
<1>8. CASE Kill
  BY <1>4, <1>8 DEF Kill, Running, memory, world
<1>6. CASE CheckOutdated \/ UseEntry \/ EntryIncomplete \/ Parse \/ ParseFails \/ SetStamp
  <2>1. UNCHANGED <<disk, clock, seen, quiet>> /\ pc # "idle"
    BY <1>6 DEF CheckOutdated, UseEntry, EntryIncomplete, Parse, ParseFails, SetStamp, world
  <2>2. UNCHANGED mtimes \/ \E files : mtimes' = Looked(files)
    BY <1>6 DEF CheckOutdated, UseEntry, EntryIncomplete, Parse, ParseFails, SetStamp
  <2> QED
    BY <1>4, <2>1, <2>2
<1>7. ASSUME NEW f \in File, Edit(f) PROVE LookInv'
  BY <1>7, EditLook
<1> QED
  BY <1>1, <1>2, <1>3, <1>5, <1>6, <1>7, <1>8 DEF Next, Done

\* Without edits the mtime of a file is the one on the disk.
LEMMA UneditedMtime ==
    ASSUME LookInv, Unedited, NEW f \in File PROVE Mtime(f) = disk[f]
  BY DEF LookInv, Unedited, Mtime

\* A good entry is found clean, and one that is found clean is good.
LEMMA GoodIsClean ==
    ASSUME LookInv, ShapeInv, Unedited, fn \in Fn, Kept(fn), Cached, Good(entry, fn)
    PROVE  Clean
<1>1. Mtime(fn) = disk[fn]
  BY UneditedMtime DEF File
<1>2. \A i \in DOMAIN entry.depends : Mtime(i) = disk[i]
  BY UneditedMtime DEF ShapeInv, EntryShape, Cached, entry
<1> QED
  BY <1>1, <1>2 DEF Clean, Good, Usable, Kept, Stamped

LEMMA CleanIsGood ==
    ASSUME LookInv, ShapeInv, Unedited, UseEntry, fn \in Fn
    PROVE  Good(entry, fn)
<1>1. Mtime(fn) = disk[fn]
  BY UneditedMtime DEF File
<1>2. \A i \in DOMAIN entry.depends : Mtime(i) = disk[i]
  BY UneditedMtime DEF ShapeInv, EntryShape, UseEntry, Clean, Stamped, Cached, entry
<1> QED
  BY <1>1, <1>2 DEF UseEntry, Clean, Good, Usable, Stamped

\* A step that deals with one recipe, r.
LEMMA SafeStep ==
    ASSUME SafeInv, Looping, UNCHANGED <<disk, seen, quiet>>, errors => errors',
           interrupted => interrupted', todo' \subseteq todo, NEW r, r = fn,
           \A i \in todo \ todo' : i = first,
           \A f \in DOMAIN depends_cache : f # r =>
               f \in DOMAIN depends_cache' /\ depends_cache'[f] = depends_cache[f],
           Safe(r)' /\ Kept(r) => r \in DOMAIN depends_cache' /\ Good(depends_cache'[r], r),
           Parsing' => ~(Safe(r)' /\ Kept(r)) /\ fn' = r
    PROVE  SafeInv'
<1>1. \A f : f # r /\ Safe(f)' => Safe(f)
  BY DEF Safe, Unedited, fn
<1>2. \A f : (Kept(f)' <=> Kept(f)) /\ \A e : Good(e, f)' <=> Good(e, f)
  BY DEF Kept, Good
<1>3. ASSUME NEW f \in Fn, Safe(f)', Kept(f)
      PROVE  f \in DOMAIN depends_cache' /\ Good(depends_cache'[f], f)
  BY <1>1, <1>3 DEF SafeInv
<1>4. \A f \in Fn : Safe(f)' /\ Kept(f)' => f \in DOMAIN depends_cache' /\ Good(depends_cache[f], f)'
  BY <1>2, <1>3 DEF Good
<1>5. Parsing' => ~(Safe(fn)' /\ Kept(fn)')
  BY <1>2
<1>6. Unedited' => \A i \in todo' : disk'[Recipes[i]] # 0
  BY DEF SafeInv, Unedited
<1> QED
  BY <1>4, <1>5, <1>6 DEF SafeInv

\* What is safe is found clean, so a recipe is only looked at further, or given
\* up, when it is not.
LEMMA SafeIsClean ==
    ASSUME LookInv, ShapeInv, SafeInv, pc = "check", fn \in Fn, Safe(fn), Kept(fn)
    PROVE  Cached /\ Clean /\ {"SKIPPED", "variables"} \cap entry.vars # {}
<1>1. Unedited
  BY DEF Safe, LookInv
<1>2. Cached /\ Good(entry, fn)
  BY DEF SafeInv, Looping, Cached, entry
<1> QED
  BY <1>1, <1>2, GoodIsClean DEF Good, Usable

LEMMA SafeLoad ==
    ASSUME LookInv, SafeInv, SavedInv, Load PROVE SafeInv'
<1>1. todo' = {i \in DOMAIN Recipes : disk[Recipes[i]] # 0} /\ UNCHANGED <<disk, seen, quiet>>
      /\ pc = "load" /\ pc' = "check"
  BY DEF Load, world
<1>2. ASSUME NEW f \in Fn, Safe(f)', Kept(f)
      PROVE  f \in DOMAIN depends_cache' /\ Good(depends_cache'[f], f)
  <2>1. quiet
    BY <1>1, <1>2 DEF Safe, Kept
  <2>2. Unedited /\ GoodFile
    BY <1>1, <2>1 DEF LookInv, SavedInv
  <2>3. \A c \in ConfInc : mtimes[c] = disk[c]
    BY <1>1, <2>2 DEF LookInv
  <2>4. UpToDate /\ cachefile.whole
    BY <1>2, <2>2, <2>3 DEF GoodFile, UpToDate, LookInv, SavedInv, Conf, File
  <2> QED
    BY <1>2, <2>2, <2>4 DEF Load, GoodFile
<1>3. \A f : Kept(f)' <=> Kept(f)
  BY <1>1 DEF Kept
<1>4. \A f \in Fn : Safe(f)' /\ Kept(f)' => f \in DOMAIN depends_cache' /\ Good(depends_cache[f], f)'
  BY <1>1, <1>2, <1>3 DEF Good
<1> QED
  BY <1>1, <1>4 DEF SafeInv, Parsing

LEMMA SafeNext ==
    ShapeInv /\ TwiceInv /\ [Next]_vars => SafeInv'
<1> SUFFICES ASSUME ShapeInv, LookInv, SafeInv, MadeInv, SavedInv, [Next]_vars PROVE SafeInv'
  BY DEF TwiceInv
<1>1. PICK r : r = fn
  OBVIOUS
<1>2. todo # {} => r \in Fn
  BY <1>1, FirstInTodo
<1>3. CASE UNCHANGED vars
  BY <1>3 DEF vars, memory, world, result, SafeInv, Looping, Parsing, Safe, Kept, Good, Unedited,
              fn, first
<1>4. CASE Start \/ Kill \/ Finish
  BY <1>4 DEF Start, Kill, Finish, SafeInv, Looping, Parsing
<1>5. CASE Load
  BY <1>5, SafeLoad
<1>6. CASE CheckNotCached
  <2>1. UNCHANGED <<disk, seen, quiet, errors, interrupted, todo, depends_cache>> /\ todo # {}
        /\ pc = "check" /\ pc' = "parse" /\ ~Cached
    BY <1>6 DEF CheckNotCached, world, memory, result
  <2>2. ~(Safe(r)' /\ Kept(r)) /\ fn' = r
    BY <1>1, <1>2, <2>1, SafeIsClean DEF Safe, Unedited, fn, first
  <2> QED
    BY <1>1, <2>1, <2>2, SafeStep DEF Looping
<1>7. CASE CheckOutdated
  <2>1. UNCHANGED <<disk, seen, quiet, errors, interrupted, todo>> /\ Evict /\ todo # {}
        /\ pc = "check" /\ pc' = "parse" /\ ~Clean
    BY <1>7 DEF CheckOutdated, world, result
  <2>2. ~(Safe(r)' /\ Kept(r)) /\ fn' = r
    BY <1>1, <1>2, <2>1, SafeIsClean DEF Safe, Unedited, fn, first
  <2> QED
    BY <1>1, <2>1, <2>2, SafeStep, EvictProperties DEF Looping
<1>8. CASE UseEntry
  <2>1. UNCHANGED <<disk, seen, quiet, errors, interrupted, depends_cache>> /\ todo # {}
        /\ pc = "check" /\ pc' = "check" /\ todo' = todo \ {first} /\ Cached
    BY <1>8 DEF UseEntry, NextRecipe, world, result, Clean, Stamped
  <2>2. Safe(r)' => Unedited
    BY <2>1 DEF Safe, Unedited, LookInv
  <2>3. Safe(r)' => Good(depends_cache[r], r)
    BY <1>1, <1>2, <1>8, <2>1, <2>2, CleanIsGood DEF entry
  <2> QED
    BY <1>1, <2>1, <2>3, SafeStep DEF Looping, Parsing, Cached
<1>9. CASE EntryIncomplete
  <2>1. UNCHANGED <<disk, seen, quiet, interrupted>> /\ Evict /\ todo # {} /\ errors'
        /\ pc = "check" /\ pc' = "check" /\ todo' = todo \ {first}
        /\ (~Stamped \/ {"SKIPPED", "variables"} \cap entry.vars = {})
    BY <1>9 DEF EntryIncomplete, NextRecipe, world
  <2>2. ~(Safe(r)' /\ Kept(r))
    <3>1. Safe(r)' => Safe(r)
      BY <2>1 DEF Safe
    <3> QED
      BY <1>1, <1>2, <2>1, <3>1, SafeIsClean DEF Clean
  <2> QED
    BY <1>1, <2>1, <2>2, SafeStep, EvictProperties DEF Looping, Parsing
<1>10. CASE Parse \/ SetDepends \/ SetStamp
  <2>1. UNCHANGED <<disk, seen, quiet, errors, interrupted, todo>> /\ Parsing /\ Parsing'
    BY <1>10 DEF Parse, SetDepends, SetStamp, world, result, Parsing
  <2>2. ~(Safe(r)' /\ Kept(r)) /\ fn' = r
    BY <1>1, <2>1 DEF SafeInv, Safe, Unedited, fn, first
  <2>3. \A f \in DOMAIN depends_cache : f # r =>
            f \in DOMAIN depends_cache' /\ depends_cache'[f] = depends_cache[f]
    BY <1>1, <1>10, MadeEntry DEF Parse
  <2> QED
    BY <1>1, <2>1, <2>2, <2>3, SafeStep DEF Looping, Parsing
<1>11. CASE ParseFails \/ StampFails
  <2>1. UNCHANGED <<disk, seen, quiet, interrupted>> /\ Evict /\ Parsing
        /\ pc' = "check" /\ todo' = todo \ {first} /\ (errors => errors')
        /\ (disk[r] # 0 => errors')
    BY <1>1, <1>11 DEF ParseFails, StampFails, NextRecipe, world, Parsing
  <2>2. ~(Safe(r)' /\ Kept(r))
    BY <1>1, <2>1 DEF SafeInv, Safe, Kept
  <2> QED
    BY <1>1, <2>1, <2>2, SafeStep, EvictProperties DEF Looping, Parsing
<1>12. CASE Handle
  <2>1. UNCHANGED <<disk, seen, quiet, errors, interrupted>> /\ pc = "handle" /\ pc' = "check"
        /\ todo' = todo \ {first}
    BY <1>12 DEF Handle, NextRecipe, world, result
  <2>2. EntryShape(depends_cache[fn]) /\ fn \in DOMAIN depends_cache
    BY <2>1 DEF ShapeInv, Making
  <2>3. fn \in DOMAIN depends_cache' /\
        depends_cache'[fn] = [vars |-> depends_cache[fn].vars \cup Handled,
                              depends |-> depends_cache[fn].depends,
                              stamp |-> depends_cache[fn].stamp,
                              content |-> depends_cache[fn].content]
    BY <1>12, <2>2, MadeEntry DEF EntryShape
  <2>4. Safe(r)' => Unedited
    BY <2>1 DEF Safe, Unedited, LookInv
  <2>5. Safe(r)' => r \in DOMAIN depends_cache' /\ Good(depends_cache'[r], r)
    BY <1>1, <2>1, <2>3, <2>4 DEF MadeInv, Making, Good, Usable, Handled
  <2>6. \A f \in DOMAIN depends_cache : f # r =>
            f \in DOMAIN depends_cache' /\ depends_cache'[f] = depends_cache[f]
    BY <1>1, <1>12, MadeEntry
  <2> QED
    BY <1>1, <2>1, <2>5, <2>6, SafeStep DEF Looping, Parsing
<1>13. CASE SyncClean \/ SyncOpen \/ Dump
  <2>1. UNCHANGED <<disk, seen, quiet, errors, interrupted, todo, depends_cache>> /\ Looping
        /\ ~Parsing'
    BY <1>13 DEF SyncClean, SyncOpen, Dump, Outcome, world, memory, result, Looping, Parsing
  <2> QED
    BY <2>1 DEF SafeInv, Safe, Kept, Good, Unedited
<1>14. CASE Interrupt
  <2>1. UNCHANGED <<disk, seen, quiet, depends_cache>> /\ Looping /\ ~Parsing' /\ interrupted'
        /\ todo' = {}
    BY <1>14 DEF Interrupt, world, Looping, Parsing
  <2> QED
    BY <2>1 DEF SafeInv, Safe, Kept, Good
<1>15. ASSUME NEW g \in File, Edit(g) PROVE SafeInv'
  BY <1>15, EditLook DEF SafeInv, Safe
<1> QED
  BY <1>3, <1>4, <1>5, <1>6, <1>7, <1>8, <1>9, <1>10, <1>11, <1>12, <1>13, <1>14, <1>15
     DEF Next, Done

LEMMA MadeNext ==
    ShapeInv /\ TwiceInv /\ [Next]_vars => MadeInv'
<1> SUFFICES ASSUME ShapeInv, LookInv, MadeInv, [Next]_vars, Unedited' PROVE MadeInv'
  BY DEF TwiceInv, MadeInv
<1>1. CASE UNCHANGED vars
  BY <1>1 DEF vars, memory, world, MadeInv, Making, Unedited, fn, first
<1>2. CASE pc' \notin {"setdata", "stamp", "handle"}
  BY <1>2 DEF MadeInv, Making
<1>3. CASE Parse
  <2>1. Unedited /\ UNCHANGED disk /\ pc' = "setdata"
    BY <1>3 DEF Parse, Unedited, world
  <2>2. fn \in Fn /\ Includes[fn] \subseteq File
    BY <1>3, FirstInTodo, IncludesType DEF Parse, ShapeInv, Parsing
  <2>3. \A i \in DOMAIN parsed'.depends : i \in Includes[fn] /\ parsed'.depends[i] = Mtime(i)
    BY <1>3 DEF Parse
  <2>4. \A i \in DOMAIN parsed'.depends : parsed'.depends[i] = disk'[i]
    BY <2>1, <2>2, <2>3, UneditedMtime
  <2> QED
    BY <2>1, <2>4 DEF MadeInv, Making
<1>4. CASE SetDepends
  <2>1. Unedited /\ UNCHANGED <<disk, parsed>> /\ fn' = fn /\ pc = "setdata" /\ pc' = "stamp"
    BY <1>4 DEF SetDepends, Unedited, world, fn, first
  <2>2. depends_cache'[fn].depends = parsed.depends
    BY <1>4, MadeEntry
  <2> QED
    BY <2>1, <2>2 DEF MadeInv, Making
<1>5. CASE SetStamp
  <2>1. Unedited /\ UNCHANGED <<disk, parsed>> /\ fn' = fn /\ pc = "stamp" /\ pc' = "handle"
    BY <1>5 DEF SetStamp, Unedited, world, fn, first
  <2>2. Mtime(fn) = disk[fn]
    BY <2>1, UneditedMtime, FirstInTodo DEF ShapeInv, Parsing, File
  <2>3. EntryShape(depends_cache[fn])
    BY <2>1 DEF ShapeInv, Making
  <2>4. depends_cache'[fn] = [vars |-> depends_cache[fn].vars \cup {"CACHETIMESTAMP"},
                              depends |-> depends_cache[fn].depends, stamp |-> disk[fn],
                              content |-> depends_cache[fn].content]
    BY <1>5, <2>2, <2>3, MadeEntry DEF EntryShape
  <2> QED
    BY <2>1, <2>4 DEF MadeInv, Making
<1>6. ASSUME NEW g \in File, Edit(g) PROVE FALSE
  BY <1>6, EditLook
<1> QED
  BY <1>1, <1>2, <1>3, <1>4, <1>5, <1>6
     DEF Next, Done, Start, Load, CheckNotCached, CheckOutdated, UseEntry, EntryIncomplete,
         ParseFails, StampFails, Handle, NextRecipe, SyncClean, SyncOpen, Dump, Interrupt, Kill,
         Finish, Outcome

\* What is saved is what is good in memory.
LEMMA SavedDump ==
    ASSUME ShapeInv, LookInv, SafeInv, SavedInv, Dump PROVE SavedInv'
<1>1. /\ cachefile' = [mtime |-> clock, whole |-> TRUE, entries |-> Restrict(depends_cache, Saved)]
      /\ UNCHANGED <<disk, clock, seen, quiet, cacheclean>> /\ pc' = Outcome /\ pc = "dump"
  BY DEF Dump, memory, world
<1>2. pc' \in {"built", "failed", "interrupted"} /\ (pc' = "built" => ~errors /\ ~interrupted)
  BY <1>1 DEF Outcome
<1>3. todo = {} /\ ~cacheclean
  BY <1>1 DEF SavedInv
<1>4. ASSUME quiet \/ (pc' = "built" /\ Unedited), NEW f \in Fn, Kept(f)
      PROVE  f \in Saved /\ Good(depends_cache[f], f)
  <2>1. \E i \in DOMAIN Recipes : f = Recipes[i]
    BY <1>4 DEF Fn, Range
  <2>2. Safe(f)
    BY <1>2, <1>3, <1>4, <2>1 DEF Safe
  <2>3. f \in DOMAIN depends_cache /\ Good(depends_cache[f], f)
    BY <1>1, <1>4, <2>2 DEF SafeInv, Looping
  <2> QED
    BY <1>4, <2>3 DEF Saved, Kept
<1>5. \A c \in ConfInc : disk[c] <= clock
  BY DEF LookInv, Conf, File
<1>6. ASSUME quiet \/ (pc' = "built" /\ Unedited) PROVE GoodFile'
  BY <1>1, <1>4, <1>5, <1>6, RestrictProperties DEF GoodFile, Kept, Good
<1>7. cachefile'.mtime \in 0 .. clock'
  BY <1>1 DEF LookInv
<1> QED
  BY <1>1, <1>2, <1>3, <1>6, <1>7 DEF SavedInv, Unedited

\* When there is nothing to save what is good in memory is in the file.
LEMMA SavedClean ==
    ASSUME ShapeInv, LookInv, SafeInv, SavedInv, SyncClean, ~errors, ~interrupted, Unedited
    PROVE  GoodFile
<1> SUFFICES ASSUME NEW f \in Fn, Kept(f)
             PROVE  /\ cachefile.whole /\ \A c \in ConfInc : disk[c] <= cachefile.mtime
                    /\ f \in DOMAIN cachefile.entries /\ Good(cachefile.entries[f], f)
  BY DEF GoodFile
<1>1. \E i \in DOMAIN Recipes : f = Recipes[i]
  BY DEF Fn, Range
<1>2. Safe(f) /\ Looping
  BY <1>1 DEF Safe, SyncClean, Looping
<1>3. f \in DOMAIN depends_cache /\ Good(depends_cache[f], f)
  BY <1>2 DEF SafeInv
<1> QED
  BY <1>2, <1>3 DEF SavedInv, SyncClean

LEMMA SavedNext ==
    ShapeInv /\ TwiceInv /\ [Next]_vars => SavedInv'
<1> SUFFICES ASSUME ShapeInv, LookInv, SafeInv, SavedInv, [Next]_vars PROVE SavedInv'
  BY DEF TwiceInv
<1> USE DEF SavedInv, Looping
<1>1. CASE UNCHANGED vars
  BY <1>1 DEF vars, memory, world, GoodFile, Kept, Good, Unedited
<1>2. CASE Start
  BY <1>2 DEF Start, GoodFile, Kept, Good
<1>3. CASE Load
  <2>1. UNCHANGED <<disk, clock, seen, quiet, cachefile, mtimes>> /\ pc = "load" /\ pc' = "check"
    BY <1>3 DEF Load, world
  <2>2. GoodFile' <=> GoodFile
    BY <2>1 DEF GoodFile, Kept, Good
  <2>3. \A f \in DOMAIN depends_cache' :
           /\ f \in DOMAIN cachefile.entries /\ cachefile.entries[f] = depends_cache'[f]
           /\ cachefile.whole /\ UpToDate
    BY <1>3 DEF Load, Empty
  <2>4. Unedited' /\ UpToDate => \A c \in ConfInc : disk[c] <= cachefile.mtime
    BY <2>1 DEF Unedited, LookInv, UpToDate, Conf, File
  <2> QED
    BY <2>1, <2>2, <2>3, <2>4
<1>4. ASSUME UNCHANGED <<disk, clock, seen, quiet, cachefile>>,
             UNCHANGED depends_cache \/ Evict, UNCHANGED cacheclean,
             pc \notin {"load", "idle", "dump"}, pc' \notin {"load", "dump", "stamp", "handle"},
             pc' = "built" => (Unedited => GoodFile)
      PROVE  SavedInv'
  <2>1. GoodFile' <=> GoodFile
    BY <1>4 DEF GoodFile, Kept, Good
  <2>2. \A f \in DOMAIN depends_cache' : f \in DOMAIN depends_cache /\ depends_cache'[f] = depends_cache[f]
    BY <1>4, EvictProperties
  <2> QED
    BY <1>4, <2>1, <2>2 DEF Unedited
<1>5. CASE CheckNotCached \/ CheckOutdated \/ UseEntry \/ EntryIncomplete \/ Parse \/ ParseFails
           \/ StampFails \/ Interrupt
  BY <1>4, <1>5 DEF CheckNotCached, CheckOutdated, UseEntry, EntryIncomplete, Parse, ParseFails,
                    StampFails, Interrupt, NextRecipe, memory, world
<1>6. CASE SetDepends
  BY <1>6 DEF SetDepends, world, GoodFile, Kept, Good
<1>7. CASE SetStamp \/ Handle
  <2>1. UNCHANGED <<disk, clock, seen, quiet, cachefile, cacheclean>> /\ ~cacheclean
        /\ pc \in {"stamp", "handle"} /\ pc' \in {"handle", "check"}
    BY <1>7 DEF SetStamp, Handle, NextRecipe, world
  <2>2. GoodFile' <=> GoodFile
    BY <2>1 DEF GoodFile, Kept, Good
  <2> QED
    BY <2>1, <2>2
<1>8. CASE SyncClean
  <2>1. Outcome = "built" => ~errors /\ ~interrupted
    BY DEF Outcome
  <2>2. Outcome \in {"built", "failed", "interrupted"}
    BY DEF Outcome
  <2> QED
    BY <1>4, <1>8, <2>1, <2>2, SavedClean DEF SyncClean, memory, world
<1>9. CASE SyncOpen
  BY <1>9 DEF SyncOpen, world, memory, LookInv
<1>10. CASE Dump
  BY <1>10, SavedDump
<1>11. CASE Kill
  <2>1. UNCHANGED <<disk, clock, seen, cachefile>> /\ pc' = "idle" /\ (quiet' => quiet /\ pc # "dump")
    BY <1>11 DEF Kill, world
  <2>2. GoodFile' <=> GoodFile
    BY <2>1 DEF GoodFile, Kept, Good
  <2> QED
    BY <2>1, <2>2
<1>12. CASE Finish
  <2>1. UNCHANGED <<disk, clock, seen, cachefile>> /\ pc' = "idle" /\ pc # "dump"
        /\ (quiet' => quiet \/ (pc = "built" /\ Unedited))
    BY <1>12 DEF Finish, world, Unedited
  <2>2. GoodFile' <=> GoodFile
    BY <2>1 DEF GoodFile, Kept, Good
  <2> QED
    BY <2>1, <2>2
<1>13. ASSUME NEW g \in File, Edit(g) PROVE SavedInv'
  <2>1. ~quiet' /\ ~Unedited' /\ clock' = clock + 1
        /\ UNCHANGED <<cachefile, pc, todo, cacheclean, depends_cache>>
    BY <1>13, EditLook DEF Edit, memory
  <2> QED
    BY <2>1 DEF LookInv
<1> QED
  BY <1>1, <1>2, <1>3, <1>5, <1>6, <1>7, <1>8, <1>9, <1>10, <1>11, <1>12, <1>13 DEF Next, Done

LEMMA TwiceInvHolds == Spec => []TwiceInv
<1>1. ShapeInv /\ TwiceInv /\ [Next]_vars => TwiceInv'
  BY LookNext, SafeNext, MadeNext, SavedNext DEF TwiceInv
<1> QED
  BY <1>1, TwiceInit, ShapeInvHolds, PTL DEF Spec

\* When nothing was edited since an invocation that built, only what is never
\* cached is parsed again: over interrupts, kills outside of the saving,
\* failures and recipes that are not there.
THEOREM NothingParsedTwiceHolds == Spec => []NothingParsedTwice
<1>1. ShapeInv /\ TwiceInv => NothingParsedTwice
  <2> SUFFICES ASSUME ShapeInv, TwiceInv, quiet, pc = "parse" PROVE fn \in DontCache
    BY DEF NothingParsedTwice
  <2>1. Safe(fn) /\ ~Kept(fn)
    BY DEF TwiceInv, SafeInv, Safe, Parsing
  <2>2. first \in todo /\ fn \in Fn
    BY FirstInTodo DEF ShapeInv, Parsing
  <2>3. disk[fn] # 0
    BY <2>2 DEF TwiceInv, LookInv, SafeInv, Looping, fn
  <2> QED
    BY <2>1, <2>2, <2>3 DEF Kept
<1> QED
  BY <1>1, TwiceInvHolds, ShapeInvHolds, PTL

===============================================================================
