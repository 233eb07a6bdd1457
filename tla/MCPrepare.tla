----------------------------- MODULE MCPrepare -----------------------------
(***************************************************************************)
(* Instances of Prepare for TLC: app needs "lib", which lib and alt        *)
(* provide.  Every recipe has a compile and a build, app a package after   *)
(* it; the order of compile and build, also in a loop or with a dependency *)
(* on itself, and a few [depends] vary.                                    *)
(***************************************************************************)
EXTENDS Scheduler

MCFnid == [t \in Task |-> <<"app", "app", "app", "lib", "lib", "alt", "alt">>[t + 1]]
MCName == [t \in Task |-> <<"compile", "build", "package", "compile", "build", "compile", "build">>[t + 1]]

\* A task may need its recipe's compile, its build, both or neither.
SomeParents ==
    {[t \in Task |-> <<a, b, {1}, c, d, {}, e>>[t + 1]] :
        a \in {{}, {1}}, b \in SUBSET {0, 1}, c \in {{}, {4}}, d \in SUBSET {3, 4}, e \in {{}, {5}}}
UsualParents == {[t \in Task |-> IF MCName[t] = "compile" THEN {} ELSE {t - 1}]}

On(t, i) == [u \in Task |-> IF u = t THEN {i} ELSE {}]
FewIdepends ==
    {[t \in Task |-> {}], On(3, <<"app", "compile">>), On(4, <<"app", "compile">>),
     On(5, <<"tool", "build">>), On(1, <<"tool", "compile">>), On(4, <<"libdev", "compile">>)}

\* app.compile waits for the builds of DEPENDS, app.build for all builds.
MCDeptask == [t \in Task |-> IF t = 0 THEN {"build"} ELSE {}]
MCRecrdeptask == [t \in Task |-> IF t = 1 THEN {"build"} ELSE {}]
MCDepids == [app |-> {"lib"}, lib |-> {}, alt |-> {"libc"}]
MCProviders ==
    [app |-> <<"app">>, lib |-> <<"lib", "alt">>, libdev |-> <<"lib">>, tool |-> <<"alt">>, libc |-> <<>>]
MCBroken == {{}, {1}, {4}, {3, 6}}
MCTargets == {<<"app", "package">>, <<"tool", "compile">>}

\* Two targets: app takes four steps, and app.build and doc.build need lib.
ChainFnid == [t \in Task |-> <<"app", "app", "app", "app", "lib", "doc">>[t + 1]]
ChainName == [t \in Task |-> <<"fetch", "unpack", "compile", "build", "build", "build">>[t + 1]]
ChainParents == {[t \in Task |-> IF t \in 1 .. 3 THEN {t - 1} ELSE {}]}
NoIdepends == {[t \in Task |-> {}]}
ChainDeptask == [t \in Task |-> IF t \in {3, 5} THEN {"build"} ELSE {}]
NoRecrdeptask == [t \in Task |-> {}]
ChainDepids == [app |-> {"lib"}, lib |-> {}, doc |-> {"lib"}]
ChainProviders == [app |-> <<"app">>, lib |-> <<"lib">>, doc |-> <<"doc">>]
ChainTargets == {<<"app", "build">>, <<"doc", "build">>}
=============================================================================
