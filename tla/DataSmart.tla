----------------------------- MODULE DataSmart -----------------------------
(***************************************************************************)
(* bb/data_smart.py, bb/COW.py and update_data of bb/data.py: the stores   *)
(* BitBake keeps its variables in.  A copy has a dictionary of its own, in *)
(* front of that of the store it was made from (dict["_data"]), and is     *)
(* copied from variable by variable as it is written to.  update_data      *)
(* applies the overrides (A_arm to A) and the pending appends and          *)
(* prepends.                                                               *)
(*                                                                         *)
(* A variable's name is the sequence of its parts: A_arm is <<"A", "arm">>.*)
(* A value is a sequence of texts and references ([ref |-> <<"A">>] is     *)
(* ${A}).  Flags other than content, _append and _prepend are left out.    *)
(* One store is made from nothing; a process of BitBake has only one.      *)
(***************************************************************************)
EXTENDS Naturals, Sequences, FiniteSets, FiniteSetsExt, SequencesExt

CONSTANTS
    Var,            \* names
    Override,       \* the parts of names that may be in OVERRIDES
    Given,          \* [Var -> value or None]: the first store, once the configuration is read
    Assignments,    \* <<name, value>> that are set
    Appends,        \* <<name, keyword, override, text>>: A_append_arm = "x", set once at most
    Renames,        \* <<key, newkey>>, as expandKeys comes to them
    Deleted, Read,  \* names that are deleted, and read
    None,           \* no value, no entry
    MaxStores, MaxOps   \* bounds

Store == 1 .. MaxStores
Keyword == {"_append", "_prepend"}
OVERRIDES == <<"OVERRIDES">>

Token == [text : STRING] \cup [ref : Var]
Pending == [text : STRING, override : Override \cup {None}]

ASSUME DataAssumption ==
    /\ \A v \in Var : v # <<>> /\ (Len(v) > 1 => Front(v) \in Var /\ Last(v) \in Override)
    /\ OVERRIDES \in Var
    /\ DOMAIN Given = Var
    /\ \A a \in Assignments : a[1] \in Var
    /\ Appends \subseteq Var \X Keyword \X (Override \cup {None}) \X STRING
    /\ Deleted \subseteq Var /\ Read \subseteq Var
    /\ Renames \subseteq {r \in Var \X Var : r[1] # r[2]}
    /\ MaxStores \in Nat \ {0} /\ MaxOps \in Nat

ASSUME ValueAssumption ==
    /\ IsFiniteSet(Var) /\ Var \subseteq Seq(STRING)
    /\ \A v \in Var : Given[v] = None \/ Given[v] \in Seq(Token)
    /\ \A a \in Assignments : a[2] \in Seq(Token)

VARIABLES
    stores,         \* how many stores there are; 1 is the first
    above,          \* [Store -> the stores dict["_data"] leads to, and itself]
    dict,           \* [Store -> [Var -> its flags in this dictionary, or None]]
    special,        \* _special_values: [Store -> [Keyword -> own set, or None]]
    seen,           \* _seen_overrides: [Store -> [Override -> own set, or None]]
    expand_cache,   \* [Store -> [Var -> value or None]]
    ops,            \* how many operations there were
    used,           \* history: the appends that were set
    last,           \* history: the last operation and its store
    behind          \* history: a store above was written to since this one was made

history == <<ops, used, last, behind>>
vars == <<stores, above, dict, special, seen, expand_cache, history>>

-----------------------------------------------------------------------------
Nothing == [f \in {"content"} \cup Keyword |-> IF f = "content" THEN None ELSE <<>>]

\* _findVar: the nearest dictionary that has the variable.  Stores are
\* numbered as they are made, so it is the greatest.
Found(s, v) ==
    LET having == {t \in above[s] : dict[t][v] # None} IN
    IF having = {} THEN Nothing ELSE dict[Max(having)][v]

Content(s, v) == Found(s, v)["content"]

\* COWDictMeta: a key of a copy is its own once it was read for writing, and
\* is looked up in the class it was made from until then.
Has(cow, s, k) == \E t \in above[s] : cow[t][k] # None
Members(cow, s, k) ==
    LET having == {t \in above[s] : cow[t][k] # None} IN
    IF having = {} THEN {} ELSE cow[Max(having)][k]

Empty == [v \in Var |-> None]

Init ==
    /\ stores = 1
    /\ above = [s \in Store |-> IF s = 1 THEN {1} ELSE {}]
    /\ dict = [s \in Store |-> [v \in Var |->
          IF s = 1 /\ Given[v] # None THEN [Nothing EXCEPT !["content"] = Given[v]] ELSE None]]
    /\ special = [s \in Store |-> [k \in Keyword |-> None]]
    /\ seen = [s \in Store |-> [o \in Override |->
          LET having == {v \in Var : Given[v] # None /\ Len(v) > 1 /\ Last(v) = o} IN
          IF s = 1 /\ having # {} THEN having ELSE None]]
    /\ expand_cache = [s \in Store |-> Empty]
    /\ ops = 0 /\ used = {} /\ last = <<"none", 1>>
    /\ behind = [s \in Store |-> FALSE]

Operation(op, s) ==
    /\ s <= stores
    /\ ops < MaxOps /\ ops' = ops + 1
    /\ last' = <<op, s>>

\* The copies of s, and their copies, that s leaves behind when it changes.
LeavesBehind(s) == behind' = [t \in Store |-> behind[t] \/ (s # t /\ s \in above[t])]

-----------------------------------------------------------------------------
\* Mutant: the set is changed where it is, in the store above.
SeenInPlace(sn, s, v) ==
    LET having == {t \in above[s] : sn[t][Last(v)] # None} IN
    IF Len(v) = 1 THEN sn
    ELSE [sn EXCEPT ![Max(having \cup {1})][Last(v)] = Members(sn, s, Last(v)) \cup {v}]

\* "more cookies for the cookie monster": a variable with an override.
Seen(sn, s, v) ==
    IF Len(v) = 1 THEN sn
    ELSE [sn EXCEPT ![s][Last(v)] = Members(sn, s, Last(v)) \cup {v}]

\* setVar of a plain name; what the store sees is copied first.
SetVar(s, v, value) ==
    /\ Operation("setVar", s) /\ LeavesBehind(s)
    /\ dict' = [dict EXCEPT ![s][v] = [Found(s, v) EXCEPT !["content"] = value]]
    /\ seen' = Seen(seen, s, v)
    /\ expand_cache' = [expand_cache EXCEPT ![s] = Empty]
    /\ UNCHANGED <<stores, above, special, used>>

\* setVar of A_append, A_append_arm, A_prepend, ...
SetVarKeyword(s, v, keyword, override, text) ==
    /\ Operation("setVarKeyword", s) /\ LeavesBehind(s)
    /\ <<v, keyword, override, text>> \notin used
    /\ used' = used \cup {<<v, keyword, override, text>>}
    /\ dict' = [dict EXCEPT ![s][v] =
                   [Found(s, v) EXCEPT ![keyword] = Append(@, [text |-> text, override |-> override])]]
    /\ special' = [special EXCEPT ![s][keyword] = Members(special, s, keyword) \cup {v}]
    /\ expand_cache' = [expand_cache EXCEPT ![s] = Empty]
    /\ UNCHANGED <<stores, above, seen>>

\* Mutant: expand_cache is not cleared.
DelVarCached(s, v) ==
    /\ Operation("delVar", s) /\ LeavesBehind(s)
    /\ dict' = [dict EXCEPT ![s][v] = Nothing]
    /\ UNCHANGED <<stores, above, special, seen, used, expand_cache>>

\* delVar: the empty entry hides what the stores above have.
DelVar(s, v) ==
    /\ Operation("delVar", s) /\ LeavesBehind(s)
    /\ dict' = [dict EXCEPT ![s][v] = Nothing]
    /\ expand_cache' = [expand_cache EXCEPT ![s] = Empty]
    /\ UNCHANGED <<stores, above, special, seen, used>>

\* Mutant: the new name is not marked as having appends.
RenamedAway(sp, s, key, newkey) ==
    [sp EXCEPT ![s] = [k \in Keyword |->
        IF Has(sp, s, k) THEN Members(sp, s, k) \ {key} ELSE @[k]]]

\* Where key had appends, newkey has them now.
Renamed(sp, s, key, newkey) ==
    [sp EXCEPT ![s] = [k \in Keyword |->
        IF Has(sp, s, k)
        THEN (Members(sp, s, k) \ {key}) \cup (IF key \in Members(sp, s, k) THEN {newkey} ELSE {})
        ELSE @[k]]]

\* renameVar; nothing happens without a content.
RenameVar(s, key, newkey) ==
    /\ Operation("renameVar", s) /\ LeavesBehind(s)
    /\ Content(s, key) # None
    /\ dict' = [dict EXCEPT
          ![s][newkey] = [f \in DOMAIN Nothing |->
              IF f = "content" THEN Content(s, key) ELSE Found(s, newkey)[f] \o Found(s, key)[f]],
          ![s][key] = Nothing]
    /\ special' = Renamed(special, s, key, newkey)
    /\ seen' = Seen(seen, s, newkey)
    /\ expand_cache' = [expand_cache EXCEPT ![s] = Empty]
    /\ UNCHANGED <<stores, above, used>>

\* createCopy: dict["_data"] is the dictionary of s, the sets are COW copies.
CreateCopy(s) ==
    /\ stores < MaxStores
    /\ Operation("createCopy", s)
    /\ stores' = stores + 1
    /\ above' = [above EXCEPT ![stores + 1] = above[s] \cup {stores + 1}]
    /\ behind' = [behind EXCEPT ![stores + 1] = behind[s]]
    /\ UNCHANGED <<dict, special, seen, expand_cache, used>>

-----------------------------------------------------------------------------
(* Expansion. *)

IsRef(token) == "ref" \in DOMAIN token

\* expand: what getVar(v, 1) returns, with the values cached so far.  A
\* reference to a variable without a value stays as it is.
Expansions(s, cached) ==
    LET part(token, values) ==
            IF ~IsRef(token) \/ values[token.ref] = None THEN <<token>> ELSE values[token.ref]
        expansion[n \in 0 .. Cardinality(Var)] ==
            LET inner == IF n = 0 THEN Empty ELSE expansion[n - 1] IN
            [v \in Var |->
                IF Content(s, v) = None THEN None
                ELSE IF cached[v] # None THEN cached[v]
                ELSE IF n = 0 THEN Content(s, v)
                ELSE FlattenSeq([i \in DOMAIN Content(s, v) |-> part(Content(s, v)[i], inner)])]
    IN  expansion[Cardinality(Var)]

References(s, v) == {token.ref : token \in {t \in ToSet(Content(s, v)) : IsRef(t)}}

\* The variables an expansion of v comes to: they are cached with it.
Visited(s, v) ==
    LET next(u) ==
            IF expand_cache[s][u] # None \/ Content(s, u) = None THEN {} ELSE References(s, u)
        within[n \in 0 .. Cardinality(Var)] ==
            IF n = 0 THEN {v}
            ELSE LET before == within[n - 1] IN before \cup UNION {next(u) : u \in before}
    IN  within[Cardinality(Var)]

\* The variables whose expansion does not come back to one that it is in.
Ending(s, cached) ==
    LET ending[n \in 0 .. Cardinality(Var)] ==
            IF n = 0 THEN {}
            ELSE LET inner == ending[n - 1] IN
                 {v \in Var : \/ Content(s, v) = None \/ cached[v] # None
                              \/ References(s, v) \subseteq inner}
    IN  ending[Cardinality(Var)]

CacheWith(s, names) ==
    LET values == Expansions(s, expand_cache[s]) IN
    [u \in Var |-> IF u \in names THEN values[u] ELSE expand_cache[s][u]]

\* getVar(v, 1)
GetVar(s, v) ==
    /\ Operation("getVar", s)
    /\ Content(s, v) # None /\ v \in Ending(s, expand_cache[s])
    /\ expand_cache' = [expand_cache EXCEPT ![s] = CacheWith(s, Visited(s, v))]
    /\ UNCHANGED <<stores, above, dict, special, seen, used, behind>>

\* "variable %s references itself!": getVar, also that of update_data, comes to
\* nothing, but what was expanded before that is cached.
GetVarRaises(s, v) ==
    /\ Operation("raise", s)
    /\ v \notin Ending(s, expand_cache[s])
    /\ \E names \in SUBSET (Visited(s, v) \cap Ending(s, expand_cache[s])) :
          /\ \A u \in names : Visited(s, u) \subseteq names
          /\ expand_cache' = [expand_cache EXCEPT ![s] = CacheWith(s, names)]
    /\ UNCHANGED <<stores, above, dict, special, seen, used, behind>>

-----------------------------------------------------------------------------
(* update_data *)

\* SelectSeq, of which the provers know nothing.
Kept(seq, S) ==
    LET kept[n \in 0 .. Len(seq)] ==
            IF n = 0 THEN <<>>
            ELSE IF seq[n] \in S THEN Append(kept[n - 1], seq[n]) ELSE kept[n - 1]
    IN  kept[Len(seq)]

\* OVERRIDES, expanded and split.
Overrides(s) ==
    LET value == Expansions(s, expand_cache[s])[OVERRIDES]
        texts == IF value = None THEN <<>> ELSE Kept(value, {t \in ToSet(value) : ~IsRef(t)})
    IN  [i \in DOMAIN texts |-> texts[i].text]

\* What there is before the first override is applied.
Unapplied(s) ==
    [content |-> [v \in Var |-> Content(s, v)],
     seen |-> [o \in Override |-> Members(seen, s, o)],
     set |-> {}]

\* One override: A gets what A_arm has, also nothing.  An assignment to A_arm
\* (from A_arm_sh) files it.
ApplyOverride(before, o) ==
    LET names == IF o \in Override THEN {Front(v) : v \in before.seen[o]} ELSE {} IN
    [content |-> [v \in Var |-> IF v \in names THEN before.content[Append(v, o)]
                                ELSE before.content[v]],
     seen |-> [q \in Override |-> before.seen[q] \cup
                  {v \in names : Len(v) > 1 /\ Last(v) = q}],
     set |-> before.set \cup names]

\* A_arm is not filed yet when A_arm_arm is applied: the set that is looped
\* over gets a member, and the loop raises RuntimeError.
FilesItself(before, o) ==
    o \in Override /\ \E v \in before.seen[o] :
        Last(Front(v)) = o /\ Len(v) > 2 /\ Front(v) \notin before.seen[o]

\* Mutant: the first override of the list wins.
FirstApplied(s, overrides) ==
    LET n == Len(overrides)
        loop[i \in 0 .. n] == IF i = 0 THEN Unapplied(s)
                              ELSE ApplyOverride(loop[i - 1], overrides[n + 1 - i])
    IN  loop[n]

\* "First we apply all overrides", one after the other.
OverridesApplied(s, overrides) ==
    LET loop[i \in 0 .. Len(overrides)] ==
            IF i = 0 THEN Unapplied(s) ELSE ApplyOverride(loop[i - 1], overrides[i])
    IN  loop[Len(overrides)]

\* The pending texts of a list that apply now.
Applies(list, overrides) ==
    Kept(list, {a \in ToSet(list) : a.override = None \/ a.override \in ToSet(overrides)})
Texts(list) == [i \in DOMAIN list |-> [text |-> list[i].text]]

\* Mutant: the flag stays.
AllLeft(list, overrides) == list

\* "maybe the OVERRIDE was not yet added so keep the append"
Left(list, overrides) == IF Applies(list, overrides) # <<>> THEN <<>> ELSE list

\* The variables of the set of a keyword to which something is added.
Hit(s, k, overrides) ==
    {v \in Members(special, s, k) : Applies(Found(s, v)[k], overrides) # <<>>}

\* The value after the overrides, with what applies added at both ends.
Extended(s, v, content, overrides) ==
    LET texts(k) ==
            IF v \in Members(special, s, k) THEN Texts(Applies(Found(s, v)[k], overrides)) ELSE <<>> IN
    IF \A k \in Keyword : texts(k) = <<>> THEN content
    ELSE Reverse(texts("_prepend")) \o (IF content = None THEN <<>> ELSE content) \o texts("_append")

\* Whoever has called an update_data that raises RuntimeError gives the store up.
UpdateData(s) ==
    LET overrides == Overrides(s)
        applied == OverridesApplied(s, overrides)
        hit == UNION {Hit(s, k, overrides) : k \in Keyword}
        set == applied.set \cup hit
        filed == [q \in Override |->
                     Members(seen, s, q) \cup {v \in Var : v \in set /\ Len(v) > 1 /\ Last(v) = q}]
    IN
    /\ Operation("update_data", s)
    /\ OVERRIDES \in Ending(s, expand_cache[s])
    /\ \A i \in DOMAIN overrides :
          ~FilesItself(OverridesApplied(s, SubSeq(overrides, 1, i - 1)), overrides[i])
    /\ IF set = {} THEN UNCHANGED behind ELSE LeavesBehind(s)
    /\ dict' = [dict EXCEPT ![s] = [v \in Var |->
          IF v \notin set THEN dict[s][v]
          ELSE [f \in DOMAIN Nothing |->
                   IF f = "content" THEN Extended(s, v, applied.content[v], overrides)
                   ELSE IF v \in Members(special, s, f) THEN Left(Found(s, v)[f], overrides) ELSE Found(s, v)[f]]]]
    /\ special' = [special EXCEPT ![s] = [k \in Keyword |->
          IF Has(special, s, k) THEN Members(special, s, k) ELSE @[k]]]
    /\ seen' = [seen EXCEPT ![s] = [q \in Override |->
          IF filed[q] # Members(seen, s, q) \/ (q \in ToSet(overrides) /\ Has(seen, s, q))
          THEN filed[q] ELSE @[q]]]
    /\ expand_cache' = [expand_cache EXCEPT ![s] = IF set = {} THEN CacheWith(s, Visited(s, OVERRIDES)) ELSE Empty]
    /\ UNCHANGED <<stores, above, used>>

-----------------------------------------------------------------------------
Next ==
    \E s \in Store :
        \/ \E a \in Assignments : SetVar(s, a[1], a[2])
        \/ \E a \in Appends : SetVarKeyword(s, a[1], a[2], a[3], a[4])
        \/ \E v \in Deleted : DelVar(s, v)
        \/ \E r \in Renames : RenameVar(s, r[1], r[2])
        \/ CreateCopy(s)
        \/ \E v \in Read : GetVar(s, v)
        \/ \E v \in Read \cup {OVERRIDES} : GetVarRaises(s, v)
        \/ UpdateData(s)

Spec == Init /\ [][Next]_vars

-----------------------------------------------------------------------------
TypeOK ==
    /\ stores \in Store
    /\ \A s \in Store, v \in Var :
          /\ dict[s][v] = None \/
                /\ dict[s][v]["content"] = None \/ dict[s][v]["content"] \in Seq(Token)
                /\ \A k \in Keyword : dict[s][v][k] \in Seq(Pending)
          /\ expand_cache[s][v] = None \/ expand_cache[s][v] \in Seq(Token)
    /\ \A s \in Store : above[s] \subseteq 1 .. s /\ (s <= stores <=> s \in above[s])
    /\ \A s \in Store, k \in Keyword : special[s][k] = None \/ special[s][k] \subseteq Var
    /\ \A s \in Store, o \in Override :
           seen[s][o] = None \/ \A v \in seen[s][o] : v \in Var /\ Len(v) > 1 /\ Last(v) = o
    /\ \A s \in Store, v \in Var : s > stores => dict[s][v] = None /\ expand_cache[s][v] = None
    /\ used \subseteq Appends /\ ops \in 0 .. MaxOps

\* "Value from source are copy-on-write": an operation on a store changes what
\* is read in that store and the copies below it, and nowhere else.
View(s) ==
    <<[v \in Var |-> Found(s, v)],
      [k \in Keyword |-> Members(special, s, k)], [o \in Override |-> Members(seen, s, o)]>>
CopiesOnly ==
    [][\A s \in 1 .. stores : last'[2] \notin above[s] => View(s)' = View(s)]_vars

\* update_data looks only at the variables in its two indexes: whatever has a
\* pending append or prepend, or an override in its name, is in them - in
\* every store that no store above changed behind its back.
IndexComplete ==
    \A s \in 1 .. stores : ~behind[s] =>
        \A v \in Var :
            /\ \A k \in Keyword : Found(s, v)[k] # <<>> => v \in Members(special, s, k)
            /\ Len(v) > 1 /\ Content(s, v) # None => v \in Members(seen, s, Last(v))

\* What is read from the expansion cache is what would be read without it, in
\* every store that no store above changed behind its back.
CacheFresh ==
    \A s \in 1 .. stores : ~behind[s] =>
        \A v \in Var : expand_cache[s][v] # None => expand_cache[s][v] = Expansions(s, Empty)[v]

\* The texts are told apart, so that each can be followed: no two appends have
\* the same, and no value that is set has one of an append, or one twice.
TextsApart ==
    /\ \A a, b \in Appends : a[4] = b[4] => a = b
    /\ \A value \in {Given[v] : v \in Var} \cup {a[2] : a \in Assignments} :
          value # None =>
              IsInjective(value) /\ \A a \in Appends : [text |-> a[4]] \notin ToSet(value)

\* However often update_data is called, in a store and in copies made before
\* and after, no text is appended or prepended twice - in every store that no
\* store above changed behind its back (a rename in both would add it twice).
AppendedOnce ==
    \A s \in 1 .. stores : ~behind[s] =>
        \A v \in Var : Content(s, v) # None => IsInjective(Content(s, v))

\* The overrides of v have none themselves and have a value if they are filed.
Simple(s, v) ==
    \A u \in Var : Len(u) > Len(v) /\ SubSeq(u, 1, Len(v)) = v =>
        /\ u \in Members(seen, s, Last(u)) => Content(s, u) # None
        /\ Len(u) > Len(v) + 1 => Content(s, u) = None

\* What v has for the last of OVERRIDES it has something for.
LastGiven(s, v) ==
    LET given == {i \in DOMAIN Overrides(s) :
                     \E u \in Var : u = Append(v, Overrides(s)[i]) /\ Content(s, u) # None} IN
    IF given = {} THEN Content(s, v) ELSE Content(s, Append(v, Overrides(s)[Max(given)]))

Updated(s, v) ==
    LET texts(k) == Texts(Applies(Found(s, v)[k], Overrides(s)))
        base == LastGiven(s, v)
        added == Reverse(texts("_prepend")) \o (IF base = None THEN <<>> ELSE base) \o texts("_append") IN
    IF added = <<>> THEN base ELSE added

\* After update_data a variable has what it has for the last of OVERRIDES,
\* with the appends and prepends that apply added after that.  (A variable
\* whose overrides have overrides themselves is not considered, nor one with
\* an override that was removed: update_data sets that to nothing.)
LastOverrideWins ==
    [][\A s \in 1 .. stores, v \in Var :
           last' = <<"update_data", s>> /\ ~behind[s] /\ Simple(s, v) =>
               Content(s, v)' = Updated(s, v)]_vars

\* "maybe the OVERRIDE was not yet added so keep the append"
KeptAppends ==
    [][\A s \in 1 .. stores, v \in Var, k \in Keyword :
           last' = <<"update_data", s>> =>
               ToSet(Found(s, v)[k]) \ ToSet(Applies(Found(s, v)[k], Overrides(s)))
                   \subseteq ToSet(Found(s, v)[k]')]_vars
=============================================================================
