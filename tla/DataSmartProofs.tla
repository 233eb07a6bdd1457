-------------------------- MODULE DataSmartProofs --------------------------
(***************************************************************************)
(* The stores of variables, for any names, values, overrides, and any      *)
(* number of stores and operations:                                        *)
(*   - a copy never changes what is read in the store it was made from;    *)
(*   - the indexes of a store have all that update_data looks for;         *)
(*   - after update_data the last override wins (and every value is of the *)
(*     kind the code makes);                                               *)
(*   - no text is appended or prepended twice;                             *)
(*   - the expansion cache has what would be read without it.              *)
(***************************************************************************)
EXTENDS DataSmart, FiniteSetTheorems, SequenceTheorems, WellFoundedInduction, TLAPS

\* A set of natural numbers has a least element.
LEMMA Least ==
    ASSUME NEW S \in SUBSET Nat, S # {}
    PROVE  \E m \in S : \A n \in S : m <= n
  <1>1. PICK m \in S : \A n \in S : <<n, m>> \notin OpToRel(<, Nat)
    BY NatLessThanWellFounded, WFMin
  <1>2. \A n \in S : ~(n < m)
    BY <1>1 DEF OpToRel
  <1> QED BY <1>2

\* The nearest store is one of those it is the nearest of.
LEMMA Greatest ==
    ASSUME NEW S \in SUBSET Store, S # {}
    PROVE  Max(S) \in S
  <1> DEFINE T == {MaxStores - s : s \in S}
  <1>1. MaxStores \in Nat /\ S \subseteq Nat /\ \A s \in S : s <= MaxStores
    BY DataAssumption DEF Store
  <1>2. T \subseteq Nat /\ T # {}
    <2>1. \A s \in S : MaxStores - s \in Nat
      BY <1>1
    <2> QED BY <2>1
  <1>3. PICK m \in T : \A n \in T : m <= n
    BY <1>2, Least
  <1>4. PICK s \in S : m = MaxStores - s
    OBVIOUS
  <1>5. ASSUME NEW t \in S PROVE s >= t
    <2>1. MaxStores - t \in T
      OBVIOUS
    <2>2. MaxStores - s <= MaxStores - t
      BY <1>3, <1>4, <2>1
    <2> QED BY <1>1, <2>2
  <1> QED BY <1>5 DEF Max

-----------------------------------------------------------------------------
\* The tables are functions, and a store is above no store made before it.
Shape ==
    /\ stores \in Store
    /\ above \in [Store -> SUBSET Store]
    /\ \A s \in Store : s > stores => above[s] = {}
    /\ DOMAIN dict = Store /\ DOMAIN special = Store /\ DOMAIN seen = Store

\* A step of one store: what is above a store stays, and only that store's
\* tables change.
Local(w) ==
    /\ last'[2] = w
    /\ \A s \in 1 .. stores : above'[s] = above[s]
    /\ \A t \in Store \ {w} : dict'[t] = dict[t] /\ special'[t] = special[t] /\ seen'[t] = seen[t]

LEMMA ShapeInit == Init => Shape
  BY DataAssumption DEF Init, Shape, Store

LEMMA SeenShape ==
    ASSUME NEW s \in Store, NEW v, DOMAIN seen = Store
    PROVE  /\ DOMAIN Seen(seen, s, v) = Store
           /\ \A t \in Store \ {s} : Seen(seen, s, v)[t] = seen[t]
  BY DEF Seen

LEMMA ShapeNext ==
    ASSUME Shape, [Next]_vars
    PROVE  Shape' /\ (vars' = vars \/ \E w \in Store : Local(w))
  <1>1. CASE UNCHANGED vars
    BY <1>1 DEF vars, history, Shape
  <1>2. CASE Next
    <2>1. PICK s \in Store :
            \/ \E a \in Assignments : SetVar(s, a[1], a[2])
            \/ \E a \in Appends : SetVarKeyword(s, a[1], a[2], a[3], a[4])
            \/ \E v \in Deleted : DelVar(s, v)
            \/ \E r \in Renames : RenameVar(s, r[1], r[2])
            \/ CreateCopy(s)
            \/ \E v \in Read : GetVar(s, v)
            \/ \E v \in Read \cup {OVERRIDES} : GetVarRaises(s, v)
            \/ UpdateData(s)
      BY <1>2 DEF Next
    <2>2. ASSUME NEW v, NEW value, SetVar(s, v, value) PROVE Shape' /\ Local(s)
      <3>1. DOMAIN seen' = Store /\ \A t \in Store \ {s} : seen'[t] = seen[t]
        BY <2>2, SeenShape DEF SetVar, Shape
      <3> QED BY <2>2, <3>1 DEF SetVar, Operation, Shape, Local
    <2>3. ASSUME NEW v, NEW k, NEW o, NEW text, SetVarKeyword(s, v, k, o, text) PROVE Shape' /\ Local(s)
      BY <2>3 DEF SetVarKeyword, Operation, Shape, Local
    <2>4. ASSUME NEW v, DelVar(s, v) PROVE Shape' /\ Local(s)
      BY <2>4 DEF DelVar, Operation, Shape, Local
    <2>5. ASSUME NEW key, NEW newkey, RenameVar(s, key, newkey) PROVE Shape' /\ Local(s)
      <3>1. DOMAIN seen' = Store /\ \A t \in Store \ {s} : seen'[t] = seen[t]
        BY <2>5, SeenShape DEF RenameVar, Shape
      <3>2. DOMAIN special' = Store /\ \A t \in Store \ {s} : special'[t] = special[t]
        BY <2>5 DEF RenameVar, Renamed, Shape
      <3>3. DOMAIN dict' = Store /\ \A t \in Store \ {s} : dict'[t] = dict[t]
        BY <2>5 DEF RenameVar, Shape
      <3> QED BY <2>5, <3>1, <3>2, <3>3 DEF RenameVar, Operation, Shape, Local
    <2>6. ASSUME CreateCopy(s) PROVE Shape' /\ Local(s)
      <3>1. stores + 1 \in Store /\ stores' = stores + 1
        BY <2>6, DataAssumption DEF CreateCopy, Shape, Store
      <3>2. \A t \in 1 .. stores : t \in Store /\ t # stores + 1
        BY DataAssumption DEF Shape, Store
      <3>3. above' = [above EXCEPT ![stores + 1] = above[s] \cup {stores + 1}]
        BY <2>6 DEF CreateCopy
      <3>4. above' \in [Store -> SUBSET Store]
        BY <3>1, <3>3 DEF Shape
      <3>5. \A t \in Store : t > stores + 1 => above'[t] = {}
        BY <3>1, <3>3, DataAssumption DEF Shape, Store
      <3>6. Local(s)
        BY <2>6, <3>2, <3>3 DEF CreateCopy, Operation, Shape, Local
      <3> QED BY <2>6, <3>1, <3>4, <3>5, <3>6 DEF CreateCopy, Shape
    <2>7. ASSUME NEW v, GetVar(s, v) PROVE Shape' /\ Local(s)
      BY <2>7 DEF GetVar, Operation, Shape, Local
    <2>8. ASSUME UpdateData(s) PROVE Shape' /\ Local(s)
      BY <2>8 DEF UpdateData, Operation, Shape, Local
    <2>9. ASSUME NEW v, GetVarRaises(s, v) PROVE Shape' /\ Local(s)
      <3>1. PICK names : expand_cache' = [expand_cache EXCEPT ![s] = CacheWith(s, names)]
        BY <2>9 DEF GetVarRaises
      <3> QED BY <2>9, <3>1 DEF GetVarRaises, Operation, Shape, Local
    <2> QED BY <2>1, <2>2, <2>3, <2>4, <2>5, <2>6, <2>7, <2>8, <2>9
  <1> QED BY <1>1, <1>2

LEMMA ShapeHolds == Spec => []Shape
  BY ShapeInit, ShapeNext, PTL DEF Spec

\* What is looked up above a store that a step does not concern stays.
LEMMA LookupSame ==
    ASSUME Shape, NEW w \in Store, Local(w), NEW s \in 1 .. stores, w \notin above[s]
    PROVE  View(s)' = View(s)
  <1>1. above'[s] = above[s] /\ above[s] \subseteq Store
    BY DataAssumption DEF Local, Shape, Store
  <1>2. \A t \in above[s] : dict'[t] = dict[t] /\ special'[t] = special[t] /\ seen'[t] = seen[t]
    BY <1>1 DEF Local
  <1>3. ASSUME NEW v PROVE Found(s, v)' = Found(s, v)
    <2> DEFINE having == {t \in above[s] : dict[t][v] # None}
    <2>1. having' = having
      BY <1>1, <1>2
    <2>2. having # {} => Max(having) \in above[s]
      BY <1>1, Greatest
    <2> QED BY <1>2, <2>1, <2>2 DEF Found
  <1>4. ASSUME NEW k PROVE Members(special, s, k)' = Members(special, s, k)
    <2> DEFINE having == {t \in above[s] : special[t][k] # None}
    <2>1. having' = having
      BY <1>1, <1>2
    <2>2. having # {} => Max(having) \in above[s]
      BY <1>1, Greatest
    <2> QED BY <1>2, <2>1, <2>2 DEF Members
  <1>5. ASSUME NEW o PROVE Members(seen, s, o)' = Members(seen, s, o)
    <2> DEFINE having == {t \in above[s] : seen[t][o] # None}
    <2>1. having' = having
      BY <1>1, <1>2
    <2>2. having # {} => Max(having) \in above[s]
      BY <1>1, Greatest
    <2> QED BY <1>2, <2>1, <2>2 DEF Members
  <1> QED BY <1>3, <1>4, <1>5 DEF View

\* createCopy: "Value from source are copy-on-write".  For any number of
\* stores and operations, names and values.
THEOREM CopiesOnlyHolds == Spec => CopiesOnly
  <1>1. ASSUME Shape, [Next]_vars
        PROVE  [\A s \in 1 .. stores : last'[2] \notin above[s] => View(s)' = View(s)]_vars
    BY <1>1, ShapeNext, LookupSame DEF Local
  <1> QED BY <1>1, ShapeHolds, PTL DEF Spec, CopiesOnly
-----------------------------------------------------------------------------
(***************************************************************************)
(* The indexes of update_data.                                             *)
(***************************************************************************)

\* None is neither an entry of a dictionary nor a set of names.
NoneApart ==
    /\ None \notin SUBSET Var
    /\ \A entry : DOMAIN entry = DOMAIN Nothing => entry # None

\* A store is below the stores its own was copied from, as far up as they go.
ChainInv ==
    \A s \in 1 .. stores :
        /\ above[s] \subseteq 1 .. s /\ s \in above[s]
        /\ \A t \in above[s] : above[t] = above[s] \cap 1 .. t

\* What the tables have: nothing yet for the stores that are to be made.
TablesInv ==
    /\ \A s \in Store : DOMAIN dict[s] = Var
    /\ \A s \in Store, v \in Var : dict[s][v] = None \/ DOMAIN dict[s][v] = DOMAIN Nothing
    /\ special \in [Store -> [Keyword -> {None} \cup SUBSET Var]]
    /\ seen \in [Store -> [Override -> {None} \cup SUBSET Var]]
    /\ DOMAIN behind = Store
    /\ \A s \in Store : s > stores =>
          /\ \A v \in Var : dict[s][v] = None
          /\ \A k \in Keyword : special[s][k] = None
          /\ \A o \in Override : seen[s][o] = None

IndexInv == ChainInv /\ TablesInv /\ IndexComplete

LEMMA GreatestIs ==
    ASSUME NEW S \in SUBSET Store, NEW m \in S, \A n \in S : n <= m
    PROVE  Max(S) = m
  <1>1. S \subseteq Nat
    BY DataAssumption DEF Store
  <1>2. \A x \in S : (\A n \in S : x >= n) => x = m
    BY <1>1
  <1> QED BY <1>1, <1>2 DEF Max

LEMMA GreatestBounds ==
    ASSUME NEW S \in SUBSET Store, NEW n \in S
    PROVE  Max(S) \in S /\ n <= Max(S)
  <1> DEFINE T == {MaxStores - s : s \in S}
  <1>1. MaxStores \in Nat /\ S \subseteq Nat /\ \A s \in S : s <= MaxStores
    BY DataAssumption DEF Store
  <1>2. T \subseteq Nat /\ T # {}
    <2>1. \A s \in S : MaxStores - s \in Nat
      BY <1>1
    <2> QED BY <2>1
  <1>3. PICK m \in T : \A k \in T : m <= k
    BY <1>2, Least
  <1>4. PICK s \in S : m = MaxStores - s
    OBVIOUS
  <1>5. ASSUME NEW t \in S PROVE t <= s
    <2>1. MaxStores - t \in T
      OBVIOUS
    <2>2. MaxStores - s <= MaxStores - t
      BY <1>3, <1>4, <2>1
    <2> QED BY <1>1, <2>2
  <1>6. Max(S) = s
    BY <1>5, GreatestIs
  <1> QED BY <1>5, <1>6

\* What a store has itself is what it finds.
LEMMA OwnFound ==
    ASSUME Shape, ChainInv, NEW w \in 1 .. stores, NEW v, dict[w][v] # None
    PROVE  Found(w, v) = dict[w][v]
  <1> DEFINE having == {t \in above[w] : dict[t][v] # None}
  <1>1. w \in having /\ having \subseteq Store /\ \A n \in having : n <= w
    BY DataAssumption DEF ChainInv, Shape, Store
  <1>2. Max(having) = w
    BY <1>1, GreatestIs
  <1> QED BY <1>1, <1>2 DEF Found

LEMMA OwnMembers ==
    ASSUME Shape, ChainInv, NEW w \in 1 .. stores, NEW cow, NEW k, cow[w][k] # None
    PROVE  Members(cow, w, k) = cow[w][k]
  <1> DEFINE having == {t \in above[w] : cow[t][k] # None}
  <1>1. w \in having /\ having \subseteq Store /\ \A n \in having : n <= w
    BY DataAssumption DEF ChainInv, Shape, Store
  <1>2. Max(having) = w
    BY <1>1, GreatestIs
  <1> QED BY <1>1, <1>2 DEF Members

\* What all stores above keep is found as before.
LEMMA KeptMembers ==
    ASSUME Shape, NEW s \in 1 .. stores, NEW cow, NEW cow2, NEW k,
           \A t \in above[s] : cow2[t][k] = cow[t][k]
    PROVE  Members(cow2, s, k) = Members(cow, s, k)
  <1> DEFINE having == {t \in above[s] : cow[t][k] # None}
             having2 == {t \in above[s] : cow2[t][k] # None}
  <1>1. having2 = having
    OBVIOUS
  <1>2. having \subseteq Store
    BY DataAssumption DEF Shape, Store
  <1>3. having # {} => Max(having) \in having
    BY <1>2, Greatest
  <1> HIDE DEF having, having2
  <1>4. having # {} => cow2[Max(having)][k] = cow[Max(having)][k]
    BY <1>3 DEF having
  <1> QED BY <1>1, <1>4 DEF Members, having, having2

\* A copy a store makes of a set it sees is the set that is seen below it.
LEMMA CopiedMembers ==
    ASSUME Shape, ChainInv, NEW w \in 1 .. stores, NEW s \in 1 .. stores, NEW cow, NEW cow2, NEW k,
           \A t \in Store \ {w} : cow2[t][k] = cow[t][k],
           \/ cow2[w][k] = cow[w][k]
           \/ cow2[w][k] = Members(cow, w, k) /\ Has(cow, w, k) /\ cow2[w][k] # None
    PROVE  Members(cow2, s, k) = Members(cow, s, k)
  <1>0. /\ 1 .. stores \subseteq Store /\ Store \subseteq Nat
        /\ above[s] \subseteq Store /\ above[w] \subseteq Store
    BY DataAssumption DEF Shape, Store
  <1>1. CASE w \notin above[s] \/ cow2[w][k] = cow[w][k]
    <2>1. \A t \in above[s] : cow2[t][k] = cow[t][k]
      BY <1>0, <1>1
    <2> QED BY <2>1, KeptMembers
  <1>2. CASE w \in above[s] /\ cow2[w][k] # cow[w][k]
    <2> DEFINE having == {t \in above[s] : cow[t][k] # None}
               having2 == {t \in above[s] : cow2[t][k] # None}
               top == {t \in above[w] : cow[t][k] # None}
    <2>1. above[w] = above[s] \cap 1 .. w
      BY <1>2 DEF ChainInv
    <2>2. /\ cow2[w][k] = Members(cow, w, k) /\ cow2[w][k] # None
          /\ top # {} /\ cow[w][k] = None
      <3>1. cow2[w][k] = Members(cow, w, k) /\ top # {} /\ cow2[w][k] # None
        BY <1>2 DEF Has
      <3>2. cow[w][k] = None
        BY <1>2, <3>1, OwnMembers
      <3> QED BY <3>1, <3>2
    <2>3. having2 = having \cup {w} /\ w \in having2 /\ w \notin having
      BY <1>0, <1>2, <2>2
    <2>4. having \subseteq Store /\ having2 \subseteq Store /\ top \subseteq having
      BY <1>0, <2>1
    <2>5. PICK m \in having : m = Max(having) /\ \A n \in having : n <= m
      <3>1. PICK n \in having : TRUE
        BY <2>2, <2>4
      <3>2. Max(having) \in having /\ \A x \in having : x <= Max(having)
        BY <2>4, GreatestBounds
      <3> QED BY <3>2
    <2>0. m \in Nat /\ w \in Nat /\ \A n \in having : n \in Nat /\ n >= 1 /\ n <= m
      BY <1>0, <2>4, <2>5 DEF Store
    <2>6. CASE m > w
      <3>1. \A n \in having2 : n <= m
        <4> HIDE DEF having, having2
        <4> QED BY <2>0, <2>3, <2>6
      <3>2. Max(having2) = m
        BY <2>3, <2>4, <3>1, GreatestIs
      <3>3. cow2[m][k] = cow[m][k]
        BY <2>3, <2>4
      <3> QED BY <2>3, <2>5, <3>2, <3>3 DEF Members
    <2>7. CASE ~(m > w)
      <3>0. \A n \in having : n <= w
        <4> HIDE DEF having
        <4> QED BY <2>0, <2>7
      <3>1. top = having
        <4>1. \A n \in having : n \in above[w]
          BY <2>0, <2>1, <3>0
        <4> QED BY <2>4, <4>1
      <3>2. Members(cow, w, k) = Members(cow, s, k)
        BY <2>2, <3>1 DEF Members
      <3>3. \A n \in having2 : n <= w
        <4> HIDE DEF having, having2
        <4> QED BY <2>0, <2>3, <3>0
      <3>4. Max(having2) = w
        BY <2>3, <2>4, <3>3, GreatestIs
      <3>5. Members(cow2, s, k) = cow2[w][k]
        BY <2>3, <3>4 DEF Members
      <3> QED BY <2>2, <3>2, <3>5
    <2> QED BY <2>6, <2>7
  <1> QED BY <1>1, <1>2

\* The types of what is found.
LEMMA FoundEntry ==
    ASSUME Shape, TablesInv, NEW s \in 1 .. stores, NEW v \in Var
    PROVE  DOMAIN Found(s, v) = DOMAIN Nothing
  <1> DEFINE having == {t \in above[s] : dict[t][v] # None}
  <1>1. having \subseteq Store
    BY DataAssumption DEF Shape, Store
  <1>2. having # {} => Max(having) \in having
    BY <1>1, Greatest
  <1> HIDE DEF having
  <1>3. having # {} => DOMAIN dict[Max(having)][v] = DOMAIN Nothing
    BY <1>1, <1>2 DEF having, TablesInv
  <1> QED BY <1>3 DEF Found, having

LEMMA MembersNames ==
    ASSUME Shape, NEW s \in 1 .. stores, NEW Key, NEW k \in Key,
           NEW cow \in [Store -> [Key -> {None} \cup SUBSET Var]]
    PROVE  Members(cow, s, k) \in SUBSET Var
  <1> DEFINE having == {t \in above[s] : cow[t][k] # None}
  <1>1. having \subseteq Store
    BY DataAssumption DEF Shape, Store
  <1>2. having # {} => Max(having) \in having
    BY <1>1, Greatest
  <1> HIDE DEF having
  <1>3. having # {} => cow[Max(having)][k] \in SUBSET Var
    BY <1>1, <1>2 DEF having
  <1> QED BY <1>3 DEF Members, having

\* setVar files a variable with an override, and loses nothing it sees.
LEMMA SeenFiles ==
    ASSUME Shape, ChainInv, TablesInv, NoneApart, NEW w \in 1 .. stores, NEW v \in Var
    PROVE  /\ Seen(seen, w, v) \in [Store -> [Override -> {None} \cup SUBSET Var]]
           /\ \A t \in Store \ {w} : Seen(seen, w, v)[t] = seen[t]
           /\ \A q \in Override : Members(seen, w, q) \subseteq Members(Seen(seen, w, v), w, q)
           /\ Len(v) > 1 => v \in Members(Seen(seen, w, v), w, Last(v))
  <1>0. w \in Store /\ DOMAIN seen = Store /\ above[w] \subseteq Store
    BY DataAssumption DEF Shape, Store
  <1>1. seen \in [Store -> [Override -> {None} \cup SUBSET Var]]
    BY DEF TablesInv
  <1>2. Len(v) > 1 => Last(v) \in Override
    BY DataAssumption
  <1>3. CASE Len(v) = 1
    BY <1>1, <1>3 DEF Seen
  <1>4. CASE Len(v) # 1
    <2> DEFINE files == Members(seen, w, Last(v)) \cup {v}
    <2>1. Seen(seen, w, v) = [seen EXCEPT ![w][Last(v)] = files]
      BY <1>4 DEF Seen
    <2> HIDE DEF files
    <2>2. CASE Last(v) \in Override
      <3>1. files \in SUBSET Var /\ Members(seen, w, Last(v)) \subseteq files /\ v \in files
        BY <1>1, <2>2, MembersNames DEF files
      <3>2. Seen(seen, w, v)[w][Last(v)] = files /\ files # None
        BY <1>0, <1>1, <2>1, <2>2, <3>1 DEF NoneApart
      <3>3. Members(Seen(seen, w, v), w, Last(v)) = files
        BY <3>2, OwnMembers
      <3>4. ASSUME NEW q \in Override, q # Last(v)
            PROVE  Members(Seen(seen, w, v), w, q) = Members(seen, w, q)
        <4>1. \A t \in above[w] : Seen(seen, w, v)[t][q] = seen[t][q]
          BY <1>0, <1>1, <2>1, <3>4
        <4> QED BY <4>1, KeptMembers
      <3>5. /\ Seen(seen, w, v) \in [Store -> [Override -> {None} \cup SUBSET Var]]
            /\ \A t \in Store \ {w} : Seen(seen, w, v)[t] = seen[t]
        BY <1>0, <1>1, <2>1, <2>2, <3>1
      <3> QED BY <3>1, <3>3, <3>4, <3>5
    <2>3. CASE Last(v) \notin Override
      <3>1. Seen(seen, w, v) = seen
        BY <1>0, <1>1, <2>1, <2>3
      <3> QED BY <1>1, <1>2, <2>3, <3>1
    <2> QED BY <2>2, <2>3
  <1> QED BY <1>3, <1>4

-----------------------------------------------------------------------------
\* A step that writes to one store: the stores are the same afterwards.
Stays(w) == w \in 1 .. stores /\ stores' = stores /\ above' = above /\ Local(w)

LEMMA FoundKept ==
    ASSUME Shape, NEW s \in 1 .. stores, NEW v, above'[s] = above[s],
           \A t \in above[s] : dict'[t][v] = dict[t][v]
    PROVE  Found(s, v)' = Found(s, v)
  <1> DEFINE having == {t \in above[s] : dict[t][v] # None}
  <1>1. having' = having
    OBVIOUS
  <1>2. having \subseteq Store
    BY DataAssumption DEF Shape, Store
  <1>3. having # {} => Max(having) \in having
    BY <1>2, Greatest
  <1>4. having # {} => dict'[Max(having)][v] = dict[Max(having)][v]
    BY <1>3
  <1> QED BY <1>1, <1>4 DEF Found

LEMMA OwnFoundNext ==
    ASSUME Shape, ChainInv, NEW w \in 1 .. stores, NEW v, above'[w] = above[w], dict'[w][v] # None
    PROVE  Found(w, v)' = dict'[w][v]
  <1> DEFINE having == {t \in above[w] : dict'[t][v] # None}
  <1>1. w \in having /\ having \subseteq Store /\ \A n \in having : n <= w
    BY DataAssumption DEF ChainInv, Shape, Store
  <1>2. Max(having) = w
    BY <1>1, GreatestIs
  <1> HIDE DEF having
  <1>3. Found(w, v)' = IF having = {} THEN Nothing ELSE dict'[Max(having)][v]
    BY DEF Found, having
  <1> QED BY <1>1, <1>2, <1>3

\* What a store does not write it finds as before.
LEMMA FoundStays ==
    ASSUME Shape, NEW w, Stays(w), NEW v, dict'[w][v] = dict[w][v]
    PROVE  Found(w, v)' = Found(w, v)
  <1>1. above[w] \subseteq Store
    BY DataAssumption DEF Stays, Shape, Store
  <1>2. \A t \in above[w] : dict'[t][v] = dict[t][v]
    BY <1>1 DEF Stays, Local
  <1> QED BY <1>2, FoundKept DEF Stays

\* The indexes of one store.
Complete(s) ==
    \A v \in Var :
        /\ \A k \in Keyword : Found(s, v)[k] # <<>> => v \in Members(special, s, k)
        /\ Len(v) > 1 /\ Content(s, v) # None => v \in Members(seen, s, Last(v))

LEMMA CompleteEach == IndexComplete <=> \A s \in 1 .. stores : ~behind[s] => Complete(s)
  BY DEF IndexComplete, Complete

\* A store that sees the same has the same in its indexes.
LEMMA CompleteStays ==
    ASSUME NEW s, View(s)' = View(s), Complete(s)
    PROVE  Complete(s)'
  <1>1. /\ [v \in Var |-> Found(s, v)'] = [v \in Var |-> Found(s, v)]
        /\ [k \in Keyword |-> Members(special, s, k)'] = [k \in Keyword |-> Members(special, s, k)]
        /\ [o \in Override |-> Members(seen, s, o)'] = [o \in Override |-> Members(seen, s, o)]
    BY DEF View
  <1>2. ASSUME NEW v \in Var PROVE Found(s, v)' = Found(s, v)
    BY <1>1
  <1>3. ASSUME NEW k \in Keyword PROVE Members(special, s, k)' = Members(special, s, k)
    BY <1>1
  <1>4. ASSUME NEW o \in Override PROVE Members(seen, s, o)' = Members(seen, s, o)
    BY <1>1
  <1>5. \A v \in Var : Len(v) > 1 => Last(v) \in Override
    BY DataAssumption
  <1>6. ASSUME NEW v \in Var
        PROVE  /\ \A k \in Keyword : Found(s, v)'[k] # <<>> => v \in Members(special, s, k)'
               /\ Len(v) > 1 /\ Found(s, v)'["content"] # None => v \in Members(seen, s, Last(v))'
    <2>1. \A k \in Keyword : Found(s, v)[k] # <<>> => v \in Members(special, s, k)
      BY DEF Complete
    <2>2. Len(v) > 1 /\ Found(s, v)["content"] # None => v \in Members(seen, s, Last(v))
      BY DEF Complete, Content
    <2>3. \A k \in Keyword : Found(s, v)'[k] # <<>> => v \in Members(special, s, k)'
      BY <1>2, <1>3, <2>1
    <2>4. Len(v) > 1 /\ Found(s, v)'["content"] # None => v \in Members(seen, s, Last(v))'
      BY <1>2, <1>4, <1>5, <2>2
    <2> QED BY <2>3, <2>4
  <1> QED BY <1>6 DEF Complete, Content

\* The other stores: those below the one that is written to are left behind.
LEMMA OthersComplete ==
    ASSUME Shape, IndexInv, NEW w, Stays(w), LeavesBehind(w), ~behind[w] => Complete(w)'
    PROVE  IndexComplete'
  <1>1. ASSUME NEW s \in 1 .. stores, ~behind'[s] PROVE Complete(s)'
    <2>1. s \in Store /\ behind'[s] = (behind[s] \/ (w # s /\ w \in above[s]))
      BY DataAssumption DEF LeavesBehind, Shape, Store
    <2>2. CASE s = w
      BY <1>1, <2>1, <2>2
    <2>3. CASE s # w
      <3>1. w \notin above[s] /\ ~behind[s]
        BY <1>1, <2>1, <2>3
      <3>2. View(s)' = View(s)
        BY <3>1, LookupSame, DataAssumption DEF Stays, Shape, Store
      <3> QED BY <3>1, <3>2, CompleteStays, CompleteEach DEF IndexInv
    <2> QED BY <2>2, <2>3
  <1>2. \A s \in 1 .. stores' : ~behind'[s] => Complete(s)'
    BY <1>1 DEF Stays
  <1> QED BY <1>2 DEF IndexComplete, Complete

-----------------------------------------------------------------------------
\* The entry of one variable in one store is written.
Writes(w, v, entry) ==
    /\ dict' = [dict EXCEPT ![w][v] = entry]
    /\ DOMAIN entry = DOMAIN Nothing

LEMMA WritesOne ==
    ASSUME Shape, IndexInv, NoneApart, NEW w, Stays(w), NEW v \in Var, NEW entry, Writes(w, v, entry)
    PROVE  /\ DOMAIN dict' = Store
           /\ \A s \in Store : DOMAIN dict'[s] = Var
           /\ \A s \in Store, u \in Var : dict'[s][u] = None \/ DOMAIN dict'[s][u] = DOMAIN Nothing
           /\ \A s \in Store : s > stores' => \A u \in Var : dict'[s][u] = None
           /\ Found(w, v)' = entry
           /\ \A u \in Var \ {v} : Found(w, u)' = Found(w, u)
  <1>0. /\ w \in Store /\ w \in 1 .. stores /\ stores \in Nat /\ DOMAIN dict = Store
        /\ stores' = stores /\ above' = above
    BY DataAssumption DEF Stays, Shape, Store
  <1>1. dict'[w][v] = entry /\ entry # None
    BY <1>0 DEF Writes, IndexInv, TablesInv, NoneApart
  <1>2. \A s \in Store, u \in Var : s # w \/ u # v => dict'[s][u] = dict[s][u]
    BY <1>0 DEF Writes, IndexInv, TablesInv
  <1>3. DOMAIN dict' = Store /\ \A s \in Store : DOMAIN dict'[s] = Var
    BY <1>0 DEF Writes, IndexInv, TablesInv
  <1>4. ASSUME NEW s \in Store, NEW u \in Var
        PROVE  dict'[s][u] = None \/ DOMAIN dict'[s][u] = DOMAIN Nothing
    BY <1>1, <1>2 DEF Writes, IndexInv, TablesInv
  <1>5. ASSUME NEW s \in Store, s > stores, NEW u \in Var PROVE dict'[s][u] = None
    <2>1. s # w
      BY <1>0, <1>5
    <2> QED BY <1>2, <1>5, <2>1 DEF IndexInv, TablesInv
  <1>6. Found(w, v)' = entry
    BY <1>0, <1>1, OwnFoundNext DEF IndexInv
  <1>7. ASSUME NEW u \in Var \ {v} PROVE Found(w, u)' = Found(w, u)
    BY <1>0, <1>2, FoundStays
  <1> QED BY <1>0, <1>3, <1>4, <1>5, <1>6, <1>7

\* What is filed is looked for where it was.
LEMMA MembersNow ==
    ASSUME above' = above, NEW s, NEW k
    PROVE  /\ Members(special, s, k)' = Members(special', s, k)
           /\ Members(seen, s, k)' = Members(seen', s, k)
  BY DEF Members

LEMMA SetVarIndexed ==
    ASSUME Shape, IndexInv, NoneApart, NEW w \in Store, NEW v \in Var, NEW value,
           SetVar(w, v, value), Local(w)
    PROVE  TablesInv' /\ IndexComplete'
  <1>0. /\ Stays(w) /\ w \in 1 .. stores /\ LeavesBehind(w) /\ above' = above
        /\ special' = special /\ seen' = Seen(seen, w, v) /\ stores' = stores
    BY DEF SetVar, Operation, Stays, Shape, Store
  <1> DEFINE entry == [Found(w, v) EXCEPT !["content"] = value]
  <1>1. DOMAIN entry = DOMAIN Nothing /\ \A k \in Keyword : entry[k] = Found(w, v)[k]
    BY <1>0, FoundEntry DEF IndexInv, Keyword
  <1>2. Writes(w, v, entry)
    BY <1>1 DEF SetVar, Writes
  <1> HIDE DEF entry
  <1>3. /\ Found(w, v)' = entry
        /\ \A u \in Var \ {v} : Found(w, u)' = Found(w, u)
    BY <1>0, <1>2, WritesOne
  <1>4. /\ seen' \in [Store -> [Override -> {None} \cup SUBSET Var]]
        /\ \A t \in Store \ {w} : seen'[t] = seen[t]
        /\ \A q \in Override : Members(seen, w, q) \subseteq Members(seen', w, q)
        /\ Len(v) > 1 => v \in Members(seen', w, Last(v))
    BY <1>0, SeenFiles DEF IndexInv
  <1>5. \A s \in Store : s > stores => s # w
    BY <1>0, DataAssumption DEF Shape, Store
  <1>6. TablesInv'
    <2>1. /\ \A s \in Store : DOMAIN dict'[s] = Var
          /\ \A s \in Store, u \in Var : dict'[s][u] = None \/ DOMAIN dict'[s][u] = DOMAIN Nothing
          /\ \A s \in Store : s > stores' => \A u \in Var : dict'[s][u] = None
      BY <1>0, <1>2, WritesOne
    <2>2. \A s \in Store : s > stores' => \A o \in Override : seen'[s][o] = None
      BY <1>0, <1>4, <1>5 DEF IndexInv, TablesInv
    <2> QED BY <1>0, <1>4, <2>1, <2>2 DEF IndexInv, TablesInv, LeavesBehind
  <1>7. ASSUME ~behind[w] PROVE Complete(w)'
    <2>1. Complete(w)
      BY <1>0, <1>7, CompleteEach DEF IndexInv
    <2>2. ASSUME NEW u \in Var
          PROVE  /\ \A k \in Keyword : Found(w, u)'[k] # <<>> => u \in Members(special, w, k)'
                 /\ Len(u) > 1 /\ Found(w, u)'["content"] # None => u \in Members(seen, w, Last(u))'
      <3>1. \A k \in Keyword : Found(w, u)'[k] = Found(w, u)[k]
        BY <1>1, <1>3
      <3>2. \A k \in Keyword : Members(special, w, k)' = Members(special, w, k)
        BY <1>0, MembersNow
      <3>3. \A k \in Keyword : Found(w, u)[k] # <<>> => u \in Members(special, w, k)
        BY <2>1 DEF Complete
      <3>4. ASSUME Len(u) > 1, Found(w, u)'["content"] # None PROVE u \in Members(seen', w, Last(u))
        <4>1. CASE u = v
          BY <1>4, <3>4, <4>1
        <4>2. CASE u # v
          <5>1. u \in Members(seen, w, Last(u))
            BY <1>3, <2>1, <3>4, <4>2 DEF Complete, Content
          <5>2. Last(u) \in Override
            BY <3>4, DataAssumption
          <5> QED BY <1>4, <5>1, <5>2
        <4> QED BY <4>1, <4>2
      <3>5. Members(seen, w, Last(u))' = Members(seen', w, Last(u))
        BY <1>0, MembersNow
      <3> QED BY <3>1, <3>2, <3>3, <3>4, <3>5
    <2> QED BY <2>2 DEF Complete, Content
  <1> QED BY <1>0, <1>6, <1>7, OthersComplete

LEMMA SetVarKeywordIndexed ==
    ASSUME Shape, IndexInv, NoneApart, NEW w \in Store, NEW v \in Var, NEW keyword \in Keyword,
           NEW o, NEW text, SetVarKeyword(w, v, keyword, o, text), Local(w)
    PROVE  TablesInv' /\ IndexComplete'
  <1>0. /\ Stays(w) /\ w \in 1 .. stores /\ LeavesBehind(w) /\ above' = above
        /\ seen' = seen /\ stores' = stores
    BY DEF SetVarKeyword, Operation, Stays, Shape, Store
  <1> DEFINE entry == [Found(w, v) EXCEPT ![keyword] = Append(@, [text |-> text, override |-> o])]
             files == Members(special, w, keyword) \cup {v}
  <1>1. /\ DOMAIN entry = DOMAIN Nothing /\ entry["content"] = Found(w, v)["content"]
        /\ \A k \in Keyword \ {keyword} : entry[k] = Found(w, v)[k]
    BY <1>0, FoundEntry DEF IndexInv, Keyword
  <1>2. Writes(w, v, entry) /\ special' = [special EXCEPT ![w][keyword] = files]
    BY <1>1 DEF SetVarKeyword, Writes
  <1>3. files \in SUBSET Var /\ Members(special, w, keyword) \subseteq files /\ v \in files
    BY <1>0, MembersNames DEF IndexInv, TablesInv
  <1> HIDE DEF entry, files
  <1>4. /\ special \in [Store -> [Keyword -> {None} \cup SUBSET Var]]
        /\ special' \in [Store -> [Keyword -> {None} \cup SUBSET Var]]
        /\ special'[w][keyword] = files /\ files # None
        /\ \A t \in Store \ {w} : special'[t] = special[t]
        /\ \A k \in Keyword \ {keyword} : special'[w][k] = special[w][k]
    BY <1>2, <1>3 DEF IndexInv, TablesInv, NoneApart
  <1>5. \A s \in Store : s > stores => s # w
    BY <1>0, DataAssumption DEF Shape, Store
  <1>6. TablesInv'
    <2>1. /\ \A s \in Store : DOMAIN dict'[s] = Var
          /\ \A s \in Store, u \in Var : dict'[s][u] = None \/ DOMAIN dict'[s][u] = DOMAIN Nothing
          /\ \A s \in Store : s > stores' => \A u \in Var : dict'[s][u] = None
      BY <1>0, <1>2, WritesOne
    <2>2. \A s \in Store : s > stores' => \A k \in Keyword : special'[s][k] = None
      BY <1>0, <1>4, <1>5 DEF IndexInv, TablesInv
    <2> QED BY <1>0, <1>4, <2>1, <2>2 DEF IndexInv, TablesInv, LeavesBehind
  <1>7. ASSUME ~behind[w] PROVE Complete(w)'
    <2>1. Complete(w)
      BY <1>0, <1>7, CompleteEach DEF IndexInv
    <2>2. /\ Found(w, v)' = entry
          /\ \A u \in Var \ {v} : Found(w, u)' = Found(w, u)
      BY <1>0, <1>2, WritesOne
    <2>3. Members(special', w, keyword) = files
      BY <1>0, <1>4, OwnMembers DEF IndexInv
    <2>4. ASSUME NEW k \in Keyword \ {keyword} PROVE Members(special', w, k) = Members(special, w, k)
      <3>1. above[w] \subseteq Store
        BY <1>0, DataAssumption DEF Shape, Store
      <3>2. \A t \in above[w] : special'[t][k] = special[t][k]
        BY <1>4, <3>1
      <3> QED BY <1>0, <3>2, KeptMembers
    <2>5. ASSUME NEW u \in Var
          PROVE  /\ \A k \in Keyword : Found(w, u)'[k] # <<>> => u \in Members(special, w, k)'
                 /\ Len(u) > 1 /\ Found(w, u)'["content"] # None => u \in Members(seen, w, Last(u))'
      <3>1. Found(w, u)'["content"] = Found(w, u)["content"]
        BY <1>1, <2>2
      <3>2. Members(seen, w, Last(u))' = Members(seen, w, Last(u))
        BY <1>0, MembersNow
      <3>3. Len(u) > 1 /\ Found(w, u)["content"] # None => u \in Members(seen, w, Last(u))
        BY <2>1 DEF Complete, Content
      <3>4. ASSUME NEW k \in Keyword, Found(w, u)'[k] # <<>> PROVE u \in Members(special', w, k)
        <4>1. CASE u = v /\ k = keyword
          BY <1>3, <2>3, <4>1
        <4>2. CASE ~(u = v /\ k = keyword)
          <5>1. Found(w, u)'[k] = Found(w, u)[k]
            BY <1>1, <2>2, <4>2
          <5>2. u \in Members(special, w, k)
            BY <2>1, <3>4, <5>1 DEF Complete
          <5> QED BY <1>3, <2>3, <2>4, <5>2
        <4> QED BY <4>1, <4>2
      <3>5. \A k \in Keyword : Members(special, w, k)' = Members(special', w, k)
        BY <1>0, MembersNow
      <3> QED BY <3>1, <3>2, <3>3, <3>4, <3>5
    <2> QED BY <2>5 DEF Complete, Content
  <1> QED BY <1>0, <1>6, <1>7, OthersComplete

LEMMA DelVarIndexed ==
    ASSUME Shape, IndexInv, NoneApart, NEW w \in Store, NEW v \in Var, DelVar(w, v), Local(w)
    PROVE  TablesInv' /\ IndexComplete'
  <1>0. /\ Stays(w) /\ w \in 1 .. stores /\ LeavesBehind(w) /\ above' = above
        /\ seen' = seen /\ special' = special /\ stores' = stores
    BY DEF DelVar, Operation, Stays, Shape, Store
  <1>1. Writes(w, v, Nothing)
    BY DEF DelVar, Writes
  <1>2. TablesInv'
    <2>1. /\ \A s \in Store : DOMAIN dict'[s] = Var
          /\ \A s \in Store, u \in Var : dict'[s][u] = None \/ DOMAIN dict'[s][u] = DOMAIN Nothing
          /\ \A s \in Store : s > stores' => \A u \in Var : dict'[s][u] = None
      BY <1>0, <1>1, WritesOne
    <2> QED BY <1>0, <2>1 DEF IndexInv, TablesInv, LeavesBehind
  <1>3. ASSUME ~behind[w] PROVE Complete(w)'
    <2>1. Complete(w)
      BY <1>0, <1>3, CompleteEach DEF IndexInv
    <2>2. /\ Found(w, v)' = Nothing
          /\ \A u \in Var \ {v} : Found(w, u)' = Found(w, u)
      BY <1>0, <1>1, WritesOne
    <2>3. Nothing["content"] = None /\ \A k \in Keyword : Nothing[k] = <<>>
      BY DEF Nothing, Keyword
    <2>4. ASSUME NEW u \in Var
          PROVE  /\ \A k \in Keyword : Found(w, u)'[k] # <<>> => u \in Members(special, w, k)
                 /\ Len(u) > 1 /\ Found(w, u)'["content"] # None => u \in Members(seen, w, Last(u))
      <3>1. CASE u = v
        BY <2>2, <2>3, <3>1
      <3>2. CASE u # v
        <4>1. Found(w, u)' = Found(w, u)
          BY <2>2, <3>2
        <4> QED BY <2>1, <4>1 DEF Complete, Content
      <3> QED BY <3>1, <3>2
    <2>5. \A k : Members(special, w, k)' = Members(special, w, k) /\ Members(seen, w, k)' = Members(seen, w, k)
      BY <1>0, MembersNow
    <2> QED BY <2>4, <2>5 DEF Complete, Content
  <1> QED BY <1>0, <1>2, <1>3, OthersComplete

-----------------------------------------------------------------------------
\* Several entries of one store are written.
LEMMA WritesSome ==
    ASSUME Shape, IndexInv, NoneApart, NEW w, Stays(w), DOMAIN dict' = Store, DOMAIN dict'[w] = Var,
           \A u \in Var : dict'[w][u] = dict[w][u] \/ DOMAIN dict'[w][u] = DOMAIN Nothing
    PROVE  /\ \A s \in Store : DOMAIN dict'[s] = Var
           /\ \A s \in Store, u \in Var : dict'[s][u] = None \/ DOMAIN dict'[s][u] = DOMAIN Nothing
           /\ \A s \in Store : s > stores' => \A u \in Var : dict'[s][u] = None
           /\ \A u \in Var : DOMAIN dict'[w][u] = DOMAIN Nothing => Found(w, u)' = dict'[w][u]
           /\ \A u \in Var : dict'[w][u] = dict[w][u] => Found(w, u)' = Found(w, u)
  <1>0. /\ w \in Store /\ w \in 1 .. stores /\ stores' = stores /\ above' = above
        /\ \A s \in Store \ {w} : dict'[s] = dict[s]
    BY DataAssumption DEF Stays, Local, Shape, Store
  <1>1. \A s \in Store : DOMAIN dict'[s] = Var
    BY <1>0 DEF IndexInv, TablesInv
  <1>2. ASSUME NEW s \in Store, NEW u \in Var
        PROVE  dict'[s][u] = None \/ DOMAIN dict'[s][u] = DOMAIN Nothing
    BY <1>0 DEF IndexInv, TablesInv
  <1>3. ASSUME NEW s \in Store, s > stores, NEW u \in Var PROVE dict'[s][u] = None
    <2>1. s # w
      BY <1>0, <1>3, DataAssumption DEF Shape, Store
    <2> QED BY <1>0, <1>3, <2>1 DEF IndexInv, TablesInv
  <1>4. ASSUME NEW u \in Var, DOMAIN dict'[w][u] = DOMAIN Nothing PROVE Found(w, u)' = dict'[w][u]
    <2>1. dict'[w][u] # None
      BY <1>4 DEF NoneApart
    <2> QED BY <1>0, <2>1, OwnFoundNext DEF IndexInv
  <1>5. ASSUME NEW u \in Var, dict'[w][u] = dict[w][u] PROVE Found(w, u)' = Found(w, u)
    BY <1>0, <1>5, FoundStays
  <1> QED BY <1>0, <1>1, <1>2, <1>3, <1>4, <1>5

LEMMA RenamedSets ==
    ASSUME Shape, IndexInv, NoneApart, NEW w \in 1 .. stores, NEW key \in Var, NEW newkey \in Var
    PROVE  /\ Renamed(special, w, key, newkey) \in [Store -> [Keyword -> {None} \cup SUBSET Var]]
           /\ \A t \in Store \ {w} : Renamed(special, w, key, newkey)[t] = special[t]
           /\ \A k \in Keyword : Members(Renamed(special, w, key, newkey), w, k) =
                 (Members(special, w, k) \ {key})
                     \cup (IF key \in Members(special, w, k) THEN {newkey} ELSE {})
  <1> DEFINE sp == Renamed(special, w, key, newkey)
             files(k) == (Members(special, w, k) \ {key})
                             \cup (IF key \in Members(special, w, k) THEN {newkey} ELSE {})
  <1>0. /\ w \in Store /\ above[w] \subseteq Store
        /\ special \in [Store -> [Keyword -> {None} \cup SUBSET Var]]
    <2>1. w \in Store
      BY DataAssumption DEF Shape, Store
    <2> QED BY <2>1 DEF Shape, IndexInv, TablesInv
  <1>1. \A k \in Keyword : Members(special, w, k) \in SUBSET Var
    BY <1>0, MembersNames
  <1>2. \A k \in Keyword : files(k) \in SUBSET Var
    BY <1>1
  <1>3. sp = [special EXCEPT ![w] = [k \in Keyword |->
                 IF Has(special, w, k) THEN files(k) ELSE special[w][k]]]
    BY <1>0 DEF Renamed
  <1> HIDE DEF sp, files
  <1>4. /\ sp \in [Store -> [Keyword -> {None} \cup SUBSET Var]]
        /\ \A t \in Store \ {w} : sp[t] = special[t]
        /\ \A k \in Keyword : sp[w][k] = IF Has(special, w, k) THEN files(k) ELSE special[w][k]
    BY <1>0, <1>2, <1>3
  <1>5. ASSUME NEW k \in Keyword PROVE Members(sp, w, k) = files(k)
    <2>1. CASE Has(special, w, k)
      <3>1. sp[w][k] = files(k) /\ files(k) # None
        BY <1>2, <1>4, <2>1 DEF NoneApart
      <3> QED BY <3>1, OwnMembers DEF IndexInv
    <2>2. CASE ~Has(special, w, k)
      <3>1. \A t \in above[w] : sp[t][k] = special[t][k]
        BY <1>0, <1>4, <2>2
      <3>2. Members(sp, w, k) = Members(special, w, k)
        BY <3>1, KeptMembers
      <3>3. Members(special, w, k) = {}
        BY <2>2 DEF Has, Members
      <3> QED BY <3>2, <3>3 DEF files
    <2> QED BY <2>1, <2>2
  <1> QED BY <1>4, <1>5 DEF sp, files

LEMMA RenameVarIndexed ==
    ASSUME Shape, IndexInv, NoneApart, NEW w \in Store, NEW key \in Var, NEW newkey \in Var,
           key # newkey, RenameVar(w, key, newkey), Local(w)
    PROVE  TablesInv' /\ IndexComplete'
  <1>0. /\ Stays(w) /\ w \in 1 .. stores /\ LeavesBehind(w) /\ above' = above
        /\ seen' = Seen(seen, w, newkey) /\ special' = Renamed(special, w, key, newkey)
        /\ stores' = stores
    BY DEF RenameVar, Operation, Stays, Shape, Store
  <1> DEFINE entry == [f \in DOMAIN Nothing |->
                 IF f = "content" THEN Content(w, key) ELSE Found(w, newkey)[f] \o Found(w, key)[f]]
  <1>1. /\ dict' = [dict EXCEPT ![w][newkey] = entry, ![w][key] = Nothing]
        /\ DOMAIN entry = DOMAIN Nothing
        /\ \A k \in Keyword : entry[k] = Found(w, newkey)[k] \o Found(w, key)[k]
    BY DEF RenameVar, Nothing, Keyword
  <1> HIDE DEF entry
  <1>2. /\ DOMAIN dict' = Store /\ DOMAIN dict'[w] = Var
        /\ dict'[w][newkey] = entry /\ dict'[w][key] = Nothing
        /\ \A u \in Var \ {key, newkey} : dict'[w][u] = dict[w][u]
    BY <1>1 DEF Shape, IndexInv, TablesInv
  <1>3. \A u \in Var : dict'[w][u] = dict[w][u] \/ DOMAIN dict'[w][u] = DOMAIN Nothing
    BY <1>1, <1>2
  <1>4. /\ \A s \in Store : DOMAIN dict'[s] = Var
        /\ \A s \in Store, u \in Var : dict'[s][u] = None \/ DOMAIN dict'[s][u] = DOMAIN Nothing
        /\ \A s \in Store : s > stores' => \A u \in Var : dict'[s][u] = None
        /\ Found(w, newkey)' = entry /\ Found(w, key)' = Nothing
        /\ \A u \in Var \ {key, newkey} : Found(w, u)' = Found(w, u)
    BY <1>0, <1>1, <1>2, <1>3, WritesSome, SMTT(30)
  <1>5. /\ seen' \in [Store -> [Override -> {None} \cup SUBSET Var]]
        /\ \A t \in Store \ {w} : seen'[t] = seen[t]
        /\ \A q \in Override : Members(seen, w, q) \subseteq Members(seen', w, q)
        /\ Len(newkey) > 1 => newkey \in Members(seen', w, Last(newkey))
    BY <1>0, SeenFiles DEF IndexInv
  <1>6. /\ special' \in [Store -> [Keyword -> {None} \cup SUBSET Var]]
        /\ \A t \in Store \ {w} : special'[t] = special[t]
        /\ \A k \in Keyword : Members(special', w, k) =
              (Members(special, w, k) \ {key})
                  \cup (IF key \in Members(special, w, k) THEN {newkey} ELSE {})
    BY <1>0, RenamedSets
  <1>7. \A s \in Store : s > stores => s # w
    BY <1>0, DataAssumption DEF Shape, Store
  <1>8. TablesInv'
    BY <1>0, <1>4, <1>5, <1>6, <1>7 DEF IndexInv, TablesInv, LeavesBehind
  <1>9. ASSUME ~behind[w] PROVE Complete(w)'
    <2>1. Complete(w)
      BY <1>0, <1>9, CompleteEach DEF IndexInv
    <2>2. Nothing["content"] = None /\ \A k \in Keyword : Nothing[k] = <<>>
      BY DEF Nothing, Keyword
    <2>3. ASSUME NEW u \in Var, NEW k \in Keyword, Found(w, u)'[k] # <<>>
          PROVE  u \in Members(special', w, k)
      <3>1. CASE u = key
        BY <1>4, <2>2, <2>3, <3>1
      <3>2. CASE u = newkey
        <4>1. Found(w, newkey)[k] # <<>> \/ Found(w, key)[k] # <<>>
          <5>1. Found(w, newkey)[k] \o Found(w, key)[k] # <<>>
            BY <1>1, <1>4, <2>3, <3>2
          <5>2. <<>> \o <<>> = <<>>
            OBVIOUS
          <5> QED BY <5>1, <5>2
        <4>2. newkey \in Members(special, w, k) \/ key \in Members(special, w, k)
          BY <2>1, <4>1 DEF Complete
        <4> QED BY <1>6, <3>2, <4>2
      <3>3. CASE u # key /\ u # newkey
        <4>1. u \in Members(special, w, k)
          BY <1>4, <2>1, <2>3, <3>3 DEF Complete
        <4> QED BY <1>6, <3>3, <4>1
      <3> QED BY <3>1, <3>2, <3>3
    <2>4. ASSUME NEW u \in Var, Len(u) > 1, Found(w, u)'["content"] # None
          PROVE  u \in Members(seen', w, Last(u))
      <3>0. Last(u) \in Override
        BY <2>4, DataAssumption
      <3>1. CASE u = key
        BY <1>4, <2>2, <2>4, <3>1
      <3>2. CASE u = newkey
        BY <1>5, <2>4, <3>2
      <3>3. CASE u # key /\ u # newkey
        <4>1. u \in Members(seen, w, Last(u))
          BY <1>4, <2>1, <2>4, <3>3 DEF Complete, Content
        <4> QED BY <1>5, <3>0, <4>1
      <3> QED BY <3>1, <3>2, <3>3
    <2>5. \A k : Members(special, w, k)' = Members(special', w, k) /\ Members(seen, w, k)' = Members(seen', w, k)
      BY <1>0, MembersNow
    <2> QED BY <2>3, <2>4, <2>5 DEF Complete, Content
  <1> QED BY <1>0, <1>8, <1>9, OthersComplete

-----------------------------------------------------------------------------
\* A copy sees what the store it is made from sees.
LEMMA CreateCopyIndexed ==
    ASSUME Shape, IndexInv, NEW w \in Store, CreateCopy(w), Local(w)
    PROVE  ChainInv' /\ TablesInv' /\ IndexComplete'
  <1>n. PICK new \in Store : new = stores + 1
    BY DataAssumption DEF CreateCopy, Shape, Store
  <1>0. /\ w \in 1 .. stores /\ stores' = new /\ stores \in Nat /\ new \in Nat
        /\ above' = [above EXCEPT ![new] = above[w] \cup {new}]
        /\ behind' = [behind EXCEPT ![new] = behind[w]]
        /\ dict' = dict /\ special' = special /\ seen' = seen
    BY <1>n, DataAssumption DEF CreateCopy, Operation, Shape, Store
  <1>1. /\ 1 .. stores \subseteq Store /\ new \notin 1 .. stores
        /\ \A s \in 1 .. new : s \in 1 .. stores \/ s = new
        /\ \A s \in 1 .. stores : s \in Nat /\ s < new
    BY <1>n, <1>0, DataAssumption DEF Shape, Store
  <1>2. above'[new] = above[w] \cup {new} /\ \A s \in 1 .. stores : above'[s] = above[s]
    BY <1>0, <1>1 DEF Shape
  <1>3. above[w] \subseteq 1 .. stores /\ above[w] \subseteq Store /\ \A t \in above[w] : t < new
    BY <1>0, <1>1 DEF IndexInv, ChainInv
  <1>4. ChainInv'
    <2>1. ASSUME NEW s \in 1 .. stores
          PROVE  /\ above'[s] \subseteq 1 .. s /\ s \in above'[s]
                 /\ \A t \in above'[s] : above'[t] = above'[s] \cap 1 .. t
      <3>1. above[s] \subseteq 1 .. stores
        BY <1>0, <1>1 DEF IndexInv, ChainInv
      <3> QED BY <1>2, <3>1 DEF IndexInv, ChainInv
    <2>2. above'[new] \subseteq 1 .. new /\ new \in above'[new]
      <3>1. \A t \in above[w] \cup {new} : t \in 1 .. new
        BY <1>n, <1>0, <1>3
      <3> QED BY <1>2, <3>1
    <2>3. ASSUME NEW t \in above'[new] PROVE above'[t] = above'[new] \cap 1 .. t
      <3>1. CASE t = new
        BY <2>2, <3>1
      <3>2. CASE t # new
        <4>1. t \in above[w] /\ t \in 1 .. stores /\ t < new
          BY <1>2, <1>3, <2>3, <3>2
        <4>2. above[t] = above[w] \cap 1 .. t
          BY <1>0, <4>1 DEF IndexInv, ChainInv
        <4>3. new \notin 1 .. t
          BY <1>1, <4>1
        <4> QED BY <1>2, <4>1, <4>2, <4>3
      <3> QED BY <3>1, <3>2
    <2> QED BY <1>0, <1>1, <2>1, <2>2, <2>3 DEF ChainInv
  <1>5. TablesInv'
    <2>1. \A s \in Store : s > new => s > stores
      BY <1>n, <1>0, DataAssumption DEF Store
    <2> QED BY <1>0, <2>1 DEF IndexInv, TablesInv
  <1>6. /\ \A v \in Var : dict[new][v] = None
        /\ \A k \in Keyword : special[new][k] = None
        /\ \A o \in Override : seen[new][o] = None
    BY <1>n, <1>0 DEF IndexInv, TablesInv
  <1>7. ASSUME NEW v \in Var PROVE Found(new, v)' = Found(w, v)
    <2> DEFINE having == {t \in above[w] : dict[t][v] # None}
    <2>1. {t \in above'[new] : dict'[t][v] # None} = having
      BY <1>0, <1>2, <1>6
    <2>2. Found(new, v)' = IF having = {} THEN Nothing ELSE dict'[Max(having)][v]
      BY <2>1 DEF Found
    <2>3. Found(w, v) = IF having = {} THEN Nothing ELSE dict[Max(having)][v]
      BY DEF Found
    <2> QED BY <1>0, <2>2, <2>3
  <1>8. ASSUME NEW k \in Keyword PROVE Members(special, new, k)' = Members(special, w, k)
    <2> DEFINE having == {t \in above[w] : special[t][k] # None}
    <2>1. {t \in above'[new] : special'[t][k] # None} = having
      BY <1>0, <1>2, <1>6
    <2>2. Members(special, new, k)' = IF having = {} THEN {} ELSE special'[Max(having)][k]
      BY <2>1 DEF Members
    <2>3. Members(special, w, k) = IF having = {} THEN {} ELSE special[Max(having)][k]
      BY DEF Members
    <2> QED BY <1>0, <2>2, <2>3
  <1>9. ASSUME NEW q \in Override PROVE Members(seen, new, q)' = Members(seen, w, q)
    <2> DEFINE having == {t \in above[w] : seen[t][q] # None}
    <2>1. {t \in above'[new] : seen'[t][q] # None} = having
      BY <1>0, <1>2, <1>6
    <2>2. Members(seen, new, q)' = IF having = {} THEN {} ELSE seen'[Max(having)][q]
      BY <2>1 DEF Members
    <2>3. Members(seen, w, q) = IF having = {} THEN {} ELSE seen[Max(having)][q]
      BY DEF Members
    <2> QED BY <1>0, <2>2, <2>3
  <1>10. ASSUME ~behind[w] PROVE Complete(new)'
    <2>1. Complete(w)
      BY <1>0, <1>10, CompleteEach DEF IndexInv
    <2>2. \A v \in Var : Len(v) > 1 => Last(v) \in Override
      BY DataAssumption
    <2> QED BY <1>7, <1>8, <1>9, <2>1, <2>2 DEF Complete, Content
  <1>11. ASSUME NEW s \in 1 .. stores, ~behind[s] PROVE Complete(s)'
    <2>1. \A t \in above[s] : t \in Store /\ t # new
      BY <1>n, <1>0, <1>1 DEF IndexInv, ChainInv
    <2>2. w \in 1 .. stores /\ above[s] \subseteq Store /\ above'[s] = above[s]
      BY <1>0, <1>2, <2>1
    <2>3. \A v \in Var : Found(s, v)' = Found(s, v)
      BY <1>0, <2>2, FoundKept
    <2>4. ASSUME NEW k
          PROVE  Members(special, s, k)' = Members(special, s, k) /\ Members(seen, s, k)' = Members(seen, s, k)
      <3>1. {t \in above'[s] : special'[t][k] # None} = {t \in above[s] : special[t][k] # None}
        BY <1>0, <2>2
      <3>2. {t \in above'[s] : seen'[t][k] # None} = {t \in above[s] : seen[t][k] # None}
        BY <1>0, <2>2
      <3>3. Members(special, s, k)' = Members(special, s, k)
        <4> DEFINE having == {t \in above[s] : special[t][k] # None}
        <4>1. Members(special, s, k)' = IF having = {} THEN {} ELSE special'[Max(having)][k]
          BY <3>1 DEF Members
        <4>2. Members(special, s, k) = IF having = {} THEN {} ELSE special[Max(having)][k]
          BY DEF Members
        <4> QED BY <1>0, <4>1, <4>2
      <3>4. Members(seen, s, k)' = Members(seen, s, k)
        <4> DEFINE having == {t \in above[s] : seen[t][k] # None}
        <4>1. Members(seen, s, k)' = IF having = {} THEN {} ELSE seen'[Max(having)][k]
          BY <3>2 DEF Members
        <4>2. Members(seen, s, k) = IF having = {} THEN {} ELSE seen[Max(having)][k]
          BY DEF Members
        <4> QED BY <1>0, <4>1, <4>2
      <3> QED BY <3>3, <3>4
    <2>5. Complete(s)
      BY <1>11, CompleteEach DEF IndexInv
    <2> QED BY <2>3, <2>4, <2>5 DEF Complete, Content
  <1>12. \A s \in 1 .. new : ~behind'[s] => Complete(s)'
    <2>1. behind'[new] = behind[w] /\ \A s \in 1 .. stores : behind'[s] = behind[s]
      BY <1>0, <1>1 DEF IndexInv, TablesInv
    <2> QED BY <1>1, <1>10, <1>11, <2>1
  <1> QED BY <1>0, <1>4, <1>5, <1>12 DEF IndexComplete, Complete

LEMMA GetVarIndexed ==
    ASSUME Shape, IndexInv, NEW w \in Store, NEW v \in Var,
           GetVar(w, v) \/ GetVarRaises(w, v)
    PROVE  TablesInv' /\ IndexComplete'
  <1>1. UNCHANGED <<stores, above, dict, special, seen, behind>>
    BY DEF GetVar, GetVarRaises
  <1>2. TablesInv' = TablesInv
    BY <1>1 DEF TablesInv
  <1>3. /\ \A s, u : Found(s, u)' = Found(s, u)
        /\ \A s, k : Members(special, s, k)' = Members(special, s, k)
        /\ \A s, k : Members(seen, s, k)' = Members(seen, s, k)
    BY <1>1 DEF Found, Members
  <1>4. IndexComplete' = IndexComplete
    BY <1>1, <1>3 DEF IndexComplete, Content
  <1> QED BY <1>2, <1>4 DEF IndexInv

-----------------------------------------------------------------------------
\* update_data: what is set is filed, and only what was pending is dropped.
LEMMA UpdateDataIndexed ==
    ASSUME Shape, IndexInv, NoneApart, NEW w \in Store, UpdateData(w), Local(w)
    PROVE  TablesInv' /\ IndexComplete'
  <1> DEFINE overrides == Overrides(w)
             applied == OverridesApplied(w, overrides)
             hit == UNION {Hit(w, k, overrides) : k \in Keyword}
             set == applied.set \cup hit
             filed == [q \in Override |->
                 Members(seen, w, q) \cup {v \in Var : v \in set /\ Len(v) > 1 /\ Last(v) = q}]
             entry(v) == [f \in DOMAIN Nothing |->
                 IF f = "content" THEN Extended(w, v, applied.content[v], overrides)
                 ELSE IF v \in Members(special, w, f) THEN Left(Found(w, v)[f], overrides)
                 ELSE Found(w, v)[f]]
  <1>0. /\ Stays(w) /\ w \in 1 .. stores /\ stores' = stores /\ above' = above
    BY DEF UpdateData, Operation, Stays, Shape, Store
  <1>b. IF set = {} THEN UNCHANGED behind ELSE LeavesBehind(w)
    BY DEF UpdateData
  <1>1. dict' = [dict EXCEPT ![w] = [v \in Var |-> IF v \notin set THEN dict[w][v] ELSE entry(v)]]
    BY DEF UpdateData
  <1>2. special' = [special EXCEPT ![w] = [k \in Keyword |->
            IF Has(special, w, k) THEN Members(special, w, k) ELSE special[w][k]]]
    BY DEF UpdateData, Shape
  <1>3. seen' = [seen EXCEPT ![w] = [q \in Override |->
            IF filed[q] # Members(seen, w, q) \/ (q \in ToSet(overrides) /\ Has(seen, w, q))
            THEN filed[q] ELSE seen[w][q]]]
    BY DEF UpdateData, Shape
  <1> HIDE DEF overrides, hit, set
  <1>4. /\ 1 .. stores \subseteq Store /\ w \in Store
        /\ special \in [Store -> [Keyword -> {None} \cup SUBSET Var]]
        /\ seen \in [Store -> [Override -> {None} \cup SUBSET Var]]
        /\ \A k \in Keyword : Members(special, w, k) \in SUBSET Var
        /\ \A q \in Override : Members(seen, w, q) \in SUBSET Var
    <2>1. /\ 1 .. stores \subseteq Store /\ w \in Store
          /\ special \in [Store -> [Keyword -> {None} \cup SUBSET Var]]
          /\ seen \in [Store -> [Override -> {None} \cup SUBSET Var]]
      BY <1>0, DataAssumption DEF Shape, Store, IndexInv, TablesInv
    <2>2. \A k \in Keyword : Members(special, w, k) \in SUBSET Var
      BY <1>0, <2>1, MembersNames
    <2>3. \A q \in Override : Members(seen, w, q) \in SUBSET Var
      BY <1>0, <2>1, MembersNames
    <2> QED BY <2>1, <2>2, <2>3
  <1>5. /\ DOMAIN dict' = Store /\ DOMAIN dict'[w] = Var
        /\ \A u \in Var \ set : dict'[w][u] = dict[w][u]
        /\ \A u \in Var \cap set : dict'[w][u] = entry(u)
    BY <1>1, <1>4 DEF Shape
  <1>6. \A u \in Var : DOMAIN entry(u) = DOMAIN Nothing
    OBVIOUS
  <1>7. \A u \in Var, k \in Keyword :
            entry(u)[k] = IF u \in Members(special, w, k) THEN Left(Found(w, u)[k], overrides)
                          ELSE Found(w, u)[k]
    BY DEF Nothing, Keyword
  <1> HIDE DEF entry
  <1>8. /\ \A s \in Store : DOMAIN dict'[s] = Var
        /\ \A s \in Store, u \in Var : dict'[s][u] = None \/ DOMAIN dict'[s][u] = DOMAIN Nothing
        /\ \A s \in Store : s > stores' => \A u \in Var : dict'[s][u] = None
        /\ \A u \in Var \ set : Found(w, u)' = Found(w, u)
        /\ \A u \in Var \cap set : Found(w, u)' = entry(u)
    <2>1. \A u \in Var : dict'[w][u] = dict[w][u] \/ DOMAIN dict'[w][u] = DOMAIN Nothing
      BY <1>5, <1>6
    <2> QED BY <1>0, <1>5, <1>6, <2>1, WritesSome
  <1>9. /\ special' \in [Store -> [Keyword -> {None} \cup SUBSET Var]]
        /\ \A t \in Store \ {w} : special'[t] = special[t]
        /\ \A k \in Keyword : special'[w][k] =
              IF Has(special, w, k) THEN Members(special, w, k) ELSE special[w][k]
    BY <1>2, <1>4
  <1>10. ASSUME NEW s \in 1 .. stores, NEW k \in Keyword
         PROVE  Members(special, s, k)' = Members(special, s, k)
    <2>1. Members(special, w, k) # None
      BY <1>4 DEF NoneApart
    <2>2. \/ special'[w][k] = special[w][k]
          \/ special'[w][k] = Members(special, w, k) /\ Has(special, w, k) /\ special'[w][k] # None
      BY <1>9, <2>1
    <2>3. Members(special', s, k) = Members(special, s, k)
      BY <1>0, <1>9, <2>2, CopiedMembers DEF IndexInv
    <2> QED BY <1>0, <2>3, MembersNow
  <1>11. \A q \in Override :
            filed[q] = Members(seen, w, q) \cup {v \in Var : v \in set /\ Len(v) > 1 /\ Last(v) = q}
    OBVIOUS
  <1> HIDE DEF filed
  <1>12. \A q \in Override : filed[q] \in SUBSET Var /\ filed[q] # None
    BY <1>4, <1>11 DEF NoneApart
  <1>13. /\ seen' \in [Store -> [Override -> {None} \cup SUBSET Var]]
         /\ \A t \in Store \ {w} : seen'[t] = seen[t]
         /\ \A q \in Override : seen'[w][q] =
               IF filed[q] # Members(seen, w, q) \/ (q \in ToSet(overrides) /\ Has(seen, w, q))
               THEN filed[q] ELSE seen[w][q]
    BY <1>3, <1>4, <1>12
  <1>14. ASSUME NEW q \in Override PROVE Members(seen, w, q)' = filed[q]
    <2>1. CASE seen'[w][q] = filed[q]
      <3>1. Members(seen', w, q) = filed[q]
        BY <1>0, <1>12, <2>1, OwnMembers DEF IndexInv
      <3> QED BY <1>0, <3>1, MembersNow
    <2>2. CASE seen'[w][q] = seen[w][q] /\ filed[q] = Members(seen, w, q)
      <3>1. \A t \in above[w] : t \in Store /\ seen'[t][q] = seen[t][q]
        BY <1>4, <1>13, <2>2 DEF Shape
      <3>2. Members(seen', w, q) = Members(seen, w, q)
        BY <1>0, <3>1, KeptMembers
      <3> QED BY <1>0, <2>2, <3>2, MembersNow
    <2> QED BY <1>13, <2>1, <2>2
  <1>15. TablesInv'
    <2>1. \A s \in Store : s > stores => s # w
      BY <1>0, DataAssumption DEF Shape, Store
    <2>2. DOMAIN behind' = Store
      BY <1>b DEF LeavesBehind, IndexInv, TablesInv
    <2>3. ASSUME NEW s \in Store, s > stores
          PROVE  /\ \A k \in Keyword : special'[s][k] = None
                 /\ \A o \in Override : seen'[s][o] = None
      <3>1. special'[s] = special[s] /\ seen'[s] = seen[s]
        BY <1>9, <1>13, <2>1, <2>3
      <3> QED BY <2>3, <3>1 DEF IndexInv, TablesInv
    <2> HIDE DEF overrides, applied, hit, set, filed, entry
    <2> QED BY <1>0, <1>8, <1>9, <1>13, <2>2, <2>3 DEF TablesInv
  <1>16. \A v \in Var : Len(v) > 1 => Last(v) \in Override
    BY DataAssumption
  <1>17. ASSUME ~behind[w] PROVE Complete(w)'
    <2>1. Complete(w)
      BY <1>0, <1>17, CompleteEach DEF IndexInv
    <2>2. ASSUME NEW u \in Var, NEW k \in Keyword, Found(w, u)'[k] # <<>>
          PROVE  u \in Members(special, w, k)
      <3>1. CASE u \notin set
        BY <1>8, <2>1, <2>2, <3>1 DEF Complete
      <3>2. CASE u \in set /\ u \notin Members(special, w, k)
        <4>1. Found(w, u)[k] # <<>>
          BY <1>7, <1>8, <2>2, <3>2
        <4> QED BY <2>1, <4>1 DEF Complete
      <3> QED BY <3>1, <3>2
    <2>3. ASSUME NEW u \in Var, Len(u) > 1, Found(w, u)'["content"] # None
          PROVE  u \in filed[Last(u)]
      <3>1. CASE u \notin set
        <4>1. u \in Members(seen, w, Last(u))
          BY <1>8, <2>1, <2>3, <3>1 DEF Complete, Content
        <4> QED BY <1>11, <1>16, <2>3, <4>1
      <3>2. CASE u \in set
        BY <1>11, <1>16, <2>3, <3>2
      <3> QED BY <3>1, <3>2
    <2> QED BY <1>0, <1>10, <1>14, <1>16, <2>2, <2>3 DEF Complete, Content
  <1>18. CASE LeavesBehind(w)
    BY <1>0, <1>15, <1>17, <1>18, OthersComplete
  <1>19. CASE set = {} /\ behind' = behind
    <2>1. ASSUME NEW s \in 1 .. stores, ~behind[s] PROVE Complete(s)'
      <3>0. above[s] \subseteq Store
        BY <1>4 DEF Shape
      <3>1. ASSUME NEW v \in Var PROVE Found(s, v)' = Found(s, v)
        <4>1. \A t \in above[s] : dict'[t][v] = dict[t][v]
          BY <1>0, <1>5, <1>19, <3>0 DEF Stays, Local
        <4> QED BY <1>0, <4>1, FoundKept
      <3>2. ASSUME NEW q \in Override PROVE Members(seen, s, q)' = Members(seen, s, q)
        <4>1. filed[q] = Members(seen, w, q)
          BY <1>11, <1>19
        <4>2. \/ seen'[w][q] = seen[w][q]
              \/ seen'[w][q] = Members(seen, w, q) /\ Has(seen, w, q) /\ seen'[w][q] # None
          BY <1>12, <1>13, <4>1
        <4>3. Members(seen', s, q) = Members(seen, s, q)
          BY <1>0, <1>13, <4>2, CopiedMembers DEF IndexInv
        <4> QED BY <1>0, <4>3, MembersNow
      <3>3. Complete(s)
        BY <2>1, CompleteEach DEF IndexInv
      <3> QED BY <1>10, <1>16, <3>1, <3>2, <3>3 DEF Complete, Content
    <2> QED BY <1>0, <1>15, <1>19, <2>1 DEF IndexComplete, Complete
  <1> QED BY <1>b, <1>18, <1>19

-----------------------------------------------------------------------------
LEMMA IndexInit == ASSUME Init, NoneApart PROVE IndexInv
  <1>0. stores = 1 /\ 1 \in Store /\ above[1] = {1} /\ 1 .. stores = {1} /\ \A s \in Store : s > 1 => s # 1
    BY DataAssumption DEF Init, Store
  <1>1. ChainInv
    BY <1>0 DEF ChainInv
  <1>2. /\ \A v \in Var : dict[1][v] =
              IF Given[v] # None THEN [Nothing EXCEPT !["content"] = Given[v]] ELSE None
        /\ \A s \in Store : DOMAIN dict[s] = Var
        /\ \A s \in Store \ {1}, v \in Var : dict[s][v] = None
        /\ \A s \in Store, k \in Keyword : special[s][k] = None
        /\ \A s \in Store \ {1}, o \in Override : seen[s][o] = None
    BY <1>0 DEF Init
  <1>3. TablesInv
    <2>1. \A s \in Store, v \in Var : dict[s][v] = None \/ DOMAIN dict[s][v] = DOMAIN Nothing
      BY <1>2
    <2>2. special \in [Store -> [Keyword -> {None} \cup SUBSET Var]]
      BY DEF Init
    <2>3. seen \in [Store -> [Override -> {None} \cup SUBSET Var]]
      BY DEF Init
    <2> QED BY <1>0, <1>2, <2>1, <2>2, <2>3 DEF TablesInv, Init
  <1>4. Complete(1)
    <2>1. /\ Nothing["content"] = None
          /\ \A k \in Keyword : Nothing[k] = <<>> /\ k # "content" /\ k \in DOMAIN Nothing
      BY DEF Nothing, Keyword
    <2>2. Shape
      BY ShapeInit
    <2>3. ASSUME NEW v \in Var
          PROVE  /\ \A k \in Keyword : Found(1, v)[k] = <<>>
                 /\ Given[v] = None => Found(1, v)["content"] = None
      <3>1. CASE Given[v] = None
        <4>1. {t \in above[1] : dict[t][v] # None} = {}
          BY <1>0, <1>2, <3>1
        <4>2. Found(1, v) = Nothing
          BY <4>1 DEF Found
        <4> QED BY <2>1, <4>2
      <3>2. CASE Given[v] # None
        <4>1. dict[1][v] = [Nothing EXCEPT !["content"] = Given[v]]
          BY <1>2, <3>2
        <4>2. DOMAIN dict[1][v] = DOMAIN Nothing
          BY <4>1
        <4>3. Found(1, v) = dict[1][v]
          BY <1>0, <1>1, <2>2, <4>2, OwnFound DEF NoneApart
        <4> QED BY <2>1, <3>2, <4>1, <4>3
      <3> QED BY <3>1, <3>2
    <2>4. ASSUME NEW v \in Var, Len(v) > 1, Given[v] # None PROVE v \in Members(seen, 1, Last(v))
      <3> DEFINE having == {u \in Var : Given[u] # None /\ Len(u) > 1 /\ Last(u) = Last(v)}
      <3>1. Last(v) \in Override /\ v \in having
        BY <2>4, DataAssumption
      <3>2. seen[1][Last(v)] = having
        BY <1>0, <3>1 DEF Init
      <3>3. having # None
        BY DEF NoneApart
      <3>4. Members(seen, 1, Last(v)) = seen[1][Last(v)]
        BY <1>0, <1>1, <2>2, <3>2, <3>3, OwnMembers
      <3> QED BY <3>1, <3>2, <3>4
    <2> QED BY <2>3, <2>4 DEF Complete, Content
  <1>5. IndexComplete
    BY <1>0, <1>4, CompleteEach
  <1> QED BY <1>1, <1>3, <1>5 DEF IndexInv

\* Every step is an operation on a store.
LEMMA OneOperation ==
    ASSUME NEW s
    PROVE  /\ \A v, value : SetVar(s, v, value) => \E op : last' = <<op, s>>
           /\ \A v, k, o, text : SetVarKeyword(s, v, k, o, text) => \E op : last' = <<op, s>>
           /\ \A v : DelVar(s, v) => \E op : last' = <<op, s>>
           /\ \A key, newkey : RenameVar(s, key, newkey) => \E op : last' = <<op, s>>
           /\ CreateCopy(s) => \E op : last' = <<op, s>>
           /\ \A v : GetVar(s, v) => \E op : last' = <<op, s>>
           /\ \A v : GetVarRaises(s, v) => \E op : last' = <<op, s>>
           /\ UpdateData(s) => \E op : last' = <<op, s>>
  <1>1. \A op : Operation(op, s) => last' = <<op, s>>
    BY DEF Operation
  <1>2. ASSUME NEW v, NEW value, SetVar(s, v, value) PROVE Operation("setVar", s)
    BY <1>2 DEF SetVar
  <1>3. ASSUME NEW v, NEW k, NEW o, NEW text, SetVarKeyword(s, v, k, o, text)
        PROVE  Operation("setVarKeyword", s)
    BY <1>3 DEF SetVarKeyword
  <1>4. ASSUME NEW v, DelVar(s, v) PROVE Operation("delVar", s)
    BY <1>4 DEF DelVar
  <1>5. ASSUME NEW key, NEW newkey, RenameVar(s, key, newkey) PROVE Operation("renameVar", s)
    BY <1>5 DEF RenameVar
  <1>6. ASSUME CreateCopy(s) PROVE Operation("createCopy", s)
    BY <1>6 DEF CreateCopy
  <1>7. ASSUME NEW v, GetVar(s, v) PROVE Operation("getVar", s)
    BY <1>7 DEF GetVar
  <1>8. ASSUME UpdateData(s) PROVE Operation("update_data", s)
    BY <1>8 DEF UpdateData
  <1>9. ASSUME NEW v, GetVarRaises(s, v) PROVE Operation("raise", s)
    BY <1>9 DEF GetVarRaises
  <1> QED BY <1>1, <1>2, <1>3, <1>4, <1>5, <1>6, <1>7, <1>8, <1>9

LEMMA IndexNext ==
    ASSUME Shape, IndexInv, NoneApart, [Next]_vars
    PROVE  IndexInv'
  <1>1. CASE UNCHANGED vars
    <2>1. UNCHANGED <<stores, above, dict, special, seen, behind>>
      BY <1>1 DEF vars, history
    <2>2. /\ \A s, u : Found(s, u)' = Found(s, u)
          /\ \A s, k : Members(special, s, k)' = Members(special, s, k)
          /\ \A s, k : Members(seen, s, k)' = Members(seen, s, k)
      BY <2>1 DEF Found, Members
    <2>3. ChainInv' = ChainInv /\ TablesInv' = TablesInv
      BY <2>1 DEF ChainInv, TablesInv
    <2>4. IndexComplete' = IndexComplete
      BY <2>1, <2>2 DEF IndexComplete, Content
    <2> QED BY <2>3, <2>4 DEF IndexInv
  <1>2. CASE Next /\ vars' # vars
    <2>1. PICK s \in Store :
            \/ \E a \in Assignments : SetVar(s, a[1], a[2])
            \/ \E a \in Appends : SetVarKeyword(s, a[1], a[2], a[3], a[4])
            \/ \E v \in Deleted : DelVar(s, v)
            \/ \E r \in Renames : RenameVar(s, r[1], r[2])
            \/ CreateCopy(s)
            \/ \E v \in Read : GetVar(s, v)
            \/ \E v \in Read \cup {OVERRIDES} : GetVarRaises(s, v)
            \/ UpdateData(s)
      BY <1>2 DEF Next
    <2>2. Local(s)
      <3>1. vars' = vars \/ \E w \in Store : Local(w)
        BY ShapeNext
      <3>2. last'[2] = s
        <4>1. \E op : last' = <<op, s>>
          BY <2>1, OneOperation
        <4> QED BY <4>1
      <3> QED BY <1>2, <3>1, <3>2 DEF Local
    <2>3. CASE CreateCopy(s)
      BY <2>2, <2>3, CreateCopyIndexed DEF IndexInv
    <2>4. CASE ~CreateCopy(s)
      <3>1. stores' = stores /\ above' = above
        BY <2>1, <2>4 DEF SetVar, SetVarKeyword, DelVar, RenameVar, GetVar, GetVarRaises, UpdateData
      <3>2. ChainInv'
        BY <3>1 DEF IndexInv, ChainInv
      <3>3. ASSUME NEW a \in Assignments, SetVar(s, a[1], a[2]) PROVE TablesInv' /\ IndexComplete'
        BY <2>2, <3>3, SetVarIndexed, DataAssumption
      <3>4. ASSUME NEW a \in Appends, SetVarKeyword(s, a[1], a[2], a[3], a[4])
            PROVE  TablesInv' /\ IndexComplete'
        BY <2>2, <3>4, SetVarKeywordIndexed, DataAssumption
      <3>5. ASSUME NEW v \in Deleted, DelVar(s, v) PROVE TablesInv' /\ IndexComplete'
        BY <2>2, <3>5, DelVarIndexed, DataAssumption
      <3>6. ASSUME NEW r \in Renames, RenameVar(s, r[1], r[2]) PROVE TablesInv' /\ IndexComplete'
        <4>1. r[1] \in Var /\ r[2] \in Var /\ r[1] # r[2]
          BY DataAssumption
        <4> QED BY <2>2, <3>6, <4>1, RenameVarIndexed
      <3>7. ASSUME NEW v \in Read, GetVar(s, v) PROVE TablesInv' /\ IndexComplete'
        BY <3>7, GetVarIndexed, DataAssumption
      <3>9. ASSUME NEW v \in Read \cup {OVERRIDES}, GetVarRaises(s, v) PROVE TablesInv' /\ IndexComplete'
        BY <3>9, GetVarIndexed, DataAssumption
      <3>8. ASSUME UpdateData(s) PROVE TablesInv' /\ IndexComplete'
        BY <2>2, <3>8, UpdateDataIndexed
      <3> QED BY <2>1, <2>4, <3>2, <3>3, <3>4, <3>5, <3>6, <3>7, <3>8, <3>9 DEF IndexInv
    <2> QED BY <2>3, <2>4
  <1> QED BY <1>1, <1>2

\* update_data looks only at the variables in its two indexes, and whatever is
\* pending, or has an override in its name, is in them: through copies,
\* renamings, deletions and earlier calls, for any names, values and overrides.
THEOREM IndexCompleteHolds == ASSUME NoneApart PROVE Spec => []IndexComplete
  <1>1. Init => IndexInv
    BY IndexInit
  <1>2. Shape /\ IndexInv /\ [Next]_vars => IndexInv'
    BY IndexNext
  <1>3. IndexInv => IndexComplete
    BY DEF IndexInv
  <1> QED BY <1>1, <1>2, <1>3, ShapeHolds, PTL DEF Spec

-----------------------------------------------------------------------------
(***************************************************************************)
(* What the recursive functions compute.                                   *)
(***************************************************************************)

\* Induction over 0 .. N, for a set.
LEMMA Counting ==
    ASSUME NEW N \in Nat, NEW P, 0 \in P,
           \A n \in 0 .. N - 1 : n \in P => n + 1 \in P
    PROVE  0 .. N \subseteq P
  <1> DEFINE missing == {n \in 0 .. N : n \notin P}
  <1> SUFFICES ASSUME missing # {} PROVE FALSE
    OBVIOUS
  <1>0. missing \in SUBSET Nat
    OBVIOUS
  <1>1. PICK m \in missing : \A n \in missing : m <= n
    <2> HIDE DEF missing
    <2> QED BY <1>0, Least
  <1>2. m - 1 \in 0 .. N - 1 /\ m - 1 \notin missing
    BY <1>1
  <1> QED BY <1>2

Steps(N, X) == [1 .. N -> [X -> X]]

Iterates(f, N, X, x, step) ==
    f \in [0 .. N -> X] /\ f[0] = x /\ \A n \in 1 .. N : f[n] = step[n][f[n - 1]]

\* What is defined step by step exists.
LEMMA Recursion ==
    ASSUME NEW N \in Nat, NEW X, NEW x \in X, NEW step \in Steps(N, X)
    PROVE  \E f : Iterates(f, N, X, x, step)
  <1> DEFINE P == {m \in Nat : \E f \in [0 .. m -> X] :
                      f[0] = x /\ \A n \in (1 .. m) \cap (1 .. N) : f[n] = step[n][f[n - 1]]}
  <1>1. 0 \in P
    <2> DEFINE f == [n \in 0 .. 0 |-> x]
    <2>1. f \in [0 .. 0 -> X] /\ f[0] = x /\ (1 .. 0) \cap (1 .. N) = {} /\ 0 \in Nat
      OBVIOUS
    <2> HIDE DEF f
    <2> QED BY <2>1
  <1>2. ASSUME NEW m \in 0 .. N - 1, m \in P PROVE m + 1 \in P
    <2>1. PICK f \in [0 .. m -> X] :
              f[0] = x /\ \A n \in (1 .. m) \cap (1 .. N) : f[n] = step[n][f[n - 1]]
      BY <1>2
    <2> DEFINE g == [n \in 0 .. m + 1 |-> IF n = m + 1 THEN step[m + 1][f[m]] ELSE f[n]]
    <2>2. step[m + 1][f[m]] \in X
      BY <1>2 DEF Steps
    <2>3. g \in [0 .. m + 1 -> X] /\ g[0] = x
      BY <2>1, <2>2
    <2>4. ASSUME NEW n \in 1 .. m + 1, n \in 1 .. N PROVE g[n] = step[n][g[n - 1]]
      <3>1. CASE n = m + 1
        <4>1. g[n] = step[m + 1][f[m]] /\ g[n - 1] = f[m]
          BY <3>1
        <4> QED BY <3>1, <4>1
      <3>2. CASE n # m + 1
        <4>1. n \in 1 .. m /\ n - 1 \in 0 .. m
          BY <3>2
        <4>2. g[n] = f[n] /\ g[n - 1] = f[n - 1]
          BY <4>1
        <4> QED BY <2>1, <2>4, <4>1, <4>2
      <3> QED BY <3>1, <3>2
    <2>5. m + 1 \in Nat
      OBVIOUS
    <2> HIDE DEF g
    <2> QED BY <2>3, <2>4, <2>5
  <1> HIDE DEF P
  <1>3. N \in P
    <2>1. 0 .. N \subseteq P
      BY <1>1, <1>2, Counting
    <2> QED BY <2>1
  <1>4. (1 .. N) \cap (1 .. N) = 1 .. N
    OBVIOUS
  <1> QED BY <1>3, <1>4 DEF P, Iterates

-----------------------------------------------------------------------------
IsKept(f, seq, S) ==
    f = [n \in 0 .. Len(seq) |->
            IF n = 0 THEN <<>>
            ELSE IF seq[n] \in S THEN Append(f[n - 1], seq[n]) ELSE f[n - 1]]

LEMMA KeptFunction ==
    ASSUME NEW T, NEW seq \in Seq(T), NEW S
    PROVE  \E f : Kept(seq, S) = f[Len(seq)] /\ IsKept(f, seq, S)
  <1> DEFINE N == Len(seq)
             step == [n \in 1 .. N |-> [s \in Seq(T) |-> IF seq[n] \in S THEN Append(s, seq[n]) ELSE s]]
             g == CHOOSE g : IsKept(g, seq, S)
  <1>1. step \in [1 .. N -> [Seq(T) -> Seq(T)]] /\ N \in Nat /\ <<>> \in Seq(T)
    OBVIOUS
  <1>2. PICK f : Iterates(f, N, Seq(T), <<>>, step)
    <2>1. step \in Steps(N, Seq(T))
      BY <1>1 DEF Steps
    <2> HIDE DEF step, N
    <2> QED BY <1>1, <2>1, Recursion
  <1>3. \A n \in 1 .. N : f[n] = IF seq[n] \in S THEN Append(f[n - 1], seq[n]) ELSE f[n - 1]
    <2>1. \A n \in 1 .. N : n - 1 \in 0 .. N
      BY <1>1
    <2> QED BY <1>2, <2>1 DEF Iterates
  <1>4. f = [n \in 0 .. N |->
                IF n = 0 THEN <<>>
                ELSE IF seq[n] \in S THEN Append(f[n - 1], seq[n]) ELSE f[n - 1]]
    <2>1. \A n \in 0 .. N : n # 0 => n \in 1 .. N
      BY <1>1
    <2> HIDE DEF step, N
    <2> QED BY <1>2, <1>3, <2>1 DEF Iterates
  <1>5. IsKept(f, seq, S)
    BY <1>4 DEF IsKept
  <1>6. IsKept(g, seq, S)
    BY <1>5
  <1>7. Kept(seq, S) = g[N]
    BY DEF Kept, IsKept
  <1> QED BY <1>6, <1>7

\* What is kept of a sequence, each element once if it is in it once.
LEMMA KeptIs ==
    ASSUME NEW T, NEW seq \in Seq(T), NEW S
    PROVE  /\ Kept(seq, S) \in Seq(T)
           /\ \A i \in DOMAIN Kept(seq, S) : \E j \in DOMAIN seq : Kept(seq, S)[i] = seq[j]
           /\ IsInjective(seq) => IsInjective(Kept(seq, S))
           /\ seq = <<>> => Kept(seq, S) = <<>>
  <1> DEFINE N == Len(seq)
  <1>1. PICK f : Kept(seq, S) = f[N] /\ IsKept(f, seq, S)
    BY KeptFunction
  <1>2. /\ f[0] = <<>>
        /\ \A n \in 1 .. N : f[n] = IF seq[n] \in S THEN Append(f[n - 1], seq[n]) ELSE f[n - 1]
    <2>1. N \in Nat /\ 0 \in 0 .. N /\ \A n \in 1 .. N : n \in 0 .. N /\ n # 0
      OBVIOUS
    <2>2. f = [n \in 0 .. N |->
                  IF n = 0 THEN <<>>
                  ELSE IF seq[n] \in S THEN Append(f[n - 1], seq[n]) ELSE f[n - 1]]
      BY <1>1 DEF IsKept
    <2> HIDE DEF N
    <2>3. \A n \in 0 .. N : f[n] = IF n = 0 THEN <<>>
                  ELSE IF seq[n] \in S THEN Append(f[n - 1], seq[n]) ELSE f[n - 1]
      BY <2>2
    <2> QED BY <2>1, <2>3
  <1> DEFINE P == {n \in 0 .. N :
                    /\ f[n] \in Seq(T)
                    /\ \A i \in 1 .. Len(f[n]) : \E j \in 1 .. n : f[n][i] = seq[j]
                    /\ IsInjective(seq) =>
                          \A i, j \in 1 .. Len(f[n]) : f[n][i] = f[n][j] => i = j}
  <1>3. 0 \in P
    <2>1. f[0] \in Seq(T) /\ Len(f[0]) = 0 /\ 1 .. 0 = {}
      BY <1>2
    <2> QED BY <2>1
  <1>4. ASSUME NEW n \in 0 .. N - 1, n \in P PROVE n + 1 \in P
    <2>0. n + 1 \in 1 .. N /\ (n + 1) - 1 = n /\ seq[n + 1] \in T /\ DOMAIN seq = 1 .. N
      OBVIOUS
    <2>1. CASE seq[n + 1] \notin S
      <3>1. f[n + 1] = f[n]
        BY <1>2, <2>0, <2>1
      <3>2. (\A j \in 1 .. n : j \in 1 .. n + 1) /\ n + 1 \in 0 .. N
        BY <2>0
      <3>3. \A i \in 1 .. Len(f[n]) : \E j \in 1 .. n + 1 : f[n][i] = seq[j]
        BY <1>4, <3>2
      <3> QED BY <1>4, <3>1, <3>2, <3>3
    <2>2. CASE seq[n + 1] \in S
      <3>1. f[n + 1] = Append(f[n], seq[n + 1])
        BY <1>2, <2>0, <2>2
      <3>2. f[n] \in Seq(T) /\ Len(f[n]) \in Nat
        BY <1>4
      <3>3. /\ f[n + 1] \in Seq(T) /\ Len(f[n + 1]) = Len(f[n]) + 1
            /\ f[n + 1][Len(f[n]) + 1] = seq[n + 1]
            /\ \A i \in 1 .. Len(f[n]) : f[n + 1][i] = f[n][i]
        BY <2>0, <3>1, <3>2
      <3>4. \A i \in 1 .. Len(f[n + 1]) : i \in 1 .. Len(f[n]) \/ i = Len(f[n]) + 1
        BY <3>2, <3>3
      <3>5. ASSUME NEW i \in 1 .. Len(f[n + 1]) PROVE \E j \in 1 .. n + 1 : f[n + 1][i] = seq[j]
        <4>1. CASE i = Len(f[n]) + 1
          BY <2>0, <3>3, <4>1
        <4>2. CASE i \in 1 .. Len(f[n])
          <5>1. PICK j \in 1 .. n : f[n][i] = seq[j]
            BY <1>4, <4>2
          <5>2. j \in 1 .. n + 1
            OBVIOUS
          <5> QED BY <3>3, <4>2, <5>1, <5>2
        <4> QED BY <3>4, <4>1, <4>2
      <3>6. ASSUME IsInjective(seq), NEW i \in 1 .. Len(f[n]) PROVE f[n][i] # seq[n + 1]
        <4>1. PICK j \in 1 .. n : f[n][i] = seq[j]
          BY <1>4
        <4>2. j \in DOMAIN seq /\ n + 1 \in DOMAIN seq /\ j # n + 1
          BY <2>0
        <4> QED BY <3>6, <4>1, <4>2 DEF IsInjective
      <3>7. ASSUME IsInjective(seq), NEW i \in 1 .. Len(f[n + 1]), NEW j \in 1 .. Len(f[n + 1]),
                   f[n + 1][i] = f[n + 1][j]
            PROVE  i = j
        <4>1. i \in 1 .. Len(f[n]) /\ j \in 1 .. Len(f[n]) => i = j
          BY <1>4, <3>3, <3>7
        <4> QED BY <3>3, <3>4, <3>6, <3>7, <4>1
      <3>8. n + 1 \in 0 .. N
        BY <2>0
      <3> QED BY <3>3, <3>5, <3>7, <3>8
    <2> QED BY <2>1, <2>2
  <1>5. N \in Nat
    OBVIOUS
  <1>6. N \in P
    <2> HIDE DEF P, N
    <2>1. 0 .. N \subseteq P
      BY <1>3, <1>4, <1>5, Counting
    <2> QED BY <1>5, <2>1
  <1>7. DOMAIN f[N] = 1 .. Len(f[N]) /\ DOMAIN seq = 1 .. N
    BY <1>6
  <1>8. seq = <<>> => f[N] = <<>>
    BY <1>2
  <1> QED BY <1>1, <1>6, <1>7, <1>8 DEF IsInjective

IsFlatten(f, seqs) ==
    f = [i \in 1 .. Len(seqs) |-> IF i = 1 THEN seqs[i] ELSE f[i - 1] \o seqs[i]]

LEMMA FlattenIs ==
    ASSUME NEW T, NEW seqs \in Seq(Seq(T))
    PROVE  FlattenSeq(seqs) \in Seq(T)
  <1> DEFINE N == Len(seqs)
             step == [n \in 1 .. N |-> [s \in Seq(T) |-> IF n = 1 THEN seqs[n] ELSE s \o seqs[n]]]
             g == CHOOSE g : IsFlatten(g, seqs)
  <1>0. N \in Nat /\ \A n \in 1 .. N : seqs[n] \in Seq(T)
    OBVIOUS
  <1>1. CASE N = 0
    <2>1. FlattenSeq(seqs) = seqs /\ seqs = <<>> /\ <<>> \in Seq(T)
      BY <1>1 DEF FlattenSeq
    <2> QED BY <2>1
  <1>2. CASE N # 0
    <2>1. step \in Steps(N, Seq(T)) /\ <<>> \in Seq(T)
      BY <1>0 DEF Steps
    <2>2. PICK f : Iterates(f, N, Seq(T), <<>>, step)
      <3> HIDE DEF step, N
      <3> QED BY <1>0, <2>1, Recursion
    <2>3. ASSUME NEW n \in 1 .. N PROVE f[n] = IF n = 1 THEN seqs[n] ELSE f[n - 1] \o seqs[n]
      <3>1. n - 1 \in 0 .. N
        BY <1>0
      <3> QED BY <2>2, <3>1 DEF Iterates
    <2> DEFINE h == [n \in 1 .. N |-> f[n]]
    <2>4. IsFlatten(h, seqs)
      <3>1. \A n \in 1 .. N : n # 1 => n - 1 \in 1 .. N
        BY <1>0
      <3>2. \A n \in 1 .. N : h[n] = IF n = 1 THEN seqs[n] ELSE h[n - 1] \o seqs[n]
        BY <2>3, <3>1
      <3>3. h = [n \in 1 .. N |-> h[n]]
        OBVIOUS
      <3> HIDE DEF h
      <3>4. h = [n \in 1 .. N |-> IF n = 1 THEN seqs[n] ELSE h[n - 1] \o seqs[n]]
        BY <3>2, <3>3
      <3> QED BY <3>4 DEF IsFlatten
    <2>5. IsFlatten(g, seqs)
      BY <2>4
    <2>6. FlattenSeq(seqs) = g[N]
      BY <1>2 DEF FlattenSeq, IsFlatten
    <2> HIDE DEF g, step
    <2>7. \A n \in 1 .. N : g[n] = IF n = 1 THEN seqs[n] ELSE g[n - 1] \o seqs[n]
      BY <2>5 DEF IsFlatten
    <2> DEFINE P == {n \in 0 .. N : n = 0 \/ g[n] \in Seq(T)}
    <2>8. 0 \in P
      BY <1>0
    <2>9. ASSUME NEW n \in 0 .. N - 1, n \in P PROVE n + 1 \in P
      <3>1. n + 1 \in 1 .. N /\ n + 1 \in 0 .. N /\ (n + 1) - 1 = n
        BY <1>0
      <3>2. CASE n = 0
        BY <1>0, <2>7, <3>1, <3>2
      <3>3. CASE n # 0
        <4>0. n + 1 # 1 /\ g[n] \in Seq(T) /\ seqs[n + 1] \in Seq(T)
          BY <1>0, <2>9, <3>1, <3>3
        <4>1. g[n + 1] = g[n] \o seqs[n + 1]
          <5>1. g[n + 1] = IF n + 1 = 1 THEN seqs[n + 1] ELSE g[(n + 1) - 1] \o seqs[n + 1]
            BY <2>7, <3>1
          <5> QED BY <3>1, <4>0, <5>1
        <4>2. g[n + 1] \in Seq(T)
          BY <4>0, <4>1
        <4> QED BY <3>1, <4>2
      <3> QED BY <3>2, <3>3
    <2>10. N \in P
      <3> HIDE DEF P, N
      <3>1. 0 .. N \subseteq P
        BY <1>0, <2>8, <2>9, Counting
      <3> QED BY <1>0, <3>1
    <2> QED BY <1>2, <2>6, <2>10
  <1> QED BY <1>1, <1>2

-----------------------------------------------------------------------------
\* What there is to expand, and what it comes to.
Values == [Var -> {None} \cup Seq(Token)]

\* A token with the values its reference may have.
Part(token, values) ==
    IF ~IsRef(token) \/ values[token.ref] = None THEN <<token>> ELSE values[token.ref]

\* One round of an expansion, of what a store has.
Round(content, cached, n, values) ==
    [v \in Var |->
        IF content[v] = None THEN None
        ELSE IF cached[v] # None THEN cached[v]
        ELSE IF n = 0 THEN content[v]
        ELSE FlattenSeq([i \in DOMAIN content[v] |-> Part(content[v][i], values)])]

IsExpansion(f, content, cached) ==
    f = [n \in 0 .. Cardinality(Var) |-> Round(content, cached, n, f[n - 1])]

Expanding(content, cached) == (CHOOSE f : IsExpansion(f, content, cached))[Cardinality(Var)]

ContentOf(s) == [v \in Var |-> Content(s, v)]

LEMMA PartIs ==
    ASSUME NEW token \in Token, NEW values \in Values
    PROVE  Part(token, values) \in Seq(Token)
  <1>1. CASE IsRef(token)
    <2>1. token.ref \in Var
      BY <1>1 DEF IsRef, Token
    <2>2. values[token.ref] \in {None} \cup Seq(Token) /\ <<token>> \in Seq(Token)
      BY <2>1 DEF Values
    <2> QED BY <2>2 DEF Part
  <1>2. CASE ~IsRef(token)
    BY <1>2 DEF Part
  <1> QED BY <1>1, <1>2

LEMMA RoundIs ==
    ASSUME NEW content \in Values, NEW cached \in Values, NEW n, NEW values, n = 0 \/ values \in Values
    PROVE  Round(content, cached, n, values) \in Values
  <1>1. ASSUME NEW v \in Var
        PROVE  Round(content, cached, n, values)[v] \in {None} \cup Seq(Token)
    <2> DEFINE parts == [i \in DOMAIN content[v] |-> Part(content[v][i], values)]
    <2>1. CASE content[v] = None \/ cached[v] # None \/ n = 0
      BY <2>1 DEF Round, Values
    <2>2. CASE ~(content[v] = None \/ cached[v] # None \/ n = 0)
      <3>1. content[v] \in Seq(Token) /\ values \in Values
        BY <2>2 DEF Values
      <3>2. /\ Len(content[v]) \in Nat /\ DOMAIN content[v] = 1 .. Len(content[v])
            /\ \A i \in DOMAIN content[v] : content[v][i] \in Token
        BY <3>1
      <3>3. \A i \in DOMAIN content[v] : Part(content[v][i], values) \in Seq(Token)
        BY <3>1, <3>2, PartIs
      <3>4. parts \in Seq(Seq(Token))
        BY <3>2, <3>3
      <3>5. FlattenSeq(parts) \in Seq(Token)
        <4> HIDE DEF parts
        <4> QED BY <3>4, FlattenIs
      <3>6. Round(content, cached, n, values)[v] = FlattenSeq(parts)
        BY <2>2 DEF Round
      <3> QED BY <3>5, <3>6
    <2> QED BY <2>1, <2>2
  <1>2. Round(content, cached, n, values) = [v \in Var |-> Round(content, cached, n, values)[v]]
    BY DEF Round
  <1> QED BY <1>1, <1>2 DEF Values

\* An expansion is made round by round, of sequences of texts and references.
LEMMA ExpandingIs ==
    ASSUME NEW content \in Values, NEW cached \in Values
    PROVE  \E g : /\ Expanding(content, cached) = g[Cardinality(Var)]
                  /\ \A n \in 0 .. Cardinality(Var) :
                        g[n] = Round(content, cached, n, g[n - 1]) /\ g[n] \in Values
  <1> DEFINE N == Cardinality(Var)
             step == [n \in 1 .. N |-> [values \in Values |-> Round(content, cached, n, values)]]
             g == CHOOSE g : IsExpansion(g, content, cached)
             first == Round(content, cached, 0, {})
  <1>0. N \in Nat
    BY ValueAssumption, FS_CardinalityType
  <1>1. first \in Values
    BY RoundIs
  <1>2. step \in Steps(N, Values)
    BY RoundIs DEF Steps
  <1>3. PICK f : Iterates(f, N, Values, first, step)
    <2> HIDE DEF step, N, first
    <2> QED BY <1>0, <1>1, <1>2, Recursion
  <1>4. ASSUME NEW n \in 0 .. N PROVE f[n] = Round(content, cached, n, f[n - 1])
    <2>1. CASE n = 0
      BY <1>3, <2>1 DEF Iterates, Round
    <2>2. CASE n # 0
      <3>1. n \in 1 .. N /\ n - 1 \in 0 .. N
        BY <1>0, <2>2
      <3>2. f[n - 1] \in Values /\ f[n] = step[n][f[n - 1]]
        BY <1>3, <3>1 DEF Iterates
      <3> QED BY <3>1, <3>2
    <2> QED BY <2>1, <2>2
  <1>5. IsExpansion(f, content, cached)
    <2>1. f = [n \in 0 .. N |-> f[n]]
      BY <1>3 DEF Iterates
    <2>2. f = [n \in 0 .. N |-> Round(content, cached, n, f[n - 1])]
      BY <1>4, <2>1
    <2> QED BY <2>2 DEF IsExpansion
  <1>6. IsExpansion(g, content, cached)
    BY <1>5
  <1>7. Expanding(content, cached) = g[N]
    BY DEF Expanding
  <1> HIDE DEF g, step, first
  <1>8. \A n \in 0 .. N : g[n] = Round(content, cached, n, g[n - 1])
    BY <1>6 DEF IsExpansion
  <1> DEFINE P == {n \in 0 .. N : g[n] \in Values}
  <1> HIDE DEF N
  <1>9. 0 \in P
    <2>1. 0 \in 0 .. N
      BY <1>0
    <2>2. g[0] = Round(content, cached, 0, g[0 - 1])
      BY <1>8, <2>1
    <2>3. Round(content, cached, 0, g[0 - 1]) \in Values
      BY RoundIs
    <2> QED BY <2>1, <2>2, <2>3
  <1>10. ASSUME NEW n \in 0 .. N - 1, n \in P PROVE n + 1 \in P
    <2>1. n + 1 \in 0 .. N /\ (n + 1) - 1 = n
      BY <1>0
    <2>2. Round(content, cached, n + 1, g[n]) \in Values
      BY <1>10, RoundIs
    <2>3. g[n + 1] = Round(content, cached, n + 1, g[(n + 1) - 1])
      BY <1>8, <2>1
    <2> QED BY <2>1, <2>2, <2>3
  <1>11. 0 .. N \subseteq P
    <2> HIDE DEF P
    <2> QED BY <1>0, <1>9, <1>10, Counting
  <1>12. \A n \in 0 .. N : g[n] \in Values
    BY <1>11
  <1> HIDE DEF P
  <1> QED BY <1>7, <1>8, <1>12 DEF N

LEMMA ExpansionsOf == \A s, cached : Expansions(s, cached) = Expanding(ContentOf(s), cached)
  <1> DEFINE IsOf(g, s, cached) ==
                 g = [n \in 0 .. Cardinality(Var) |->
                         [v \in Var |->
                             IF Content(s, v) = None THEN None
                             ELSE IF cached[v] # None THEN cached[v]
                             ELSE IF n = 0 THEN Content(s, v)
                             ELSE FlattenSeq([i \in DOMAIN Content(s, v) |-> Part(Content(s, v)[i], g[n - 1])])]]
  <1>1. ASSUME NEW s, NEW cached PROVE Expansions(s, cached) = (CHOOSE g : IsOf(g, s, cached))[Cardinality(Var)]
    BY DEF Expansions, Part
  <1>2. ASSUME NEW s, NEW cached PROVE \A g : IsOf(g, s, cached) <=> IsExpansion(g, ContentOf(s), cached)
    BY DEF IsExpansion, Round, ContentOf
  <1> HIDE DEF IsOf
  <1> QED BY <1>1, <1>2 DEF Expanding

-----------------------------------------------------------------------------
(* Overrides that are applied one after the other. *)

\* Variables that are filed under the override in their name.
Filings ==
    {files \in [Override -> SUBSET Var] : \A o \in Override : \A v \in files[o] : Len(v) > 1 /\ Last(v) = o}

\* The contents there are to choose from.
Contents(s) == {Content(s, v) : v \in Var}

Partial(s) == [content : [Var -> Contents(s)], seen : Filings, set : SUBSET Var]

\* The variable a name with an override overrides.
LEMMA Overridden ==
    ASSUME NEW v \in Var, Len(v) > 1
    PROVE  Front(v) \in Var /\ Last(v) \in Override /\ Append(Front(v), Last(v)) = v
  <1>1. v \in Seq(STRING) /\ Len(v) \in Nat
    BY ValueAssumption
  <1>2. /\ Front(v) \in Seq(STRING) /\ Len(Front(v)) = Len(v) - 1
        /\ \A i \in 1 .. Len(v) - 1 : Front(v)[i] = v[i]
    BY <1>1 DEF Front
  <1>3. Last(v) = v[Len(v)] /\ v[Len(v)] \in STRING
    BY <1>1 DEF Last
  <1>4. /\ Append(Front(v), Last(v)) \in Seq(STRING) /\ Len(Append(Front(v), Last(v))) = Len(v)
        /\ Append(Front(v), Last(v))[Len(v)] = v[Len(v)]
        /\ \A i \in 1 .. Len(v) - 1 : Append(Front(v), Last(v))[i] = v[i]
    BY <1>1, <1>2, <1>3
  <1>5. \A i \in 1 .. Len(v) : Append(Front(v), Last(v))[i] = v[i]
    <2>1. \A i \in 1 .. Len(v) : i \in 1 .. Len(v) - 1 \/ i = Len(v)
      BY <1>1
    <2> QED BY <1>4, <2>1
  <1>6. Append(Front(v), Last(v)) = v
    BY <1>1, <1>4, <1>5, SeqEqual
  <1> QED BY <1>6, DataAssumption

\* And a name with an override, from the variable.
LEMMA Extension ==
    ASSUME NEW v \in Var, NEW o, Append(v, o) \in Var
    PROVE  /\ Len(v) \in Nat \ {0} /\ Len(Append(v, o)) = Len(v) + 1
           /\ Front(Append(v, o)) = v /\ Last(Append(v, o)) = o /\ o \in Override
           /\ SubSeq(Append(v, o), 1, Len(v)) = v
  <1> DEFINE T == STRING \cup {o}
             u == Append(v, o)
  <1>1. v \in Seq(STRING) /\ v # <<>> /\ STRING \subseteq T
    BY ValueAssumption, DataAssumption
  <1>2. v \in Seq(T) /\ o \in T
    BY <1>1, SeqMonotonic
  <1>3. Len(v) \in Nat \ {0}
    BY <1>1
  <1> HIDE DEF T
  <1>4. /\ u \in Seq(T) /\ Len(u) = Len(v) + 1 /\ u[Len(v) + 1] = o
        /\ \A i \in 1 .. Len(v) : u[i] = v[i]
    BY <1>2, <1>3
  <1>5. Last(u) = o
    BY <1>4 DEF Last
  <1>6. SubSeq(u, 1, Len(v)) = v
    <2>1. /\ SubSeq(u, 1, Len(v)) \in Seq(T) /\ Len(SubSeq(u, 1, Len(v))) = Len(v)
          /\ \A i \in 1 .. Len(v) : SubSeq(u, 1, Len(v))[i] = v[i]
      <3> HIDE DEF u
      <3>1. \A i \in 1 .. Len(v) : u[i] \in T
        BY <1>3, <1>4
      <3>2. /\ SubSeq(u, 1, Len(v)) \in Seq(T) /\ Len(SubSeq(u, 1, Len(v))) = Len(v)
            /\ \A i \in 1 .. Len(v) : SubSeq(u, 1, Len(v))[i] = u[i]
        BY <1>3, <1>4, <3>1
      <3> QED BY <1>4, <3>2
    <2> HIDE DEF u
    <2> QED BY <1>2, <2>1, SeqEqual
  <1>7. Front(u) = v
    BY <1>3, <1>4, <1>6 DEF Front
  <1>8. Last(u) \in Override
    <2>1. Len(u) > 1
      BY <1>3, <1>4
    <2> QED BY <2>1, DataAssumption
  <1> QED BY <1>3, <1>4, <1>5, <1>6, <1>7, <1>8

\* What one override applies to.
Names(before, o) == IF o \in Override THEN {Front(v) : v \in before.seen[o]} ELSE {}

LEMMA NamesAre ==
    ASSUME NEW s, NEW before \in Partial(s), NEW o
    PROVE  /\ Names(before, o) \subseteq Var
           /\ \A v \in Names(before, o) : Append(v, o) \in Var /\ o \in Override /\ Append(v, o) \in before.seen[o]
           /\ \A v \in Var : o \in Override /\ Append(v, o) \in before.seen[o] => v \in Names(before, o)
  <1>1. before.seen \in Filings
    BY DEF Partial
  <1>2. ASSUME NEW v \in Names(before, o)
        PROVE  v \in Var /\ Append(v, o) \in Var /\ o \in Override /\ Append(v, o) \in before.seen[o]
    <2>1. PICK u \in before.seen[o] : v = Front(u) /\ o \in Override
      BY <1>2 DEF Names
    <2>2. u \in Var /\ Len(u) > 1 /\ Last(u) = o
      BY <1>1, <2>1 DEF Filings
    <2> QED BY <2>1, <2>2, Overridden
  <1>3. ASSUME NEW v \in Var, o \in Override, Append(v, o) \in before.seen[o]
        PROVE  v \in Names(before, o)
    <2>1. Append(v, o) \in Var
      BY <1>1, <1>3 DEF Filings
    <2>2. Front(Append(v, o)) = v
      BY <2>1, Extension
    <2> QED BY <1>3, <2>2 DEF Names
  <1> QED BY <1>2, <1>3

LEMMA ApplyIs ==
    ASSUME NEW s, NEW before \in Partial(s), NEW o
    PROVE  ApplyOverride(before, o) \in Partial(s)
  <1> DEFINE names == Names(before, o)
             content == [v \in Var |-> IF v \in names THEN before.content[Append(v, o)]
                                       ELSE before.content[v]]
             files == [q \in Override |-> before.seen[q] \cup {v \in names : Len(v) > 1 /\ Last(v) = q}]
  <1>0. /\ before.content \in [Var -> Contents(s)] /\ before.seen \in Filings
        /\ before.set \in SUBSET Var
    BY DEF Partial
  <1>1. ApplyOverride(before, o) = [content |-> content, seen |-> files, set |-> before.set \cup names]
    BY DEF ApplyOverride, Names
  <1>2. names \subseteq Var /\ \A v \in names : Append(v, o) \in Var
    BY NamesAre
  <1> HIDE DEF names
  <1>3. content \in [Var -> Contents(s)]
    BY <1>0, <1>2
  <1>4. files \in Filings
    <2>1. files \in [Override -> SUBSET Var]
      BY <1>0, <1>2 DEF Filings
    <2>2. ASSUME NEW q \in Override, NEW v \in files[q] PROVE Len(v) > 1 /\ Last(v) = q
      BY <1>0, <2>2 DEF Filings
    <2> QED BY <2>1, <2>2 DEF Filings
  <1> QED BY <1>0, <1>1, <1>2, <1>3, <1>4 DEF Partial

IsLoop(f, s, overrides) ==
    f = [i \in 0 .. Len(overrides) |->
            IF i = 0 THEN Unapplied(s) ELSE ApplyOverride(f[i - 1], overrides[i])]

\* The loop of update_data over the overrides, as one function.
LEMMA LoopIs ==
    ASSUME NEW s, Unapplied(s) \in Partial(s), NEW overrides, Len(overrides) \in Nat
    PROVE  \E f : /\ OverridesApplied(s, overrides) = f[Len(overrides)]
                  /\ f[0] = Unapplied(s)
                  /\ \A i \in 1 .. Len(overrides) : f[i] = ApplyOverride(f[i - 1], overrides[i])
                  /\ \A i \in 0 .. Len(overrides) : f[i] \in Partial(s)
  <1> DEFINE N == Len(overrides)
             step == [n \in 1 .. N |-> [before \in Partial(s) |-> ApplyOverride(before, overrides[n])]]
             g == CHOOSE g : IsLoop(g, s, overrides)
  <1>1. step \in Steps(N, Partial(s))
    BY ApplyIs DEF Steps
  <1>2. PICK f : Iterates(f, N, Partial(s), Unapplied(s), step)
    <2> HIDE DEF step, N
    <2> QED BY <1>1, Recursion DEF N
  <1>3. ASSUME NEW n \in 1 .. N PROVE f[n] = ApplyOverride(f[n - 1], overrides[n])
    <2>1. n - 1 \in 0 .. N
      OBVIOUS
    <2>2. f[n - 1] \in Partial(s) /\ f[n] = step[n][f[n - 1]]
      BY <1>2, <2>1 DEF Iterates
    <2> QED BY <2>2
  <1>4. IsLoop(f, s, overrides)
    <2>1. f = [n \in 0 .. N |-> f[n]] /\ f[0] = Unapplied(s)
      BY <1>2 DEF Iterates
    <2>2. \A n \in 0 .. N : n # 0 => n \in 1 .. N
      OBVIOUS
    <2>3. f = [n \in 0 .. N |-> IF n = 0 THEN Unapplied(s) ELSE ApplyOverride(f[n - 1], overrides[n])]
      BY <1>3, <2>1, <2>2
    <2> QED BY <2>3 DEF IsLoop
  <1>5. IsLoop(g, s, overrides)
    BY <1>4
  <1>6. OverridesApplied(s, overrides) = g[N]
    BY DEF OverridesApplied, IsLoop
  <1> HIDE DEF g, step
  <1>7. g[0] = Unapplied(s) /\ \A n \in 1 .. N : g[n] = ApplyOverride(g[n - 1], overrides[n])
    <2>1. \A n \in 0 .. N : g[n] = IF n = 0 THEN Unapplied(s) ELSE ApplyOverride(g[n - 1], overrides[n])
      BY <1>5 DEF IsLoop
    <2>2. 0 \in 0 .. N /\ \A n \in 1 .. N : n \in 0 .. N /\ n # 0
      OBVIOUS
    <2> QED BY <2>1, <2>2
  <1> DEFINE P == {n \in 0 .. N : g[n] \in Partial(s)}
  <1>8. 0 \in P
    BY <1>7
  <1>9. ASSUME NEW n \in 0 .. N - 1, n \in P PROVE n + 1 \in P
    <2>1. n + 1 \in 1 .. N /\ n + 1 \in 0 .. N /\ (n + 1) - 1 = n
      OBVIOUS
    <2>2. g[n + 1] = ApplyOverride(g[n], overrides[n + 1])
      BY <1>7, <2>1
    <2> QED BY <1>9, <2>1, <2>2, ApplyIs
  <1>10. 0 .. N \subseteq P
    <2> HIDE DEF P
    <2> QED BY <1>8, <1>9, Counting
  <1> QED BY <1>6, <1>7, <1>10

-----------------------------------------------------------------------------
(***************************************************************************)
(* The values in the stores.                                               *)
(***************************************************************************)

\* An entry of a dictionary.
IsEntry(e) ==
    /\ DOMAIN e = DOMAIN Nothing
    /\ e["content"] \in {None} \cup Seq(Token)
    /\ \A k \in Keyword : e[k] \in Seq(Pending)

ValueInv ==
    /\ \A s \in Store, v \in Var : dict[s][v] = None \/ IsEntry(dict[s][v])
    /\ expand_cache \in [Store -> Values]
    /\ \A s \in Store : s > stores => expand_cache[s] = Empty
    /\ \A s \in Store, o \in Override :
          seen[s][o] = None \/ \A v \in seen[s][o] : Len(v) > 1 /\ Last(v) = o
    /\ used \subseteq Appends /\ ops \in 0 .. MaxOps

LEMMA NothingIs == IsEntry(Nothing)
  BY DEF IsEntry, Nothing, Keyword

LEMMA FoundIs ==
    ASSUME Shape, ValueInv, NEW s \in 1 .. stores, NEW v \in Var
    PROVE  IsEntry(Found(s, v)) /\ Content(s, v) \in {None} \cup Seq(Token)
  <1> DEFINE having == {t \in above[s] : dict[t][v] # None}
  <1>1. having \subseteq Store
    BY DataAssumption DEF Shape, Store
  <1>2. having # {} => Max(having) \in having
    BY <1>1, Greatest
  <1> HIDE DEF having
  <1>3. having # {} => IsEntry(dict[Max(having)][v])
    BY <1>1, <1>2 DEF having, ValueInv
  <1>4. IsEntry(Found(s, v))
    BY <1>3, NothingIs DEF Found, having
  <1> QED BY <1>4 DEF Content, IsEntry

LEMMA SeenIs ==
    ASSUME Shape, TablesInv, ValueInv, NEW s \in 1 .. stores
    PROVE  [o \in Override |-> Members(seen, s, o)] \in Filings
  <1>1. ASSUME NEW o \in Override
        PROVE  /\ Members(seen, s, o) \in SUBSET Var
               /\ \A v \in Members(seen, s, o) : Len(v) > 1 /\ Last(v) = o
    <2> DEFINE having == {t \in above[s] : seen[t][o] # None}
    <2>1. having \subseteq Store
      BY DataAssumption DEF Shape, Store
    <2>2. having # {} => Max(having) \in having
      BY <2>1, Greatest
    <2> HIDE DEF having
    <2>3. having # {} => \A v \in seen[Max(having)][o] : Len(v) > 1 /\ Last(v) = o
      BY <2>1, <2>2 DEF having, ValueInv
    <2>4. Members(seen, s, o) = IF having = {} THEN {} ELSE seen[Max(having)][o]
      BY DEF Members, having
    <2>5. Members(seen, s, o) \in SUBSET Var
      BY MembersNames DEF TablesInv
    <2> QED BY <2>3, <2>4, <2>5
  <1> QED BY <1>1 DEF Filings

\* The values a store expands to.
LEMMA StoreExpands ==
    ASSUME Shape, ValueInv, NEW s \in 1 .. stores
    PROVE  /\ Expansions(s, expand_cache[s]) \in Values
           /\ \A names : CacheWith(s, names) \in Values
  <1>1. s \in Store
    BY DataAssumption DEF Shape, Store
  <1>2. expand_cache[s] \in Values
    BY <1>1 DEF ValueInv
  <1>3. Expansions(s, expand_cache[s]) \in Values
    <2>1. ContentOf(s) \in Values
      BY FoundIs DEF ContentOf, Values
    <2>2. Cardinality(Var) \in 0 .. Cardinality(Var)
      BY ValueAssumption, FS_CardinalityType
    <2> QED BY <1>2, <2>1, <2>2, ExpandingIs, ExpansionsOf
  <1>4. ASSUME NEW names PROVE CacheWith(s, names) \in Values
    BY <1>2, <1>3 DEF CacheWith, Values
  <1> QED BY <1>3, <1>4

\* OVERRIDES is a list.
LEMMA OverridesAre ==
    ASSUME Shape, ValueInv, NEW s \in 1 .. stores
    PROVE  Len(Overrides(s)) \in Nat /\ DOMAIN Overrides(s) = 1 .. Len(Overrides(s))
  <1> DEFINE value == Expansions(s, expand_cache[s])[OVERRIDES]
             texts == IF value = None THEN <<>> ELSE Kept(value, {t \in ToSet(value) : ~IsRef(t)})
             T == {texts[i].text : i \in DOMAIN texts}
  <1>1. value \in {None} \cup Seq(Token)
    BY StoreExpands, DataAssumption DEF Values
  <1> HIDE DEF value
  <1>2. texts \in Seq(Token)
    <2>1. <<>> \in Seq(Token)
      OBVIOUS
    <2>2. value # None => Kept(value, {t \in ToSet(value) : ~IsRef(t)}) \in Seq(Token)
      BY <1>1, KeptIs
    <2> QED BY <2>1, <2>2
  <1>3. Overrides(s) = [i \in DOMAIN texts |-> texts[i].text]
    BY DEF Overrides, value
  <1> HIDE DEF texts
  <1>4. Overrides(s) \in Seq(T)
    BY <1>2, <1>3
  <1> HIDE DEF T
  <1> QED BY <1>4

LEMMA UnappliedIs ==
    ASSUME Shape, TablesInv, ValueInv, NEW s \in 1 .. stores
    PROVE  Unapplied(s) \in Partial(s)
  BY SeenIs DEF Unapplied, Partial, Contents

LEMMA AppliedIs ==
    ASSUME Shape, TablesInv, ValueInv, NEW s \in 1 .. stores
    PROVE  OverridesApplied(s, Overrides(s)) \in Partial(s)
  <1>1. Len(Overrides(s)) \in Nat
    BY OverridesAre
  <1>2. PICK f : /\ OverridesApplied(s, Overrides(s)) = f[Len(Overrides(s))]
                 /\ \A i \in 0 .. Len(Overrides(s)) : f[i] \in Partial(s)
    BY <1>1, UnappliedIs, LoopIs
  <1>3. Len(Overrides(s)) \in 0 .. Len(Overrides(s))
    BY <1>1
  <1> QED BY <1>2, <1>3

-----------------------------------------------------------------------------
LEMMA ReverseIs ==
    ASSUME NEW T, NEW seq \in Seq(T)
    PROVE  /\ Reverse(seq) \in Seq(T) /\ Len(Reverse(seq)) = Len(seq)
           /\ \A i \in 1 .. Len(seq) : Reverse(seq)[i] = seq[(Len(seq) - i) + 1]
  <1>1. Len(seq) \in Nat /\ \A i \in 1 .. Len(seq) : (Len(seq) - i) + 1 \in 1 .. Len(seq)
    OBVIOUS
  <1>2. \A i \in 1 .. Len(seq) : seq[(Len(seq) - i) + 1] \in T
    BY <1>1
  <1> QED BY <1>1, <1>2 DEF Reverse

LEMMA TextsAre ==
    ASSUME NEW list \in Seq(Pending)
    PROVE  /\ Texts(list) \in Seq(Token) /\ Len(Texts(list)) = Len(list)
           /\ \A i \in 1 .. Len(list) : Texts(list)[i] = [text |-> list[i].text]
  <1>1. DOMAIN list = 1 .. Len(list) /\ Len(list) \in Nat
    OBVIOUS
  <1>2. ASSUME NEW i \in 1 .. Len(list) PROVE [text |-> list[i].text] \in Token
    <2>1. list[i] \in Pending
      OBVIOUS
    <2>2. list[i].text \in STRING
      BY <2>1 DEF Pending
    <2> QED BY <2>2 DEF Token
  <1> QED BY <1>1, <1>2 DEF Texts

LEMMA AppliesAre ==
    ASSUME NEW list \in Seq(Pending), NEW overrides
    PROVE  /\ Applies(list, overrides) \in Seq(Pending)
           /\ \A i \in DOMAIN Applies(list, overrides) :
                 \E j \in DOMAIN list : Applies(list, overrides)[i] = list[j]
           /\ IsInjective(list) => IsInjective(Applies(list, overrides))
           /\ list = <<>> => Applies(list, overrides) = <<>>
  BY KeptIs DEF Applies

\* What is added to a variable at its front and its end.
Added(s, v, overrides, k) ==
    IF v \in Members(special, s, k) THEN Texts(Applies(Found(s, v)[k], overrides)) ELSE <<>>

Sum(front, content, end) == Reverse(front) \o (IF content = None THEN <<>> ELSE content) \o end

LEMMA ExtendedIs ==
    ASSUME NEW s, NEW v, NEW overrides, NEW content
    PROVE  Extended(s, v, content, overrides) =
               IF \A k \in Keyword : Added(s, v, overrides, k) = <<>> THEN content
               ELSE Sum(Added(s, v, overrides, "_prepend"), content, Added(s, v, overrides, "_append"))
  BY DEF Extended, Added, Sum

LEMMA ExtendedType ==
    ASSUME NEW s, NEW v, IsEntry(Found(s, v)), NEW overrides, NEW content \in {None} \cup Seq(Token)
    PROVE  /\ \A k \in Keyword : Added(s, v, overrides, k) \in Seq(Token)
           /\ Sum(Added(s, v, overrides, "_prepend"), content, Added(s, v, overrides, "_append")) \in Seq(Token)
           /\ Extended(s, v, content, overrides) \in {None} \cup Seq(Token)
  <1>1. ASSUME NEW k \in Keyword PROVE Added(s, v, overrides, k) \in Seq(Token)
    <2>1. Found(s, v)[k] \in Seq(Pending)
      BY DEF IsEntry
    <2>2. Texts(Applies(Found(s, v)[k], overrides)) \in Seq(Token)
      BY <2>1, AppliesAre, TextsAre
    <2> QED BY <2>2 DEF Added
  <1>2. /\ Reverse(Added(s, v, overrides, "_prepend")) \in Seq(Token)
        /\ Added(s, v, overrides, "_append") \in Seq(Token)
    BY <1>1, ReverseIs DEF Keyword
  <1>3. (IF content = None THEN <<>> ELSE content) \in Seq(Token)
    OBVIOUS
  <1>4. Sum(Added(s, v, overrides, "_prepend"), content, Added(s, v, overrides, "_append")) \in Seq(Token)
    BY <1>2, <1>3 DEF Sum
  <1> QED BY <1>1, <1>4, ExtendedIs

\* Keeps what ValueInv says of the stores a step does not concern.
LEMMA ValueElsewhere ==
    ASSUME ValueInv, NEW w \in Store, Local(w),
           \A v \in Var : dict'[w][v] = None \/ dict'[w][v] = dict[w][v] \/ IsEntry(dict'[w][v]),
           expand_cache' \in [Store -> Values],
           \A o \in Override : \/ seen'[w][o] = None \/ seen'[w][o] = seen[w][o]
                               \/ \A v \in seen'[w][o] : Len(v) > 1 /\ Last(v) = o,
           \A s \in Store : s > stores' => expand_cache'[s] = Empty,
           used' \subseteq Appends, ops' \in 0 .. MaxOps
    PROVE  ValueInv'
  <1>1. ASSUME NEW s \in Store, NEW v \in Var PROVE dict'[s][v] = None \/ IsEntry(dict'[s][v])
    BY DEF ValueInv, Local
  <1>2. ASSUME NEW s \in Store, NEW o \in Override
        PROVE  seen'[s][o] = None \/ \A v \in seen'[s][o] : Len(v) > 1 /\ Last(v) = o
    BY DEF ValueInv, Local
  <1>3. \A e : IsEntry(e)' <=> IsEntry(e)
    BY DEF IsEntry
  <1> QED BY <1>1, <1>2 DEF ValueInv, IsEntry

\* setVar files a name under the override in it.
LEMMA SeenStaysFiled ==
    ASSUME Shape, TablesInv, ValueInv, NEW w \in 1 .. stores, NEW v \in Var, NEW o \in Override
    PROVE  \/ Seen(seen, w, v)[w][o] = None \/ Seen(seen, w, v)[w][o] = seen[w][o]
           \/ \A u \in Seen(seen, w, v)[w][o] : Len(u) > 1 /\ Last(u) = o
  <1>0. w \in Store /\ DOMAIN seen = Store /\ DOMAIN seen[w] = Override
    BY DataAssumption DEF Shape, Store, TablesInv
  <1>1. CASE Len(v) = 1
    BY <1>1 DEF Seen
  <1>2. CASE Len(v) # 1
    <2>1. Len(v) > 1
      <3>1. v \in Seq(STRING) /\ v # <<>>
        BY ValueAssumption, DataAssumption
      <3>2. Len(v) \in Nat /\ Len(v) # 0
        BY <3>1
      <3>3. \A n \in Nat : n # 0 /\ n # 1 => n > 1
        OBVIOUS
      <3> QED BY <1>2, <3>2, <3>3
    <2>2. Last(v) \in Override
      BY <2>1, DataAssumption
    <2>3. CASE o = Last(v)
      <3>1. Seen(seen, w, v)[w][o] = Members(seen, w, o) \cup {v}
        BY <1>0, <1>2, <2>2, <2>3 DEF Seen
      <3>2. \A u \in Members(seen, w, o) : Len(u) > 1 /\ Last(u) = o
        BY SeenIs DEF Filings
      <3> QED BY <2>1, <2>3, <3>1, <3>2
    <2>4. CASE o # Last(v)
      <3>1. Seen(seen, w, v)[w][o] = seen[w][o]
        BY <1>0, <1>2, <2>4 DEF Seen
      <3> QED BY <3>1
    <2> QED BY <2>3, <2>4
  <1> QED BY <1>1, <1>2

LEMMA OperationCounts ==
    ASSUME ValueInv, NEW op, NEW w, Operation(op, w)
    PROVE  ops' \in 0 .. MaxOps
  BY DataAssumption DEF ValueInv, Operation

\* The cache of one store changes.
LEMMA CacheWritten ==
    ASSUME Shape, ValueInv, NEW w \in 1 .. stores, stores' = stores, NEW cache \in Values,
           expand_cache' = [expand_cache EXCEPT ![w] = cache]
    PROVE  /\ expand_cache' \in [Store -> Values]
           /\ \A s \in Store : s > stores' => expand_cache'[s] = Empty
  <1>1. \A s \in Store : s > stores => s # w
    BY DataAssumption DEF Shape, Store
  <1> QED BY <1>1 DEF ValueInv

LEMMA EmptyIs == Empty \in Values
  BY DEF Empty, Values

LEMMA SetVarTyped ==
    ASSUME Shape, TablesInv, ValueInv, NEW w \in Store, NEW v \in Var, NEW value \in Seq(Token),
           SetVar(w, v, value), Local(w)
    PROVE  ValueInv'
  <1> DEFINE entry == [Found(w, v) EXCEPT !["content"] = value]
  <1>0. /\ w \in 1 .. stores /\ stores' = stores /\ used' = used
        /\ Operation("setVar", w) /\ seen' = Seen(seen, w, v)
        /\ dict' = [dict EXCEPT ![w][v] = entry]
        /\ expand_cache' = [expand_cache EXCEPT ![w] = Empty]
    BY DEF SetVar, Operation, Shape, Store
  <1>1. IsEntry(entry)
    <2>1. IsEntry(Found(w, v))
      BY <1>0, FoundIs
    <2> QED BY <2>1 DEF IsEntry, Nothing, Keyword
  <1> HIDE DEF entry
  <1>2. \A u \in Var : dict'[w][u] = dict[w][u] \/ IsEntry(dict'[w][u])
    BY <1>0, <1>1 DEF Shape, TablesInv
  <1>3. \A o \in Override : \/ seen'[w][o] = None \/ seen'[w][o] = seen[w][o]
                            \/ \A u \in seen'[w][o] : Len(u) > 1 /\ Last(u) = o
    BY <1>0, SeenStaysFiled
  <1>4. /\ expand_cache' \in [Store -> Values]
        /\ \A s \in Store : s > stores' => expand_cache'[s] = Empty
    BY <1>0, EmptyIs, CacheWritten
  <1>5. ops' \in 0 .. MaxOps /\ used' \subseteq Appends
    BY <1>0, OperationCounts DEF ValueInv
  <1> QED BY <1>2, <1>3, <1>4, <1>5, ValueElsewhere

LEMMA SetVarKeywordTyped ==
    ASSUME Shape, TablesInv, ValueInv, NEW w \in Store, NEW a \in Appends,
           SetVarKeyword(w, a[1], a[2], a[3], a[4]), Local(w)
    PROVE  ValueInv'
  <1> DEFINE entry == [Found(w, a[1]) EXCEPT ![a[2]] = Append(@, [text |-> a[4], override |-> a[3]])]
  <1>0. /\ w \in 1 .. stores /\ stores' = stores /\ used' = used \cup {<<a[1], a[2], a[3], a[4]>>}
        /\ Operation("setVarKeyword", w) /\ seen' = seen
        /\ dict' = [dict EXCEPT ![w][a[1]] = entry]
        /\ expand_cache' = [expand_cache EXCEPT ![w] = Empty]
    BY DEF SetVarKeyword, Operation, Shape, Store
  <1>a. /\ a[1] \in Var /\ a[2] \in Keyword /\ [text |-> a[4], override |-> a[3]] \in Pending
        /\ a = <<a[1], a[2], a[3], a[4]>>
    BY DataAssumption DEF Pending
  <1>1. IsEntry(entry)
    <2>1. IsEntry(Found(w, a[1]))
      BY <1>0, <1>a, FoundIs
    <2>2. Append(Found(w, a[1])[a[2]], [text |-> a[4], override |-> a[3]]) \in Seq(Pending)
      BY <1>a, <2>1 DEF IsEntry
    <2> QED BY <1>a, <2>1, <2>2 DEF IsEntry, Nothing, Keyword
  <1> HIDE DEF entry
  <1>2. \A u \in Var : dict'[w][u] = dict[w][u] \/ IsEntry(dict'[w][u])
    BY <1>0, <1>1 DEF Shape, TablesInv
  <1>4. /\ expand_cache' \in [Store -> Values]
        /\ \A s \in Store : s > stores' => expand_cache'[s] = Empty
    BY <1>0, EmptyIs, CacheWritten
  <1>5. ops' \in 0 .. MaxOps /\ used' \subseteq Appends
    BY <1>0, <1>a, OperationCounts DEF ValueInv
  <1> QED BY <1>0, <1>2, <1>4, <1>5, ValueElsewhere

LEMMA DelVarTyped ==
    ASSUME Shape, TablesInv, ValueInv, NEW w \in Store, NEW v \in Var, DelVar(w, v), Local(w)
    PROVE  ValueInv'
  <1>0. /\ w \in 1 .. stores /\ stores' = stores /\ used' = used
        /\ Operation("delVar", w) /\ seen' = seen
        /\ dict' = [dict EXCEPT ![w][v] = Nothing]
        /\ expand_cache' = [expand_cache EXCEPT ![w] = Empty]
    BY DEF DelVar, Operation, Shape, Store
  <1>2. \A u \in Var : dict'[w][u] = dict[w][u] \/ IsEntry(dict'[w][u])
    BY <1>0, NothingIs DEF Shape, TablesInv
  <1>4. /\ expand_cache' \in [Store -> Values]
        /\ \A s \in Store : s > stores' => expand_cache'[s] = Empty
    BY <1>0, EmptyIs, CacheWritten
  <1>5. ops' \in 0 .. MaxOps /\ used' \subseteq Appends
    BY <1>0, OperationCounts DEF ValueInv
  <1> QED BY <1>0, <1>2, <1>4, <1>5, ValueElsewhere

LEMMA RenameVarTyped ==
    ASSUME Shape, TablesInv, ValueInv, NEW w \in Store, NEW key \in Var, NEW newkey \in Var,
           key # newkey, RenameVar(w, key, newkey), Local(w)
    PROVE  ValueInv'
  <1> DEFINE entry == [f \in DOMAIN Nothing |->
                 IF f = "content" THEN Content(w, key) ELSE Found(w, newkey)[f] \o Found(w, key)[f]]
  <1>0. /\ w \in 1 .. stores /\ stores' = stores /\ used' = used
        /\ Operation("renameVar", w) /\ seen' = Seen(seen, w, newkey)
        /\ dict' = [dict EXCEPT ![w][newkey] = entry, ![w][key] = Nothing]
        /\ expand_cache' = [expand_cache EXCEPT ![w] = Empty]
    BY DEF RenameVar, Operation, Shape, Store
  <1>1. IsEntry(entry)
    <2>1. IsEntry(Found(w, key)) /\ IsEntry(Found(w, newkey)) /\ Content(w, key) \in {None} \cup Seq(Token)
      BY <1>0, FoundIs
    <2>2. \A k \in Keyword : Found(w, newkey)[k] \o Found(w, key)[k] \in Seq(Pending)
      BY <2>1 DEF IsEntry
    <2>3. DOMAIN entry = DOMAIN Nothing /\ entry["content"] = Content(w, key)
      BY DEF Nothing
    <2>4. \A k \in Keyword : entry[k] = Found(w, newkey)[k] \o Found(w, key)[k]
      BY DEF Nothing, Keyword
    <2> HIDE DEF entry
    <2> QED BY <2>1, <2>2, <2>3, <2>4 DEF IsEntry
  <1> HIDE DEF entry
  <1>2. \A u \in Var : dict'[w][u] = dict[w][u] \/ IsEntry(dict'[w][u])
    BY <1>0, <1>1, NothingIs DEF Shape, TablesInv
  <1>3. \A o \in Override : \/ seen'[w][o] = None \/ seen'[w][o] = seen[w][o]
                            \/ \A u \in seen'[w][o] : Len(u) > 1 /\ Last(u) = o
    BY <1>0, SeenStaysFiled
  <1>4. /\ expand_cache' \in [Store -> Values]
        /\ \A s \in Store : s > stores' => expand_cache'[s] = Empty
    BY <1>0, EmptyIs, CacheWritten
  <1>5. ops' \in 0 .. MaxOps /\ used' \subseteq Appends
    BY <1>0, OperationCounts DEF ValueInv
  <1> QED BY <1>2, <1>3, <1>4, <1>5, ValueElsewhere

LEMMA CreateCopyTyped ==
    ASSUME Shape, TablesInv, ValueInv, NEW w \in Store, CreateCopy(w), Local(w)
    PROVE  ValueInv'
  <1>0. /\ stores' = stores + 1 /\ used' = used /\ Operation("createCopy", w)
        /\ dict' = dict /\ seen' = seen /\ expand_cache' = expand_cache
    BY DEF CreateCopy
  <1>1. \A s \in Store : s > stores + 1 => s > stores
    BY DataAssumption DEF Shape, Store
  <1>4. /\ expand_cache' \in [Store -> Values]
        /\ \A s \in Store : s > stores' => expand_cache'[s] = Empty
    BY <1>0, <1>1 DEF ValueInv
  <1>5. ops' \in 0 .. MaxOps /\ used' \subseteq Appends
    BY <1>0, OperationCounts DEF ValueInv
  <1> QED BY <1>0, <1>4, <1>5, ValueElsewhere

LEMMA GetVarTyped ==
    ASSUME Shape, TablesInv, ValueInv, NEW w \in Store, NEW v \in Var,
           GetVar(w, v) \/ GetVarRaises(w, v), Local(w)
    PROVE  ValueInv'
  <1>0. /\ w \in 1 .. stores /\ stores' = stores /\ used' = used
        /\ Operation("getVar", w) \/ Operation("raise", w)
        /\ seen' = seen /\ dict' = dict
    BY DEF GetVar, GetVarRaises, Operation, Shape, Store
  <1>1. PICK names : expand_cache' = [expand_cache EXCEPT ![w] = CacheWith(w, names)]
    BY DEF GetVar, GetVarRaises
  <1>4. /\ expand_cache' \in [Store -> Values]
        /\ \A s \in Store : s > stores' => expand_cache'[s] = Empty
    BY <1>0, <1>1, StoreExpands, CacheWritten
  <1>5. ops' \in 0 .. MaxOps /\ used' \subseteq Appends
    BY <1>0, OperationCounts DEF ValueInv
  <1> QED BY <1>0, <1>4, <1>5, ValueElsewhere

\* What update_data writes, by name.
Set(w) ==
    OverridesApplied(w, Overrides(w)).set \cup UNION {Hit(w, k, Overrides(w)) : k \in Keyword}

Entry(w, v) ==
    [f \in DOMAIN Nothing |->
        IF f = "content" THEN Extended(w, v, OverridesApplied(w, Overrides(w)).content[v], Overrides(w))
        ELSE IF v \in Members(special, w, f) THEN Left(Found(w, v)[f], Overrides(w)) ELSE Found(w, v)[f]]

Filed(w, q) == Members(seen, w, q) \cup {v \in Var : v \in Set(w) /\ Len(v) > 1 /\ Last(v) = q}

LEMMA UpdateDataIs ==
    ASSUME Shape, TablesInv, NEW w \in Store, UpdateData(w)
    PROVE  /\ w \in 1 .. stores /\ stores' = stores /\ used' = used /\ above' = above
           /\ Operation("update_data", w)
           /\ IF Set(w) = {} THEN UNCHANGED behind ELSE LeavesBehind(w)
           /\ \A v \in Var : dict'[w][v] = IF v \notin Set(w) THEN dict[w][v] ELSE Entry(w, v)
           /\ \A q \in Override :
                 seen'[w][q] = IF \/ Filed(w, q) # Members(seen, w, q)
                                  \/ q \in ToSet(Overrides(w)) /\ Has(seen, w, q)
                               THEN Filed(w, q) ELSE seen[w][q]
           /\ expand_cache' = [expand_cache EXCEPT ![w] = IF Set(w) = {} THEN CacheWith(w, Visited(w, OVERRIDES)) ELSE Empty]
  <1>1. w \in 1 .. stores /\ Operation("update_data", w)
    BY DEF UpdateData, Operation, Shape, Store
  <1>2. dict' = [dict EXCEPT ![w] = [v \in Var |-> IF v \notin Set(w) THEN dict[w][v] ELSE Entry(w, v)]]
    BY DEF UpdateData, Set, Entry
  <1>3. seen' = [seen EXCEPT ![w] = [q \in Override |->
            IF Filed(w, q) # Members(seen, w, q) \/ (q \in ToSet(Overrides(w)) /\ Has(seen, w, q))
            THEN Filed(w, q) ELSE seen[w][q]]]
    BY DEF UpdateData, Set, Filed, Shape
  <1>4. /\ stores' = stores /\ used' = used /\ above' = above
        /\ IF Set(w) = {} THEN UNCHANGED behind ELSE LeavesBehind(w)
        /\ expand_cache' = [expand_cache EXCEPT ![w] = IF Set(w) = {} THEN CacheWith(w, Visited(w, OVERRIDES)) ELSE Empty]
    BY DEF UpdateData, Set
  <1> QED BY <1>1, <1>2, <1>3, <1>4 DEF Shape

LEMMA EntryIs ==
    ASSUME Shape, TablesInv, ValueInv, NEW w \in 1 .. stores, NEW v \in Var
    PROVE  IsEntry(Entry(w, v))
  <1>1. IsEntry(Found(w, v))
    BY FoundIs
  <1>2. OverridesApplied(w, Overrides(w)).content[v] \in {None} \cup Seq(Token)
    <2>1. OverridesApplied(w, Overrides(w)).content \in [Var -> Contents(w)]
      BY AppliedIs DEF Partial
    <2>2. Contents(w) \subseteq {None} \cup Seq(Token)
      BY FoundIs DEF Contents
    <2> QED BY <2>1, <2>2
  <1>3. Entry(w, v)["content"] \in {None} \cup Seq(Token)
    <2>1. Entry(w, v)["content"] =
            Extended(w, v, OverridesApplied(w, Overrides(w)).content[v], Overrides(w))
      BY DEF Entry, Nothing
    <2> QED BY <1>1, <1>2, <2>1, ExtendedType
  <1>4. ASSUME NEW k \in Keyword PROVE Entry(w, v)[k] \in Seq(Pending)
    <2>1. Entry(w, v)[k] = IF v \in Members(special, w, k) THEN Left(Found(w, v)[k], Overrides(w))
                           ELSE Found(w, v)[k]
      BY DEF Entry, Nothing, Keyword
    <2>2. Found(w, v)[k] \in Seq(Pending) /\ <<>> \in Seq(Pending)
      BY <1>1 DEF IsEntry
    <2> QED BY <2>1, <2>2 DEF Left
  <1>5. DOMAIN Entry(w, v) = DOMAIN Nothing
    BY DEF Entry
  <1> QED BY <1>3, <1>4, <1>5 DEF IsEntry

LEMMA UpdateDataTyped ==
    ASSUME Shape, TablesInv, ValueInv, NEW w \in Store, UpdateData(w), Local(w)
    PROVE  ValueInv'
  <1>0. /\ w \in 1 .. stores /\ stores' = stores /\ used' = used
        /\ Operation("update_data", w)
    BY UpdateDataIs
  <1>2. \A u \in Var : dict'[w][u] = dict[w][u] \/ IsEntry(dict'[w][u])
    BY <1>0, UpdateDataIs, EntryIs
  <1>3. ASSUME NEW o \in Override
        PROVE  seen'[w][o] = seen[w][o] \/ \A u \in seen'[w][o] : Len(u) > 1 /\ Last(u) = o
    <2>1. \A u \in Members(seen, w, o) : Len(u) > 1 /\ Last(u) = o
      BY <1>0, SeenIs DEF Filings
    <2>2. \A u \in Filed(w, o) : Len(u) > 1 /\ Last(u) = o
      BY <2>1 DEF Filed
    <2>3. seen'[w][o] = seen[w][o] \/ seen'[w][o] = Filed(w, o)
      BY UpdateDataIs
    <2> QED BY <2>2, <2>3
  <1>4. /\ expand_cache' \in [Store -> Values]
        /\ \A s \in Store : s > stores' => expand_cache'[s] = Empty
    <2> DEFINE cache == IF Set(w) = {} THEN CacheWith(w, Visited(w, OVERRIDES)) ELSE Empty
    <2>1. cache \in Values
      BY <1>0, StoreExpands, EmptyIs
    <2>2. expand_cache' = [expand_cache EXCEPT ![w] = cache]
      BY UpdateDataIs
    <2> HIDE DEF cache
    <2> QED BY <1>0, <2>1, <2>2, CacheWritten
  <1>5. ops' \in 0 .. MaxOps /\ used' \subseteq Appends
    BY <1>0, OperationCounts DEF ValueInv
  <1> QED BY <1>2, <1>3, <1>4, <1>5, ValueElsewhere

-----------------------------------------------------------------------------
LEMMA ValueInit == ASSUME Init PROVE ValueInv
  <1>1. ASSUME NEW s \in Store, NEW v \in Var, dict[s][v] # None PROVE IsEntry(dict[s][v])
    <2>1. dict[s][v] = [Nothing EXCEPT !["content"] = Given[v]] /\ Given[v] # None
      BY <1>1 DEF Init
    <2>2. Given[v] \in Seq(Token)
      BY <2>1, ValueAssumption
    <2> QED BY <2>1, <2>2, NothingIs DEF IsEntry, Nothing, Keyword
  <1>2. /\ expand_cache \in [Store -> Values]
        /\ \A s \in Store : s > stores => expand_cache[s] = Empty
    BY EmptyIs DEF Init
  <1>3. ASSUME NEW s \in Store, NEW o \in Override, seen[s][o] # None, NEW v \in seen[s][o]
        PROVE  Len(v) > 1 /\ Last(v) = o
    BY <1>3 DEF Init
  <1>4. used \subseteq Appends /\ ops \in 0 .. MaxOps
    BY DataAssumption DEF Init
  <1> QED BY <1>1, <1>2, <1>3, <1>4 DEF ValueInv

LEMMA ValueNext ==
    ASSUME Shape, TablesInv, ValueInv, [Next]_vars
    PROVE  ValueInv'
  <1>1. CASE UNCHANGED vars
    BY <1>1 DEF vars, history, ValueInv, IsEntry, Nothing, Values, Token, Pending, Empty
  <1>2. CASE Next /\ vars' # vars
    <2>1. PICK s \in Store :
            \/ \E a \in Assignments : SetVar(s, a[1], a[2])
            \/ \E a \in Appends : SetVarKeyword(s, a[1], a[2], a[3], a[4])
            \/ \E v \in Deleted : DelVar(s, v)
            \/ \E r \in Renames : RenameVar(s, r[1], r[2])
            \/ CreateCopy(s)
            \/ \E v \in Read : GetVar(s, v)
            \/ \E v \in Read \cup {OVERRIDES} : GetVarRaises(s, v)
            \/ UpdateData(s)
      BY <1>2 DEF Next
    <2>2. Local(s)
      <3>1. vars' = vars \/ \E w \in Store : Local(w)
        BY ShapeNext
      <3>2. last'[2] = s
        <4>1. \E op : last' = <<op, s>>
          BY <2>1, OneOperation
        <4> QED BY <4>1
      <3> QED BY <1>2, <3>1, <3>2 DEF Local
    <2>3. ASSUME NEW a \in Assignments, SetVar(s, a[1], a[2]) PROVE ValueInv'
      <3>1. a[1] \in Var /\ a[2] \in Seq(Token)
        BY DataAssumption, ValueAssumption
      <3> QED BY <2>2, <2>3, <3>1, SetVarTyped
    <2>4. ASSUME NEW a \in Appends, SetVarKeyword(s, a[1], a[2], a[3], a[4]) PROVE ValueInv'
      BY <2>2, <2>4, SetVarKeywordTyped
    <2>5. ASSUME NEW v \in Deleted, DelVar(s, v) PROVE ValueInv'
      BY <2>2, <2>5, DelVarTyped, DataAssumption
    <2>6. ASSUME NEW r \in Renames, RenameVar(s, r[1], r[2]) PROVE ValueInv'
      <3>1. r[1] \in Var /\ r[2] \in Var /\ r[1] # r[2]
        BY DataAssumption
      <3> QED BY <2>2, <2>6, <3>1, RenameVarTyped
    <2>7. ASSUME NEW v \in Read, GetVar(s, v) PROVE ValueInv'
      BY <2>2, <2>7, GetVarTyped, DataAssumption
    <2>8. ASSUME NEW v \in Read \cup {OVERRIDES}, GetVarRaises(s, v) PROVE ValueInv'
      BY <2>2, <2>8, GetVarTyped, DataAssumption
    <2> QED BY <2>1, <2>2, <2>3, <2>4, <2>5, <2>6, <2>7, <2>8, CreateCopyTyped, UpdateDataTyped
  <1> QED BY <1>1, <1>2

LEMMA ValueHolds == ASSUME NoneApart PROVE Spec => [](Shape /\ IndexInv /\ ValueInv)
  <1>1. Init => Shape /\ IndexInv /\ ValueInv
    BY ShapeInit, IndexInit, ValueInit
  <1>2. Shape /\ IndexInv /\ ValueInv /\ [Next]_vars => (Shape /\ IndexInv /\ ValueInv)'
    BY ShapeNext, IndexNext, ValueNext DEF IndexInv
  <1> QED BY <1>1, <1>2, PTL DEF Spec

\* Every table has entries, values and names of the kind the code puts there:
\* a content is a list of texts and references, a filed name ends in the
\* override it is filed under, and a store that is to be made has nothing.
THEOREM TypeCorrect == ASSUME NoneApart PROVE Spec => []TypeOK
  <1>1. ASSUME Shape, IndexInv, ValueInv PROVE TypeOK
    <2>1. ASSUME NEW s \in Store, NEW v \in Var
          PROVE  /\ dict[s][v] = None \/
                       /\ dict[s][v]["content"] = None \/ dict[s][v]["content"] \in Seq(Token)
                       /\ \A k \in Keyword : dict[s][v][k] \in Seq(Pending)
                 /\ expand_cache[s][v] = None \/ expand_cache[s][v] \in Seq(Token)
      BY <1>1 DEF ValueInv, IsEntry, Values
    <2>2. ASSUME NEW s \in Store PROVE above[s] \subseteq 1 .. s /\ (s <= stores <=> s \in above[s])
      <3>1. CASE s <= stores
        <4>1. s \in 1 .. stores
          BY <1>1, <3>1, DataAssumption DEF Shape, Store
        <4> QED BY <1>1, <3>1, <4>1 DEF IndexInv, ChainInv
      <3>2. CASE ~(s <= stores)
        <4>1. s > stores
          BY <1>1, <3>2, DataAssumption DEF Shape, Store
        <4> QED BY <1>1, <3>2, <4>1 DEF Shape
      <3> QED BY <3>1, <3>2
    <2>3. /\ \A s \in Store, k \in Keyword : special[s][k] = None \/ special[s][k] \subseteq Var
          /\ \A s \in Store, v \in Var : s > stores => dict[s][v] = None
      BY <1>1 DEF IndexInv, TablesInv
    <2>4. ASSUME NEW s \in Store, NEW o \in Override
          PROVE  seen[s][o] = None \/ \A v \in seen[s][o] : v \in Var /\ Len(v) > 1 /\ Last(v) = o
      <3>1. seen[s][o] = None \/ seen[s][o] \in SUBSET Var
        BY <1>1 DEF IndexInv, TablesInv
      <3>2. seen[s][o] = None \/ \A v \in seen[s][o] : Len(v) > 1 /\ Last(v) = o
        BY <1>1 DEF ValueInv
      <3> QED BY <3>1, <3>2
    <2>5. \A s \in Store, v \in Var : s > stores => expand_cache[s][v] = None
      BY <1>1 DEF ValueInv, Empty
    <2>6. used \subseteq Appends /\ ops \in 0 .. MaxOps /\ stores \in Store
      BY <1>1 DEF ValueInv, Shape
    <2> QED BY <2>1, <2>2, <2>3, <2>4, <2>5, <2>6 DEF TypeOK
  <1> QED BY <1>1, ValueHolds, PTL

-----------------------------------------------------------------------------
(***************************************************************************)
(* The last override wins.                                                 *)
(***************************************************************************)

\* u overrides v, or overrides an override of v, ...
Extends(u, v) == Len(u) > Len(v) /\ SubSeq(u, 1, Len(v)) = v

LEMMA ExtendsMore ==
    ASSUME NEW v \in Var, NEW u \in Var, Extends(u, v) \/ u = v, NEW o, Append(u, o) \in Var
    PROVE  Extends(Append(u, o), v) /\ Len(Append(u, o)) = Len(u) + 1
  <1> DEFINE T == STRING \cup {o}
             e == Append(u, o)
             m == Len(v)
  <1>1. u \in Seq(STRING) /\ v \in Seq(STRING) /\ STRING \subseteq T
    BY ValueAssumption
  <1>2. u \in Seq(T) /\ v \in Seq(T) /\ o \in T
    BY <1>1, SeqMonotonic
  <1>3. m \in Nat /\ Len(u) \in Nat /\ m <= Len(u)
    BY <1>1 DEF Extends
  <1> HIDE DEF T, m
  <1>4. /\ e \in Seq(T) /\ Len(e) = Len(u) + 1
        /\ \A i \in 1 .. Len(u) : e[i] = u[i]
    BY <1>2, <1>3
  <1>5. SubSeq(e, 1, m) = SubSeq(u, 1, m)
    <2> HIDE DEF e
    <2>1. /\ \A i \in 1 .. m : i \in 1 .. Len(u)
          /\ \A i \in 1 .. m : i \in 1 .. Len(e)
      BY <1>3, <1>4
    <2>2. \A i \in 1 .. m : e[i] = u[i] /\ e[i] \in T /\ u[i] \in T
      BY <1>2, <1>4, <2>1
    <2>3. /\ SubSeq(e, 1, m) \in Seq(T) /\ Len(SubSeq(e, 1, m)) = m
          /\ \A i \in 1 .. m : SubSeq(e, 1, m)[i] = e[i]
      BY <1>3, <1>4, <2>2
    <2>4. /\ SubSeq(u, 1, m) \in Seq(T) /\ Len(SubSeq(u, 1, m)) = m
          /\ \A i \in 1 .. m : SubSeq(u, 1, m)[i] = u[i]
      BY <1>2, <1>3, <2>2
    <2> QED BY <2>2, <2>3, <2>4, SeqEqual
  <1>6. SubSeq(u, 1, m) = v
    <2>1. CASE u = v
      <3>1. SubSeq(v, 1, m) = v
        <4>1. \A i \in 1 .. m : v[i] \in T
          BY <1>2 DEF m
        <4>2. /\ SubSeq(v, 1, m) \in Seq(T) /\ Len(SubSeq(v, 1, m)) = m
              /\ \A i \in 1 .. m : SubSeq(v, 1, m)[i] = v[i]
          BY <1>2, <1>3, <4>1
        <4> QED BY <1>2, <4>2, SeqEqual DEF m
      <3> QED BY <2>1, <3>1
    <2> QED BY <2>1 DEF Extends, m
  <1>7. Len(e) > m
    BY <1>3, <1>4
  <1> QED BY <1>4, <1>5, <1>6, <1>7 DEF Extends, m

\* The overrides up to i that v has something for.
Gives(s, v, overrides, i) ==
    {j \in 1 .. i : Append(v, overrides[j]) \in Var /\ Content(s, Append(v, overrides[j])) # None}

\* What the loop over the overrides has after i of them.
After(s, v, overrides, i, partial) ==
    /\ \A u \in Var, q \in Override : Extends(u, v) /\ Len(u) > Len(v) + 1 => u \notin partial.seen[q]
    /\ \A o \in Override : Append(v, o) \in Var =>
          /\ partial.content[Append(v, o)] = Content(s, Append(v, o))
          /\ Append(v, o) \in partial.seen[o] <=> Content(s, Append(v, o)) # None
    /\ \/ /\ Gives(s, v, overrides, i) = {} /\ v \notin partial.set
          /\ partial.content[v] = Content(s, v)
       \/ \E m \in Gives(s, v, overrides, i) :
             /\ \A n \in Gives(s, v, overrides, i) : n <= m
             /\ v \in partial.set
             /\ partial.content[v] = Content(s, Append(v, overrides[m]))

LEMMA AfterNone ==
    ASSUME NEW s, NEW v \in Var, Complete(s), Simple(s, v), Unapplied(s) \in Partial(s), NEW overrides
    PROVE  After(s, v, overrides, 0, Unapplied(s))
  <1>0. /\ \A u \in Var : Unapplied(s).content[u] = Content(s, u)
        /\ \A q \in Override : Unapplied(s).seen[q] = Members(seen, s, q)
        /\ Unapplied(s).set = {}
    BY DEF Unapplied
  <1>1. \A q \in Override : \A u \in Members(seen, s, q) : Last(u) = q
    BY <1>0 DEF Partial, Filings
  <1>2. ASSUME NEW u \in Var, NEW q \in Override, Extends(u, v), Len(u) > Len(v) + 1,
               u \in Unapplied(s).seen[q]
        PROVE  FALSE
    <2>1. u \in Members(seen, s, Last(u))
      BY <1>0, <1>1, <1>2
    <2> QED BY <1>2, <2>1 DEF Simple, Extends
  <1>3. ASSUME NEW o \in Override, Append(v, o) \in Var
        PROVE  Append(v, o) \in Unapplied(s).seen[o] <=> Content(s, Append(v, o)) # None
    <2> DEFINE u == Append(v, o)
    <2>1. Last(u) = o /\ Extends(u, v) /\ Len(u) > 1 /\ u \in Var
      <3>1. Len(u) = Len(v) + 1 /\ Len(v) \in Nat \ {0} /\ Last(u) = o
        BY <1>3, Extension
      <3> QED BY <1>3, <3>1, ExtendsMore
    <2> HIDE DEF u
    <2>2. u \in Members(seen, s, o) => Content(s, u) # None
      BY <2>1 DEF Simple, Extends
    <2>3. Content(s, u) # None => u \in Members(seen, s, o)
      BY <2>1 DEF Complete
    <2> QED BY <1>0, <2>2, <2>3 DEF u
  <1>4. Gives(s, v, overrides, 0) = {}
    BY DEF Gives
  <1> QED BY <1>0, <1>2, <1>3, <1>4 DEF After

LEMMA AfterOne ==
    ASSUME NEW s, NEW v \in Var, NEW overrides, NEW i \in Nat, NEW partial \in Partial(s),
           After(s, v, overrides, i, partial)
    PROVE  After(s, v, overrides, i + 1, ApplyOverride(partial, overrides[i + 1]))
  <1> DEFINE o == overrides[i + 1]
             names == Names(partial, o)
             next == ApplyOverride(partial, o)
             G(j) == Gives(s, v, overrides, j)
  <1>1. /\ \A u \in Var : next.content[u] = IF u \in names THEN partial.content[Append(u, o)]
                                            ELSE partial.content[u]
        /\ \A q \in Override : next.seen[q] = partial.seen[q] \cup {u \in names : Len(u) > 1 /\ Last(u) = q}
        /\ next.set = partial.set \cup names
    BY DEF ApplyOverride, Names
  <1>2. /\ names \subseteq Var
        /\ \A u \in names : Append(u, o) \in Var /\ o \in Override /\ Append(u, o) \in partial.seen[o]
        /\ \A u \in Var : o \in Override /\ Append(u, o) \in partial.seen[o] => u \in names
    BY NamesAre
  <1> HIDE DEF next, names
  <1>3. /\ \A u \in Var, q \in Override : Extends(u, v) /\ Len(u) > Len(v) + 1 => u \notin partial.seen[q]
        /\ \A q \in Override : Append(v, q) \in Var =>
              /\ partial.content[Append(v, q)] = Content(s, Append(v, q))
              /\ Append(v, q) \in partial.seen[q] <=> Content(s, Append(v, q)) # None
    BY DEF After
  <1>4. ASSUME NEW u \in Var, Extends(u, v) PROVE u \notin names
    <2> SUFFICES ASSUME u \in names PROVE FALSE
      OBVIOUS
    <2>1. Append(u, o) \in Var /\ o \in Override /\ Append(u, o) \in partial.seen[o]
      BY <1>2
    <2>2. Extends(Append(u, o), v) /\ Len(Append(u, o)) = Len(u) + 1
      BY <1>4, <2>1, ExtendsMore
    <2>3. Len(u) \in Nat /\ Len(v) \in Nat
      BY ValueAssumption
    <2>4. Len(Append(u, o)) > Len(v) + 1
      BY <1>4, <2>2, <2>3 DEF Extends
    <2> QED BY <1>3, <2>1, <2>2, <2>4
  <1>5. \A u \in Var, q \in Override : Extends(u, v) /\ Len(u) > Len(v) + 1 => u \notin next.seen[q]
    BY <1>1, <1>3, <1>4
  <1>6. ASSUME NEW q \in Override, Append(v, q) \in Var
        PROVE  /\ next.content[Append(v, q)] = Content(s, Append(v, q))
               /\ Append(v, q) \in next.seen[q] <=> Content(s, Append(v, q)) # None
    <2>1. Append(v, q) \notin names
      BY <1>4, <1>6, ExtendsMore
    <2> QED BY <1>1, <1>3, <1>6, <2>1
  <1>7. v \in names <=> Append(v, o) \in Var /\ Content(s, Append(v, o)) # None
    <2>1. Append(v, o) \in Var => o \in Override
      BY Extension
    <2> QED BY <1>2, <1>3, <2>1
  <1>8. /\ G(i) \subseteq 1 .. i /\ G(i) \subseteq G(i + 1)
        /\ \A j \in G(i + 1) : j \in G(i) \/ j = i + 1
        /\ i + 1 \in G(i + 1) <=> v \in names
    <2>1. /\ \A j \in 1 .. i : j \in 1 .. i + 1
          /\ \A j \in 1 .. i + 1 : j \in 1 .. i \/ j = i + 1
          /\ i + 1 \in 1 .. i + 1
      OBVIOUS
    <2> QED BY <1>7, <2>1 DEF Gives
  <1>9. CASE v \in names
    <2>1. next.content[v] = Content(s, Append(v, o)) /\ v \in next.set
      BY <1>1, <1>2, <1>3, <1>9
    <2>2. i + 1 \in G(i + 1) /\ \A n \in G(i + 1) : n <= i + 1
      BY <1>8, <1>9
    <2> QED BY <1>5, <1>6, <2>1, <2>2 DEF After, next
  <1>10. CASE v \notin names
    <2>1. G(i + 1) = G(i)
      BY <1>8, <1>10
    <2>2. next.content[v] = partial.content[v] /\ (v \in next.set <=> v \in partial.set)
      BY <1>1, <1>10
    <2> QED BY <1>5, <1>6, <2>1, <2>2 DEF After, next
  <1> QED BY <1>9, <1>10

\* The loop over all of them.
LEMMA AfterAll ==
    ASSUME Shape, TablesInv, ValueInv, NEW s \in 1 .. stores, NEW v \in Var, Complete(s), Simple(s, v)
    PROVE  After(s, v, Overrides(s), Len(Overrides(s)), OverridesApplied(s, Overrides(s)))
  <1> DEFINE O == Overrides(s)
             N == Len(O)
  <1>1. N \in Nat
    BY OverridesAre
  <1>2. PICK f : /\ OverridesApplied(s, O) = f[N]
                 /\ f[0] = Unapplied(s)
                 /\ \A i \in 1 .. N : f[i] = ApplyOverride(f[i - 1], O[i])
                 /\ \A i \in 0 .. N : f[i] \in Partial(s)
    BY <1>1, UnappliedIs, LoopIs
  <1> DEFINE P == {i \in 0 .. N : After(s, v, O, i, f[i])}
  <1>3. 0 \in P
    BY <1>1, <1>2, UnappliedIs, AfterNone
  <1>4. ASSUME NEW i \in 0 .. N - 1, i \in P PROVE i + 1 \in P
    <2>1. i \in Nat /\ i \in 0 .. N /\ i + 1 \in 1 .. N /\ i + 1 \in 0 .. N /\ (i + 1) - 1 = i
      BY <1>1
    <2>2. f[i + 1] = ApplyOverride(f[i], O[i + 1])
      BY <1>2, <2>1
    <2> QED BY <1>2, <1>4, <2>1, <2>2, AfterOne
  <1>5. 0 .. N \subseteq P
    <2> HIDE DEF P
    <2> QED BY <1>1, <1>3, <1>4, Counting
  <1> QED BY <1>1, <1>2, <1>5

\* It leaves what v has for the last override it has something for.
LEMMA AppliedContent ==
    ASSUME Shape, TablesInv, ValueInv, NEW s \in 1 .. stores, NEW v \in Var, Complete(s), Simple(s, v)
    PROVE  /\ OverridesApplied(s, Overrides(s)).content[v] = LastGiven(s, v)
           /\ v \notin OverridesApplied(s, Overrides(s)).set => LastGiven(s, v) = Content(s, v)
  <1> DEFINE O == Overrides(s)
             N == Len(O)
             partial == OverridesApplied(s, O)
             G == Gives(s, v, O, N)
  <1>1. After(s, v, O, N, partial) /\ DOMAIN O = 1 .. N /\ N \in Nat
    BY AfterAll, OverridesAre
  <1>2. G = {i \in DOMAIN O : \E u \in Var : u = Append(v, O[i]) /\ Content(s, u) # None}
    BY <1>1 DEF Gives
  <1>3. LastGiven(s, v) = IF G = {} THEN Content(s, v) ELSE Content(s, Append(v, O[Max(G)]))
    BY <1>2 DEF LastGiven
  <1>4. G \subseteq Nat
    BY <1>1 DEF Gives
  <1>5. \/ G = {} /\ v \notin partial.set /\ partial.content[v] = Content(s, v)
        \/ \E m \in G : /\ \A n \in G : n <= m
                        /\ v \in partial.set
                        /\ partial.content[v] = Content(s, Append(v, O[m]))
    BY <1>1 DEF After
  <1> HIDE DEF O, partial, G
  <1>6. ASSUME NEW m \in G, \A n \in G : n <= m PROVE Max(G) = m
    <2>1. \A x \in G : (\A n \in G : x >= n) => x = m
      BY <1>4, <1>6
    <2> QED BY <1>4, <1>6, <2>1 DEF Max
  <1>7. partial.content[v] = LastGiven(s, v) /\ (v \notin partial.set => LastGiven(s, v) = Content(s, v))
    BY <1>3, <1>5, <1>6
  <1> QED BY <1>7 DEF O, partial

\* Nothing is added by a list nothing of which applies.
LEMMA SumIs ==
    ASSUME NEW front \in Seq(Token), NEW end \in Seq(Token), NEW content \in {None} \cup Seq(Token)
    PROVE  IF front = <<>> /\ end = <<>> THEN Sum(front, content, end) = IF content = None THEN <<>> ELSE content
           ELSE Sum(front, content, end) # <<>>
  <1> DEFINE middle == IF content = None THEN <<>> ELSE content
             first == Reverse(front)
  <1>1. middle \in Seq(Token) /\ first \in Seq(Token) /\ Len(first) = Len(front)
    BY ReverseIs
  <1>2. Sum(front, content, end) = first \o middle \o end
    BY DEF Sum
  <1> HIDE DEF middle, first
  <1>3. Len(first \o middle \o end) = Len(first) + Len(middle) + Len(end)
    BY <1>1, SMTT(30)
  <1>4. CASE front = <<>> /\ end = <<>>
    <2>1. first = <<>>
      BY <1>1, <1>4
    <2>2. first \o middle \o end = middle
      BY <1>1, <1>4, <2>1
    <2> QED BY <1>2, <1>4, <2>2 DEF middle
  <1>5. CASE ~(front = <<>> /\ end = <<>>)
    <2>1. Len(front) # 0 \/ Len(end) # 0
      BY <1>5
    <2>2. Len(front) \in Nat /\ Len(middle) \in Nat /\ Len(end) \in Nat
      BY <1>1
    <2>3. Len(first \o middle \o end) # 0
      BY <1>1, <1>3, <2>1, <2>2
    <2> QED BY <1>2, <1>5, <2>3
  <1> QED BY <1>4, <1>5

\* What is added: the index has whatever is pending.
LEMMA AddedIs ==
    ASSUME Shape, TablesInv, ValueInv, NEW s \in 1 .. stores, NEW v \in Var, Complete(s), NEW k \in Keyword
    PROVE  Added(s, v, Overrides(s), k) = Texts(Applies(Found(s, v)[k], Overrides(s)))
  <1>1. CASE v \in Members(special, s, k)
    BY <1>1 DEF Added
  <1>2. CASE v \notin Members(special, s, k)
    <2>1. Found(s, v)[k] = <<>> /\ Found(s, v)[k] \in Seq(Pending)
      BY <1>2, FoundIs DEF Complete, IsEntry
    <2>2. Applies(Found(s, v)[k], Overrides(s)) = <<>>
      BY <2>1, AppliesAre
    <2>3. Texts(<<>>) = <<>>
      BY DEF Texts
    <2> QED BY <1>2, <2>2, <2>3 DEF Added
  <1> QED BY <1>1, <1>2

LEMMA UpdateDataLastWins ==
    ASSUME Shape, IndexInv, ValueInv, NoneApart, NEW s \in 1 .. stores, Local(s), UpdateData(s), ~behind[s],
           NEW v \in Var, Simple(s, v)
    PROVE  Content(s, v)' = Updated(s, v)
  <1> DEFINE O == Overrides(s)
             base == LastGiven(s, v)
             front == Added(s, v, O, "_prepend")
             end == Added(s, v, O, "_append")
  <1>0. TablesInv /\ ChainInv /\ s \in Store /\ Stays(s) /\ above' = above
    BY UpdateDataIs, DataAssumption DEF IndexInv, Shape, Store, Stays
  <1>1. Complete(s)
    BY CompleteEach DEF IndexInv
  <1>2. OverridesApplied(s, O).content[v] = base /\ (v \notin OverridesApplied(s, O).set => base = Content(s, v))
    BY <1>0, <1>1, AppliedContent
  <1>3. \A k \in Keyword : Added(s, v, O, k) = Texts(Applies(Found(s, v)[k], O))
    BY <1>0, <1>1, AddedIs
  <1>4. IsEntry(Found(s, v)) /\ Content(s, v) \in {None} \cup Seq(Token)
    BY FoundIs
  <1>5. base \in {None} \cup Seq(Token)
    <2>1. OverridesApplied(s, O) \in Partial(s)
      BY <1>0, AppliedIs
    <2>2. Contents(s) \subseteq {None} \cup Seq(Token)
      BY FoundIs DEF Contents
    <2> QED BY <1>2, <2>1, <2>2 DEF Partial
  <1>6. front \in Seq(Token) /\ end \in Seq(Token)
    BY <1>4, <1>5, ExtendedType DEF Keyword
  <1>7. Updated(s, v) = IF Sum(front, base, end) = <<>> THEN base ELSE Sum(front, base, end)
    BY <1>3 DEF Updated, Sum, Keyword
  <1> HIDE DEF front, end, base
  <1>8. Updated(s, v) = IF front = <<>> /\ end = <<>> THEN base ELSE Sum(front, base, end)
    BY <1>5, <1>6, <1>7, SumIs
  <1>9. Extended(s, v, base, O) = Updated(s, v)
    <2>1. (\A k \in Keyword : Added(s, v, O, k) = <<>>) <=> front = <<>> /\ end = <<>>
      BY DEF Keyword, front, end
    <2> QED BY <1>8, <2>1, ExtendedIs DEF front, end
  <1>10. CASE v \in Set(s)
    <2>1. dict'[s][v] = Entry(s, v)
      BY <1>0, <1>10, UpdateDataIs
    <2>2. dict'[s][v] # None
      <3>1. DOMAIN Entry(s, v) = DOMAIN Nothing
        BY DEF Entry
      <3> QED BY <2>1, <3>1 DEF NoneApart
    <2>3. Found(s, v)' = Entry(s, v)
      BY <1>0, <2>1, <2>2, OwnFoundNext
    <2>4. Entry(s, v)["content"] = Extended(s, v, base, O)
      BY <1>2 DEF Entry, Nothing
    <2> QED BY <1>9, <2>3, <2>4 DEF Content
  <1>11. CASE v \notin Set(s)
    <2>1. dict'[s][v] = dict[s][v]
      BY <1>0, <1>11, UpdateDataIs
    <2>2. Content(s, v)' = Content(s, v)
      BY <1>0, <2>1, FoundStays DEF Content
    <2>3. base = Content(s, v)
      BY <1>2, <1>11 DEF Set
    <2>4. \A k \in Keyword : Added(s, v, O, k) = <<>>
      <3>1. Texts(<<>>) = <<>>
        BY DEF Texts
      <3>2. ASSUME NEW k \in Keyword, v \in Members(special, s, k) PROVE Applies(Found(s, v)[k], O) = <<>>
        BY <1>11, <3>2 DEF Set, Hit
      <3> QED BY <3>1, <3>2 DEF Added
    <2> QED BY <1>8, <2>2, <2>3, <2>4 DEF Keyword, front, end
  <1> QED BY <1>10, <1>11

\* Only update_data leaves "update_data" in the history.
LEMMA OnlyUpdateData ==
    ASSUME Next, NEW s, last' = <<"update_data", s>>
    PROVE  s \in Store /\ UpdateData(s)
  <1>1. PICK t \in Store :
            \/ \E a \in Assignments : SetVar(t, a[1], a[2])
            \/ \E a \in Appends : SetVarKeyword(t, a[1], a[2], a[3], a[4])
            \/ \E v \in Deleted : DelVar(t, v)
            \/ \E r \in Renames : RenameVar(t, r[1], r[2])
            \/ CreateCopy(t)
            \/ \E v \in Read : GetVar(t, v)
            \/ \E v \in Read \cup {OVERRIDES} : GetVarRaises(t, v)
            \/ UpdateData(t)
    BY DEF Next
  <1>2. UpdateData(t)
    BY <1>1 DEF SetVar, SetVarKeyword, DelVar, RenameVar, CreateCopy, GetVar, GetVarRaises, Operation
  <1>3. last' = <<"update_data", t>>
    BY <1>2 DEF UpdateData, Operation
  <1> QED BY <1>2, <1>3

\* For any names and values, any number of overrides and of copies: the last
\* of OVERRIDES that a variable has something for wins, and what applies of
\* its pending texts is added after that, at both ends.
THEOREM LastOverrideWinsHolds == ASSUME NoneApart PROVE Spec => LastOverrideWins
  <1>1. ASSUME Shape, IndexInv, ValueInv, [Next]_vars
        PROVE  [\A s \in 1 .. stores, v \in Var :
                    last' = <<"update_data", s>> /\ ~behind[s] /\ Simple(s, v) =>
                        Content(s, v)' = Updated(s, v)]_vars
    <2>1. CASE UNCHANGED vars
      BY <2>1
    <2>2. CASE Next /\ vars' # vars
      <3>1. ASSUME NEW s \in 1 .. stores, NEW v \in Var,
                   last' = <<"update_data", s>>, ~behind[s], Simple(s, v)
            PROVE  Content(s, v)' = Updated(s, v)
        <4>1. UpdateData(s)
          BY <2>2, <3>1, OnlyUpdateData
        <4>2. Local(s)
          BY <1>1, <2>2, <3>1, ShapeNext DEF Local
        <4> QED BY <1>1, <3>1, <4>1, <4>2, UpdateDataLastWins
      <3> QED BY <3>1
    <2> QED BY <1>1, <2>1, <2>2
  <1> QED BY <1>1, ValueHolds, PTL DEF Spec, LastOverrideWins

-----------------------------------------------------------------------------
(***************************************************************************)
(* Every text is added once.                                               *)
(***************************************************************************)

PendingTexts(list) == {list[i].text : i \in DOMAIN list}
Distinct(list) == \A i, j \in DOMAIN list : list[i].text = list[j].text => i = j
Tokens(content) == IF content = None THEN {} ELSE ToSet(content)

\* What a store finds has every text once: in a content or pending, of the
\* appends that were set.
Once(entry, done) ==
    /\ \A v \in Var : entry[v]["content"] # None => IsInjective(entry[v]["content"])
    /\ \A v \in Var, k \in Keyword :
          /\ Distinct(entry[v][k])
          /\ PendingTexts(entry[v][k]) \subseteq {a[4] : a \in done}
    /\ \A v, u \in Var, k, l \in Keyword :
          v # u \/ k # l => PendingTexts(entry[v][k]) \cap PendingTexts(entry[u][l]) = {}
    /\ \A v, u \in Var, k \in Keyword : \A x \in PendingTexts(entry[v][k]) :
          [text |-> x] \notin Tokens(entry[u]["content"])
    /\ \A u \in Var : \A a \in Appends \ done : [text |-> a[4]] \notin Tokens(entry[u]["content"])

Entries(s) == [v \in Var |-> Found(s, v)]
OnceInv == \A s \in 1 .. stores : ~behind[s] => Once(Entries(s), used)

-----------------------------------------------------------------------------
(* Lists of texts. *)

LEMMA AppendTexts ==
    ASSUME NEW list \in Seq(Pending), NEW x \in Pending
    PROVE  /\ PendingTexts(Append(list, x)) = PendingTexts(list) \cup {x.text}
           /\ Distinct(list) /\ x.text \notin PendingTexts(list) => Distinct(Append(list, x))
  <1>1. /\ Len(list) \in Nat /\ DOMAIN list = 1 .. Len(list)
        /\ DOMAIN Append(list, x) = 1 .. Len(list) + 1
        /\ \A i \in 1 .. Len(list) : Append(list, x)[i] = list[i]
        /\ Append(list, x)[Len(list) + 1] = x
    OBVIOUS
  <1>2. \A i \in 1 .. Len(list) + 1 : i \in 1 .. Len(list) \/ i = Len(list) + 1
    BY <1>1
  <1>3. \A i \in 1 .. Len(list) : i \in 1 .. Len(list) + 1
    BY <1>1
  <1>4. Len(list) + 1 \in 1 .. Len(list) + 1
    BY <1>1
  <1>5. PendingTexts(Append(list, x)) = PendingTexts(list) \cup {x.text}
    BY <1>1, <1>2, <1>3, <1>4 DEF PendingTexts
  <1>6. ASSUME Distinct(list), x.text \notin PendingTexts(list) PROVE Distinct(Append(list, x))
    <2>1. \A i \in 1 .. Len(list) : list[i].text # x.text
      BY <1>1, <1>6 DEF PendingTexts
    <2> QED BY <1>1, <1>2, <1>6, <2>1 DEF Distinct
  <1> QED BY <1>5, <1>6

\* The two parts of a list.
LEMMA ConcatIs ==
    ASSUME NEW T, NEW a \in Seq(T), NEW b \in Seq(T)
    PROVE  /\ a \o b \in Seq(T)
           /\ \A i \in DOMAIN (a \o b) :
                 \/ i \in DOMAIN a /\ (a \o b)[i] = a[i]
                 \/ i - Len(a) \in DOMAIN b /\ (a \o b)[i] = b[i - Len(a)]
           /\ \A i \in DOMAIN a : i \in DOMAIN (a \o b) /\ (a \o b)[i] = a[i]
           /\ \A i \in DOMAIN b : i + Len(a) \in DOMAIN (a \o b) /\ (a \o b)[i + Len(a)] = b[i]
           /\ DOMAIN (a \o b) \subseteq Nat /\ Len(a) \in Nat
  <1>1. /\ a \o b \in Seq(T) /\ Len(a \o b) = Len(a) + Len(b)
        /\ Len(a) \in Nat /\ Len(b) \in Nat
        /\ DOMAIN a = 1 .. Len(a) /\ DOMAIN b = 1 .. Len(b) /\ DOMAIN (a \o b) = 1 .. Len(a \o b)
        /\ \A i \in 1 .. Len(a) : (a \o b)[i] = a[i]
        /\ \A i \in 1 .. Len(b) : (a \o b)[i + Len(a)] = b[i]
    OBVIOUS
  <1>2. ASSUME NEW i \in 1 .. Len(a) + Len(b), i \notin 1 .. Len(a)
        PROVE  i - Len(a) \in 1 .. Len(b) /\ (i - Len(a)) + Len(a) = i
    BY <1>1, <1>2
  <1>3. \A i \in 1 .. Len(b) : i + Len(a) \in 1 .. Len(a) + Len(b)
    BY <1>1
  <1>4. \A i \in 1 .. Len(a) : i \in 1 .. Len(a) + Len(b)
    BY <1>1
  <1>5. ASSUME NEW i \in DOMAIN (a \o b), i \notin DOMAIN a
        PROVE  i - Len(a) \in DOMAIN b /\ (a \o b)[i] = b[i - Len(a)]
    <2>1. i - Len(a) \in 1 .. Len(b) /\ (i - Len(a)) + Len(a) = i
      BY <1>1, <1>2, <1>5
    <2>2. (a \o b)[(i - Len(a)) + Len(a)] = b[i - Len(a)]
      BY <1>1, <2>1
    <2> QED BY <1>1, <2>1, <2>2
  <1>6. DOMAIN (a \o b) \subseteq Nat
    BY <1>1
  <1> QED BY <1>1, <1>3, <1>4, <1>5, <1>6

LEMMA ConcatTexts ==
    ASSUME NEW a \in Seq(Pending), NEW b \in Seq(Pending)
    PROVE  /\ PendingTexts(a \o b) = PendingTexts(a) \cup PendingTexts(b)
           /\ Distinct(a) /\ Distinct(b) /\ PendingTexts(a) \cap PendingTexts(b) = {} => Distinct(a \o b)
  <1> DEFINE c == a \o b
  <1>1. /\ \A i \in DOMAIN c : \/ i \in DOMAIN a /\ c[i] = a[i]
                               \/ i - Len(a) \in DOMAIN b /\ c[i] = b[i - Len(a)]
        /\ \A i \in DOMAIN a : i \in DOMAIN c /\ c[i] = a[i]
        /\ \A i \in DOMAIN b : i + Len(a) \in DOMAIN c /\ c[i + Len(a)] = b[i]
        /\ DOMAIN c \subseteq Nat /\ Len(a) \in Nat
    BY ConcatIs
  <1> HIDE DEF c
  <1>2. PendingTexts(c) = PendingTexts(a) \cup PendingTexts(b)
    BY <1>1 DEF PendingTexts
  <1>3. ASSUME Distinct(a), Distinct(b), PendingTexts(a) \cap PendingTexts(b) = {},
               NEW i \in DOMAIN c, NEW j \in DOMAIN c, c[i].text = c[j].text
        PROVE  i = j
    <2>1. \A m \in DOMAIN a, n \in DOMAIN b : a[m].text # b[n].text
      BY <1>3 DEF PendingTexts
    <2>2. CASE i \in DOMAIN a /\ c[i] = a[i] /\ j \in DOMAIN a /\ c[j] = a[j]
      BY <1>3, <2>2 DEF Distinct
    <2>3. CASE /\ i - Len(a) \in DOMAIN b /\ c[i] = b[i - Len(a)]
               /\ j - Len(a) \in DOMAIN b /\ c[j] = b[j - Len(a)]
      <3>1. i - Len(a) = j - Len(a)
        BY <1>3, <2>3 DEF Distinct
      <3>2. i \in Nat /\ j \in Nat /\ Len(a) \in Nat
        BY <1>1
      <3> QED BY <3>1, <3>2
    <2> QED BY <1>1, <1>3, <2>1, <2>2, <2>3
  <1> QED BY <1>2, <1>3 DEF Distinct, c

LEMMA ConcatInjective ==
    ASSUME NEW T, NEW a \in Seq(T), NEW b \in Seq(T)
    PROVE  /\ ToSet(a \o b) = ToSet(a) \cup ToSet(b)
           /\ IsInjective(a) /\ IsInjective(b) /\ ToSet(a) \cap ToSet(b) = {} => IsInjective(a \o b)
  <1> DEFINE c == a \o b
  <1>1. /\ \A i \in DOMAIN c : \/ i \in DOMAIN a /\ c[i] = a[i]
                               \/ i - Len(a) \in DOMAIN b /\ c[i] = b[i - Len(a)]
        /\ \A i \in DOMAIN a : i \in DOMAIN c /\ c[i] = a[i]
        /\ \A i \in DOMAIN b : i + Len(a) \in DOMAIN c /\ c[i + Len(a)] = b[i]
        /\ DOMAIN c \subseteq Nat /\ Len(a) \in Nat
    BY ConcatIs
  <1> HIDE DEF c
  <1>2. ToSet(c) = ToSet(a) \cup ToSet(b)
    BY <1>1 DEF ToSet
  <1>3. ASSUME IsInjective(a), IsInjective(b), ToSet(a) \cap ToSet(b) = {},
               NEW i \in DOMAIN c, NEW j \in DOMAIN c, c[i] = c[j]
        PROVE  i = j
    <2>1. \A m \in DOMAIN a, n \in DOMAIN b : a[m] # b[n]
      BY <1>3 DEF ToSet
    <2>2. CASE i \in DOMAIN a /\ c[i] = a[i] /\ j \in DOMAIN a /\ c[j] = a[j]
      BY <1>3, <2>2 DEF IsInjective
    <2>3. CASE /\ i - Len(a) \in DOMAIN b /\ c[i] = b[i - Len(a)]
               /\ j - Len(a) \in DOMAIN b /\ c[j] = b[j - Len(a)]
      <3>1. i - Len(a) = j - Len(a)
        BY <1>3, <2>3 DEF IsInjective
      <3>2. i \in Nat /\ j \in Nat /\ Len(a) \in Nat
        BY <1>1
      <3> QED BY <3>1, <3>2
    <2> QED BY <1>1, <1>3, <2>1, <2>2, <2>3
  <1> QED BY <1>2, <1>3 DEF IsInjective, c

LEMMA ReverseInjective ==
    ASSUME NEW T, NEW a \in Seq(T)
    PROVE  /\ ToSet(Reverse(a)) = ToSet(a)
           /\ IsInjective(a) => IsInjective(Reverse(a))
  <1> DEFINE r == Reverse(a)
             N == Len(a)
  <1>1. /\ N \in Nat /\ DOMAIN a = 1 .. N /\ DOMAIN r = 1 .. N
        /\ \A i \in 1 .. N : r[i] = a[(N - i) + 1]
    BY ReverseIs
  <1> HIDE DEF r, N
  <1>2. \A i \in 1 .. N : (N - i) + 1 \in 1 .. N /\ (N - ((N - i) + 1)) + 1 = i
    BY <1>1
  <1>3. \A i \in 1 .. N : r[(N - i) + 1] = a[i]
    BY <1>1, <1>2
  <1>4. ToSet(r) = ToSet(a)
    BY <1>1, <1>2, <1>3 DEF ToSet
  <1>5. ASSUME IsInjective(a), NEW i \in 1 .. N, NEW j \in 1 .. N, r[i] = r[j] PROVE i = j
    <2>1. (N - i) + 1 = (N - j) + 1
      BY <1>1, <1>2, <1>5 DEF IsInjective
    <2> QED BY <1>1, <2>1
  <1> QED BY <1>1, <1>4, <1>5 DEF IsInjective, r

\* The texts of a list that apply.
LEMMA AppliesTexts ==
    ASSUME NEW list \in Seq(Pending), Distinct(list), NEW overrides
    PROVE  /\ IsInjective(Texts(Applies(list, overrides)))
           /\ \A t \in ToSet(Texts(Applies(list, overrides))) :
                 \E x \in PendingTexts(list) : t = [text |-> x]
  <1> DEFINE some == Applies(list, overrides)
             texts == Texts(some)
  <1>1. some \in Seq(Pending) /\ \A i \in DOMAIN some : \E j \in DOMAIN list : some[i] = list[j]
    BY AppliesAre
  <1>2. IsInjective(some)
    <2>1. IsInjective(list)
      BY DEF Distinct, IsInjective
    <2> QED BY <2>1, AppliesAre
  <1>3. DOMAIN texts = DOMAIN some /\ \A i \in DOMAIN some : texts[i] = [text |-> some[i].text]
    BY DEF Texts
  <1> HIDE DEF texts, some
  <1>4. ASSUME NEW i \in DOMAIN some, NEW j \in DOMAIN some, texts[i] = texts[j] PROVE i = j
    <2>1. some[i].text = some[j].text
      BY <1>3, <1>4
    <2>2. PICK m \in DOMAIN list, n \in DOMAIN list : some[i] = list[m] /\ some[j] = list[n]
      BY <1>1
    <2>3. m = n
      BY <2>1, <2>2 DEF Distinct
    <2> QED BY <1>2, <2>2, <2>3 DEF IsInjective
  <1>5. ASSUME NEW t \in ToSet(texts) PROVE \E x \in PendingTexts(list) : t = [text |-> x]
    <2>1. PICK i \in DOMAIN some : t = [text |-> some[i].text]
      BY <1>3 DEF ToSet
    <2>2. PICK m \in DOMAIN list : some[i] = list[m]
      BY <1>1
    <2> QED BY <2>1, <2>2 DEF PendingTexts
  <1> QED BY <1>3, <1>4, <1>5 DEF IsInjective, texts, some

\* Three parts with nothing in common.
LEMMA SumOnce ==
    ASSUME NEW front \in Seq(Token), NEW end \in Seq(Token), NEW content \in {None} \cup Seq(Token),
           IsInjective(front), IsInjective(end), content # None => IsInjective(content),
           ToSet(front) \cap ToSet(end) = {}, ToSet(front) \cap Tokens(content) = {},
           ToSet(end) \cap Tokens(content) = {}
    PROVE  /\ IsInjective(Sum(front, content, end))
           /\ ToSet(Sum(front, content, end)) = ToSet(front) \cup Tokens(content) \cup ToSet(end)
  <1> DEFINE middle == IF content = None THEN <<>> ELSE content
             first == Reverse(front)
  <1>1. /\ middle \in Seq(Token) /\ IsInjective(middle) /\ ToSet(middle) = Tokens(content)
    <2>1. IsInjective(<<>>) /\ ToSet(<<>>) = {}
      BY DEF IsInjective, ToSet
    <2>2. CASE content = None
      <3>1. middle = <<>> /\ Tokens(content) = {}
        BY <2>2 DEF Tokens
      <3> HIDE DEF middle
      <3> QED BY <2>1, <3>1
    <2>3. CASE content # None
      <3>1. middle = content /\ Tokens(content) = ToSet(content)
        BY <2>3 DEF Tokens
      <3> HIDE DEF middle
      <3> QED BY <2>3, <3>1
    <2> QED BY <2>2, <2>3
  <1>2. first \in Seq(Token) /\ IsInjective(first) /\ ToSet(first) = ToSet(front)
    BY ReverseIs, ReverseInjective
  <1>3. Sum(front, content, end) = (first \o middle) \o end
    BY DEF Sum
  <1> HIDE DEF middle, first
  <1>4. /\ first \o middle \in Seq(Token) /\ IsInjective(first \o middle)
        /\ ToSet(first \o middle) = ToSet(front) \cup Tokens(content)
    <2>1. first \o middle \in Seq(Token)
      BY <1>1, <1>2
    <2> QED BY <1>1, <1>2, <2>1, ConcatInjective
  <1> HIDE DEF Sum
  <1>5. /\ ToSet((first \o middle) \o end) = (ToSet(front) \cup Tokens(content)) \cup ToSet(end)
        /\ IsInjective((first \o middle) \o end)
    <2> DEFINE both == first \o middle
    <2>1. /\ both \in Seq(Token) /\ IsInjective(both)
          /\ ToSet(both) = ToSet(front) \cup Tokens(content)
          /\ ToSet(both) \cap ToSet(end) = {}
      BY <1>4
    <2> HIDE DEF both
    <2>2. /\ ToSet(both \o end) = ToSet(both) \cup ToSet(end)
          /\ IsInjective(both \o end)
      BY <2>1, ConcatInjective
    <2> QED BY <2>1, <2>2 DEF both
  <1> QED BY <1>3, <1>5

-----------------------------------------------------------------------------
(* What each operation makes of the entries of its store. *)

Typed(entry) == \A v \in Var : IsEntry(entry[v])

\* The text of an append that is set or that is pending is not in the value.
Foreign(value) ==
    value # None => IsInjective(value) /\ \A a \in Appends : [text |-> a[4]] \notin ToSet(value)

\* Fewer texts, pending or not.
LEMMA OnceFewer ==
    ASSUME NEW done, NEW old, NEW new, Once(old, done),
           \A v \in Var : new[v]["content"] # None => IsInjective(new[v]["content"]),
           \A v \in Var, k \in Keyword :
              Distinct(new[v][k]) /\ PendingTexts(new[v][k]) \subseteq PendingTexts(old[v][k]),
           \A v \in Var : Tokens(new[v]["content"]) \subseteq UNION {Tokens(old[u]["content"]) : u \in Var}
    PROVE  Once(new, done)
  <1>1. ASSUME NEW v \in Var, NEW k \in Keyword
        PROVE  Distinct(new[v][k]) /\ PendingTexts(new[v][k]) \subseteq {a[4] : a \in done}
    BY DEF Once
  <1>2. ASSUME NEW v \in Var, NEW u \in Var, NEW k \in Keyword, NEW l \in Keyword, v # u \/ k # l
        PROVE  PendingTexts(new[v][k]) \cap PendingTexts(new[u][l]) = {}
    <2>1. PendingTexts(old[v][k]) \cap PendingTexts(old[u][l]) = {}
      BY <1>2 DEF Once
    <2> QED BY <2>1
  <1>3. ASSUME NEW v \in Var, NEW u \in Var, NEW k \in Keyword, NEW x \in PendingTexts(new[v][k])
        PROVE  [text |-> x] \notin Tokens(new[u]["content"])
    <2>1. x \in PendingTexts(old[v][k])
      OBVIOUS
    <2>2. \A w \in Var : [text |-> x] \notin Tokens(old[w]["content"])
      BY <2>1 DEF Once
    <2> QED BY <2>2
  <1>4. ASSUME NEW u \in Var, NEW a \in Appends \ done
        PROVE  [text |-> a[4]] \notin Tokens(new[u]["content"])
    <2>1. \A w \in Var : [text |-> a[4]] \notin Tokens(old[w]["content"])
      BY DEF Once
    <2> QED BY <2>1
  <1> QED BY <1>1, <1>2, <1>3, <1>4 DEF Once

LEMMA NothingOnce ==
    /\ Nothing["content"] = None /\ Tokens(None) = {}
    /\ \A k \in Keyword : Nothing[k] = <<>>
    /\ Distinct(<<>>) /\ PendingTexts(<<>>) = {}
  BY DEF Nothing, Keyword, Distinct, PendingTexts, Tokens

\* delVar
LEMMA OnceDeleted ==
    ASSUME NEW done, NEW old, NEW new, NEW v \in Var, Once(old, done),
           new[v] = Nothing, \A u \in Var \ {v} : new[u] = old[u]
    PROVE  Once(new, done)
  <1>1. ASSUME NEW u \in Var
        PROVE  /\ new[u]["content"] # None => IsInjective(new[u]["content"])
               /\ \A k \in Keyword : Distinct(new[u][k]) /\ PendingTexts(new[u][k]) \subseteq PendingTexts(old[u][k])
               /\ Tokens(new[u]["content"]) \subseteq UNION {Tokens(old[w]["content"]) : w \in Var}
    <2>1. CASE u = v
      BY <2>1, NothingOnce
    <2>2. CASE u # v
      BY <2>2 DEF Once
    <2> QED BY <2>1, <2>2
  <1> QED BY <1>1, OnceFewer

\* setVar
LEMMA OnceSet ==
    ASSUME NEW done \in SUBSET Appends, NEW old, NEW new, NEW v \in Var, NEW value, Once(old, done),
           Foreign(value),
           new[v]["content"] = value, \A k \in Keyword : new[v][k] = old[v][k],
           \A u \in Var \ {v} : new[u] = old[u]
    PROVE  Once(new, done)
  <1>1. \A u \in Var, k \in Keyword : new[u][k] = old[u][k]
    OBVIOUS
  <1>2. \A u \in Var : new[u]["content"] = value \/ new[u]["content"] = old[u]["content"]
    OBVIOUS
  <1>3. (value # None => IsInjective(value)) /\ \A a \in Appends : [text |-> a[4]] \notin Tokens(value)
    BY DEF Foreign, Tokens
  <1>4. ASSUME NEW w \in Var, NEW u \in Var, NEW k \in Keyword, NEW x \in PendingTexts(new[w][k])
        PROVE  [text |-> x] \notin Tokens(new[u]["content"])
    <2>1. x \in PendingTexts(old[w][k])
      BY <1>1
    <2>2. [text |-> x] \notin Tokens(old[u]["content"])
      BY <2>1 DEF Once
    <2>3. PICK a \in done : x = a[4]
      BY <2>1 DEF Once
    <2>4. [text |-> x] \notin Tokens(value)
      BY <1>3, <2>3
    <2> QED BY <1>2, <2>2, <2>4
  <1>5. \A u \in Var : \A a \in Appends \ done : [text |-> a[4]] \notin Tokens(new[u]["content"])
    BY <1>2, <1>3 DEF Once
  <1>6. \A u \in Var : new[u]["content"] # None => IsInjective(new[u]["content"])
    BY <1>2, <1>3 DEF Once
  <1>7. /\ \A w \in Var, k \in Keyword :
              /\ Distinct(new[w][k])
              /\ PendingTexts(new[w][k]) \subseteq {a[4] : a \in done}
        /\ \A w, u \in Var, k, l \in Keyword :
              w # u \/ k # l => PendingTexts(new[w][k]) \cap PendingTexts(new[u][l]) = {}
    BY <1>1 DEF Once
  <1> QED BY <1>4, <1>5, <1>6, <1>7 DEF Once

\* setVar of A_append and the like
LEMMA OncePending ==
    ASSUME TextsApart, NEW done \in SUBSET Appends, NEW old, NEW new, NEW a \in Appends \ done,
           Once(old, done), Typed(old),
           a[1] \in Var, a[2] \in Keyword, [text |-> a[4], override |-> a[3]] \in Pending,
           new[a[1]][a[2]] = Append(old[a[1]][a[2]], [text |-> a[4], override |-> a[3]]),
           \A k \in Keyword \ {a[2]} : new[a[1]][k] = old[a[1]][k],
           new[a[1]]["content"] = old[a[1]]["content"],
           \A u \in Var \ {a[1]} : new[u] = old[u]
    PROVE  Once(new, done \cup {a})
  <1> DEFINE At(v, k) == v = a[1] /\ k = a[2]
  <1>1. \A u \in Var : new[u]["content"] = old[u]["content"]
    OBVIOUS
  <1>2. \A v \in Var, k \in Keyword : ~At(v, k) => new[v][k] = old[v][k]
    OBVIOUS
  <1>3. \A v \in Var, k \in Keyword : a[4] \notin PendingTexts(old[v][k])
    <2>1. \A b \in done : a[4] # b[4]
      BY DEF TextsApart
    <2> QED BY <2>1 DEF Once
  <1>4. /\ PendingTexts(new[a[1]][a[2]]) = PendingTexts(old[a[1]][a[2]]) \cup {a[4]}
        /\ Distinct(new[a[1]][a[2]])
    <2> DEFINE list == old[a[1]][a[2]]
               x == [text |-> a[4], override |-> a[3]]
    <2>1. list \in Seq(Pending)
      BY DEF Typed, IsEntry
    <2>2. Distinct(list) /\ a[4] \notin PendingTexts(list)
      BY <1>3 DEF Once
    <2>3. x \in Pending /\ x.text = a[4] /\ new[a[1]][a[2]] = Append(list, x)
      OBVIOUS
    <2> HIDE DEF x, list
    <2>4. /\ PendingTexts(Append(list, x)) = PendingTexts(list) \cup {x.text}
          /\ Distinct(list) /\ x.text \notin PendingTexts(list) => Distinct(Append(list, x))
      BY <2>1, <2>3, AppendTexts, Zenon
    <2> QED BY <2>2, <2>3, <2>4 DEF list
  <1>5. ASSUME NEW v \in Var, NEW k \in Keyword
        PROVE  /\ Distinct(new[v][k])
               /\ PendingTexts(new[v][k]) = PendingTexts(old[v][k]) \cup (IF At(v, k) THEN {a[4]} ELSE {})
    BY <1>2, <1>4 DEF Once
  <1>6. ASSUME NEW v \in Var, NEW k \in Keyword
        PROVE  PendingTexts(new[v][k]) \subseteq {b[4] : b \in done \cup {a}}
    <2>1. PendingTexts(old[v][k]) \subseteq {b[4] : b \in done}
      BY DEF Once
    <2> QED BY <1>5, <2>1, SMTT(30)
  <1>7. ASSUME NEW v \in Var, NEW u \in Var, NEW k \in Keyword, NEW l \in Keyword, v # u \/ k # l
        PROVE  PendingTexts(new[v][k]) \cap PendingTexts(new[u][l]) = {}
    <2>1. PendingTexts(old[v][k]) \cap PendingTexts(old[u][l]) = {}
      BY <1>7 DEF Once
    <2>2. ~At(v, k) \/ ~At(u, l)
      BY <1>7
    <2> HIDE DEF At
    <2>3. ASSUME NEW x \in PendingTexts(new[v][k]), x \in PendingTexts(new[u][l]) PROVE FALSE
      <3>1. x \in PendingTexts(old[v][k]) \/ (At(v, k) /\ x = a[4])
        BY <1>5
      <3>2. x \in PendingTexts(old[u][l]) \/ (At(u, l) /\ x = a[4])
        BY <1>5, <2>3
      <3>3. a[4] \notin PendingTexts(old[v][k]) /\ a[4] \notin PendingTexts(old[u][l])
        BY <1>3
      <3> QED BY <2>1, <2>2, <3>1, <3>2, <3>3
    <2> QED BY <2>3
  <1>8. ASSUME NEW v \in Var, NEW u \in Var, NEW k \in Keyword, NEW x \in PendingTexts(new[v][k])
        PROVE  [text |-> x] \notin Tokens(new[u]["content"])
    <2>1. x \in PendingTexts(old[v][k]) \/ x = a[4]
      BY <1>5
    <2>2. [text |-> a[4]] \notin Tokens(old[u]["content"])
      BY DEF Once
    <2>3. x \in PendingTexts(old[v][k]) => [text |-> x] \notin Tokens(old[u]["content"])
      BY DEF Once
    <2> QED BY <1>1, <2>1, <2>2, <2>3
  <1>9. /\ \A u \in Var : \A b \in Appends \ (done \cup {a}) : [text |-> b[4]] \notin Tokens(new[u]["content"])
        /\ \A u \in Var : new[u]["content"] # None => IsInjective(new[u]["content"])
    BY <1>1 DEF Once
  <1> QED BY <1>5, <1>6, <1>7, <1>8, <1>9 DEF Once

\* renameVar
LEMMA OnceRenamed ==
    ASSUME NEW done, NEW old, NEW new, NEW key \in Var, NEW newkey \in Var, key # newkey,
           Once(old, done), Typed(old),
           new[newkey]["content"] = old[key]["content"],
           \A k \in Keyword : new[newkey][k] = old[newkey][k] \o old[key][k],
           new[key] = Nothing,
           \A u \in Var \ {key, newkey} : new[u] = old[u]
    PROVE  Once(new, done)
  <1> DEFINE T(v, k) == PendingTexts(old[v][k])
  <1>1. ASSUME NEW k \in Keyword
        PROVE  Distinct(new[newkey][k]) /\ PendingTexts(new[newkey][k]) = T(newkey, k) \cup T(key, k)
    <2>1. old[newkey][k] \in Seq(Pending) /\ old[key][k] \in Seq(Pending)
      BY DEF Typed, IsEntry
    <2>2. Distinct(old[newkey][k]) /\ Distinct(old[key][k]) /\ T(newkey, k) \cap T(key, k) = {}
      BY DEF Once
    <2> QED BY <2>1, <2>2, ConcatTexts
  <1>2. \A k \in Keyword : Distinct(new[key][k]) /\ PendingTexts(new[key][k]) = {}
    BY NothingOnce
  <1>3. ASSUME NEW v \in Var, NEW k \in Keyword
        PROVE  /\ Distinct(new[v][k])
               /\ PendingTexts(new[v][k]) = CASE v = newkey -> T(newkey, k) \cup T(key, k)
                                              [] v = key -> {}
                                              [] OTHER -> T(v, k)
    <2>1. CASE v = newkey
      BY <1>1, <2>1
    <2>2. CASE v = key
      BY <1>2, <2>2
    <2>3. CASE v # key /\ v # newkey
      BY <2>3 DEF Once
    <2> QED BY <2>1, <2>2, <2>3
  <1>4. \A v, u \in Var, k, l \in Keyword : v # u \/ k # l => T(v, k) \cap T(u, l) = {}
    BY DEF Once
  <1>5. \A v \in Var, k \in Keyword : T(v, k) \subseteq {a[4] : a \in done}
    BY DEF Once
  <1>6. ASSUME NEW u \in Var
        PROVE  /\ new[u]["content"] # None => IsInjective(new[u]["content"])
               /\ \E w \in Var : Tokens(new[u]["content"]) \subseteq Tokens(old[w]["content"])
    <2>1. CASE u = newkey
      BY <2>1 DEF Once
    <2>2. CASE u = key
      BY <2>2, NothingOnce
    <2>3. CASE u # key /\ u # newkey
      BY <2>3 DEF Once
    <2> QED BY <2>1, <2>2, <2>3
  <1>7. \A v \in Var, k \in Keyword : \A x \in T(v, k) : \A w \in Var : [text |-> x] \notin Tokens(old[w]["content"])
    BY DEF Once
  <1> HIDE DEF T
  <1>8. ASSUME NEW v \in Var, NEW u \in Var, NEW k \in Keyword, NEW l \in Keyword, v # u \/ k # l
        PROVE  PendingTexts(new[v][k]) \cap PendingTexts(new[u][l]) = {}
    <2>1. PendingTexts(new[v][k]) \subseteq T(v, k) \cup (IF v = newkey THEN T(key, k) ELSE {})
      BY <1>3
    <2>2. PendingTexts(new[u][l]) \subseteq T(u, l) \cup (IF u = newkey THEN T(key, l) ELSE {})
      BY <1>3
    <2>3. (v = key => PendingTexts(new[v][k]) = {}) /\ (u = key => PendingTexts(new[u][l]) = {})
      BY <1>3
    <2> QED BY <1>4, <1>8, <2>1, <2>2, <2>3
  <1>9. ASSUME NEW v \in Var, NEW k \in Keyword
        PROVE  \A x \in PendingTexts(new[v][k]) : x \in T(v, k) \/ x \in T(key, k)
    BY <1>3
  <1>10. ASSUME NEW v \in Var, NEW u \in Var, NEW k \in Keyword, NEW x \in PendingTexts(new[v][k])
         PROVE  [text |-> x] \notin Tokens(new[u]["content"])
    <2>1. PICK w \in Var : Tokens(new[u]["content"]) \subseteq Tokens(old[w]["content"])
      BY <1>6
    <2>2. [text |-> x] \notin Tokens(old[w]["content"])
      <3>1. x \in T(v, k) \/ x \in T(key, k)
        BY <1>9
      <3> QED BY <1>7, <3>1
    <2> QED BY <2>1, <2>2
  <1>11. ASSUME NEW v \in Var, NEW k \in Keyword
         PROVE  PendingTexts(new[v][k]) \subseteq {a[4] : a \in done}
    BY <1>5, <1>9
  <1>12. ASSUME NEW u \in Var, NEW a \in Appends \ done
         PROVE  [text |-> a[4]] \notin Tokens(new[u]["content"])
    <2>1. \A w \in Var : [text |-> a[4]] \notin Tokens(old[w]["content"])
      BY DEF Once
    <2> QED BY <1>6, <2>1
  <1> QED BY <1>3, <1>6, <1>8, <1>10, <1>11, <1>12 DEF Once

-----------------------------------------------------------------------------
\* update_data: what is added is no longer pending.
LEMMA UpdatedPending ==
    ASSUME Shape, TablesInv, ValueInv, NEW w \in 1 .. stores, NEW v \in Var, NEW k \in Keyword,
           Distinct(Found(w, v)[k])
    PROVE  /\ Entry(w, v)[k] = <<>> \/
                 (Entry(w, v)[k] = Found(w, v)[k] /\ Added(w, v, Overrides(w), k) = <<>>)
           /\ v \notin Set(w) => Added(w, v, Overrides(w), k) = <<>>
           /\ IsInjective(Added(w, v, Overrides(w), k))
           /\ \A t \in ToSet(Added(w, v, Overrides(w), k)) :
                 \E x \in PendingTexts(Found(w, v)[k]) : t = [text |-> x]
  <1> DEFINE O == Overrides(w)
             list == Found(w, v)[k]
  <1>1. list \in Seq(Pending)
    BY FoundIs DEF IsEntry
  <1>2. Entry(w, v)[k] = IF v \in Members(special, w, k) THEN Left(list, O) ELSE list
    BY DEF Entry, Nothing, Keyword
  <1>3. Texts(<<>>) = <<>> /\ IsInjective(<<>>) /\ ToSet(<<>>) = {}
    BY DEF Texts, IsInjective, ToSet
  <1>4. /\ IsInjective(Texts(Applies(list, O)))
        /\ \A t \in ToSet(Texts(Applies(list, O))) : \E x \in PendingTexts(list) : t = [text |-> x]
    BY <1>1, AppliesTexts
  <1>5. v \notin Set(w) /\ v \in Members(special, w, k) => Applies(list, O) = <<>>
    BY DEF Set, Hit
  <1> HIDE DEF O, list
  <1>6. Added(w, v, O, k) = IF v \in Members(special, w, k) THEN Texts(Applies(list, O)) ELSE <<>>
    BY DEF Added, list
  <1>7. Left(list, O) = IF Applies(list, O) # <<>> THEN <<>> ELSE list
    BY DEF Left
  <1>8. /\ Entry(w, v)[k] = <<>> \/ (Entry(w, v)[k] = list /\ Added(w, v, O, k) = <<>>)
        /\ v \notin Set(w) => Added(w, v, O, k) = <<>>
    BY <1>2, <1>3, <1>5, <1>6, <1>7
  <1>9. /\ IsInjective(Added(w, v, O, k))
        /\ \A t \in ToSet(Added(w, v, O, k)) : \E x \in PendingTexts(list) : t = [text |-> x]
    BY <1>3, <1>4, <1>6
  <1> QED BY <1>8, <1>9 DEF O, list

LEMMA UpdatedContent ==
    ASSUME Shape, TablesInv, ValueInv, NEW w \in 1 .. stores, NEW v \in Var,
           Once(Entries(w), used)
    PROVE  /\ Entry(w, v)["content"] # None => IsInjective(Entry(w, v)["content"])
           /\ \E u \in Var :
                 Tokens(Entry(w, v)["content"]) \subseteq
                     Tokens(Content(w, u)) \cup UNION {ToSet(Added(w, v, Overrides(w), k)) : k \in Keyword}
  <1> DEFINE O == Overrides(w)
             content == OverridesApplied(w, O).content[v]
             front == Added(w, v, O, "_prepend")
             end == Added(w, v, O, "_append")
  <1>0. \A u \in Var : Entries(w)[u] = Found(w, u)
    BY DEF Entries
  <1>1. PICK u \in Var : content = Content(w, u)
    <2>1. OverridesApplied(w, O) \in Partial(w)
      BY AppliedIs
    <2> QED BY <2>1 DEF Partial, Contents
  <1>2. IsEntry(Found(w, v)) /\ content \in {None} \cup Seq(Token)
    BY <1>1, FoundIs
  <1>3. content # None => IsInjective(content)
    BY <1>0, <1>1 DEF Once, Content
  <1>4. Entry(w, v)["content"] = Extended(w, v, content, O)
    BY DEF Entry, Nothing
  <1> HIDE DEF content
  <1>5. /\ front \in Seq(Token) /\ end \in Seq(Token)
        /\ Extended(w, v, content, O) =
              IF front = <<>> /\ end = <<>> THEN content ELSE Sum(front, content, end)
    <2>1. front \in Seq(Token) /\ end \in Seq(Token)
      BY <1>2, ExtendedType DEF Keyword
    <2>2. (\A k \in Keyword : Added(w, v, O, k) = <<>>) <=> front = <<>> /\ end = <<>>
      BY DEF Keyword
    <2> QED BY <2>1, <2>2, ExtendedIs
  <1>6. /\ IsInjective(front) /\ IsInjective(end)
        /\ \A t \in ToSet(front) : \E x \in PendingTexts(Found(w, v)["_prepend"]) : t = [text |-> x]
        /\ \A t \in ToSet(end) : \E x \in PendingTexts(Found(w, v)["_append"]) : t = [text |-> x]
    <2>1. \A k \in Keyword : Distinct(Found(w, v)[k])
      BY <1>0 DEF Once
    <2> QED BY <2>1, UpdatedPending DEF Keyword
  <1>7. {ToSet(Added(w, v, O, k)) : k \in Keyword} = {ToSet(front), ToSet(end)}
    BY DEF Keyword
  <1> HIDE DEF front, end
  <1>8. /\ PendingTexts(Found(w, v)["_prepend"]) \cap PendingTexts(Found(w, v)["_append"]) = {}
        /\ \A k \in Keyword : \A x \in PendingTexts(Found(w, v)[k]) : [text |-> x] \notin Tokens(content)
    <2>1. "_prepend" \in Keyword /\ "_append" \in Keyword /\ "_prepend" # "_append"
      BY DEF Keyword
    <2> QED BY <1>0, <1>1, <2>1 DEF Once, Content
  <1>9. /\ ToSet(front) \cap ToSet(end) = {}
        /\ ToSet(front) \cap Tokens(content) = {} /\ ToSet(end) \cap Tokens(content) = {}
    <2>1. "_prepend" \in Keyword /\ "_append" \in Keyword
      BY DEF Keyword
    <2>2. \A x, y : [text |-> x] = [text |-> y] => x = y
      <3>1. ASSUME NEW x, NEW y, [text |-> x] = [text |-> y] PROVE x = y
        <4>1. [text |-> x].text = [text |-> y].text
          BY <3>1
        <4> QED BY <4>1
      <3> QED BY <3>1
    <2>3. ASSUME NEW t \in ToSet(front), t \in ToSet(end) PROVE FALSE
      <3>1. PICK x \in PendingTexts(Found(w, v)["_prepend"]) : t = [text |-> x]
        BY <1>6
      <3>2. PICK y \in PendingTexts(Found(w, v)["_append"]) : t = [text |-> y]
        BY <1>6, <2>3
      <3>3. x = y
        BY <2>2, <3>1, <3>2
      <3> QED BY <1>8, <3>3
    <2>4. ASSUME NEW t \in ToSet(front) PROVE t \notin Tokens(content)
      BY <1>6, <1>8, <2>1
    <2>5. ASSUME NEW t \in ToSet(end) PROVE t \notin Tokens(content)
      BY <1>6, <1>8, <2>1
    <2> QED BY <2>3, <2>4, <2>5
  <1>10. CASE front = <<>> /\ end = <<>>
    BY <1>1, <1>3, <1>4, <1>5, <1>10
  <1>11. CASE ~(front = <<>> /\ end = <<>>)
    <2>1. Entry(w, v)["content"] = Sum(front, content, end)
      BY <1>4, <1>5, <1>11
    <2>2. /\ IsInjective(Sum(front, content, end))
          /\ ToSet(Sum(front, content, end)) = ToSet(front) \cup Tokens(content) \cup ToSet(end)
      BY <1>2, <1>3, <1>5, <1>6, <1>9, SumOnce
    <2>3. Tokens(Sum(front, content, end)) \subseteq ToSet(Sum(front, content, end))
      BY DEF Tokens
    <2> QED BY <1>1, <1>7, <2>1, <2>2, <2>3
  <1> QED BY <1>10, <1>11

LEMMA OnceUpdated ==
    ASSUME TextsApart, Shape, TablesInv, ValueInv, NEW w \in 1 .. stores, Once(Entries(w), used),
           NEW new, \A v \in Var : new[v] = IF v \in Set(w) THEN Entry(w, v) ELSE Found(w, v)
    PROVE  Once(new, used)
  <1> DEFINE T(v, k) == PendingTexts(Found(w, v)[k])
             A(v, k) == Added(w, v, Overrides(w), k)
  <1>0. \A u \in Var : Entries(w)[u] = Found(w, u)
    BY DEF Entries
  <1>1. /\ \A v \in Var, k \in Keyword : Distinct(Found(w, v)[k]) /\ T(v, k) \subseteq {a[4] : a \in used}
        /\ \A v, u \in Var, k, l \in Keyword : v # u \/ k # l => T(v, k) \cap T(u, l) = {}
        /\ \A v, u \in Var, k \in Keyword : \A x \in T(v, k) : [text |-> x] \notin Tokens(Content(w, u))
        /\ \A u \in Var : \A a \in Appends \ used : [text |-> a[4]] \notin Tokens(Content(w, u))
        /\ \A v \in Var : Content(w, v) # None => IsInjective(Content(w, v))
    BY <1>0 DEF Once, Content
  <1>2. ASSUME NEW v \in Var, NEW k \in Keyword
        PROVE  /\ new[v][k] = <<>> \/ (new[v][k] = Found(w, v)[k] /\ A(v, k) = <<>>)
               /\ \A t \in ToSet(A(v, k)) : \E x \in T(v, k) : t = [text |-> x]
    BY <1>1, UpdatedPending
  <1>3. ASSUME NEW v \in Var
        PROVE  /\ new[v]["content"] # None => IsInjective(new[v]["content"])
               /\ \A t \in Tokens(new[v]["content"]) :
                     \/ \E u \in Var : t \in Tokens(Content(w, u))
                     \/ \E k \in Keyword : t \in ToSet(A(v, k))
    <2>1. CASE v \in Set(w)
      <3>1. /\ Entry(w, v)["content"] # None => IsInjective(Entry(w, v)["content"])
            /\ \E u \in Var :
                  Tokens(Entry(w, v)["content"]) \subseteq
                      Tokens(Content(w, u)) \cup UNION {ToSet(A(v, k)) : k \in Keyword}
        BY UpdatedContent
      <3> HIDE DEF A
      <3> QED BY <2>1, <3>1
    <2>2. CASE v \notin Set(w)
      BY <1>1, <2>2 DEF Content
    <2> QED BY <2>1, <2>2
  <1> HIDE DEF T, A
  <1>4. Distinct(<<>>) /\ PendingTexts(<<>>) = {} /\ ToSet(<<>>) = {}
    BY NothingOnce DEF ToSet
  <1>5. ASSUME NEW v \in Var, NEW k \in Keyword
        PROVE  /\ Distinct(new[v][k]) /\ PendingTexts(new[v][k]) \subseteq T(v, k)
               /\ PendingTexts(new[v][k]) = {} \/ ToSet(A(v, k)) = {}
    BY <1>1, <1>2, <1>4 DEF T
  <1>6. \A x, y : [text |-> x] = [text |-> y] => x = y
    <2>1. ASSUME NEW x, NEW y, [text |-> x] = [text |-> y] PROVE x = y
      <3>1. [text |-> x].text = [text |-> y].text
        BY <2>1
      <3> QED BY <3>1
    <2> QED BY <2>1
  <1>7. ASSUME NEW v \in Var, NEW k \in Keyword, NEW x, [text |-> x] \in ToSet(A(v, k)) PROVE x \in T(v, k)
    <2>1. PICK y \in T(v, k) : [text |-> x] = [text |-> y]
      BY <1>2, <1>7
    <2> QED BY <1>6, <2>1
  <1>8. ASSUME NEW v \in Var, NEW u \in Var, NEW k \in Keyword, NEW x \in PendingTexts(new[v][k])
        PROVE  [text |-> x] \notin Tokens(new[u]["content"])
    <2>1. x \in T(v, k) /\ ToSet(A(v, k)) = {}
      BY <1>5
    <2>2. \A z \in Var : [text |-> x] \notin Tokens(Content(w, z))
      BY <1>1, <2>1
    <2>3. ASSUME NEW l \in Keyword, [text |-> x] \in ToSet(A(u, l)) PROVE FALSE
      <3>1. x \in T(u, l)
        BY <1>7, <2>3
      <3>2. u = v /\ l = k
        BY <1>1, <2>1, <3>1
      <3> QED BY <2>1, <2>3, <3>2
    <2> QED BY <1>3, <2>2, <2>3
  <1>9. ASSUME NEW u \in Var, NEW a \in Appends \ used
        PROVE  [text |-> a[4]] \notin Tokens(new[u]["content"])
    <2>1. \A z \in Var : [text |-> a[4]] \notin Tokens(Content(w, z))
      BY <1>1
    <2>2. ASSUME NEW l \in Keyword, [text |-> a[4]] \in ToSet(A(u, l)) PROVE FALSE
      <3>1. a[4] \in T(u, l)
        BY <1>7, <2>2
      <3>2. PICK b \in used : a[4] = b[4]
        BY <1>1, <3>1
      <3>3. a = b
        BY <3>2 DEF TextsApart, ValueInv
      <3> QED BY <3>3
    <2> QED BY <1>3, <2>1, <2>2
  <1>10. ASSUME NEW v \in Var, NEW u \in Var, NEW k \in Keyword, NEW l \in Keyword, v # u \/ k # l
         PROVE  PendingTexts(new[v][k]) \cap PendingTexts(new[u][l]) = {}
    <2>1. T(v, k) \cap T(u, l) = {}
      BY <1>1, <1>10
    <2> QED BY <1>5, <2>1
  <1>11. ASSUME NEW v \in Var, NEW k \in Keyword
         PROVE  PendingTexts(new[v][k]) \subseteq {a[4] : a \in used}
    BY <1>1, <1>5
  <1> QED BY <1>3, <1>5, <1>8, <1>9, <1>10, <1>11 DEF Once

-----------------------------------------------------------------------------
LEMMA OnceMore ==
    ASSUME NEW entry, NEW done, NEW more, done \subseteq more, Once(entry, done)
    PROVE  Once(entry, more)
  <1>1. \A v \in Var, k \in Keyword : PendingTexts(entry[v][k]) \subseteq {a[4] : a \in more}
    <2>1. {a[4] : a \in done} \subseteq {a[4] : a \in more}
      OBVIOUS
    <2> QED BY <2>1 DEF Once
  <1>2. \A u \in Var : \A a \in Appends \ more : [text |-> a[4]] \notin Tokens(entry[u]["content"])
    BY DEF Once
  <1> QED BY <1>1, <1>2 DEF Once

\* Once looks at what is found, and at nothing else.
LEMMA OnceSame ==
    ASSUME NEW old, NEW new, NEW done, \A v \in Var : new[v] = old[v], Once(old, done)
    PROVE  Once(new, done)
  BY DEF Once

\* The stores that are not written to: those below are left behind.
LEMMA OthersOnce ==
    ASSUME Shape, OnceInv, NEW w, Stays(w), LeavesBehind(w), used \subseteq used',
           ~behind[w] => Once(Entries(w)', used')
    PROVE  OnceInv'
  <1>1. ASSUME NEW s \in 1 .. stores, ~behind'[s] PROVE Once(Entries(s)', used')
    <2>1. s \in Store /\ behind'[s] = (behind[s] \/ (w # s /\ w \in above[s]))
      BY DataAssumption DEF LeavesBehind, Shape, Store
    <2>2. CASE s = w
      BY <1>1, <2>1, <2>2
    <2>3. CASE s # w
      <3>1. w \notin above[s] /\ ~behind[s] /\ w \in Store
        <4>1. w \in Store
          BY DataAssumption DEF Stays, Shape, Store
        <4>2. w # s
          BY <2>3
        <4> QED BY <1>1, <2>1, <4>1, <4>2
      <3>2. View(s)' = View(s)
        BY <3>1, LookupSame DEF Stays
      <3>3. [v \in Var |-> Found(s, v)'] = [v \in Var |-> Found(s, v)]
        BY <3>2 DEF View
      <3>4. Entries(s)' = Entries(s)
        BY <3>3 DEF Entries
      <3>5. Once(Entries(s), used)
        BY <3>1 DEF OnceInv
      <3> QED BY <3>4, <3>5, OnceMore
    <2> QED BY <2>2, <2>3
  <1>2. stores' = stores
    BY DEF Stays
  <1> QED BY <1>1, <1>2 DEF OnceInv

LEMMA SetVarOnce ==
    ASSUME Shape, IndexInv, NoneApart, ValueInv, OnceInv, NEW w \in Store, NEW v \in Var, NEW value,
           Foreign(value), SetVar(w, v, value), Local(w)
    PROVE  OnceInv'
  <1>0. /\ Stays(w) /\ w \in 1 .. stores /\ LeavesBehind(w) /\ used' = used
    BY DEF SetVar, Operation, Stays, Shape, Store
  <1> DEFINE entry == [Found(w, v) EXCEPT !["content"] = value]
  <1>1. /\ DOMAIN entry = DOMAIN Nothing /\ entry["content"] = value
        /\ \A k \in Keyword : entry[k] = Found(w, v)[k]
    <2>1. DOMAIN Found(w, v) = DOMAIN Nothing
      BY <1>0, FoundEntry DEF IndexInv
    <2> QED BY <2>1 DEF Nothing, Keyword
  <1>2. Writes(w, v, entry)
    BY <1>1 DEF SetVar, Writes
  <1> HIDE DEF entry
  <1>3. Found(w, v)' = entry /\ \A u \in Var \ {v} : Found(w, u)' = Found(w, u)
    BY <1>0, <1>2, WritesOne
  <1>4. ASSUME ~behind[w] PROVE Once(Entries(w)', used')
    <2> DEFINE old == Entries(w)
               new == Entries(w)'
    <2>1. Once(old, used) /\ used \in SUBSET Appends
      BY <1>0, <1>4 DEF OnceInv, ValueInv
    <2>2. \A u \in Var : old[u] = Found(w, u) /\ new[u] = Found(w, u)'
      BY DEF Entries
    <2> HIDE DEF old, new
    <2>3. /\ new[v]["content"] = value /\ \A k \in Keyword : new[v][k] = old[v][k]
          /\ \A u \in Var \ {v} : new[u] = old[u]
      BY <1>1, <1>3, <2>2
    <2>4. Once(new, used)
      BY <2>1, <2>3, OnceSet
    <2> QED BY <1>0, <2>4 DEF new
  <1> QED BY <1>0, <1>4, OthersOnce

LEMMA SetVarKeywordOnce ==
    ASSUME TextsApart, Shape, IndexInv, NoneApart, ValueInv, OnceInv, NEW w \in Store, NEW a \in Appends,
           SetVarKeyword(w, a[1], a[2], a[3], a[4]), Local(w)
    PROVE  OnceInv'
  <1>a. /\ a[1] \in Var /\ a[2] \in Keyword /\ [text |-> a[4], override |-> a[3]] \in Pending
        /\ a = <<a[1], a[2], a[3], a[4]>>
    BY DataAssumption DEF Pending
  <1>0. /\ Stays(w) /\ w \in 1 .. stores /\ LeavesBehind(w)
        /\ a \notin used /\ used' = used \cup {a}
    BY <1>a DEF SetVarKeyword, Operation, Stays, Shape, Store
  <1> DEFINE entry == [Found(w, a[1]) EXCEPT ![a[2]] = Append(@, [text |-> a[4], override |-> a[3]])]
  <1>1. /\ DOMAIN entry = DOMAIN Nothing /\ entry["content"] = Found(w, a[1])["content"]
        /\ entry[a[2]] = Append(Found(w, a[1])[a[2]], [text |-> a[4], override |-> a[3]])
        /\ \A k \in Keyword \ {a[2]} : entry[k] = Found(w, a[1])[k]
    <2>1. DOMAIN Found(w, a[1]) = DOMAIN Nothing
      BY <1>0, <1>a, FoundEntry DEF IndexInv
    <2> QED BY <1>a, <2>1 DEF Nothing, Keyword
  <1>2. Writes(w, a[1], entry)
    BY <1>1 DEF SetVarKeyword, Writes
  <1> HIDE DEF entry
  <1>3. Found(w, a[1])' = entry /\ \A u \in Var \ {a[1]} : Found(w, u)' = Found(w, u)
    BY <1>0, <1>a, <1>2, WritesOne
  <1>4. ASSUME ~behind[w] PROVE Once(Entries(w)', used')
    <2> DEFINE old == Entries(w)
               new == Entries(w)'
    <2>1. Once(old, used) /\ used \in SUBSET Appends /\ a \in Appends \ used
      BY <1>0, <1>4 DEF OnceInv, ValueInv
    <2>2. \A u \in Var : old[u] = Found(w, u) /\ new[u] = Found(w, u)'
      BY DEF Entries
    <2>3. Typed(old)
      BY <1>0, <2>2, FoundIs DEF Typed
    <2> HIDE DEF old, new
    <2>4. /\ new[a[1]][a[2]] = Append(old[a[1]][a[2]], [text |-> a[4], override |-> a[3]])
          /\ \A k \in Keyword \ {a[2]} : new[a[1]][k] = old[a[1]][k]
          /\ new[a[1]]["content"] = old[a[1]]["content"]
          /\ \A u \in Var \ {a[1]} : new[u] = old[u]
      BY <1>a, <1>1, <1>3, <2>2, SMTT(30)
    <2>5. Once(new, used \cup {a})
      BY <1>a, <2>1, <2>3, <2>4, OncePending
    <2> QED BY <1>0, <2>5 DEF new
  <1> QED BY <1>0, <1>4, OthersOnce

LEMMA DelVarOnce ==
    ASSUME Shape, IndexInv, NoneApart, ValueInv, OnceInv, NEW w \in Store, NEW v \in Var,
           DelVar(w, v), Local(w)
    PROVE  OnceInv'
  <1>0. /\ Stays(w) /\ w \in 1 .. stores /\ LeavesBehind(w) /\ used' = used
    BY DEF DelVar, Operation, Stays, Shape, Store
  <1>1. Writes(w, v, Nothing)
    BY DEF DelVar, Writes
  <1>2. Found(w, v)' = Nothing /\ \A u \in Var \ {v} : Found(w, u)' = Found(w, u)
    BY <1>0, <1>1, WritesOne
  <1>3. ASSUME ~behind[w] PROVE Once(Entries(w)', used')
    <2> DEFINE old == Entries(w)
               new == Entries(w)'
    <2>1. Once(old, used)
      BY <1>0, <1>3 DEF OnceInv
    <2>2. \A u \in Var : old[u] = Found(w, u) /\ new[u] = Found(w, u)'
      BY DEF Entries
    <2> HIDE DEF old, new
    <2>3. Once(new, used)
      BY <1>2, <2>1, <2>2, OnceDeleted
    <2> QED BY <1>0, <2>3 DEF new
  <1> QED BY <1>0, <1>3, OthersOnce

LEMMA RenameVarOnce ==
    ASSUME Shape, IndexInv, NoneApart, ValueInv, OnceInv, NEW w \in Store, NEW key \in Var, NEW newkey \in Var,
           key # newkey, RenameVar(w, key, newkey), Local(w)
    PROVE  OnceInv'
  <1>0. /\ Stays(w) /\ w \in 1 .. stores /\ LeavesBehind(w) /\ used' = used
    BY DEF RenameVar, Operation, Stays, Shape, Store
  <1> DEFINE entry == [f \in DOMAIN Nothing |->
                 IF f = "content" THEN Content(w, key) ELSE Found(w, newkey)[f] \o Found(w, key)[f]]
  <1>1. /\ dict' = [dict EXCEPT ![w][newkey] = entry, ![w][key] = Nothing]
        /\ DOMAIN entry = DOMAIN Nothing /\ entry["content"] = Content(w, key)
        /\ \A k \in Keyword : entry[k] = Found(w, newkey)[k] \o Found(w, key)[k]
    BY DEF RenameVar, Nothing, Keyword
  <1> HIDE DEF entry
  <1>2. /\ DOMAIN dict' = Store /\ DOMAIN dict'[w] = Var
        /\ dict'[w][newkey] = entry /\ dict'[w][key] = Nothing
        /\ \A u \in Var \ {key, newkey} : dict'[w][u] = dict[w][u]
    BY <1>1 DEF Shape, IndexInv, TablesInv
  <1>3. \A u \in Var : dict'[w][u] = dict[w][u] \/ DOMAIN dict'[w][u] = DOMAIN Nothing
    BY <1>1, <1>2
  <1>4. /\ Found(w, newkey)' = entry /\ Found(w, key)' = Nothing
        /\ \A u \in Var \ {key, newkey} : Found(w, u)' = Found(w, u)
    BY <1>0, <1>1, <1>2, <1>3, WritesSome
  <1>5. ASSUME ~behind[w] PROVE Once(Entries(w)', used')
    <2> DEFINE old == Entries(w)
               new == Entries(w)'
    <2>1. Once(old, used)
      BY <1>0, <1>5 DEF OnceInv
    <2>2. \A u \in Var : old[u] = Found(w, u) /\ new[u] = Found(w, u)'
      BY DEF Entries
    <2>3. Typed(old)
      BY <1>0, <2>2, FoundIs DEF Typed
    <2> HIDE DEF old, new
    <2>4. /\ new[newkey]["content"] = old[key]["content"]
          /\ \A k \in Keyword : new[newkey][k] = old[newkey][k] \o old[key][k]
          /\ new[key] = Nothing
          /\ \A u \in Var \ {key, newkey} : new[u] = old[u]
      BY <1>1, <1>4, <2>2 DEF Content
    <2>5. Once(new, used)
      BY <2>1, <2>3, <2>4, OnceRenamed
    <2> QED BY <1>0, <2>5 DEF new
  <1> QED BY <1>0, <1>5, OthersOnce

LEMMA UpdateDataOnce ==
    ASSUME TextsApart, Shape, IndexInv, NoneApart, ValueInv, OnceInv, NEW w \in Store,
           UpdateData(w), Local(w)
    PROVE  OnceInv'
  <1>0. /\ Stays(w) /\ w \in 1 .. stores /\ used' = used /\ above' = above /\ stores' = stores
        /\ TablesInv /\ ChainInv
    BY UpdateDataIs DEF Stays, IndexInv
  <1>1. IF Set(w) = {} THEN behind' = behind ELSE LeavesBehind(w)
    BY <1>0, UpdateDataIs
  <1>2. \A v \in Var : dict'[w][v] = IF v \notin Set(w) THEN dict[w][v] ELSE Entry(w, v)
    BY <1>0, UpdateDataIs
  <1>3. ASSUME NEW v \in Var PROVE Found(w, v)' = IF v \in Set(w) THEN Entry(w, v) ELSE Found(w, v)
    <2>1. CASE v \in Set(w)
      <3>1. DOMAIN Entry(w, v) = DOMAIN Nothing
        BY DEF Entry
      <3>2. dict'[w][v] = Entry(w, v) /\ dict'[w][v] # None
        BY <1>2, <2>1, <3>1 DEF NoneApart
      <3>3. Found(w, v)' = dict'[w][v]
        BY <1>0, <3>2, OwnFoundNext
      <3> QED BY <2>1, <3>2, <3>3
    <2>2. CASE v \notin Set(w)
      BY <1>0, <1>2, <2>2, FoundStays
    <2> QED BY <2>1, <2>2
  <1>4. CASE Set(w) # {}
    <2>1. ASSUME ~behind[w] PROVE Once(Entries(w)', used')
      <3> DEFINE new == Entries(w)'
      <3>1. Once(Entries(w), used)
        BY <1>0, <2>1 DEF OnceInv
      <3>2. \A v \in Var : new[v] = IF v \in Set(w) THEN Entry(w, v) ELSE Found(w, v)
        BY <1>3 DEF Entries
      <3> HIDE DEF new
      <3>3. Once(new, used)
        BY <1>0, <3>1, <3>2, OnceUpdated
      <3> QED BY <1>0, <3>3 DEF new
    <2> QED BY <1>0, <1>1, <1>4, <2>1, OthersOnce
  <1>5. CASE Set(w) = {}
    <2>1. ASSUME NEW s \in 1 .. stores, ~behind[s] PROVE Once(Entries(s)', used')
      <3>1. above[s] \subseteq Store
        BY DataAssumption DEF Shape, Store
      <3>2. ASSUME NEW v \in Var PROVE Found(s, v)' = Found(s, v)
        <4>1. \A t \in above[s] : dict'[t][v] = dict[t][v]
          BY <1>0, <1>2, <1>5, <3>1 DEF Stays, Local
        <4> QED BY <1>0, <4>1, FoundKept
      <3>3. Once(Entries(s), used)
        BY <2>1 DEF OnceInv
      <3>4. Entries(s)' = Entries(s)
        BY <3>2 DEF Entries
      <3> QED BY <1>0, <3>3, <3>4
    <2> QED BY <1>0, <1>1, <1>5, <2>1 DEF OnceInv
  <1> QED BY <1>4, <1>5

LEMMA CreateCopyOnce ==
    ASSUME Shape, IndexInv, OnceInv, NEW w \in Store, CreateCopy(w)
    PROVE  OnceInv'
  <1>n. PICK new \in Store : new = stores + 1
    BY DataAssumption DEF CreateCopy, Shape, Store
  <1>0. /\ w \in 1 .. stores /\ stores' = new
        /\ above' = [above EXCEPT ![new] = above[w] \cup {new}]
        /\ behind' = [behind EXCEPT ![new] = behind[w]]
        /\ dict' = dict /\ used' = used
    BY <1>n, DataAssumption DEF CreateCopy, Operation, Shape, Store
  <1>1. /\ 1 .. stores \subseteq Store /\ new \notin 1 .. stores
        /\ \A s \in 1 .. new : s \in 1 .. stores \/ s = new
    BY <1>n, DataAssumption DEF Shape, Store
  <1>2. /\ above'[new] = above[w] \cup {new} /\ behind'[new] = behind[w]
        /\ \A s \in 1 .. stores : above'[s] = above[s] /\ behind'[s] = behind[s]
    BY <1>0, <1>1 DEF Shape, IndexInv, TablesInv
  <1>3. ASSUME NEW v \in Var PROVE Found(new, v)' = Found(w, v)
    <2> DEFINE having == {t \in above[w] : dict[t][v] # None}
    <2>0. dict[new][v] = None
      BY <1>n DEF IndexInv, TablesInv, Shape, Store
    <2>1. {t \in above'[new] : dict'[t][v] # None} = having
      BY <1>0, <1>2, <2>0
    <2>2. Found(new, v)' = IF having = {} THEN Nothing ELSE dict'[Max(having)][v]
      BY <2>1 DEF Found
    <2>3. Found(w, v) = IF having = {} THEN Nothing ELSE dict[Max(having)][v]
      BY DEF Found
    <2> QED BY <1>0, <2>2, <2>3
  <1>4. ASSUME NEW s \in 1 .. stores, NEW v \in Var PROVE Found(s, v)' = Found(s, v)
    BY <1>0, <1>2, FoundKept
  <1>5. Entries(new)' = Entries(w) /\ \A s \in 1 .. stores : Entries(s)' = Entries(s)
    BY <1>3, <1>4 DEF Entries
  <1>6. ASSUME NEW s \in 1 .. new, ~behind'[s] PROVE Once(Entries(s)', used')
    <2>1. CASE s = new
      <3>1. Once(Entries(w), used)
        BY <1>0, <1>2, <1>6, <2>1 DEF OnceInv
      <3> QED BY <1>0, <1>5, <2>1, <3>1
    <2>2. CASE s # new
      <3>1. s \in 1 .. stores
        BY <1>1, <2>2
      <3>2. Once(Entries(s), used)
        BY <1>2, <1>6, <3>1 DEF OnceInv
      <3> QED BY <1>0, <1>5, <3>1, <3>2
    <2> QED BY <2>1, <2>2
  <1> QED BY <1>0, <1>6 DEF OnceInv

LEMMA OnceInit == ASSUME Init, TextsApart, NoneApart PROVE OnceInv
  <1>0. stores = 1 /\ 1 \in 1 .. stores /\ used = {} /\ 1 .. stores = {1} /\ 1 \in Store
    BY DataAssumption DEF Init, Store
  <1>1. Shape /\ IndexInv
    BY ShapeInit, IndexInit
  <1>2. ASSUME NEW v \in Var
        PROVE  /\ \A k \in Keyword : Found(1, v)[k] = <<>>
               /\ Found(1, v)["content"] = Given[v]
    <2>0. dict[1][v] = IF Given[v] # None THEN [Nothing EXCEPT !["content"] = Given[v]] ELSE None
      BY <1>0 DEF Init
    <2>1. CASE Given[v] = None
      <3>1. {t \in above[1] : dict[t][v] # None} = {}
        BY <1>0, <2>0, <2>1 DEF Init
      <3>2. Found(1, v) = Nothing
        BY <3>1 DEF Found
      <3> QED BY <2>1, <3>2, NothingOnce
    <2>2. CASE Given[v] # None
      <3>1. DOMAIN dict[1][v] = DOMAIN Nothing
        BY <2>0, <2>2
      <3>2. Found(1, v) = dict[1][v]
        BY <1>0, <1>1, <3>1, OwnFound DEF NoneApart, IndexInv
      <3> QED BY <2>0, <2>2, <3>2 DEF Nothing, Keyword
    <2> QED BY <2>1, <2>2
  <1>3. ASSUME NEW v \in Var
        PROVE  /\ Given[v] # None => IsInjective(Given[v])
               /\ \A a \in Appends : [text |-> a[4]] \notin Tokens(Given[v])
    BY DEF TextsApart, Tokens
  <1>4. \A v \in Var : Entries(1)[v] = Found(1, v)
    BY DEF Entries
  <1>5. Once(Entries(1), {})
    BY <1>2, <1>3, <1>4, NothingOnce DEF Once
  <1> QED BY <1>0, <1>5 DEF OnceInv

LEMMA OnceNext ==
    ASSUME TextsApart, NoneApart, Shape, IndexInv, ValueInv, OnceInv, [Next]_vars
    PROVE  OnceInv'
  <1>1. ASSUME UNCHANGED <<stores, above, dict, behind, used>> PROVE OnceInv'
    <2>1. \A s, u : Found(s, u)' = Found(s, u)
      BY <1>1 DEF Found
    <2>2. \A s : Entries(s)' = Entries(s)
      BY <2>1 DEF Entries
    <2>3. \A s \in 1 .. stores : ~behind[s] => Once(Entries(s), used)
      BY DEF OnceInv
    <2>4. \A s \in 1 .. stores' : ~behind'[s] => Once(Entries(s)', used')
      BY <1>1, <2>2, <2>3
    <2> QED BY <2>4 DEF OnceInv
  <1>2. CASE UNCHANGED vars
    BY <1>1, <1>2 DEF vars, history
  <1>3. CASE Next /\ vars' # vars
    <2>1. PICK s \in Store :
            \/ \E a \in Assignments : SetVar(s, a[1], a[2])
            \/ \E a \in Appends : SetVarKeyword(s, a[1], a[2], a[3], a[4])
            \/ \E v \in Deleted : DelVar(s, v)
            \/ \E r \in Renames : RenameVar(s, r[1], r[2])
            \/ CreateCopy(s)
            \/ \E v \in Read : GetVar(s, v)
            \/ \E v \in Read \cup {OVERRIDES} : GetVarRaises(s, v)
            \/ UpdateData(s)
      BY <1>3 DEF Next
    <2>2. Local(s)
      <3>1. vars' = vars \/ \E w \in Store : Local(w)
        BY ShapeNext
      <3>2. last'[2] = s
        <4>1. \E op : last' = <<op, s>>
          BY <2>1, OneOperation
        <4> QED BY <4>1
      <3> QED BY <1>3, <3>1, <3>2 DEF Local
    <2>3. ASSUME NEW a \in Assignments, SetVar(s, a[1], a[2]) PROVE OnceInv'
      <3>1. a[1] \in Var /\ Foreign(a[2])
        BY DataAssumption DEF TextsApart, Foreign
      <3> QED BY <2>2, <2>3, <3>1, SetVarOnce
    <2>4. ASSUME NEW a \in Appends, SetVarKeyword(s, a[1], a[2], a[3], a[4]) PROVE OnceInv'
      BY <2>2, <2>4, SetVarKeywordOnce
    <2>5. ASSUME NEW v \in Deleted, DelVar(s, v) PROVE OnceInv'
      BY <2>2, <2>5, DelVarOnce, DataAssumption
    <2>6. ASSUME NEW r \in Renames, RenameVar(s, r[1], r[2]) PROVE OnceInv'
      <3>1. r[1] \in Var /\ r[2] \in Var /\ r[1] # r[2]
        BY DataAssumption
      <3> QED BY <2>2, <2>6, <3>1, RenameVarOnce
    <2>7. ASSUME NEW v \in Read, GetVar(s, v) PROVE OnceInv'
      BY <1>1, <2>7 DEF GetVar
    <2>8. ASSUME NEW v \in Read \cup {OVERRIDES}, GetVarRaises(s, v) PROVE OnceInv'
      BY <1>1, <2>8 DEF GetVarRaises
    <2> QED BY <2>1, <2>2, <2>3, <2>4, <2>5, <2>6, <2>7, <2>8, CreateCopyOnce, UpdateDataOnce
  <1> QED BY <1>2, <1>3

\* No text is added twice, however often update_data is called, whatever is
\* renamed, deleted and copied in between: for any stores, names and texts.
THEOREM AppendedOnceHolds == ASSUME NoneApart, TextsApart PROVE Spec => []AppendedOnce
  <1>1. Init => OnceInv
    BY OnceInit
  <1>2. Shape /\ IndexInv /\ ValueInv /\ OnceInv /\ [Next]_vars => OnceInv'
    BY OnceNext
  <1>3. OnceInv => AppendedOnce
    <2>1. ASSUME OnceInv, NEW s \in 1 .. stores, ~behind[s], NEW v \in Var, Content(s, v) # None
          PROVE  IsInjective(Content(s, v))
      <3>1. Once(Entries(s), used) /\ Entries(s)[v] = Found(s, v)
        BY <2>1 DEF OnceInv, Entries
      <3> QED BY <2>1, <3>1 DEF Once, Content
    <2> QED BY <2>1 DEF AppendedOnce
  <1> QED BY <1>1, <1>2, <1>3, ValueHolds, PTL DEF Spec

-----------------------------------------------------------------------------
(***************************************************************************)
(* The expansion cache: the variables whose expansion ends.                *)
(***************************************************************************)
RefsOf(content, v) == {token.ref : token \in {t \in ToSet(content[v]) : IsRef(t)}}

LevelOf(content, cached, inner) ==
    {v \in Var : content[v] = None \/ cached[v] # None \/ RefsOf(content, v) \subseteq inner}

IsEnding(f, content, cached) ==
    f = [n \in 0 .. Cardinality(Var) |-> IF n = 0 THEN {} ELSE LevelOf(content, cached, f[n - 1])]

EndingOf(content, cached) == (CHOOSE f : IsEnding(f, content, cached))[Cardinality(Var)]

LEMMA Variables == Cardinality(Var) \in Nat /\ Cardinality(Var) # 0
  BY ValueAssumption, DataAssumption, FS_CardinalityType, FS_EmptySet

LEMMA EndingIs == \A s, cached : Ending(s, cached) = EndingOf(ContentOf(s), cached)
  <1> DEFINE IsOf(f, s, cached) ==
                 f = [n \in 0 .. Cardinality(Var) |->
                         IF n = 0 THEN {}
                         ELSE {v \in Var : \/ Content(s, v) = None \/ cached[v] # None
                                           \/ References(s, v) \subseteq f[n - 1]}]
  <1>1. ASSUME NEW s, NEW cached PROVE Ending(s, cached) = (CHOOSE f : IsOf(f, s, cached))[Cardinality(Var)]
    BY DEF Ending
  <1>2. ASSUME NEW s, NEW cached PROVE \A f : IsOf(f, s, cached) <=> IsEnding(f, ContentOf(s), cached)
    <2>1. \A v \in Var : References(s, v) = RefsOf(ContentOf(s), v) /\ ContentOf(s)[v] = Content(s, v)
      BY DEF References, RefsOf, ContentOf
    <2>2. \A inner : LevelOf(ContentOf(s), cached, inner) =
                         {v \in Var : \/ Content(s, v) = None \/ cached[v] # None
                                      \/ References(s, v) \subseteq inner}
      BY <2>1 DEF LevelOf
    <2> QED BY <2>2 DEF IsEnding
  <1> HIDE DEF IsOf
  <1> QED BY <1>1, <1>2 DEF EndingOf

LEMMA ExpansionsLater ==
    /\ \A s, cached : Expansions(s, cached)' = Expanding(ContentOf(s)', cached)
    /\ \A s, cached : Ending(s, cached)' = EndingOf(ContentOf(s)', cached)
  <1> DEFINE P == \A s, cached : Expansions(s, cached) = Expanding(ContentOf(s), cached)
             Q == \A s, cached : Ending(s, cached) = EndingOf(ContentOf(s), cached)
  <1>1. P /\ Q
    BY ExpansionsOf, EndingIs
  <1> HIDE DEF P, Q
  <1>2. P' /\ Q'
    BY <1>1, PTL
  <1> QED BY <1>2 DEF P, Q

\* The levels of Ending: one contains the other.
LEMMA LevelsAre ==
    ASSUME NEW content, NEW cached
    PROVE  \E L : /\ EndingOf(content, cached) = L[Cardinality(Var)] /\ L[0] = {}
                  /\ \A n \in 1 .. Cardinality(Var) :
                        L[n] = LevelOf(content, cached, L[n - 1]) /\ L[n - 1] \subseteq L[n]
                  /\ \A n \in 0 .. Cardinality(Var) : L[n] \subseteq Var
  <1> DEFINE N == Cardinality(Var)
             step == [n \in 1 .. N |-> [inner \in SUBSET Var |-> LevelOf(content, cached, inner)]]
             L == CHOOSE f : IsEnding(f, content, cached)
  <1>0. N \in Nat
    BY Variables
  <1>1. step \in Steps(N, SUBSET Var) /\ {} \in SUBSET Var
    BY DEF Steps, LevelOf
  <1>2. PICK f : Iterates(f, N, SUBSET Var, {}, step)
    <2> HIDE DEF step, N
    <2> QED BY <1>0, <1>1, Recursion
  <1>3. IsEnding(f, content, cached)
    <2>1. ASSUME NEW n \in 0 .. N
          PROVE  f[n] = IF n = 0 THEN {} ELSE LevelOf(content, cached, f[n - 1])
      <3>1. CASE n = 0
        BY <1>2, <3>1 DEF Iterates
      <3>2. CASE n # 0
        <4>1. n \in 1 .. N /\ n - 1 \in 0 .. N
          BY <1>0, <3>2
        <4>2. f[n - 1] \in SUBSET Var /\ f[n] = step[n][f[n - 1]]
          BY <1>2, <4>1 DEF Iterates
        <4> QED BY <3>2, <4>1, <4>2
      <3> QED BY <3>1, <3>2
    <2>2. f = [n \in 0 .. N |-> f[n]]
      BY <1>2 DEF Iterates
    <2>3. f = [n \in 0 .. N |-> IF n = 0 THEN {} ELSE LevelOf(content, cached, f[n - 1])]
      BY <2>1, <2>2
    <2> QED BY <2>3 DEF IsEnding
  <1>4. IsEnding(L, content, cached)
    BY <1>3
  <1>5. EndingOf(content, cached) = L[N]
    BY DEF EndingOf
  <1> HIDE DEF L, step
  <1>6. /\ L[0] = {}
        /\ \A n \in 1 .. N : L[n] = LevelOf(content, cached, L[n - 1])
    <2>1. \A n \in 0 .. N : L[n] = IF n = 0 THEN {} ELSE LevelOf(content, cached, L[n - 1])
      BY <1>4 DEF IsEnding
    <2>2. 0 \in 0 .. N /\ \A n \in 1 .. N : n \in 0 .. N /\ n # 0
      BY <1>0
    <2> QED BY <2>1, <2>2
  <1> DEFINE P == {n \in 0 .. N : L[n] \subseteq Var /\ (n # 0 => L[n - 1] \subseteq L[n])}
  <1> HIDE DEF N
  <1>7. 0 \in P
    BY <1>0, <1>6
  <1>8. ASSUME NEW n \in 0 .. N - 1, n \in P PROVE n + 1 \in P
    <2>1. n + 1 \in 1 .. N /\ n + 1 \in 0 .. N /\ (n + 1) - 1 = n
      BY <1>0
    <2>2. L[n + 1] = LevelOf(content, cached, L[n])
      <3>1. L[n + 1] = LevelOf(content, cached, L[(n + 1) - 1])
        BY <1>6, <2>1
      <3> QED BY <2>1, <3>1
    <2>3. L[n] \subseteq L[n + 1]
      <3>1. CASE n = 0
        BY <1>6, <3>1
      <3>2. CASE n # 0
        <4>1. n \in 1 .. N
          BY <1>0, <3>2
        <4>2. L[n] = LevelOf(content, cached, L[n - 1]) /\ L[n - 1] \subseteq L[n]
          BY <1>6, <1>8, <3>2, <4>1
        <4> QED BY <2>2, <4>2 DEF LevelOf
      <3> QED BY <3>1, <3>2
    <2>4. L[n + 1] \subseteq Var
      BY <2>2 DEF LevelOf
    <2> QED BY <2>1, <2>3, <2>4
  <1>9. 0 .. N \subseteq P
    <2> HIDE DEF P
    <2> QED BY <1>0, <1>7, <1>8, Counting
  <1>10. /\ \A n \in 1 .. N : L[n - 1] \subseteq L[n]
         /\ \A n \in 0 .. N : L[n] \subseteq Var
    <2>1. \A n \in 1 .. N : n \in 0 .. N /\ n # 0
      BY <1>0
    <2> QED BY <1>9, <2>1
  <1> HIDE DEF P
  <1> QED BY <1>5, <1>6, <1>10 DEF N

\* A variable's expansion ends exactly if those of its references do: there
\* are no more levels than variables.
LEMMA EndingFixed ==
    ASSUME NEW content, NEW cached
    PROVE  EndingOf(content, cached) = LevelOf(content, cached, EndingOf(content, cached))
  <1> DEFINE N == Cardinality(Var)
             Next1(S) == LevelOf(content, cached, S)
  <1>0. N \in Nat /\ N # 0 /\ IsFiniteSet(Var)
    BY Variables, ValueAssumption
  <1>1. PICK L : /\ EndingOf(content, cached) = L[N] /\ L[0] = {}
                 /\ \A n \in 1 .. N : L[n] = Next1(L[n - 1]) /\ L[n - 1] \subseteq L[n]
                 /\ \A n \in 0 .. N : L[n] \subseteq Var
    BY LevelsAre
  <1>2. \A S, T : S \subseteq T => Next1(S) \subseteq Next1(T) /\ Next1(S) \subseteq Var
    BY DEF LevelOf
  <1> HIDE DEF N, Next1
  <1>3. \A n \in 0 .. N : IsFiniteSet(L[n]) /\ Cardinality(L[n]) \in Nat
    BY <1>0, <1>1, FS_Subset, FS_CardinalityType
  <1> DEFINE P == {n \in 0 .. N : Next1(L[n]) = L[n] \/ Cardinality(L[n]) >= n}
  <1>4. 0 \in P
    <2>1. 0 \in 0 .. N
      BY <1>0
    <2> QED BY <1>3, <2>1
  <1>5. ASSUME NEW n \in 0 .. N - 1, n \in P PROVE n + 1 \in P
    <2>1. n + 1 \in 1 .. N /\ n + 1 \in 0 .. N /\ n \in 0 .. N /\ (n + 1) - 1 = n
      BY <1>0
    <2>2. L[n + 1] = Next1(L[n]) /\ L[n] \subseteq L[n + 1]
      <3>1. L[n + 1] = Next1(L[(n + 1) - 1]) /\ L[(n + 1) - 1] \subseteq L[n + 1]
        BY <1>1, <2>1
      <3> QED BY <2>1, <3>1
    <2>3. CASE Next1(L[n]) = L[n]
      BY <2>1, <2>2, <2>3
    <2>4. CASE Next1(L[n]) # L[n]
      <3>1. Cardinality(L[n]) >= n
        BY <1>5, <2>4
      <3>2. Cardinality(L[n]) <= Cardinality(L[n + 1]) /\ Cardinality(L[n]) # Cardinality(L[n + 1])
        <4>1. L[n] \in SUBSET L[n + 1] /\ IsFiniteSet(L[n + 1]) /\ L[n] # L[n + 1]
          BY <1>3, <2>1, <2>2, <2>4
        <4> QED BY <4>1, FS_Subset
      <3>3. Cardinality(L[n]) \in Nat /\ Cardinality(L[n + 1]) \in Nat
        BY <1>3, <2>1
      <3> QED BY <2>1, <3>1, <3>2, <3>3
    <2> QED BY <2>3, <2>4
  <1>6. N \in P
    <2> HIDE DEF P
    <2>1. 0 .. N \subseteq P
      BY <1>0, <1>4, <1>5, Counting
    <2> QED BY <1>0, <2>1
  <1>7. CASE Next1(L[N]) = L[N]
    BY <1>1, <1>7 DEF Next1
  <1>8. CASE Cardinality(L[N]) >= N
    <2>1. N \in 0 .. N /\ L[N] \in SUBSET Var /\ Cardinality(L[N]) \in Nat
      BY <1>0, <1>1, <1>3
    <2>2. L[N] = Var
      BY <1>0, <1>8, <2>1, FS_Subset DEF N
    <2>3. L[N] \subseteq Next1(L[N])
      <3>1. N \in 1 .. N /\ N - 1 \in 0 .. N
        BY <1>0
      <3> QED BY <1>1, <1>2, <3>1
    <2>4. Next1(L[N]) \subseteq Var
      BY <1>2
    <2> QED BY <1>1, <2>2, <2>3, <2>4 DEF Next1
  <1> QED BY <1>6, <1>7, <1>8

Parts(content, v, values) == [i \in DOMAIN content[v] |-> Part(content[v][i], values)]

LEMMA PartsAgree ==
    ASSUME NEW content, NEW v, NEW x, NEW y, \A u \in RefsOf(content, v) : x[u] = y[u]
    PROVE  Parts(content, v, x) = Parts(content, v, y)
  <1>1. ASSUME NEW i \in DOMAIN content[v] PROVE Part(content[v][i], x) = Part(content[v][i], y)
    <2>1. IsRef(content[v][i]) => content[v][i].ref \in RefsOf(content, v)
      BY DEF RefsOf, ToSet
    <2> QED BY <2>1 DEF Part
  <1> QED BY <1>1 DEF Parts

\* Where the expansion of v ends, more rounds do not change it: it is what its
\* references expand to.
LEMMA ExpandingEnds ==
    ASSUME NEW content \in Values, NEW v \in EndingOf(content, Empty)
    PROVE  Expanding(content, Empty)[v] =
               IF content[v] = None THEN None
               ELSE FlattenSeq(Parts(content, v, Expanding(content, Empty)))
  <1> DEFINE N == Cardinality(Var)
             V == Expanding(content, Empty)
  <1>0. N \in Nat /\ N # 0 /\ N \in 1 .. N /\ N - 1 \in 0 .. N /\ N \in 0 .. N
    BY Variables
  <1>1. PICK L : /\ EndingOf(content, Empty) = L[N] /\ L[0] = {}
                 /\ \A n \in 1 .. N : L[n] = LevelOf(content, Empty, L[n - 1]) /\ L[n - 1] \subseteq L[n]
                 /\ \A n \in 0 .. N : L[n] \subseteq Var
    BY LevelsAre
  <1>2. PICK g : /\ V = g[N]
                 /\ \A n \in 0 .. N : g[n] = Round(content, Empty, n, g[n - 1]) /\ g[n] \in Values
    BY EmptyIs, ExpandingIs
  <1>3. ASSUME NEW n \in 1 .. N, NEW u \in Var
        PROVE  g[n][u] = IF content[u] = None THEN None ELSE FlattenSeq(Parts(content, u, g[n - 1]))
    <2>1. n \in 0 .. N /\ n # 0
      BY <1>0
    <2>2. g[n] = Round(content, Empty, n, g[n - 1])
      BY <1>2, <2>1
    <2>3. Empty[u] = None
      BY DEF Empty
    <2> QED BY <2>1, <2>2, <2>3 DEF Round, Parts
  <1>4. ASSUME NEW n \in 1 .. N, NEW u \in L[n]
        PROVE  u \in Var /\ (content[u] = None \/ RefsOf(content, u) \subseteq L[n - 1])
    <2>1. L[n] = LevelOf(content, Empty, L[n - 1])
      BY <1>1
    <2> QED BY <1>4, <2>1 DEF LevelOf, Empty
  <1> HIDE DEF N, V
  <1> DEFINE P == {k \in 0 .. N : \A u \in L[k] : \A n, m \in k .. N : g[n][u] = g[m][u]}
  <1>5. 0 \in P
    BY <1>0, <1>1
  <1>6. ASSUME NEW k \in 0 .. N - 1, k \in P PROVE k + 1 \in P
    <2>1. k + 1 \in 1 .. N /\ k + 1 \in 0 .. N /\ (k + 1) - 1 = k
      BY <1>0
    <2>2. ASSUME NEW u \in L[k + 1], NEW n \in k + 1 .. N, NEW m \in k + 1 .. N
          PROVE  g[n][u] = g[m][u]
      <3>1. u \in Var /\ (content[u] = None \/ RefsOf(content, u) \subseteq L[k])
        <4>1. u \in Var /\ (content[u] = None \/ RefsOf(content, u) \subseteq L[(k + 1) - 1])
          BY <1>4, <2>1
        <4> QED BY <2>1, <4>1
      <3>2. n \in 1 .. N /\ m \in 1 .. N /\ n - 1 \in k .. N /\ m - 1 \in k .. N
        BY <1>0
      <3>3. CASE content[u] = None
        BY <1>3, <3>1, <3>2, <3>3
      <3>4. CASE content[u] # None
        <4>1. \A t \in RefsOf(content, u) : g[n - 1][t] = g[m - 1][t]
          BY <1>6, <3>1, <3>2, <3>4
        <4>2. Parts(content, u, g[n - 1]) = Parts(content, u, g[m - 1])
          BY <4>1, PartsAgree
        <4>3. /\ g[n][u] = FlattenSeq(Parts(content, u, g[n - 1]))
              /\ g[m][u] = FlattenSeq(Parts(content, u, g[m - 1]))
          BY <1>3, <3>1, <3>2, <3>4
        <4> QED BY <4>2, <4>3
      <3> QED BY <3>3, <3>4
    <2> QED BY <2>1, <2>2
  <1>7. 0 .. N \subseteq P
    <2> HIDE DEF P
    <2> QED BY <1>0, <1>5, <1>6, Counting
  <1>8. v \in Var /\ (content[v] = None \/ RefsOf(content, v) \subseteq L[N - 1])
    BY <1>0, <1>1, <1>4
  <1>9. CASE content[v] = None
    BY <1>0, <1>2, <1>3, <1>8, <1>9 DEF V
  <1>10. CASE content[v] # None
    <2>1. N - 1 \in P /\ N - 1 \in N - 1 .. N /\ N \in N - 1 .. N
      BY <1>0, <1>7
    <2>2. \A u \in RefsOf(content, v) : g[N - 1][u] = V[u]
      BY <1>2, <1>8, <1>10, <2>1
    <2>3. V[v] = FlattenSeq(Parts(content, v, g[N - 1]))
      BY <1>0, <1>2, <1>3, <1>8, <1>10
    <2>4. Parts(content, v, g[N - 1]) = Parts(content, v, V)
      BY <2>2, PartsAgree
    <2> QED BY <1>10, <2>3, <2>4 DEF V
  <1> QED BY <1>9, <1>10

\* What the cache has is what is read without it.
Fresh(content, cached) ==
    \A u \in Var : cached[u] # None =>
        u \in EndingOf(content, Empty) /\ cached[u] = Expanding(content, Empty)[u]

\* With such a cache the same variables end, in the same values.
LEMMA ExpandingFresh ==
    ASSUME NEW content \in Values, NEW cached \in Values, Fresh(content, cached),
           NEW v \in EndingOf(content, cached)
    PROVE  /\ v \in EndingOf(content, Empty)
           /\ Expanding(content, cached)[v] = Expanding(content, Empty)[v]
  <1> DEFINE N == Cardinality(Var)
             V == Expanding(content, Empty)
             E == EndingOf(content, Empty)
  <1>0. N \in Nat /\ N # 0 /\ N \in 1 .. N /\ N \in 0 .. N
    BY Variables
  <1>1. PICK L : /\ EndingOf(content, cached) = L[N] /\ L[0] = {}
                 /\ \A n \in 1 .. N : L[n] = LevelOf(content, cached, L[n - 1]) /\ L[n - 1] \subseteq L[n]
                 /\ \A n \in 0 .. N : L[n] \subseteq Var
    BY LevelsAre
  <1>2. PICK g : /\ Expanding(content, cached) = g[N]
                 /\ \A n \in 0 .. N : g[n] = Round(content, cached, n, g[n - 1]) /\ g[n] \in Values
    BY ExpandingIs
  <1>3. ASSUME NEW n \in 1 .. N, NEW u \in Var
        PROVE  g[n][u] = IF content[u] = None THEN None
                         ELSE IF cached[u] # None THEN cached[u]
                         ELSE FlattenSeq(Parts(content, u, g[n - 1]))
    <2>1. n \in 0 .. N /\ n # 0
      BY <1>0
    <2>2. g[n] = Round(content, cached, n, g[n - 1])
      BY <1>2, <2>1
    <2> QED BY <2>1, <2>2 DEF Round, Parts
  <1>4. E = LevelOf(content, Empty, E)
    BY EndingFixed
  <1>5. \A u \in E : V[u] = IF content[u] = None THEN None ELSE FlattenSeq(Parts(content, u, V))
    BY ExpandingEnds
  <1>6. \A u \in Var : cached[u] # None => u \in E /\ cached[u] = V[u]
    BY DEF Fresh
  <1> HIDE DEF N, V, E
  <1> DEFINE P == {k \in 0 .. N : \A u \in L[k] : u \in E /\ \A n \in k .. N : g[n][u] = V[u]}
  <1>7. 0 \in P
    BY <1>0, <1>1
  <1>8. ASSUME NEW k \in 0 .. N - 1, k \in P PROVE k + 1 \in P
    <2>1. k + 1 \in 1 .. N /\ k + 1 \in 0 .. N /\ (k + 1) - 1 = k
      BY <1>0
    <2>2. L[k + 1] = LevelOf(content, cached, L[k])
      <3>1. L[k + 1] = LevelOf(content, cached, L[(k + 1) - 1])
        BY <1>1, <2>1
      <3> QED BY <2>1, <3>1
    <2>3. ASSUME NEW u \in L[k + 1] PROVE u \in E /\ \A n \in k + 1 .. N : g[n][u] = V[u]
      <3>1. u \in Var /\ (content[u] = None \/ cached[u] # None \/ RefsOf(content, u) \subseteq L[k])
        BY <2>2 DEF LevelOf
      <3>2. \A n \in k + 1 .. N : n \in 1 .. N /\ n - 1 \in k .. N
        BY <1>0
      <3>3. CASE content[u] = None
        <4>1. u \in E
          BY <1>4, <3>1, <3>3 DEF LevelOf
        <4> QED BY <1>3, <1>5, <3>1, <3>2, <3>3, <4>1
      <3>4. CASE content[u] # None /\ cached[u] # None
        BY <1>3, <1>6, <3>1, <3>2, <3>4
      <3>5. CASE content[u] # None /\ cached[u] = None
        <4>1. RefsOf(content, u) \subseteq L[k]
          BY <3>1, <3>5
        <4>2. u \in E
          BY <1>4, <1>8, <3>1, <4>1 DEF LevelOf
        <4>3. ASSUME NEW n \in k + 1 .. N PROVE g[n][u] = V[u]
          <5>1. \A t \in RefsOf(content, u) : g[n - 1][t] = V[t]
            BY <1>8, <3>2, <4>1
          <5>2. Parts(content, u, g[n - 1]) = Parts(content, u, V)
            BY <5>1, PartsAgree
          <5>3. g[n][u] = FlattenSeq(Parts(content, u, g[n - 1]))
            BY <1>3, <3>1, <3>2, <3>5
          <5> QED BY <1>5, <3>5, <4>2, <5>2, <5>3
        <4> QED BY <4>2, <4>3
      <3> QED BY <3>3, <3>4, <3>5
    <2> QED BY <2>1, <2>3
  <1>9. N \in P
    <2> HIDE DEF P
    <2>1. 0 .. N \subseteq P
      BY <1>0, <1>7, <1>8, Counting
    <2> QED BY <1>0, <2>1
  <1> QED BY <1>0, <1>1, <1>2, <1>9 DEF E, V

\* What an expansion comes to ends if the expansion does.
LEMMA VisitedEnd ==
    ASSUME NEW s, NEW v \in Ending(s, expand_cache[s])
    PROVE  Visited(s, v) \subseteq Ending(s, expand_cache[s])
  <1> DEFINE N == Cardinality(Var)
             E == Ending(s, expand_cache[s])
             next(u) == IF expand_cache[s][u] # None \/ Content(s, u) = None THEN {} ELSE References(s, u)
             Further(S) == S \cup UNION {next(u) : u \in S}
             IsWithin(f) == f = [n \in 0 .. N |-> IF n = 0 THEN {v} ELSE Further(f[n - 1])]
             step == [n \in 1 .. N |-> [S \in SUBSET E |-> Further(S)]]
             g == CHOOSE f : IsWithin(f)
  <1>0. N \in Nat
    BY Variables
  <1>1. ASSUME NEW u \in E PROVE next(u) \subseteq E
    <2>1. E = LevelOf(ContentOf(s), expand_cache[s], E)
      BY EndingIs, EndingFixed
    <2>2. u \in Var /\ \/ Content(s, u) = None \/ expand_cache[s][u] # None
                       \/ RefsOf(ContentOf(s), u) \subseteq E
      <3> HIDE DEF E
      <3> QED BY <1>1, <2>1 DEF LevelOf, ContentOf
    <2>3. References(s, u) = RefsOf(ContentOf(s), u)
      BY <2>2 DEF References, RefsOf, ContentOf
    <2> QED BY <2>2, <2>3
  <1>2. Visited(s, v) = g[N]
    BY DEF Visited
  <1>3. v \in E
    OBVIOUS
  <1> HIDE DEF E
  <1>4. \A S \in SUBSET E : Further(S) \in SUBSET E
    BY <1>1
  <1> HIDE DEF next, Further
  <1>5. step \in Steps(N, SUBSET E) /\ {v} \in SUBSET E
    BY <1>3, <1>4 DEF Steps
  <1>6. PICK f : Iterates(f, N, SUBSET E, {v}, step)
    <2> HIDE DEF step, N
    <2> QED BY <1>0, <1>5, Recursion
  <1>7. IsWithin(f)
    <2>1. ASSUME NEW n \in 0 .. N PROVE f[n] = IF n = 0 THEN {v} ELSE Further(f[n - 1])
      <3>1. CASE n = 0
        BY <1>6, <3>1 DEF Iterates
      <3>2. CASE n # 0
        <4>1. n \in 1 .. N /\ n - 1 \in 0 .. N
          BY <1>0, <3>2
        <4>2. f[n - 1] \in SUBSET E /\ f[n] = step[n][f[n - 1]]
          BY <1>6, <4>1 DEF Iterates
        <4> QED BY <3>2, <4>1, <4>2
      <3> QED BY <3>1, <3>2
    <2>2. f = [n \in 0 .. N |-> f[n]]
      BY <1>6 DEF Iterates
    <2> QED BY <2>1, <2>2
  <1>8. IsWithin(g)
    BY <1>7
  <1> HIDE DEF g, step
  <1>9. \A n \in 0 .. N : g[n] = IF n = 0 THEN {v} ELSE Further(g[n - 1])
    BY <1>8
  <1> DEFINE P == {n \in 0 .. N : g[n] \in SUBSET E}
  <1> HIDE DEF N, IsWithin
  <1>10. 0 \in P
    BY <1>0, <1>5, <1>9
  <1>11. ASSUME NEW n \in 0 .. N - 1, n \in P PROVE n + 1 \in P
    <2>1. n + 1 \in 0 .. N /\ (n + 1) - 1 = n /\ n + 1 # 0
      BY <1>0
    <2>2. g[n + 1] = Further(g[n])
      <3>1. g[n + 1] = Further(g[(n + 1) - 1])
        BY <1>9, <2>1
      <3> QED BY <2>1, <3>1
    <2> QED BY <1>4, <1>11, <2>1, <2>2
  <1>12. N \in P
    <2> HIDE DEF P
    <2>1. 0 .. N \subseteq P
      BY <1>0, <1>10, <1>11, Counting
    <2> QED BY <1>0, <2>1
  <1> QED BY <1>2, <1>12 DEF E

FreshInv == \A s \in 1 .. stores : ~behind[s] => Fresh(ContentOf(s), expand_cache[s])

\* What is cached when expansions end is fresh.
LEMMA CacheWithFresh ==
    ASSUME Shape, ValueInv, NEW s \in 1 .. stores, Fresh(ContentOf(s), expand_cache[s]),
           NEW names \in SUBSET Ending(s, expand_cache[s])
    PROVE  Fresh(ContentOf(s), CacheWith(s, names))
  <1>1. ContentOf(s) \in Values
    BY FoundIs DEF ContentOf, Values
  <1>2. expand_cache[s] \in Values
    BY DataAssumption DEF ValueInv, Shape, Store
  <1>3. ASSUME NEW u \in Var, CacheWith(s, names)[u] # None
        PROVE  /\ u \in EndingOf(ContentOf(s), Empty)
               /\ CacheWith(s, names)[u] = Expanding(ContentOf(s), Empty)[u]
    <2>1. CASE u \in names
      <3>1. u \in EndingOf(ContentOf(s), expand_cache[s])
        BY <2>1, EndingIs
      <3>2. /\ u \in EndingOf(ContentOf(s), Empty)
            /\ Expanding(ContentOf(s), expand_cache[s])[u] = Expanding(ContentOf(s), Empty)[u]
        BY <1>1, <1>2, <3>1, ExpandingFresh
      <3>3. CacheWith(s, names)[u] = Expanding(ContentOf(s), expand_cache[s])[u]
        BY <2>1, ExpansionsOf DEF CacheWith
      <3> QED BY <3>2, <3>3
    <2>2. CASE u \notin names
      <3>1. CacheWith(s, names)[u] = expand_cache[s][u]
        BY <2>2 DEF CacheWith
      <3> QED BY <1>3, <3>1 DEF Fresh
    <2> QED BY <2>1, <2>2
  <1> QED BY <1>3 DEF Fresh

LEMMA EmptyFresh == \A content : Fresh(content, Empty)
  BY DEF Fresh, Empty

\* A write clears the cache of its store; the copies below it are left behind.
LEMMA WriteFresh ==
    ASSUME Shape, TablesInv, ValueInv, FreshInv, NEW w \in 1 .. stores, Local(w), LeavesBehind(w),
           stores' = stores, expand_cache' = [expand_cache EXCEPT ![w] = Empty]
    PROVE  FreshInv'
  <1>1. \A s \in 1 .. stores : s \in Store
    BY DataAssumption DEF Shape, Store
  <1>2. ASSUME NEW s \in 1 .. stores, ~behind'[s] PROVE Fresh(ContentOf(s)', expand_cache'[s])
    <2>1. CASE s = w
      BY <1>1, <2>1, EmptyFresh DEF ValueInv
    <2>2. CASE s # w
      <3>1. ~behind[s] /\ w \notin above[s]
        BY <1>1, <1>2, <2>2 DEF LeavesBehind
      <3>2. View(s)' = View(s)
        BY <1>1, <3>1, LookupSame
      <3>3. \A v \in Var : Found(s, v)' = Found(s, v)
        BY <3>2 DEF View
      <3>4. ContentOf(s)' = ContentOf(s)
        BY <3>3 DEF ContentOf, Content
      <3>5. expand_cache'[s] = expand_cache[s]
        BY <1>1, <2>2 DEF ValueInv
      <3> QED BY <3>1, <3>4, <3>5 DEF FreshInv
    <2> QED BY <2>1, <2>2
  <1> QED BY <1>2 DEF FreshInv, Fresh

\* An operation that writes to no variable, and caches what is fresh.
LEMMA ReadFresh ==
    ASSUME Shape, ChainInv, ValueInv, FreshInv, NEW w \in 1 .. stores, NEW cache, stores' = stores,
           \A s \in 1 .. stores : above'[s] = above[s] /\ (~behind'[s] => ~behind[s]),
           \A s \in 1 .. stores, v \in Var : dict'[s][v] = dict[s][v],
           expand_cache' = [expand_cache EXCEPT ![w] = cache],
           ~behind[w] => Fresh(ContentOf(w), cache)
    PROVE  FreshInv'
  <1>1. \A s \in 1 .. stores : s \in Store
    BY DataAssumption DEF Shape, Store
  <1>2. ASSUME NEW s \in 1 .. stores, ~behind'[s]
        PROVE  Fresh(ContentOf(s)', expand_cache'[s])
    <2>0. above[s] \subseteq 1 .. stores
      BY DataAssumption DEF ChainInv, Shape, Store
    <2>1. ASSUME NEW v \in Var PROVE Found(s, v)' = Found(s, v)
      <3> DEFINE having == {t \in above[s] : dict[t][v] # None}
      <3>1. having' = having
        BY <2>0
      <3>2. having # {} => Max(having) \in above[s]
        BY <1>1, <2>0, Greatest
      <3> QED BY <2>0, <3>1, <3>2 DEF Found
    <2>2. ContentOf(s)' = ContentOf(s)
      BY <2>1 DEF ContentOf, Content
    <2>3. ~behind[s]
      BY <1>2
    <2>4. expand_cache'[s] = IF s = w THEN cache ELSE expand_cache[s]
      BY <1>1 DEF ValueInv
    <2> QED BY <2>2, <2>3, <2>4 DEF FreshInv
  <1> QED BY <1>2 DEF FreshInv, Fresh

LEMMA FreshInit == ASSUME Init PROVE FreshInv
  <1>1. \A s \in 1 .. stores : s \in Store
    BY DataAssumption DEF Init, Store
  <1> QED BY <1>1, EmptyFresh DEF Init, FreshInv

LEMMA CreateCopyFresh ==
    ASSUME Shape, ChainInv, TablesInv, ValueInv, FreshInv, NEW w \in Store, CreateCopy(w), Local(w)
    PROVE  FreshInv'
  <1> DEFINE new == stores + 1
  <1>1. /\ stores' = new /\ new \in Store /\ stores \in Nat /\ UNCHANGED <<dict, expand_cache>>
        /\ \A s \in 1 .. stores : s \in Store /\ s # new
    BY DataAssumption DEF CreateCopy, Shape, Store
  <1>2. \A s \in 1 .. stores : behind'[s] = behind[s] /\ above'[s] = above[s]
    BY <1>1 DEF CreateCopy, Local, TablesInv
  <1>3. ASSUME NEW s \in 1 .. stores, ~behind'[s] PROVE Fresh(ContentOf(s), expand_cache[s])'
    <2>1. \A v \in Var : Found(s, v)' = Found(s, v)
      BY <1>1, <1>2 DEF Found
    <2>2. ContentOf(s)' = ContentOf(s)
      BY <2>1 DEF ContentOf, Content
    <2> QED BY <1>1, <1>2, <1>3, <2>2 DEF FreshInv, Fresh
  <1>4. ASSUME NEW s \in Store, s = new PROVE Fresh(ContentOf(s), expand_cache[s])'
    <2>1. expand_cache'[s] = Empty
      BY <1>1, <1>4 DEF ValueInv
    <2> QED BY <2>1, EmptyFresh
  <1>5. \A s \in 1 .. stores' : s \in 1 .. stores \/ s = new
    BY <1>1
  <1> QED BY <1>1, <1>3, <1>4, <1>5 DEF FreshInv

LEMMA GetVarFresh ==
    ASSUME Shape, ChainInv, TablesInv, ValueInv, FreshInv, NEW w \in Store, NEW v \in Var,
           GetVar(w, v) \/ GetVarRaises(w, v), Local(w)
    PROVE  FreshInv'
  <1>1. w \in 1 .. stores /\ UNCHANGED <<stores, above, dict, behind>>
    BY DEF GetVar, GetVarRaises, Operation, Shape, Store
  <1>2. PICK names \in SUBSET Ending(w, expand_cache[w]) :
            expand_cache' = [expand_cache EXCEPT ![w] = CacheWith(w, names)]
    <2>1. CASE GetVar(w, v)
      BY <2>1, VisitedEnd DEF GetVar
    <2>2. CASE GetVarRaises(w, v)
      BY <2>2 DEF GetVarRaises
    <2> QED BY <2>1, <2>2
  <1>3. ~behind[w] => Fresh(ContentOf(w), CacheWith(w, names))
    BY <1>1, CacheWithFresh DEF FreshInv
  <1> QED BY <1>1, <1>2, <1>3, ReadFresh

LEMMA UpdateDataFresh ==
    ASSUME Shape, ChainInv, TablesInv, ValueInv, FreshInv, NEW w \in Store, UpdateData(w), Local(w)
    PROVE  FreshInv'
  <1>1. w \in 1 .. stores /\ stores' = stores /\ above' = above
    BY UpdateDataIs
  <1>2. CASE Set(w) = {}
    <2>1. UNCHANGED behind /\ \A v \in Var : dict'[w][v] = dict[w][v]
      BY <1>2, UpdateDataIs
    <2>2. \A s \in 1 .. stores : s \in Store
      BY DataAssumption DEF Shape, Store
    <2>3. \A s \in 1 .. stores, v \in Var : dict'[s][v] = dict[s][v]
      BY <2>1, <2>2 DEF Local
    <2>4. OVERRIDES \in Ending(w, expand_cache[w])
      BY DEF UpdateData
    <2>5. expand_cache' = [expand_cache EXCEPT ![w] = CacheWith(w, Visited(w, OVERRIDES))]
      BY <1>2, UpdateDataIs
    <2>6. ~behind[w] => Fresh(ContentOf(w), CacheWith(w, Visited(w, OVERRIDES)))
      BY <1>1, <2>4, VisitedEnd, CacheWithFresh DEF FreshInv
    <2> QED BY <1>1, <2>1, <2>3, <2>5, <2>6, ReadFresh
  <1>3. CASE Set(w) # {}
    <2>1. LeavesBehind(w) /\ expand_cache' = [expand_cache EXCEPT ![w] = Empty]
      BY <1>3, UpdateDataIs
    <2> QED BY <1>1, <2>1, WriteFresh
  <1> QED BY <1>2, <1>3

Wrote(s) ==
    /\ s <= stores /\ LeavesBehind(s) /\ stores' = stores
    /\ expand_cache' = [expand_cache EXCEPT ![s] = Empty]

LEMMA FreshNext ==
    ASSUME Shape, IndexInv, ValueInv, FreshInv, [Next]_vars
    PROVE  FreshInv'
  <1>0. ChainInv /\ TablesInv
    BY DEF IndexInv
  <1>1. CASE UNCHANGED vars
    BY <1>1 DEF vars, history, FreshInv, Fresh, ContentOf, Content, Found
  <1>2. CASE Next /\ vars' # vars
    <2>1. PICK s \in Store :
            \/ \E a \in Assignments : SetVar(s, a[1], a[2])
            \/ \E a \in Appends : SetVarKeyword(s, a[1], a[2], a[3], a[4])
            \/ \E v \in Deleted : DelVar(s, v)
            \/ \E r \in Renames : RenameVar(s, r[1], r[2])
            \/ CreateCopy(s)
            \/ \E v \in Read : GetVar(s, v)
            \/ \E v \in Read \cup {OVERRIDES} : GetVarRaises(s, v)
            \/ UpdateData(s)
      BY <1>2 DEF Next
    <2>2. Local(s)
      <3>1. vars' = vars \/ \E w \in Store : Local(w)
        BY ShapeNext
      <3>2. last'[2] = s
        <4>1. \E op : last' = <<op, s>>
          BY <2>1, OneOperation
        <4> QED BY <4>1
      <3> QED BY <1>2, <3>1, <3>2 DEF Local
    <2>3. ASSUME \/ \E a \in Assignments : SetVar(s, a[1], a[2])
                 \/ \E a \in Appends : SetVarKeyword(s, a[1], a[2], a[3], a[4])
                 \/ \E v \in Deleted : DelVar(s, v)
                 \/ \E r \in Renames : RenameVar(s, r[1], r[2])
          PROVE  FreshInv'
      <3>1. /\ s \in 1 .. stores /\ LeavesBehind(s) /\ stores' = stores
            /\ expand_cache' = [expand_cache EXCEPT ![s] = Empty]
        <4>1. \A v, value : SetVar(s, v, value) => Wrote(s)
          BY DEF SetVar, Operation, Wrote
        <4>2. \A v, k, o, text : SetVarKeyword(s, v, k, o, text) => Wrote(s)
          BY DEF SetVarKeyword, Operation, Wrote
        <4>3. \A v : DelVar(s, v) => Wrote(s)
          BY DEF DelVar, Operation, Wrote
        <4>4. \A key, newkey : RenameVar(s, key, newkey) => Wrote(s)
          BY DEF RenameVar, Operation, Wrote
        <4>5. Wrote(s)
          BY <2>3, <4>1, <4>2, <4>3, <4>4
        <4> QED BY <4>5 DEF Wrote, Shape, Store
      <3> QED BY <1>0, <2>2, <3>1, WriteFresh
    <2>4. ASSUME NEW v \in Read \cup {OVERRIDES}, GetVar(s, v) \/ GetVarRaises(s, v) PROVE FreshInv'
      BY <1>0, <2>2, <2>4, GetVarFresh, DataAssumption
    <2> QED BY <1>0, <2>1, <2>2, <2>3, <2>4, CreateCopyFresh, UpdateDataFresh
  <1> QED BY <1>1, <1>2

\* What is read from the expansion cache is what would be read without it,
\* whatever the variables refer to: also if an expansion that came back to
\* itself left some of what it read in the cache.
THEOREM CacheFreshHolds == ASSUME NoneApart PROVE Spec => []CacheFresh
  <1>1. Init => FreshInv
    BY FreshInit
  <1>2. Shape /\ IndexInv /\ ValueInv /\ FreshInv /\ [Next]_vars => FreshInv'
    BY FreshNext
  <1>3. FreshInv => CacheFresh
    BY ExpansionsOf DEF FreshInv, Fresh, CacheFresh
  <1> QED BY <1>1, <1>2, <1>3, ValueHolds, PTL DEF Spec
=============================================================================
