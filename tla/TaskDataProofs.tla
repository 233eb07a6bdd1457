--------------------------- MODULE TaskDataProofs ---------------------------
(***************************************************************************)
(* What resolution leaves for the queue, for any metadata, any targets on  *)
(* the command line and any number of retries: the queue is closed, what   *)
(* cannot be built is out of it, and nothing is given up without a reason. *)
(***************************************************************************)
EXTENDS TaskData, FiniteSetTheorems, SequenceTheorems, WellFoundedInduction, TLAPS

-----------------------------------------------------------------------------
(* Counting and recursion *)

\* A set of natural numbers has a least element.
LEMMA Least ==
    ASSUME NEW S \in SUBSET Nat, S # {}
    PROVE  \E m \in S : \A n \in S : m <= n
  <1>1. PICK m \in S : \A n \in S : <<n, m>> \notin OpToRel(<, Nat)
    BY NatLessThanWellFounded, WFMin
  <1>2. \A n \in S : ~(n < m)
    BY <1>1 DEF OpToRel
  <1> QED BY <1>2

\* Induction up to N, over a set.
LEMMA Counting ==
    ASSUME NEW N \in Nat, NEW P, 0 \in P,
           \A n \in 0 .. N - 1 : n \in P => n + 1 \in P
    PROVE  0 .. N \subseteq P
  <1> DEFINE missing == {n \in 0 .. N : n \notin P}
  <1> SUFFICES ASSUME missing # {} PROVE FALSE
    OBVIOUS
  <1>0. missing \in SUBSET Nat
    OBVIOUS
  <1>1. PICK m \in missing : \A n \in missing : m <= n
    <2> HIDE DEF missing
    <2> QED BY <1>0, Least
  <1>2. m - 1 \in 0 .. N - 1 /\ m - 1 \notin missing
    BY <1>1
  <1> QED BY <1>2

Steps(N, X) == [1 .. N -> [X -> X]]

Iterates(f, N, X, x, step) ==
    f \in [0 .. N -> X] /\ f[0] = x /\ \A n \in 1 .. N : f[n] = step[n][f[n - 1]]

\* What is defined step by step exists.
LEMMA Recursion ==
    ASSUME NEW N \in Nat, NEW X, NEW x \in X, NEW step \in Steps(N, X)
    PROVE  \E f : Iterates(f, N, X, x, step)
  <1> DEFINE P == {m \in Nat : \E f \in [0 .. m -> X] :
                      f[0] = x /\ \A n \in (1 .. m) \cap (1 .. N) : f[n] = step[n][f[n - 1]]}
  <1>1. 0 \in P
    <2> DEFINE f == [n \in 0 .. 0 |-> x]
    <2>1. f \in [0 .. 0 -> X] /\ f[0] = x /\ (1 .. 0) \cap (1 .. N) = {} /\ 0 \in Nat
      OBVIOUS
    <2> HIDE DEF f
    <2> QED BY <2>1
  <1>2. ASSUME NEW m \in 0 .. N - 1, m \in P PROVE m + 1 \in P
    <2>1. PICK f \in [0 .. m -> X] :
              f[0] = x /\ \A n \in (1 .. m) \cap (1 .. N) : f[n] = step[n][f[n - 1]]
      BY <1>2
    <2> DEFINE g == [n \in 0 .. m + 1 |-> IF n = m + 1 THEN step[m + 1][f[m]] ELSE f[n]]
    <2>2. step[m + 1][f[m]] \in X
      BY <1>2 DEF Steps
    <2>3. g \in [0 .. m + 1 -> X] /\ g[0] = x
      BY <2>1, <2>2
    <2>4. ASSUME NEW n \in 1 .. m + 1, n \in 1 .. N PROVE g[n] = step[n][g[n - 1]]
      <3>1. CASE n = m + 1
        <4>1. g[n] = step[m + 1][f[m]] /\ g[n - 1] = f[m]
          BY <3>1
        <4> QED BY <3>1, <4>1
      <3>2. CASE n # m + 1
        <4>1. n \in 1 .. m /\ n - 1 \in 0 .. m
          BY <3>2
        <4>2. g[n] = f[n] /\ g[n - 1] = f[n - 1]
          BY <4>1
        <4> QED BY <2>1, <2>4, <4>1, <4>2
      <3> QED BY <3>1, <3>2
    <2>5. m + 1 \in Nat
      OBVIOUS
    <2> HIDE DEF g
    <2> QED BY <2>3, <2>4, <2>5
  <1> HIDE DEF P
  <1>3. N \in P
    <2>1. 0 .. N \subseteq P
      BY <1>1, <1>2, Counting
    <2> QED BY <2>1
  <1>4. (1 .. N) \cap (1 .. N) = 1 .. N
    OBVIOUS
  <1> QED BY <1>3, <1>4 DEF P, Iterates

-----------------------------------------------------------------------------
(* Sequences *)

LEMMA Appended ==
    ASSUME NEW T, NEW s \in Seq(T), NEW e \in T
    PROVE  /\ Append(s, e) \in Seq(T) /\ Append(s, e) # <<>>
           /\ ToSet(Append(s, e)) = ToSet(s) \cup {e}
           /\ IsInjective(s) /\ e \notin ToSet(s) => IsInjective(Append(s, e))
  <1>1. /\ Append(s, e) \in Seq(T) /\ Len(Append(s, e)) = Len(s) + 1 /\ Len(s) \in Nat
        /\ DOMAIN s = 1 .. Len(s) /\ DOMAIN Append(s, e) = 1 .. Len(s) + 1
    OBVIOUS
  <1>2. /\ Append(s, e)[Len(s) + 1] = e
        /\ \A i \in 1 .. Len(s) : Append(s, e)[i] = s[i]
    OBVIOUS
  <1>3. \A i \in 1 .. Len(s) + 1 : i \in 1 .. Len(s) \/ i = Len(s) + 1
    BY <1>1
  <1>4. Len(s) + 1 \in 1 .. Len(s) + 1 /\ \A i \in 1 .. Len(s) : i \in 1 .. Len(s) + 1
    BY <1>1
  <1>5. ToSet(Append(s, e)) = ToSet(s) \cup {e}
    BY <1>1, <1>2, <1>3, <1>4 DEF ToSet
  <1>6. ASSUME IsInjective(s), e \notin ToSet(s) PROVE IsInjective(Append(s, e))
    <2>1. \A i \in 1 .. Len(s) : s[i] # e
      BY <1>1, <1>6 DEF ToSet
    <2> QED BY <1>1, <1>2, <1>3, <1>6, <2>1 DEF IsInjective
  <1> QED BY <1>1, <1>5, <1>6

LEMMA Pushed ==
    ASSUME NEW T, NEW s \in Seq(T), NEW e \in T
    PROVE  /\ <<e>> \o s \in Seq(T) /\ ToSet(<<e>> \o s) = ToSet(s) \cup {e}
  <1>1. /\ <<e>> \o s \in Seq(T) /\ Len(<<e>> \o s) = Len(s) + 1 /\ Len(s) \in Nat
        /\ DOMAIN s = 1 .. Len(s) /\ DOMAIN (<<e>> \o s) = 1 .. Len(s) + 1
    OBVIOUS
  <1>2. /\ (<<e>> \o s)[1] = e
        /\ \A i \in 2 .. Len(s) + 1 : (<<e>> \o s)[i] = s[i - 1]
        /\ \A i \in 1 .. Len(s) : (<<e>> \o s)[i + 1] = s[i]
    OBVIOUS
  <1>3. /\ \A i \in 1 .. Len(s) + 1 : i = 1 \/ (i \in 2 .. Len(s) + 1 /\ i - 1 \in 1 .. Len(s))
        /\ 1 \in 1 .. Len(s) + 1 /\ \A i \in 1 .. Len(s) : i + 1 \in 1 .. Len(s) + 1
    BY <1>1
  <1>4. ASSUME NEW x \in ToSet(<<e>> \o s) PROVE x \in ToSet(s) \cup {e}
    BY <1>1, <1>2, <1>3 DEF ToSet
  <1>5. ASSUME NEW x \in ToSet(s) \cup {e} PROVE x \in ToSet(<<e>> \o s)
    <2>1. PICK j \in 1 .. Len(s) + 1 : x = (<<e>> \o s)[j]
      <3>1. CASE x = e
        BY <1>2, <1>3, <3>1
      <3>2. CASE x \in ToSet(s)
        <4>1. PICK i \in 1 .. Len(s) : x = s[i]
          BY <1>1, <3>2 DEF ToSet
        <4> QED BY <1>2, <1>3, <4>1
      <3> QED BY <1>5, <3>1, <3>2
    <2> QED BY <1>1, <2>1 DEF ToSet
  <1> QED BY <1>1, <1>4, <1>5

LEMMA Popped ==
    ASSUME NEW T, NEW s \in Seq(T), s # <<>>
    PROVE  /\ Head(s) \in T /\ Tail(s) \in Seq(T)
           /\ ToSet(s) = ToSet(Tail(s)) \cup {Head(s)}
  <1>1. /\ Len(s) \in Nat /\ Len(s) >= 1 /\ DOMAIN s = 1 .. Len(s) /\ Head(s) = s[1]
        /\ Tail(s) \in Seq(T) /\ Len(Tail(s)) = Len(s) - 1 /\ DOMAIN Tail(s) = 1 .. Len(s) - 1
        /\ \A i \in 1 .. Len(s) - 1 : Tail(s)[i] = s[i + 1]
    OBVIOUS
  <1>2. /\ \A i \in 1 .. Len(s) : i = 1 \/ (i - 1 \in 1 .. Len(s) - 1 /\ (i - 1) + 1 = i)
        /\ 1 \in 1 .. Len(s) /\ \A i \in 1 .. Len(s) - 1 : i + 1 \in 1 .. Len(s)
    BY <1>1
  <1>3. ASSUME NEW x \in ToSet(s), x # Head(s) PROVE x \in ToSet(Tail(s))
    <2>1. PICK i \in 1 .. Len(s) : x = s[i]
      BY <1>1 DEF ToSet
    <2>2. i - 1 \in 1 .. Len(s) - 1 /\ Tail(s)[i - 1] = x
      BY <1>1, <1>2, <1>3, <2>1
    <2> QED BY <1>1, <2>2 DEF ToSet
  <1>4. ASSUME NEW x \in ToSet(Tail(s)) \cup {Head(s)} PROVE x \in ToSet(s)
    BY <1>1, <1>2 DEF ToSet
  <1> QED BY <1>1, <1>3, <1>4

LEMMA Elements == ASSUME NEW T, NEW s \in Seq(T) PROVE ToSet(s) \subseteq T /\ (s = <<>> <=> ToSet(s) = {})
  <1>1. DOMAIN s = 1 .. Len(s) /\ Len(s) \in Nat /\ (s = <<>> <=> Len(s) = 0)
    OBVIOUS
  <1>2. ToSet(s) \subseteq T
    BY DEF ToSet
  <1>3. CASE s = <<>>
    BY <1>1, <1>2, <1>3 DEF ToSet
  <1>4. CASE s # <<>>
    <2>1. 1 \in DOMAIN s
      BY <1>1, <1>4
    <2> QED BY <1>2, <1>4, <2>1 DEF ToSet
  <1> QED BY <1>3, <1>4

LEMMA WithoutIs ==
    ASSUME NEW T, NEW s \in Seq(T), IsInjective(s), NEW f \in ToSet(s)
    PROVE  /\ Without(s, f) \in Seq(T) /\ IsInjective(Without(s, f))
           /\ ToSet(Without(s, f)) = ToSet(s) \ {f}
  <1> DEFINE k == CHOOSE i \in DOMAIN s : s[i] = f
             r == Without(s, f)
             N == Len(s)
  <1>1. N \in Nat /\ DOMAIN s = 1 .. N /\ k \in 1 .. N /\ s[k] = f
    BY DEF ToSet
  <1>2. r = SubSeq(s, 1, k - 1) \o SubSeq(s, k + 1, N)
    BY DEF Without, RemoveAt
  <1> HIDE DEF k, r, N
  <1>3. /\ SubSeq(s, 1, k - 1) \in Seq(T) /\ Len(SubSeq(s, 1, k - 1)) = k - 1
        /\ \A i \in 1 .. k - 1 : SubSeq(s, 1, k - 1)[i] = s[i]
    BY <1>1 DEF N
  <1>4. /\ SubSeq(s, k + 1, N) \in Seq(T) /\ Len(SubSeq(s, k + 1, N)) = N - k
        /\ \A i \in 1 .. N - k : SubSeq(s, k + 1, N)[i] = s[i + k]
    <2>1. \A i \in (k + 1) .. N : s[i] \in T
      BY <1>1
    <2>2. /\ SubSeq(s, k + 1, N) \in Seq(T)
          /\ Len(SubSeq(s, k + 1, N)) = IF k + 1 <= N THEN N - (k + 1) + 1 ELSE 0
          /\ \A i \in 1 .. N - (k + 1) + 1 : SubSeq(s, k + 1, N)[i] = s[k + 1 + i - 1]
      BY <1>1, <2>1, SubSeqProperties DEF N
    <2>3. /\ N - (k + 1) + 1 = N - k /\ (k + 1 <= N \/ N - k = 0)
          /\ \A i \in 1 .. N - k : k + 1 + i - 1 = i + k
      BY <1>1
    <2> QED BY <2>2, <2>3
  <1>5. r \in Seq(T) /\ Len(r) = N - 1 /\ DOMAIN r = 1 .. N - 1
    BY <1>1, <1>2, <1>3, <1>4
  <1>6. ASSUME NEW i \in 1 .. N - 1 PROVE r[i] = IF i < k THEN s[i] ELSE s[i + 1]
    <2>1. CASE i < k
      <3>1. i \in 1 .. k - 1
        BY <1>1, <2>1
      <3> QED BY <1>1, <1>2, <1>3, <1>4, <2>1, <3>1
    <2>2. CASE ~(i < k)
      <3>1. i - (k - 1) \in 1 .. N - k /\ (i - (k - 1)) + k = i + 1 /\ i \notin 1 .. k - 1
        BY <1>1, <2>2
      <3>2. r[i] = SubSeq(s, k + 1, N)[i - (k - 1)]
        <4>1. i \in 1 .. (k - 1) + (N - k) /\ ~(i <= k - 1)
          BY <1>1, <2>2
        <4> DEFINE A == SubSeq(s, 1, k - 1)
                   B == SubSeq(s, k + 1, N)
        <4>2. A \in Seq(T) /\ B \in Seq(T) /\ Len(A) = k - 1 /\ Len(B) = N - k /\ r = A \o B
          BY <1>2, <1>3, <1>4
        <4> HIDE DEF A, B
        <4>3. \A j \in 1 .. Len(A) + Len(B) : (A \o B)[j] = IF j <= Len(A) THEN A[j] ELSE B[j - Len(A)]
          BY <4>2, ConcatProperties
        <4>4. r[i] = B[i - (k - 1)]
          BY <4>1, <4>2, <4>3
        <4> QED BY <4>4 DEF B
      <3> QED BY <1>4, <2>2, <3>1, <3>2
    <2> QED BY <2>1, <2>2
  <1>7. \A i, j \in 1 .. N : s[i] = s[j] => i = j
    BY <1>1 DEF IsInjective
  <1>8. IsInjective(r)
    <2>1. \A i, j \in 1 .. N - 1 : r[i] = r[j] => i = j
      BY <1>1, <1>6, <1>7
    <2> QED BY <1>5, <2>1 DEF IsInjective
  <1>9. ASSUME NEW x \in ToSet(r) PROVE x \in ToSet(s) /\ x # f
    <2>1. PICK i \in 1 .. N - 1 : x = r[i]
      BY <1>5 DEF ToSet
    <2>2. PICK j \in 1 .. N : x = s[j] /\ j # k
      BY <1>1, <1>6, <2>1
    <2> QED BY <1>1, <1>7, <2>2 DEF ToSet
  <1>10. ASSUME NEW x \in ToSet(s), x # f PROVE x \in ToSet(r)
    <2>1. PICK i \in 1 .. N : x = s[i]
      BY <1>1 DEF ToSet
    <2>2. PICK j \in 1 .. N - 1 : r[j] = x
      <3>1. CASE i < k
        BY <1>1, <1>6, <2>1, <3>1
      <3>2. CASE i > k
        <4>1. i - 1 \in 1 .. N - 1 /\ ~(i - 1 < k) /\ (i - 1) + 1 = i
          BY <1>1, <3>2
        <4> QED BY <1>6, <2>1, <4>1
      <3> QED BY <1>1, <1>10, <2>1, <3>1, <3>2
    <2> QED BY <1>5, <2>2 DEF ToSet
  <1> QED BY <1>5, <1>8, <1>9, <1>10 DEF r

LEMMA FirstOfIs ==
    ASSUME NEW T, NEW s \in Seq(T), NEW S, ToSet(s) \cap S # {}
    PROVE  FirstOf(s, S) \in S /\ FirstOf(s, S) \in ToSet(s)
  <1> DEFINE P == {i \in DOMAIN s : s[i] \in S}
  <1>1. P \in SUBSET Nat /\ P # {}
    BY DEF ToSet
  <1>2. PICK m \in P : \A n \in P : m <= n
    <2> HIDE DEF P
    <2> QED BY <1>1, Least
  <1>3. \E i \in DOMAIN s : s[i] \in S /\ \A j \in DOMAIN s : s[j] \in S => i <= j
    BY <1>2
  <1> QED BY <1>3 DEF FirstOf, ToSet

-----------------------------------------------------------------------------
(* What the loops over sequences make *)

IsNamed(f, names, new) ==
    f = [n \in 0 .. Len(new) |->
            IF n = 0
            THEN names
            ELSE IF Contains(f[n - 1], new[n]) THEN f[n - 1] ELSE Append(f[n - 1], new[n])]

LEMMA NamedFunction ==
    ASSUME NEW T, NEW names \in Seq(T), NEW new \in Seq(T)
    PROVE  \E f : AddNames(names, new) = f[Len(new)] /\ IsNamed(f, names, new)
  <1> DEFINE N == Len(new)
             step == [n \in 1 .. N |-> [s \in Seq(T) |->
                         IF Contains(s, new[n]) THEN s ELSE Append(s, new[n])]]
             g == CHOOSE g : IsNamed(g, names, new)
  <1>1. step \in [1 .. N -> [Seq(T) -> Seq(T)]] /\ N \in Nat
    OBVIOUS
  <1>2. PICK f : Iterates(f, N, Seq(T), names, step)
    <2>1. step \in Steps(N, Seq(T))
      BY <1>1 DEF Steps
    <2> HIDE DEF step, N
    <2> QED BY <1>1, <2>1, Recursion
  <1>3. \A n \in 1 .. N : f[n] = IF Contains(f[n - 1], new[n]) THEN f[n - 1] ELSE Append(f[n - 1], new[n])
    <2>1. \A n \in 1 .. N : n - 1 \in 0 .. N
      BY <1>1
    <2> QED BY <1>2, <2>1 DEF Iterates
  <1>4. f = [n \in 0 .. N |->
                IF n = 0
                THEN names
                ELSE IF Contains(f[n - 1], new[n]) THEN f[n - 1] ELSE Append(f[n - 1], new[n])]
    <2>1. \A n \in 0 .. N : n # 0 => n \in 1 .. N
      BY <1>1
    <2> HIDE DEF step, N
    <2> QED BY <1>2, <1>3, <2>1 DEF Iterates
  <1>5. IsNamed(f, names, new)
    BY <1>4 DEF IsNamed
  <1>6. IsNamed(g, names, new)
    BY <1>5
  <1>7. AddNames(names, new) = g[N]
    BY DEF AddNames, IsNamed
  <1> QED BY <1>6, <1>7

\* Every name is there once its file has been added, and no other is new.
LEMMA AddNamesIs ==
    ASSUME NEW T, NEW names \in Seq(T), NEW new \in Seq(T)
    PROVE  /\ AddNames(names, new) \in Seq(T)
           /\ ToSet(AddNames(names, new)) = ToSet(names) \cup ToSet(new)
  <1> DEFINE N == Len(new)
  <1>1. PICK f : AddNames(names, new) = f[N] /\ IsNamed(f, names, new)
    BY NamedFunction
  <1>2. /\ f[0] = names
        /\ \A n \in 1 .. N : f[n] = IF Contains(f[n - 1], new[n]) THEN f[n - 1] ELSE Append(f[n - 1], new[n])
    <2>1. N \in Nat /\ 0 \in 0 .. N /\ \A n \in 1 .. N : n \in 0 .. N /\ n # 0
      OBVIOUS
    <2>2. f = [n \in 0 .. N |->
                  IF n = 0
                  THEN names
                  ELSE IF Contains(f[n - 1], new[n]) THEN f[n - 1] ELSE Append(f[n - 1], new[n])]
      BY <1>1 DEF IsNamed
    <2> HIDE DEF N
    <2>3. \A n \in 0 .. N : f[n] = IF n = 0 THEN names
                  ELSE IF Contains(f[n - 1], new[n]) THEN f[n - 1] ELSE Append(f[n - 1], new[n])
      BY <2>2
    <2> QED BY <2>1, <2>3
  <1> DEFINE P == {n \in 0 .. N :
                    /\ f[n] \in Seq(T)
                    /\ ToSet(f[n]) = ToSet(names) \cup {new[i] : i \in 1 .. n}}
  <1>3. 0 \in P
    <2>1. N \in Nat /\ 0 \in 0 .. N /\ 1 .. 0 = {}
      OBVIOUS
    <2> QED BY <1>2, <2>1
  <1>4. ASSUME NEW n \in 0 .. N - 1, n \in P PROVE n + 1 \in P
    <2>1. n + 1 \in 1 .. N /\ (n + 1) - 1 = n /\ new[n + 1] \in T /\ n + 1 \in 0 .. N
      OBVIOUS
    <2>2. {new[i] : i \in 1 .. n + 1} = {new[i] : i \in 1 .. n} \cup {new[n + 1]}
      <3>1. 1 .. n + 1 = (1 .. n) \cup {n + 1}
        OBVIOUS
      <3> QED BY <3>1
    <2>3. CASE Contains(f[n], new[n + 1])
      <3>1. f[n + 1] = f[n]
        BY <1>2, <2>1, <2>3
      <3>2. new[n + 1] \in ToSet(f[n])
        <4>1. f[n] \in Seq(T)
          BY <1>4
        <4>2. DOMAIN f[n] = 1 .. Len(f[n])
          BY <4>1
        <4> QED BY <2>3, <4>2 DEF Contains, ToSet
      <3> QED BY <1>4, <2>1, <2>2, <3>1, <3>2
    <2>4. CASE ~Contains(f[n], new[n + 1])
      <3>1. f[n + 1] = Append(f[n], new[n + 1])
        BY <1>2, <2>1, <2>4
      <3>2. f[n] \in Seq(T)
        BY <1>4
      <3>3. f[n + 1] \in Seq(T) /\ ToSet(f[n + 1]) = ToSet(f[n]) \cup {new[n + 1]}
        BY <2>1, <3>1, <3>2, Appended
      <3> QED BY <1>4, <2>1, <2>2, <3>3
    <2> QED BY <2>3, <2>4
  <1>5. N \in P
    <2>1. N \in Nat
      OBVIOUS
    <2> HIDE DEF P, N
    <2>2. 0 .. N \subseteq P
      BY <1>3, <1>4, <2>1, Counting
    <2> QED BY <2>1, <2>2
  <1>6. ToSet(new) = {new[i] : i \in 1 .. N}
    BY DEF ToSet
  <1> QED BY <1>1, <1>5, <1>6

IsLoop(f, eligible, failed) ==
    f = [n \in 0 .. Len(eligible) |->
            IF n = 0
            THEN [left |-> <<>>, over |-> FALSE]
            ELSE IF ~f[n - 1].over /\ eligible[n] \in failed
                 THEN [f[n - 1] EXCEPT !.over = TRUE]
                 ELSE [left |-> Append(f[n - 1].left, eligible[n]), over |-> FALSE]]

LEMMA DropFunction ==
    ASSUME NEW T, NEW eligible \in Seq(T), NEW failed
    PROVE  \E f : DropFailed(eligible, failed) = f[Len(eligible)].left /\ IsLoop(f, eligible, failed)
  <1> DEFINE N == Len(eligible)
             X == [left : Seq(T), over : BOOLEAN]
             none == [left |-> <<>>, over |-> FALSE]
             step == [n \in 1 .. N |-> [l \in X |->
                         IF ~l.over /\ eligible[n] \in failed
                         THEN [l EXCEPT !.over = TRUE]
                         ELSE [left |-> Append(l.left, eligible[n]), over |-> FALSE]]]
             g == CHOOSE g : IsLoop(g, eligible, failed)
  <1>1. step \in [1 .. N -> [X -> X]] /\ N \in Nat /\ none \in X
    <2>1. ASSUME NEW n \in 1 .. N, NEW l \in X
          PROVE  (IF ~l.over /\ eligible[n] \in failed
                  THEN [l EXCEPT !.over = TRUE]
                  ELSE [left |-> Append(l.left, eligible[n]), over |-> FALSE]) \in X
      <3>1. l.left \in Seq(T) /\ eligible[n] \in T
        OBVIOUS
      <3>2. Append(l.left, eligible[n]) \in Seq(T)
        BY <3>1
      <3> QED BY <3>1, <3>2
    <2>2. N \in Nat /\ none \in X
      OBVIOUS
    <2> HIDE DEF X, N
    <2> QED BY <2>1, <2>2
  <1>2. PICK f : Iterates(f, N, X, none, step)
    <2>1. step \in Steps(N, X)
      BY <1>1 DEF Steps
    <2> HIDE DEF step, N, X, none
    <2> QED BY <1>1, <2>1, Recursion
  <1>3. \A n \in 1 .. N : f[n] = IF ~f[n - 1].over /\ eligible[n] \in failed
                                 THEN [f[n - 1] EXCEPT !.over = TRUE]
                                 ELSE [left |-> Append(f[n - 1].left, eligible[n]), over |-> FALSE]
    <2>1. \A n \in 1 .. N : n - 1 \in 0 .. N
      BY <1>1
    <2>2. \A n \in 1 .. N : f[n - 1] \in X
      BY <1>2, <2>1 DEF Iterates
    <2> HIDE DEF X, N
    <2> QED BY <1>2, <2>1, <2>2 DEF Iterates
  <1>4. f = [n \in 0 .. N |->
                IF n = 0
                THEN none
                ELSE IF ~f[n - 1].over /\ eligible[n] \in failed
                     THEN [f[n - 1] EXCEPT !.over = TRUE]
                     ELSE [left |-> Append(f[n - 1].left, eligible[n]), over |-> FALSE]]
    <2>1. \A n \in 0 .. N : n # 0 => n \in 1 .. N
      BY <1>1
    <2>2. f = [n \in 0 .. N |-> f[n]] /\ f[0] = none
      BY <1>2 DEF Iterates
    <2> HIDE DEF step, N, X, none
    <2> QED BY <1>3, <2>1, <2>2
  <1>5. IsLoop(f, eligible, failed)
    BY <1>4 DEF IsLoop
  <1>6. IsLoop(g, eligible, failed)
    BY <1>5
  <1>7. DropFailed(eligible, failed) = g[N].left
    BY DEF DropFailed, IsLoop
  <1> QED BY <1>6, <1>7

\* What is left of the eligible files are some of them.
LEMMA DropFailedIs ==
    ASSUME NEW T, NEW eligible \in Seq(T), NEW failed
    PROVE  /\ DropFailed(eligible, failed) \in Seq(T)
           /\ ToSet(DropFailed(eligible, failed)) \subseteq ToSet(eligible)
  <1> DEFINE N == Len(eligible)
  <1>1. PICK f : DropFailed(eligible, failed) = f[N].left /\ IsLoop(f, eligible, failed)
    BY DropFunction
  <1>2. /\ f[0] = [left |-> <<>>, over |-> FALSE]
        /\ \A n \in 1 .. N : f[n] = IF ~f[n - 1].over /\ eligible[n] \in failed
                                    THEN [f[n - 1] EXCEPT !.over = TRUE]
                                    ELSE [left |-> Append(f[n - 1].left, eligible[n]), over |-> FALSE]
    <2>1. N \in Nat /\ 0 \in 0 .. N /\ \A n \in 1 .. N : n \in 0 .. N /\ n # 0
      OBVIOUS
    <2>2. f = [n \in 0 .. N |->
                  IF n = 0
                  THEN [left |-> <<>>, over |-> FALSE]
                  ELSE IF ~f[n - 1].over /\ eligible[n] \in failed
                       THEN [f[n - 1] EXCEPT !.over = TRUE]
                       ELSE [left |-> Append(f[n - 1].left, eligible[n]), over |-> FALSE]]
      BY <1>1 DEF IsLoop
    <2> HIDE DEF N
    <2>3. \A n \in 0 .. N : f[n] = IF n = 0
                  THEN [left |-> <<>>, over |-> FALSE]
                  ELSE IF ~f[n - 1].over /\ eligible[n] \in failed
                       THEN [f[n - 1] EXCEPT !.over = TRUE]
                       ELSE [left |-> Append(f[n - 1].left, eligible[n]), over |-> FALSE]
      BY <2>2
    <2> QED BY <2>1, <2>3
  <1> DEFINE P == {n \in 0 .. N :
                    /\ f[n] \in [left : Seq(T), over : BOOLEAN]
                    /\ ToSet(f[n].left) \subseteq ToSet(eligible)}
  <1>3. 0 \in P
    <2>1. N \in Nat /\ 0 \in 0 .. N /\ <<>> \in Seq(T)
      OBVIOUS
    <2>2. ToSet(<<>>) = {}
      BY <2>1, Elements
    <2>3. f[0] \in [left : Seq(T), over : BOOLEAN] /\ f[0].left = <<>>
      BY <1>2, <2>1
    <2> QED BY <2>1, <2>2, <2>3
  <1>4. ASSUME NEW n \in 0 .. N - 1, n \in P PROVE n + 1 \in P
    <2>1. /\ n + 1 \in 1 .. N /\ (n + 1) - 1 = n /\ n + 1 \in 0 .. N
          /\ eligible[n + 1] \in T /\ n + 1 \in DOMAIN eligible
      OBVIOUS
    <2>2. f[n].left \in Seq(T) /\ f[n].over \in BOOLEAN /\ ToSet(f[n].left) \subseteq ToSet(eligible)
      BY <1>4
    <2>3. CASE ~f[n].over /\ eligible[n + 1] \in failed
      <3>1. f[n + 1] = [f[n] EXCEPT !.over = TRUE]
        BY <1>2, <2>1, <2>3
      <3> QED BY <1>4, <2>1, <2>2, <3>1
    <2>4. CASE ~(~f[n].over /\ eligible[n + 1] \in failed)
      <3>1. f[n + 1] = [left |-> Append(f[n].left, eligible[n + 1]), over |-> FALSE]
        BY <1>2, <2>1, <2>4
      <3>2. /\ Append(f[n].left, eligible[n + 1]) \in Seq(T)
            /\ ToSet(Append(f[n].left, eligible[n + 1])) = ToSet(f[n].left) \cup {eligible[n + 1]}
        BY <2>1, <2>2, Appended
      <3>3. eligible[n + 1] \in ToSet(eligible)
        BY <2>1 DEF ToSet
      <3>4. f[n + 1] \in [left : Seq(T), over : BOOLEAN]
        BY <3>1, <3>2
      <3>5. ToSet(f[n + 1].left) \subseteq ToSet(eligible)
        BY <2>2, <3>1, <3>2, <3>3
      <3> QED BY <2>1, <3>4, <3>5
    <2> QED BY <2>3, <2>4
  <1>5. N \in P
    <2>1. N \in Nat
      OBVIOUS
    <2> HIDE DEF P, N
    <2>2. 0 .. N \subseteq P
      BY <1>3, <1>4, <2>1, Counting
    <2> QED BY <2>1, <2>2
  <1> QED BY <1>1, <1>5

\* The files of a retry, in some order.
LEMMA SetToSeqIs ==
    ASSUME NEW S, IsFiniteSet(S)
    PROVE  SetToSeq(S) \in Seq(S)
  <1>1. Cardinality(S) \in Nat /\ ExistsBijection(1 .. Cardinality(S), S)
    BY FS_CardinalityType
  <1>2. PICK f \in [1 .. Cardinality(S) -> S] : IsInjective(f)
    BY <1>1 DEF ExistsBijection, Bijection, Injection, IsInjective
  <1>3. SetToSeq(S) \in [1 .. Cardinality(S) -> S]
    BY <1>2 DEF SetToSeq
  <1> QED BY <1>1, <1>3

LEMMA ContainsIs ==
    ASSUME NEW T, NEW s \in Seq(T), NEW e
    PROVE  Contains(s, e) <=> e \in ToSet(s)
  <1>1. DOMAIN s = 1 .. Len(s)
    OBVIOUS
  <1> QED BY <1>1 DEF Contains, ToSet

LEMMA Joined ==
    ASSUME NEW T, NEW s \in Seq(T), NEW r \in Seq(T)
    PROVE  s \o r \in Seq(T) /\ ToSet(r) \subseteq ToSet(s \o r)
  <1>1. s \o r \in Seq(T) /\ Len(s \o r) = Len(s) + Len(r)
    BY ConcatProperties
  <1>2. ASSUME NEW x \in ToSet(r) PROVE x \in ToSet(s \o r)
    <2>1. PICK i \in 1 .. Len(r) : x = r[i]
      BY DEF ToSet
    <2>2. /\ Len(s) + i \in 1 .. Len(s) + Len(r) /\ ~(Len(s) + i <= Len(s))
          /\ (Len(s) + i) - Len(s) = i
      OBVIOUS
    <2>3. (s \o r)[Len(s) + i] = r[(Len(s) + i) - Len(s)]
      BY <2>2, ConcatProperties
    <2>4. Len(s) + i \in DOMAIN (s \o r)
      BY <1>1, <2>2
    <2> QED BY <2>1, <2>2, <2>3, <2>4 DEF ToSet
  <1> QED BY <1>1, <1>2

-----------------------------------------------------------------------------
(* The invariant *)

Calling(proc, x) == Call(proc, x) \in ToSet(calls)

\* Where the program is decides which loops it is in.
PlaceInv ==
    /\ pc \notin {"add_provider", "try", "except", "retrying"} => calls = <<>> /\ files = <<>>
    /\ pc = "except" => files = <<>>
    /\ pc \in {"add_provider", "try"} => ToSet(files) \subseteq ToSet(Providers(item))

\* todo has names of one pass, and exists before it is used.
TodoInv ==
    /\ todo \subseteq ToSet(td.names)
    /\ pc \in {"add_provider", "try"} => item \in ToSet(td.names)
    /\ pc = "build" => todo \cap RunTarget = {}
    /\ pc = "run" => todo \subseteq RunTarget
    /\ pc \in {"try", "except"} =>
          IF item \in RunTarget THEN todo \subseteq RunTarget ELSE todo \cap RunTarget = {}

\* A pass that has added nothing has given up all it has looked at, and no
\* name was created meanwhile.
PassInv ==
    /\ ~added /\ (pc = "build" \/ (pc = "except" /\ item \notin RunTarget)) =>
          Unresolved(Target \ RunTarget) \subseteq todo
    /\ ~added /\ (pc = "run" \/ (pc = "except" /\ item \in RunTarget)) =>
          Unresolved(Target \ RunTarget) = {} /\ Unresolved(RunTarget) \subseteq todo
    /\ pc \in {"done", "retrying", "retried"} => Unresolved(Target) = {}

PhaseInv == PlaceInv /\ TodoInv /\ (~abort => PassInv)

\* The names a file needs exist once it is known.
TableInv ==
    /\ \A f \in ToSet(td.known) : Deps(f) \subseteq ToSet(td.names)
    /\ td.have \subseteq ToSet(td.names)

\* A list has files that have been added, each once; an empty one is given up.
ListInv ==
    \A t \in Target :
        /\ ToSet(td.providers[t]) \subseteq ToSet(td.known) \cap ToSet(Providers(t))
        /\ IsInjective(td.providers[t])
        /\ td.providers[t] # <<>> => t \in td.have
        /\ t \in td.have => td.providers[t] # <<>> \/ t \in td.failed_deps

\* What is still to be removed is under way: a failed file in a list, and a
\* file that needs a name that is given up.
RemovalInv ==
    /\ \A t \in Target : \A f \in ToSet(td.providers[t]) :
          f \in td.failed_fnids => Calling("fail_fnid", f)
    /\ \A t \in td.failed_deps : \A f \in ToSet(td.known) :
          t \in Deps(f) => f \in td.failed_fnids \/ Calling("remove_target", t)

\* What remove_target works on is given up.
ReasonInv ==
    \A c \in ToSet(calls) : c.proc = "remove_target" => c.arg \in td.failed_deps

CoreInv == TableInv /\ ListInv /\ ReasonInv /\ (~abort => RemovalInv)

Inv == TypeOK /\ CoreInv /\ PhaseInv

TD ==
    [names : Seq(Target), known : Seq(Fn), have : SUBSET Target,
     providers : [Target -> Seq(Fn)], external : SUBSET Target,
     failed_deps : SUBSET Target, failed_fnids : SUBSET Fn]

LEMMA Metadata ==
    ASSUME dataCache \in DataCaches
    PROVE  /\ \A t \in Target : Providers(t) \in Seq(Fn)
           /\ \A f \in Fn : /\ dataCache.deps[f] \in Seq(Target) /\ Deps(f) \subseteq Target
                            /\ dataCache.idepends[f] \in Seq(Target)
  <1>1. /\ dataCache.providers \in [Target -> Seq(Fn)]
        /\ dataCache.deps \in [Fn -> Seq(Target)]
        /\ dataCache.idepends \in [Fn -> Seq(Target \ RunTarget)]
    BY TargetAssumption
  <1>2. ASSUME NEW f \in Fn
        PROVE  /\ dataCache.deps[f] \in Seq(Target) /\ Deps(f) \subseteq Target
               /\ dataCache.idepends[f] \in Seq(Target)
    <2>1. dataCache.deps[f] \in Seq(Target) /\ dataCache.idepends[f] \in Seq(Target \ RunTarget)
      BY <1>1
    <2>2. Deps(f) \subseteq Target
      BY <2>1, Elements DEF Deps
    <2> QED BY <2>1, <2>2
  <1> QED BY <1>1, <1>2 DEF Providers

LEMMA InitInv == Init => Inv
  <1> SUFFICES ASSUME Init PROVE Inv
    OBVIOUS
  <1>1. ToSet(<<>>) = {}
    BY DEF ToSet
  <1>2. CommandLine[1] \in Target /\ Len(CommandLine) \in Nat
    BY TargetAssumption
  <1>3. td \in TD
    BY DEF Init, EmptyTaskData, TD
  <1>4. TypeOK
    <2>1. <<>> \in Seq(Fn) /\ <<>> \in Seq(Frames) /\ 0 \in 0 .. Len(CommandLine)
      BY <1>2
    <2>2. dataCache \in DataCaches /\ abort \in BOOLEAN /\ added \in BOOLEAN /\ pc \in Places
      BY DEF Init, Places
    <2> QED BY <1>2, <1>3, <2>1, <2>2 DEF Init, TypeOK, TD
  <1>5. CoreInv
    BY <1>1 DEF Init, EmptyTaskData, CoreInv, TableInv, ListInv, ReasonInv, RemovalInv, IsInjective
  <1>6. PhaseInv
    BY DEF Init, PhaseInv, PlaceInv, TodoInv, PassInv
  <1> QED BY <1>4, <1>5, <1>6 DEF Inv

-----------------------------------------------------------------------------
(* What the calls do to the tables *)

Typed == td \in TD /\ calls \in Seq(Frames) /\ dataCache \in DataCaches

\* The same tables, with names that may be more.
Renamed(s) ==
    /\ s \in TD
    /\ s.known = td.known /\ s.have = td.have /\ s.providers = td.providers
    /\ s.failed_deps = td.failed_deps /\ s.failed_fnids = td.failed_fnids
    /\ ToSet(td.names) \subseteq ToSet(s.names)

LEMMA PushedCall ==
    ASSUME NEW stack \in Seq(Frames), NEW c \in Frames
    PROVE  <<c>> \o stack \in Seq(Frames) /\ ToSet(<<c>> \o stack) = ToSet(stack) \cup {c}
  BY Pushed, SMTT(20)

LEMMA StillCore ==
    ASSUME Typed, CoreInv, Renamed(td'), UNCHANGED <<dataCache, abort, calls>>
    PROVE  CoreInv'
  <1>1. TableInv'
    BY DEF Typed, CoreInv, TableInv, Renamed, Deps
  <1>2. ListInv'
    BY DEF CoreInv, ListInv, Renamed, Providers
  <1>3. ReasonInv'
    BY DEF CoreInv, ReasonInv, Renamed
  <1>4. ASSUME ~abort' PROVE RemovalInv'
    BY <1>4 DEF CoreInv, RemovalInv, Renamed, Calling, Deps
  <1> QED BY <1>1, <1>2, <1>3, <1>4 DEF CoreInv

LEMMA FailCore ==
    ASSUME Typed, CoreInv, NEW f \in Fn, FailFnid(td, f), UNCHANGED <<dataCache, abort>>
    PROVE  /\ td' \in TD /\ calls' \in Seq(Frames) /\ CoreInv'
           /\ td'.names = td.names /\ td'.have = td.have /\ td'.failed_deps = td.failed_deps
           /\ td'.failed_fnids = td.failed_fnids \cup {f}
  <1>1. Call("fail_fnid", f) \in Frames
    BY DEF Call, Frames
  <1>2. calls' \in Seq(Frames) /\ ToSet(calls') = ToSet(calls) \cup {Call("fail_fnid", f)}
    BY <1>1, PushedCall DEF FailFnid, Typed
  <1>3. /\ td' \in TD /\ td'.names = td.names /\ td'.known = td.known /\ td'.have = td.have
        /\ td'.providers = td.providers /\ td'.failed_deps = td.failed_deps
        /\ td'.failed_fnids = td.failed_fnids \cup {f}
    BY DEF FailFnid, Typed, TD
  <1>4. TableInv'
    BY <1>3 DEF CoreInv, TableInv, Deps
  <1>5. ListInv'
    BY <1>3 DEF CoreInv, ListInv, Providers
  <1>6. ReasonInv'
    <2>1. Call("fail_fnid", f).proc # "remove_target"
      BY DEF Call
    <2> QED BY <1>2, <1>3, <2>1 DEF CoreInv, ReasonInv
  <1>7. ASSUME ~abort' PROVE RemovalInv'
    BY <1>2, <1>3, <1>7 DEF CoreInv, RemovalInv, Calling, Deps
  <1> QED BY <1>2, <1>3, <1>4, <1>5, <1>6, <1>7 DEF CoreInv

LEMMA GiveUpCore ==
    ASSUME Typed, CoreInv, NEW t \in Target, NEW s, Renamed(s), NEW outer \in Seq(Frames),
           abort => ToSet(outer) \subseteq ToSet(calls), ~abort => outer = calls,
           RemoveTarget(s, t, outer), UNCHANGED <<dataCache, abort>>
    PROVE  /\ td' \in TD /\ calls' \in Seq(Frames) /\ CoreInv'
           /\ td'.names = s.names /\ td'.have = s.have
           /\ td'.failed_deps = s.failed_deps \cup {t}
           /\ td'.failed_fnids = s.failed_fnids
  <1>1. Call("remove_target", t) \in Frames
    BY DEF Call, Frames
  <1>2. calls' \in Seq(Frames) /\ ToSet(calls') = ToSet(outer) \cup {Call("remove_target", t)}
    BY <1>1, PushedCall DEF RemoveTarget
  <1>3. /\ td' \in TD /\ td'.names = s.names /\ td'.known = s.known /\ td'.have = s.have
        /\ td'.providers = s.providers /\ td'.failed_deps = s.failed_deps \cup {t}
        /\ td'.failed_fnids = s.failed_fnids
    BY DEF RemoveTarget, Renamed, TD
  <1>4. TableInv'
    BY <1>3 DEF CoreInv, TableInv, Deps, Renamed
  <1>5. ListInv'
    BY <1>3 DEF CoreInv, ListInv, Providers, Renamed
  <1>6. ReasonInv'
    <2>1. Call("remove_target", t).arg = t
      BY DEF Call
    <2> QED BY <1>2, <1>3, <2>1 DEF CoreInv, ReasonInv, Renamed
  <1>7. ASSUME ~abort' PROVE RemovalInv'
    <2>1. ToSet(calls) \subseteq ToSet(calls') /\ Call("remove_target", t) \in ToSet(calls') /\ RemovalInv
      BY <1>2, <1>7 DEF CoreInv
    <2> QED BY <1>3, <2>1 DEF RemovalInv, Calling, Deps, Renamed
  <1> QED BY <1>2, <1>3, <1>4, <1>5, <1>6, <1>7 DEF CoreInv

LEMMA HeadCall ==
    ASSUME Typed, calls # <<>>
    PROVE  /\ ToSet(calls) = ToSet(Tail(calls)) \cup {Head(calls)} /\ Tail(calls) \in Seq(Frames)
           /\ Head(calls).proc = "fail_fnid" =>
                 Head(calls).arg \in Fn /\ Head(calls) = Call("fail_fnid", Head(calls).arg)
           /\ Head(calls).proc = "remove_target" =>
                 Head(calls).arg \in Target /\ Head(calls) = Call("remove_target", Head(calls).arg)
  <1>1. Head(calls) \in Frames /\ ToSet(calls) = ToSet(Tail(calls)) \cup {Head(calls)}
        /\ Tail(calls) \in Seq(Frames)
    BY Popped DEF Typed
  <1> QED BY <1>1 DEF Frames, Call

\* fail_fnid is done when no list has the file.
LEMMA FailReturnsCore ==
    ASSUME Typed, CoreInv, calls # <<>>, Head(calls).proc = "fail_fnid",
           Listing(Head(calls).arg) = {}, Return, UNCHANGED <<dataCache, abort>>
    PROVE  calls' \in Seq(Frames) /\ CoreInv'
  <1> DEFINE f == Head(calls).arg
  <1>1. /\ ToSet(calls) = ToSet(calls') \cup {Call("fail_fnid", f)} /\ calls' \in Seq(Frames)
        /\ td' = td
    BY HeadCall DEF Return
  <1>2. TableInv' /\ ListInv' /\ ReasonInv'
    BY <1>1 DEF CoreInv, TableInv, ListInv, ReasonInv, Deps, Providers
  <1>3. ASSUME ~abort' PROVE RemovalInv'
    <2>1. ASSUME NEW t \in Target, NEW g \in ToSet(td.providers[t]), g \in td.failed_fnids
          PROVE  Call("fail_fnid", g) \in ToSet(calls')
      <3>1. td.providers[t] \in Seq(Fn)
        BY DEF Typed, TD
      <3>2. td.providers[t] # <<>> /\ Contains(td.providers[t], g)
        BY <2>1, <3>1, Elements, ContainsIs
      <3>3. t \in ToSet(td.names)
        BY <3>2 DEF CoreInv, ListInv, TableInv
      <3>4. g # f
        BY <3>2, <3>3 DEF Listing
      <3>5. Call("fail_fnid", g) # Call("fail_fnid", f)
        BY <3>4 DEF Call
      <3>6. Call("fail_fnid", g) \in ToSet(calls)
        BY <1>3, <2>1 DEF CoreInv, RemovalInv, Calling
      <3> QED BY <1>1, <3>5, <3>6
    <2>2. \A t : Call("remove_target", t) # Call("fail_fnid", f)
      BY DEF Call
    <2>3. RemovalInv
      BY <1>3 DEF CoreInv
    <2> HIDE DEF f
    <2>4. \A t \in td.failed_deps : \A g \in ToSet(td.known) :
              t \in Deps(g) => g \in td.failed_fnids \/ Call("remove_target", t) \in ToSet(calls')
      BY <1>1, <2>2, <2>3 DEF RemovalInv, Calling
    <2> QED BY <1>1, <2>1, <2>4 DEF RemovalInv, Calling, Deps
  <1> QED BY <1>1, <1>2, <1>3 DEF CoreInv

\* remove_target is done when every file that needs the name has failed.
LEMMA RemoveReturnsCore ==
    ASSUME Typed, CoreInv, calls # <<>>, Head(calls).proc = "remove_target",
           \A g \in ToSet(td.known) \ td.failed_fnids : Head(calls).arg \notin Deps(g),
           Return, UNCHANGED <<dataCache, abort>>
    PROVE  calls' \in Seq(Frames) /\ CoreInv'
  <1> DEFINE u == Head(calls).arg
  <1>1. /\ ToSet(calls) = ToSet(calls') \cup {Call("remove_target", u)} /\ calls' \in Seq(Frames)
        /\ td' = td
    BY HeadCall DEF Return
  <1>2. TableInv' /\ ListInv' /\ ReasonInv'
    BY <1>1 DEF CoreInv, TableInv, ListInv, ReasonInv, Deps, Providers
  <1>3. ASSUME ~abort' PROVE RemovalInv'
    <2>1. RemovalInv
      BY <1>3 DEF CoreInv
    <2>2. /\ \A g : Call("fail_fnid", g) # Call("remove_target", u)
          /\ \A t : t # u => Call("remove_target", t) # Call("remove_target", u)
      BY DEF Call
    <2>3. \A g \in ToSet(td.known) \ td.failed_fnids : u \notin Deps(g)
      OBVIOUS
    <2> HIDE DEF u
    <2>4. \A t \in td.failed_deps : \A g \in ToSet(td.known) :
              t \in Deps(g) => g \in td.failed_fnids \/ Call("remove_target", t) \in ToSet(calls')
      BY <1>1, <2>1, <2>2, <2>3 DEF RemovalInv, Calling
    <2>5. \A t \in Target : \A g \in ToSet(td.providers[t]) :
              g \in td.failed_fnids => Call("fail_fnid", g) \in ToSet(calls')
      BY <1>1, <2>1, <2>2 DEF RemovalInv, Calling
    <2> QED BY <1>1, <2>4, <2>5 DEF RemovalInv, Calling, Deps
  <1> QED BY <1>1, <1>2, <1>3 DEF CoreInv

\* A file is taken from a list it is in; the name goes with the last one.
LEMMA RemoveProviderCore ==
    ASSUME Typed, CoreInv, NEW f \in Fn, Calling("fail_fnid", f),
           NEW t \in Target, Contains(td.providers[t], f),
           RemoveProvider(f, t), UNCHANGED <<dataCache, abort>>
    PROVE  /\ td' \in TD /\ calls' \in Seq(Frames) /\ CoreInv'
           /\ td'.names = td.names /\ td'.have = td.have
           /\ td.failed_deps \subseteq td'.failed_deps
           /\ td'.failed_deps \subseteq td.failed_deps \cup {t}
           /\ t \in td'.failed_deps \ td.failed_deps => td'.providers[t] = <<>>
           /\ td'.failed_fnids = td.failed_fnids
  <1> DEFINE list == Without(td.providers[t], f)
             rest == [td EXCEPT !.providers[t] = list]
             c == Call("remove_target", t)
  <1>1. /\ td.providers[t] \in Seq(Fn) /\ f \in ToSet(td.providers[t]) /\ IsInjective(td.providers[t])
    <2>1. td.providers[t] \in Seq(Fn)
      BY DEF Typed, TD
    <2> QED BY <2>1, ContainsIs DEF CoreInv, ListInv
  <1>2. list \in Seq(Fn) /\ IsInjective(list) /\ ToSet(list) = ToSet(td.providers[t]) \ {f}
    BY <1>1, WithoutIs
  <1>3. td.providers[t] # <<>>
    BY <1>1, Elements
  <1> HIDE DEF list
  <1>4. /\ rest \in TD /\ rest.names = td.names /\ rest.known = td.known /\ rest.have = td.have
        /\ rest.failed_deps = td.failed_deps /\ rest.failed_fnids = td.failed_fnids
        /\ rest.providers[t] = list
        /\ \A u \in Target \ {t} : rest.providers[u] = td.providers[u]
    BY <1>2 DEF Typed, TD
  <1> HIDE DEF rest, c
  <1>5. IF list = <<>>
        THEN td' = [rest EXCEPT !.failed_deps = @ \cup {t}] /\ calls' = <<c>> \o calls
        ELSE td' = rest /\ calls' = calls
    BY <1>4 DEF RemoveProvider, RemoveTarget, rest, c, list
  <1>6. /\ td' \in TD /\ td'.names = td.names /\ td'.known = td.known /\ td'.have = td.have
        /\ td'.failed_fnids = td.failed_fnids /\ td'.providers[t] = list
        /\ \A u \in Target \ {t} : td'.providers[u] = td.providers[u]
        /\ td'.failed_deps = IF list = <<>> THEN td.failed_deps \cup {t} ELSE td.failed_deps
    <2>1. CASE list = <<>>
      <3>1. td' = [rest EXCEPT !.failed_deps = @ \cup {t}]
        BY <1>5, <2>1
      <3>2. /\ td' \in TD /\ td'.names = rest.names /\ td'.known = rest.known /\ td'.have = rest.have
            /\ td'.failed_fnids = rest.failed_fnids /\ td'.providers = rest.providers
            /\ td'.failed_deps = rest.failed_deps \cup {t}
        BY <1>4, <3>1 DEF TD
      <3> QED BY <1>4, <2>1, <3>2
    <2>2. CASE list # <<>>
      <3>1. td' = rest
        BY <1>5, <2>2
      <3> QED BY <1>4, <2>2, <3>1
    <2> QED BY <2>1, <2>2
  <1>7. c \in Frames /\ c.arg = t
    BY DEF c, Call, Frames
  <1>8. calls' \in Seq(Frames) /\ ToSet(calls') = IF list = <<>> THEN ToSet(calls) \cup {c} ELSE ToSet(calls)
    <2>1. calls \in Seq(Frames)
      BY DEF Typed
    <2>2. <<c>> \o calls \in Seq(Frames) /\ ToSet(<<c>> \o calls) = ToSet(calls) \cup {c}
      BY <1>7, <2>1, PushedCall
    <2> QED BY <1>5, <2>1, <2>2
  <1>9. TableInv'
    BY <1>6 DEF CoreInv, TableInv, Deps
  <1>10. ListInv'
    <2>1. ASSUME NEW u \in Target
          PROVE  /\ ToSet(td'.providers[u]) \subseteq ToSet(td.known) \cap ToSet(Providers(u))
                 /\ IsInjective(td'.providers[u])
                 /\ td'.providers[u] # <<>> => u \in td.have
                 /\ u \in td.have => td'.providers[u] # <<>> \/ u \in td'.failed_deps
      <3>1. CASE u = t
        BY <1>2, <1>3, <1>6, <3>1 DEF CoreInv, ListInv
      <3>2. CASE u # t
        BY <1>6, <3>2 DEF CoreInv, ListInv
      <3> QED BY <3>1, <3>2
    <2> QED BY <1>6, <2>1 DEF ListInv, Providers
  <1>11. ReasonInv'
    BY <1>6, <1>7, <1>8 DEF CoreInv, ReasonInv
  <1>12. ASSUME ~abort' PROVE RemovalInv'
    <2>1. RemovalInv
      BY <1>12 DEF CoreInv
    <2>2. \A u \in Target : ToSet(td'.providers[u]) \subseteq ToSet(td.providers[u])
      BY <1>2, <1>6
    <2>3. ToSet(calls) \subseteq ToSet(calls') /\ (list = <<>> => Call("remove_target", t) \in ToSet(calls'))
      BY <1>8 DEF c
    <2>4. \A u \in Target : \A g \in ToSet(td'.providers[u]) :
              g \in td.failed_fnids => Call("fail_fnid", g) \in ToSet(calls')
      BY <2>1, <2>2, <2>3 DEF RemovalInv, Calling
    <2>5. \A u \in td'.failed_deps : \A g \in ToSet(td.known) :
              u \in Deps(g) => g \in td.failed_fnids \/ Call("remove_target", u) \in ToSet(calls')
      BY <1>6, <2>1, <2>3 DEF RemovalInv, Calling
    <2> QED BY <1>6, <2>4, <2>5 DEF RemovalInv, Calling, Deps
  <1> QED BY <1>6, <1>8, <1>9, <1>10, <1>11, <1>12 DEF CoreInv

\* A provider is listed, and its tasks are added.
LEMMA AddCore ==
    ASSUME Typed, CoreInv, item \in ToSet(td.names), calls = <<>>,
           NEW p \in Fn, p \in ToSet(Providers(item)), p \notin td.failed_fnids,
           AddTasks([td EXCEPT !.have = @ \cup {item},
                               !.providers[item] = IF Contains(@, p) THEN @ ELSE Append(@, p)], p),
           UNCHANGED <<dataCache, abort>>
    PROVE  /\ td' \in TD /\ calls' \in Seq(Frames) /\ CoreInv'
           /\ ToSet(td.names) \subseteq ToSet(td'.names)
           /\ td'.failed_deps = td.failed_deps
           /\ td'.failed_fnids \subseteq td.failed_fnids \cup {p}
           /\ p \in td'.failed_fnids => Deps(p) \cap td.failed_deps # {}
  <1> DEFINE old == td.providers[item]
             list == IF Contains(old, p) THEN old ELSE Append(old, p)
             s == [td EXCEPT !.have = @ \cup {item}, !.providers[item] = list]
             new == AddNames(td.names, dataCache.idepends[p] \o dataCache.deps[p])
             with == [s EXCEPT !.known = Append(td.known, p), !.names = new]
  <1>1. item \in Target /\ old \in Seq(Fn) /\ td.names \in Seq(Target) /\ td.known \in Seq(Fn)
    BY Elements DEF Typed, TD
  <1>2. /\ list \in Seq(Fn) /\ IsInjective(list) /\ ToSet(list) = ToSet(old) \cup {p} /\ list # <<>>
    <2>1. IsInjective(old) /\ (Contains(old, p) <=> p \in ToSet(old))
      BY <1>1, ContainsIs DEF CoreInv, ListInv
    <2>2. CASE Contains(old, p)
      <3>1. list = old /\ p \in ToSet(old)
        BY <2>1, <2>2
      <3> QED BY <1>1, <2>1, <3>1, Elements
    <2>3. CASE ~Contains(old, p)
      <3>1. list = Append(old, p) /\ p \notin ToSet(old)
        BY <2>1, <2>3
      <3> QED BY <1>1, <2>1, <3>1, Appended
    <2> QED BY <2>2, <2>3
  <1>3. new \in Seq(Target) /\ ToSet(td.names) \subseteq ToSet(new) /\ Deps(p) \subseteq ToSet(new)
    <2>1. dataCache.idepends[p] \in Seq(Target) /\ dataCache.deps[p] \in Seq(Target)
      BY Metadata DEF Typed
    <2>2. /\ dataCache.idepends[p] \o dataCache.deps[p] \in Seq(Target)
          /\ Deps(p) \subseteq ToSet(dataCache.idepends[p] \o dataCache.deps[p])
      BY <2>1, Joined DEF Deps
    <2>3. /\ new \in Seq(Target)
          /\ ToSet(new) = ToSet(td.names) \cup ToSet(dataCache.idepends[p] \o dataCache.deps[p])
      <3>1. \A names, more \in Seq(Target) :
                /\ AddNames(names, more) \in Seq(Target)
                /\ ToSet(AddNames(names, more)) = ToSet(names) \cup ToSet(more)
        BY AddNamesIs
      <3> QED BY <1>1, <2>2, <3>1
    <2> QED BY <2>2, <2>3
  <1>4. Append(td.known, p) \in Seq(Fn) /\ ToSet(Append(td.known, p)) = ToSet(td.known) \cup {p}
    BY <1>1, Appended
  <1>5. AddTasks(s, p)
    OBVIOUS
  <1> HIDE DEF list, new
  <1>6. /\ s \in TD /\ s.names = td.names /\ s.known = td.known /\ s.have = td.have \cup {item}
        /\ s.failed_deps = td.failed_deps /\ s.failed_fnids = td.failed_fnids
        /\ s.providers[item] = list
        /\ \A u \in Target \ {item} : s.providers[u] = td.providers[u]
    BY <1>1, <1>2 DEF Typed, TD
  <1> HIDE DEF s
  <1>7. /\ with \in TD /\ with.names = new /\ with.known = Append(td.known, p) /\ with.have = s.have
        /\ with.failed_deps = td.failed_deps /\ with.failed_fnids = td.failed_fnids
        /\ with.providers = s.providers
    BY <1>3, <1>4, <1>6 DEF TD
  <1>8. with = [s EXCEPT !.known = Append(s.known, p),
                         !.names = AddNames(s.names, dataCache.idepends[p] \o dataCache.deps[p])]
    BY <1>6 DEF new
  <1> HIDE DEF with
  <1>9. \/ Contains(td.known, p) /\ td' = s /\ calls' = calls
        \/ Deps(p) \cap td.failed_deps = {} /\ td' = with /\ calls' = calls
        \/ /\ Deps(p) \cap td.failed_deps # {}
           /\ td' = [with EXCEPT !.failed_fnids = @ \cup {p}] /\ calls' = <<Call("fail_fnid", p)>> \o calls
    BY <1>5, <1>6, <1>8 DEF AddTasks, FailFnid
  <1>10. Contains(td.known, p) <=> p \in ToSet(td.known)
    BY <1>1, ContainsIs
  <1>11. /\ td' \in TD /\ td'.have = td.have \cup {item}
         /\ td'.failed_deps = td.failed_deps
         /\ td'.providers[item] = list
         /\ \A u \in Target \ {item} : td'.providers[u] = td.providers[u]
         /\ ToSet(td.names) \subseteq ToSet(td'.names)
         /\ ToSet(td'.known) = ToSet(td.known) \cup {p}
         /\ p \notin ToSet(td.known) => Deps(p) \subseteq ToSet(td'.names)
    <2>1. CASE td' = s /\ Contains(td.known, p)
      BY <1>6, <1>10, <2>1
    <2>2. CASE td' = with
      BY <1>3, <1>4, <1>6, <1>7, <2>2
    <2>3. CASE td' = [with EXCEPT !.failed_fnids = @ \cup {p}]
      <3>1. /\ td' \in TD /\ td'.names = with.names /\ td'.known = with.known /\ td'.have = with.have
            /\ td'.failed_deps = with.failed_deps /\ td'.providers = with.providers
        BY <1>7, <2>3 DEF TD
      <3> QED BY <1>3, <1>4, <1>6, <1>7, <3>1
    <2> QED BY <1>9, <2>1, <2>2, <2>3
  <1>12. /\ td'.failed_fnids \in {td.failed_fnids, td.failed_fnids \cup {p}}
         /\ calls' \in Seq(Frames)
         /\ p \in td'.failed_fnids => Deps(p) \cap td.failed_deps # {}
         /\ p \in td'.failed_fnids => Call("fail_fnid", p) \in ToSet(calls')
         /\ \A c \in ToSet(calls') : c \in ToSet(calls) \/ c = Call("fail_fnid", p)
         /\ ToSet(calls) \subseteq ToSet(calls')
         /\ p \in ToSet(td.known) \/ Deps(p) \cap td.failed_deps = {} \/ p \in td'.failed_fnids
    <2>1. Call("fail_fnid", p) \in Frames
      BY DEF Call, Frames
    <2>2. CASE td' = s /\ Contains(td.known, p) /\ calls' = calls
      BY <1>6, <1>10, <2>2 DEF Typed
    <2>3. CASE Deps(p) \cap td.failed_deps = {} /\ td' = with /\ calls' = calls
      BY <1>7, <2>3 DEF Typed
    <2>4. CASE /\ Deps(p) \cap td.failed_deps # {}
               /\ td' = [with EXCEPT !.failed_fnids = @ \cup {p}] /\ calls' = <<Call("fail_fnid", p)>> \o calls
      <3>1. calls' \in Seq(Frames) /\ ToSet(calls') = ToSet(calls) \cup {Call("fail_fnid", p)}
        <4>1. calls \in Seq(Frames) /\ calls' = <<Call("fail_fnid", p)>> \o calls
          BY <2>4 DEF Typed
        <4> QED BY <2>1, <4>1, PushedCall
      <3>2. td'.failed_fnids = td.failed_fnids \cup {p}
        BY <1>7, <2>4 DEF TD
      <3> QED BY <2>4, <3>1, <3>2
    <2> QED BY <1>9, <2>2, <2>3, <2>4
  <1>13. TableInv'
    BY <1>11 DEF CoreInv, TableInv, Deps
  <1>14. ListInv'
    <2>1. ASSUME NEW u \in Target
          PROVE  /\ ToSet(td'.providers[u]) \subseteq ToSet(td'.known) \cap ToSet(Providers(u))
                 /\ IsInjective(td'.providers[u])
                 /\ td'.providers[u] # <<>> => u \in td'.have
                 /\ u \in td'.have => td'.providers[u] # <<>> \/ u \in td'.failed_deps
      <3>1. CASE u = item
        BY <1>2, <1>11, <3>1 DEF CoreInv, ListInv
      <3>2. CASE u # item
        BY <1>11, <3>2 DEF CoreInv, ListInv
      <3> QED BY <3>1, <3>2
    <2> QED BY <2>1 DEF ListInv, Providers
  <1>15. ReasonInv'
    <2>1. Call("fail_fnid", p).proc # "remove_target"
      BY DEF Call
    <2> QED BY <1>11, <1>12, <2>1 DEF CoreInv, ReasonInv
  <1>16. ASSUME ~abort' PROVE RemovalInv'
    <2>1. RemovalInv
      BY <1>16 DEF CoreInv
    <2>2. \A u \in Target : ToSet(td'.providers[u]) \subseteq ToSet(td.providers[u]) \cup {p}
      BY <1>2, <1>11
    <2>3. \A u \in Target : \A g \in ToSet(td'.providers[u]) :
              g \in td'.failed_fnids => Call("fail_fnid", g) \in ToSet(calls')
      BY <1>12, <2>1, <2>2 DEF RemovalInv, Calling
    <2>4. \A u \in td.failed_deps : \A g \in ToSet(td'.known) :
              u \in Deps(g) => g \in td'.failed_fnids \/ Call("remove_target", u) \in ToSet(calls')
      BY <1>11, <1>12, <2>1 DEF RemovalInv, Calling
    <2> QED BY <1>11, <2>3, <2>4 DEF RemovalInv, Calling, Deps
  <1> QED BY <1>11, <1>12, <1>13, <1>14, <1>15, <1>16 DEF CoreInv

-----------------------------------------------------------------------------
(* The steps *)

Rest == UNCHANGED <<dataCache, abort, asked, todo, item, added>>

\* While calls are under way the caller stays where it is; giving names up only
\* leaves fewer unresolved.
LEMMA SamePhase ==
    ASSUME Inv, Rest, UNCHANGED <<pc, files>>, calls # <<>>,
           td'.names = td.names, td'.have = td.have, td.failed_deps \subseteq td'.failed_deps
    PROVE  PhaseInv'
  <1>1. pc \in {"add_provider", "try", "except", "retrying"}
    BY DEF Inv, PhaseInv, PlaceInv
  <1>2. PlaceInv'
    BY <1>1 DEF Inv, PhaseInv, PlaceInv, Rest, Providers
  <1>3. TodoInv'
    BY DEF Inv, PhaseInv, TodoInv, Rest
  <1>4. ASSUME ~abort' PROVE PassInv'
    <2>1. PassInv
      BY <1>4 DEF Inv, PhaseInv, Rest
    <2>2. \A kind : Unresolved(kind)' \subseteq Unresolved(kind)
      BY DEF Unresolved
    <2> QED BY <2>1, <2>2 DEF PassInv, Rest
  <1> QED BY <1>2, <1>3, <1>4 DEF PhaseInv

LEMMA InvTyped == ASSUME Inv PROVE Typed
  BY DEF Inv, TypeOK, TD, Typed

\* The type of what a round leaves alone.
LEMMA RoundTyped ==
    ASSUME Inv, Rest, pc' \in Places, files' \in Seq(Fn), calls' \in Seq(Frames), td' \in TD
    PROVE  TypeOK'
  BY DEF Inv, TypeOK, TD, Rest

LEMMA FailRoundInv == ASSUME Inv, FailRound PROVE Inv'
  <1> DEFINE f == Head(calls).arg
             build == Listing(f) \ RunTarget
             t == FirstOf(td.names, IF build # {} THEN build ELSE Listing(f))
  <1>1. Typed /\ CoreInv /\ Rest /\ calls # <<>>
    BY InvTyped DEF Inv, FailRound, Rest
  <1>2. f \in Fn /\ Calling("fail_fnid", f)
    BY <1>1, HeadCall DEF FailRound, Calling
  <1>3. CASE Listing(f) # {}
    <2>1. RemoveProvider(f, t) /\ UNCHANGED <<pc, files>>
      BY <1>3 DEF FailRound, Return
    <2>2. t \in Listing(f)
      <3>1. td.names \in Seq(Target) /\ Listing(f) \subseteq ToSet(td.names)
        BY <1>1 DEF Typed, TD, Listing
      <3> DEFINE S == IF build # {} THEN build ELSE Listing(f)
      <3>2. S \subseteq Listing(f) /\ ToSet(td.names) \cap S # {}
        BY <1>3, <3>1
      <3> HIDE DEF S
      <3>3. FirstOf(td.names, S) \in S
        BY <3>1, <3>2, FirstOfIs
      <3> QED BY <3>2, <3>3 DEF S
    <2> HIDE DEF t, f
    <2>3. t \in Target /\ Contains(td.providers[t], f)
      <3>1. ToSet(td.names) \subseteq Target
        BY <1>1, Elements DEF Typed, TD
      <3> QED BY <2>2, <3>1 DEF Listing
    <2>4. /\ td' \in TD /\ calls' \in Seq(Frames) /\ CoreInv'
          /\ td'.names = td.names /\ td'.have = td.have
          /\ td.failed_deps \subseteq td'.failed_deps
      BY <1>1, <1>2, <2>1, <2>3, RemoveProviderCore DEF Rest
    <2>5. PhaseInv'
      BY <1>1, <2>1, <2>4, SamePhase
    <2>6. TypeOK'
      BY <1>1, <2>1, <2>4, RoundTyped DEF Inv, TypeOK
    <2> QED BY <2>4, <2>5, <2>6 DEF Inv
  <1>4. CASE Listing(f) = {}
    <2>1. Return /\ UNCHANGED <<td, pc, files>> /\ Head(calls).proc = "fail_fnid"
      BY <1>4 DEF FailRound, Return
    <2>2. calls' \in Seq(Frames) /\ CoreInv'
      BY <1>1, <1>4, <2>1, FailReturnsCore DEF Rest
    <2>3. PhaseInv'
      BY <1>1, <2>1, SamePhase
    <2>4. TypeOK'
      BY <1>1, <2>1, <2>2, RoundTyped DEF Inv, TypeOK, TD
    <2> QED BY <2>2, <2>3, <2>4 DEF Inv
  <1> QED BY <1>3, <1>4

LEMMA RaiseInv ==
    ASSUME Inv, Raise, Rest, abort, calls # <<>>
    PROVE  Inv'
  <1>1. Typed /\ CoreInv /\ item \in Target /\ <<>> \in Seq(Frames) /\ <<>> \in Seq(Fn) /\ ToSet(<<>>) = {}
    <2>1. ToSet(<<>>) = {}
      BY DEF ToSet
    <2> QED BY <2>1, InvTyped DEF Inv, TypeOK
  <1>2. files' = <<>> /\ abort' /\ ToSet(files') = {}
    BY <1>1 DEF Raise, Rest
  <1>3. CASE pc = "try" /\ item \notin RunTarget /\ item \notin td.external
    <2>1. RemoveTarget(td, item, <<>>) /\ pc' = "except"
      BY <1>3 DEF Raise
    <2>2. Renamed(td)
      BY <1>1 DEF Renamed, Typed
    <2>3. /\ td' \in TD /\ calls' \in Seq(Frames) /\ CoreInv' /\ td'.names = td.names
      BY <1>1, <2>1, <2>2, GiveUpCore DEF Rest
    <2>4. PlaceInv'
      BY <1>2, <2>1 DEF PlaceInv
    <2>5. TodoInv'
      BY <1>3, <2>1, <2>3 DEF Inv, PhaseInv, TodoInv, Rest
    <2>6. TypeOK'
      BY <1>1, <1>2, <2>1, <2>3, RoundTyped DEF Places
    <2> QED BY <1>2, <2>3, <2>4, <2>5, <2>6 DEF Inv, PhaseInv
  <1>4. CASE ~(pc = "try" /\ item \notin RunTarget /\ item \notin td.external)
    <2>1. pc' = "raised" /\ calls' = <<>> /\ td' = td
      BY <1>4 DEF Raise
    <2>2. CoreInv'
      <3>1. TableInv' /\ ListInv'
        BY <1>1, <2>1 DEF CoreInv, TableInv, ListInv, Deps, Providers, Rest
      <3>2. ReasonInv'
        BY <1>1, <2>1 DEF ReasonInv
      <3> QED BY <1>2, <3>1, <3>2 DEF CoreInv
    <2>3. PlaceInv'
      BY <1>2, <2>1 DEF PlaceInv
    <2>4. TodoInv'
      BY <2>1 DEF Inv, PhaseInv, TodoInv, Rest
    <2>5. TypeOK'
      BY <1>1, <1>2, <2>1, RoundTyped DEF Places, Typed
    <2> QED BY <1>2, <2>2, <2>3, <2>4, <2>5 DEF Inv, PhaseInv
  <1> QED BY <1>3, <1>4

LEMMA RemoveRoundInv == ASSUME Inv, RemoveRound PROVE Inv'
  <1> DEFINE t == Head(calls).arg
             left == ToSet(td.known) \ td.failed_fnids
             dependees == {f \in left : t \in Deps(f)}
             idependees == {f \in left : t \notin RunTarget /\ t \in Idepends(f)}
             f == FirstOf(td.known, IF dependees # {} THEN dependees ELSE idependees)
  <1>1. Typed /\ CoreInv /\ Rest /\ calls # <<>> /\ Head(calls).proc = "remove_target"
    BY InvTyped DEF Inv, RemoveRound, Rest
  <1>2. \/ dependees \cup idependees # {} /\ FailFnid(td, f) /\ UNCHANGED <<pc, files>>
        \/ dependees \cup idependees = {} /\ Return
        \/ abort /\ Raise
    BY DEF RemoveRound
  <1>3. CASE dependees \cup idependees # {} /\ FailFnid(td, f) /\ UNCHANGED <<pc, files>>
    <2>1. f \in Fn
      <3>1. td.known \in Seq(Fn) /\ ToSet(td.known) \subseteq Fn
        BY <1>1, Elements DEF Typed, TD
      <3> DEFINE S == IF dependees # {} THEN dependees ELSE idependees
      <3>2. S \subseteq ToSet(td.known) /\ S # {}
        BY <1>3
      <3> HIDE DEF S
      <3>3. ToSet(td.known) \cap S # {}
        BY <3>2
      <3>4. FirstOf(td.known, S) \in ToSet(td.known)
        BY <3>1, <3>3, FirstOfIs
      <3> QED BY <3>1, <3>4 DEF S
    <2> HIDE DEF f
    <2>2. /\ td' \in TD /\ calls' \in Seq(Frames) /\ CoreInv'
          /\ td'.names = td.names /\ td'.have = td.have /\ td'.failed_deps = td.failed_deps
      BY <1>1, <1>3, <2>1, FailCore DEF Rest
    <2>3. PhaseInv'
      BY <1>1, <1>3, <2>2, SamePhase
    <2>4. TypeOK'
      BY <1>1, <1>3, <2>2, RoundTyped DEF Inv, TypeOK
    <2> QED BY <2>2, <2>3, <2>4 DEF Inv
  <1>4. CASE dependees \cup idependees = {} /\ Return
    <2>1. UNCHANGED <<td, pc, files>>
      BY <1>4 DEF Return
    <2>2. \A g \in ToSet(td.known) \ td.failed_fnids : Head(calls).arg \notin Deps(g)
      BY <1>4
    <2>3. calls' \in Seq(Frames) /\ CoreInv'
      BY <1>1, <1>4, <2>2, RemoveReturnsCore DEF Rest
    <2>4. PhaseInv'
      BY <1>1, <2>1, SamePhase
    <2>5. TypeOK'
      BY <1>1, <2>1, <2>3, RoundTyped DEF Inv, TypeOK, TD
    <2> QED BY <2>3, <2>4, <2>5 DEF Inv
  <1>5. CASE abort /\ Raise
    BY <1>1, <1>5, RaiseInv
  <1> QED BY <1>2, <1>3, <1>4, <1>5

LEMMA AddEligibleInv == ASSUME Inv, AddEligible PROVE Inv'
  <1> DEFINE p == Head(files)
  <1>1. /\ Typed /\ CoreInv /\ pc \in {"add_provider", "try"} /\ calls = <<>> /\ files # <<>>
        /\ files' = Tail(files) /\ UNCHANGED <<dataCache, abort, pc, asked, todo, item, added>>
    BY InvTyped DEF Inv, AddEligible
  <1>2. files \in Seq(Fn) /\ item \in ToSet(td.names) /\ ToSet(files) \subseteq ToSet(Providers(item))
    BY <1>1 DEF Inv, TypeOK, PhaseInv, PlaceInv, TodoInv
  <1>3. /\ p \in Fn /\ files' \in Seq(Fn) /\ p \in ToSet(Providers(item))
        /\ ToSet(files') \subseteq ToSet(Providers(item))
    BY <1>1, <1>2, Popped
  <1>4. /\ td' \in TD /\ calls' \in Seq(Frames) /\ CoreInv'
        /\ ToSet(td.names) \subseteq ToSet(td'.names)
    <2>1. CASE p \in td.failed_fnids
      <3>1. td' = td /\ calls' = calls
        BY <2>1 DEF AddEligible
      <3>2. Renamed(td')
        BY <1>1, <3>1 DEF Renamed, Typed
      <3> QED BY <1>1, <3>1, <3>2, StillCore DEF Typed
    <2>2. CASE p \notin td.failed_fnids
      <3>1. AddTasks([td EXCEPT !.have = @ \cup {item},
                                !.providers[item] = IF Contains(@, p) THEN @ ELSE Append(@, p)], p)
        BY <2>2 DEF AddEligible
      <3> HIDE DEF p
      <3> QED BY <1>1, <1>2, <1>3, <2>2, <3>1, AddCore
    <2> QED BY <2>1, <2>2
  <1>5. TypeOK'
    BY <1>1, <1>3, <1>4, RoundTyped DEF Inv, TypeOK, Rest
  <1>6. PhaseInv'
    <2>1. PlaceInv'
      BY <1>1, <1>3 DEF PlaceInv, Providers
    <2>2. TodoInv'
      BY <1>1, <1>2, <1>4 DEF Inv, PhaseInv, TodoInv
    <2>3. PassInv'
      BY <1>1 DEF PassInv
    <2> QED BY <2>1, <2>2, <2>3 DEF PhaseInv
  <1> QED BY <1>4, <1>5, <1>6 DEF Inv

\* What the loop over the eligible providers starts with.
LEMMA AddProvidersIs ==
    ASSUME Typed, NEW t \in Target, files = <<>>, AddProviders(t)
    PROVE  /\ files' \in Seq(Fn) /\ ToSet(files') \subseteq ToSet(Providers(t)) /\ calls' = calls
  <1>1. calls' = calls /\ (files' = <<>> \/ files' = DropFailed(Providers(t), td.failed_fnids))
    BY DEF AddProviders, Eligible
  <1>2. Providers(t) \in Seq(Fn) /\ <<>> \in Seq(Fn) /\ ToSet(<<>>) = {}
    BY Metadata DEF Typed, ToSet
  <1>3. /\ DropFailed(Providers(t), td.failed_fnids) \in Seq(Fn)
        /\ ToSet(DropFailed(Providers(t), td.failed_fnids)) \subseteq ToSet(Providers(t))
    BY <1>2, DropFailedIs
  <1> QED BY <1>1, <1>2, <1>3

LEMMA AddTargetInv == ASSUME Inv, AddTarget PROVE Inv'
  <1> DEFINE t == CommandLine[asked + 1]
             named == [td EXCEPT !.names = AddNames(@, <<t>>)]
  <1>1. /\ Typed /\ CoreInv /\ pc = "targets" /\ calls = <<>> /\ files = <<>> /\ item' = t
        /\ asked' = asked + 1 /\ UNCHANGED <<dataCache, abort, todo, added>>
    BY InvTyped DEF Inv, PhaseInv, PlaceInv, AddTarget
  <1>2. asked' \in 0 .. Len(CommandLine) /\ t \in Target /\ <<>> \in Seq(Fn) /\ <<>> \in Seq(Frames)
    <2>1. asked \in 0 .. Len(CommandLine) /\ asked < Len(CommandLine) /\ Len(CommandLine) \in Nat
      BY TargetAssumption DEF Inv, TypeOK, AddTarget
    <2>2. asked + 1 \in 1 .. Len(CommandLine)
      BY <2>1
    <2> QED BY <1>1, <2>1, <2>2, TargetAssumption
  <1>3. /\ Renamed(named) /\ named.external = td.external /\ t \in ToSet(named.names)
    <2>1. td.names \in Seq(Target) /\ <<t>> \in Seq(Target) /\ ToSet(<<t>>) = {t}
      BY <1>1, <1>2 DEF Typed, TD, ToSet
    <2> HIDE DEF t
    <2>2. /\ AddNames(td.names, <<t>>) \in Seq(Target)
          /\ ToSet(AddNames(td.names, <<t>>)) = ToSet(td.names) \cup {t}
      <3>1. \A names, more \in Seq(Target) :
                /\ AddNames(names, more) \in Seq(Target)
                /\ ToSet(AddNames(names, more)) = ToSet(names) \cup ToSet(more)
        BY AddNamesIs
      <3> QED BY <2>1, <3>1
    <2> QED BY <1>1, <2>2 DEF Renamed, Typed, TD
  <1>4. \/ AddProviders(t) /\ td' = named /\ pc' = "add_provider"
        \/ ~abort /\ RemoveTarget(named, t, <<>>) /\ pc' = "add_provider" /\ UNCHANGED files
        \/ td' = named /\ pc' = "raised" /\ UNCHANGED <<files, calls>>
    BY <1>1 DEF AddTarget
  <1> HIDE DEF named, t
  <1>5. /\ td' \in TD /\ calls' \in Seq(Frames) /\ CoreInv' /\ td'.names = named.names
        /\ files' \in Seq(Fn) /\ ToSet(files') \subseteq ToSet(Providers(t))
        /\ pc' = "add_provider" \/ (pc' = "raised" /\ calls' = <<>> /\ files' = <<>>)
    <2>0. ToSet(files) = {}
      BY <1>1, <1>2, Elements
    <2>1. CASE AddProviders(t) /\ td' = named /\ pc' = "add_provider"
      <3>1. files' \in Seq(Fn) /\ ToSet(files') \subseteq ToSet(Providers(t)) /\ calls' = calls
        BY <1>1, <1>2, <2>1, AddProvidersIs
      <3>2. CoreInv'
        BY <1>1, <1>3, <2>1, <3>1, StillCore
      <3> QED BY <1>1, <1>2, <1>3, <2>1, <3>1, <3>2 DEF Renamed
    <2>2. CASE ~abort /\ RemoveTarget(named, t, <<>>) /\ pc' = "add_provider" /\ UNCHANGED files
      <3>1. td' \in TD /\ calls' \in Seq(Frames) /\ CoreInv' /\ td'.names = named.names
        BY <1>1, <1>2, <1>3, <2>2, GiveUpCore
      <3> QED BY <1>1, <1>2, <2>0, <2>2, <3>1
    <2>3. CASE td' = named /\ pc' = "raised" /\ UNCHANGED <<files, calls>>
      <3>1. CoreInv'
        BY <1>1, <1>3, <2>3, StillCore
      <3> QED BY <1>1, <1>2, <1>3, <2>0, <2>3, <3>1 DEF Renamed
    <2> QED BY <1>4, <2>1, <2>2, <2>3
  <1>6. TypeOK'
    BY <1>1, <1>2, <1>5 DEF Inv, TypeOK, TD, Places
  <1>7. PhaseInv'
    <2>1. PlaceInv'
      BY <1>1, <1>5 DEF PlaceInv, Providers
    <2>2. TodoInv'
      BY <1>1, <1>3, <1>5 DEF Inv, PhaseInv, TodoInv, Renamed
    <2>3. PassInv'
      BY <1>5 DEF PassInv
    <2> QED BY <2>1, <2>2, <2>3 DEF PhaseInv
  <1> QED BY <1>5, <1>6, <1>7 DEF Inv

\* A name of the pass, resolved or given up, is out of what is left of it.
LEMMA ResolveInv ==
    ASSUME Inv, pc \in {"build", "run"}, todo # {}, item' = FirstOf(td.names, todo),
           todo' = todo \ {item'}, UNCHANGED <<dataCache, abort, asked, added>>,
           \/ AddProviders(item') /\ pc' = "try" /\ UNCHANGED td
           \/ RemoveTarget(td, item', <<>>) /\ pc' = "except" /\ UNCHANGED files
           \/ abort /\ pc' = "raised" /\ UNCHANGED <<td, files, calls>>
    PROVE  Inv'
  <1>1. /\ Typed /\ CoreInv /\ calls = <<>> /\ files = <<>> /\ <<>> \in Seq(Fn) /\ <<>> \in Seq(Frames)
        /\ td.names \in Seq(Target) /\ todo \subseteq ToSet(td.names)
    BY InvTyped DEF Inv, PhaseInv, PlaceInv, TodoInv, TypeOK, TD
  <1>2. item' \in todo /\ item' \in Target /\ item' \in ToSet(td.names)
    <2>1. ToSet(td.names) \cap todo # {}
      BY <1>1
    <2>2. FirstOf(td.names, todo) \in todo
      BY <1>1, <2>1, FirstOfIs
    <2> QED BY <1>1, <2>2, Elements
  <1>3. Renamed(td) /\ ToSet(files) = {}
    BY <1>1, Elements DEF Renamed, Typed
  <1>4. /\ td' \in TD /\ calls' \in Seq(Frames) /\ CoreInv' /\ td'.names = td.names /\ td'.have = td.have
        /\ files' \in Seq(Fn)
        /\ td.failed_deps \subseteq td'.failed_deps
        /\ \/ pc' = "try" /\ ToSet(files') \subseteq ToSet(Providers(item'))
           \/ pc' = "except" /\ files' = <<>> /\ item' \in td'.failed_deps
           \/ pc' = "raised" /\ files' = <<>> /\ calls' = <<>> /\ abort
    <2>1. CASE AddProviders(item') /\ pc' = "try" /\ UNCHANGED td
      <3>1. files' \in Seq(Fn) /\ ToSet(files') \subseteq ToSet(Providers(item')) /\ calls' = calls
        BY <1>1, <1>2, <2>1, AddProvidersIs
      <3>2. CoreInv'
        BY <1>1, <1>3, <2>1, <3>1, StillCore
      <3> QED BY <1>1, <2>1, <3>1, <3>2 DEF Typed
    <2>2. CASE RemoveTarget(td, item', <<>>) /\ pc' = "except" /\ UNCHANGED files
      <3>1. /\ td' \in TD /\ calls' \in Seq(Frames) /\ CoreInv' /\ td'.names = td.names
            /\ td'.have = td.have /\ td'.failed_deps = td.failed_deps \cup {item'}
        BY <1>1, <1>2, <1>3, <2>2, GiveUpCore
      <3> QED BY <1>1, <2>2, <3>1
    <2>3. CASE abort /\ pc' = "raised" /\ UNCHANGED <<td, files, calls>>
      <3>1. CoreInv'
        BY <1>1, <1>3, <2>3, StillCore
      <3> QED BY <1>1, <2>3, <3>1 DEF Typed
    <2> QED BY <2>1, <2>2, <2>3
  <1>5. TypeOK'
    BY <1>2, <1>4 DEF Inv, TypeOK, TD, Places
  <1>6. PlaceInv'
    BY <1>1, <1>4 DEF PlaceInv, Providers
  <1>7. TodoInv'
    BY <1>1, <1>2, <1>4 DEF Inv, PhaseInv, TodoInv
  <1>8. ASSUME ~abort' PROVE PassInv'
    <2>1. PassInv /\ TodoInv
      BY <1>8 DEF Inv, PhaseInv
    <2>2. \A kind : Unresolved(kind)' \subseteq Unresolved(kind)
      BY <1>4 DEF Unresolved
    <2>3. \A kind : pc' = "except" => item' \notin Unresolved(kind)'
      BY <1>4 DEF Unresolved
    <2>4. pc' \in {"try", "except"}
      BY <1>4, <1>8
    <2>5. item' \in RunTarget <=> pc = "run"
      BY <1>2, <2>1 DEF TodoInv
    <2> QED BY <2>1, <2>2, <2>3, <2>4, <2>5 DEF PassInv
  <1> QED BY <1>4, <1>5, <1>6, <1>7, <1>8 DEF Inv, PhaseInv

LEMMA ResolveBuildInv == ASSUME Inv, ResolveBuild PROVE Inv'
  BY ResolveInv DEF ResolveBuild

LEMMA ResolveRunInv == ASSUME Inv, ResolveRun PROVE Inv'
  BY ResolveInv DEF ResolveRun

\* The steps that leave the tables alone.
LEMMA StillInv ==
    ASSUME Inv, Renamed(td'), UNCHANGED <<dataCache, abort, calls>>, PhaseInv',
           pc' \in Places, asked' = asked, item' = item, todo' \subseteq Target, added' \in BOOLEAN,
           files' \in Seq(Fn)
    PROVE  Inv'
  <1>1. CoreInv'
    BY InvTyped, StillCore DEF Inv
  <1>2. TypeOK'
    BY DEF Inv, TypeOK, Renamed, TD
  <1> QED BY <1>1, <1>2 DEF Inv

LEMMA Unchanged == ASSUME Inv, td' = td PROVE Renamed(td') /\ td.names \in Seq(Target)
  BY InvTyped DEF Renamed, Typed, TD

LEMMA MarkExternalInv == ASSUME Inv, MarkExternal PROVE Inv'
  <1>1. /\ Typed /\ item \in Target /\ todo \subseteq Target /\ added \in BOOLEAN /\ files = <<>>
        /\ files \in Seq(Fn) /\ calls = <<>>
    BY InvTyped DEF Inv, TypeOK, MarkExternal
  <1>2. Renamed(td')
    BY <1>1 DEF MarkExternal, Renamed, Typed, TD
  <1>3. PhaseInv'
    <2>1. PlaceInv'
      BY <1>1 DEF MarkExternal, PlaceInv
    <2>2. TodoInv'
      BY <1>2 DEF Inv, PhaseInv, MarkExternal, TodoInv, Renamed
    <2>3. PassInv'
      BY DEF MarkExternal, PassInv
    <2> QED BY <2>1, <2>2, <2>3 DEF PhaseInv
  <1> QED BY <1>1, <1>2, <1>3, StillInv DEF MarkExternal, Places

LEMMA StartPassInv == ASSUME Inv, StartPass PROVE Inv'
  <1>1. /\ Renamed(td') /\ calls = <<>> /\ files = <<>> /\ files \in Seq(Fn) /\ added \in BOOLEAN
        /\ ToSet(td.names) \subseteq Target
    BY Unchanged, Elements DEF StartPass, Inv, TypeOK, PhaseInv, PlaceInv
  <1>2. todo' \subseteq Target /\ todo' \subseteq ToSet(td.names) /\ todo' \cap RunTarget = {}
    BY <1>1 DEF StartPass, Unresolved
  <1>3. PhaseInv'
    <2>1. PlaceInv'
      BY <1>1 DEF StartPass, PlaceInv
    <2>2. TodoInv'
      BY <1>2 DEF StartPass, TodoInv
    <2>3. PassInv'
      BY DEF StartPass, PassInv, Unresolved
    <2> QED BY <2>1, <2>2, <2>3 DEF PhaseInv
  <1> QED BY <1>1, <1>2, <1>3, StillInv DEF StartPass, Places

LEMMA StartRunPassInv == ASSUME Inv, StartRunPass PROVE Inv'
  <1>1. /\ Renamed(td') /\ calls = <<>> /\ files = <<>> /\ files \in Seq(Fn) /\ added \in BOOLEAN
        /\ ToSet(td.names) \subseteq Target
    BY Unchanged, Elements DEF StartRunPass, Inv, TypeOK, PhaseInv, PlaceInv
  <1>2. todo' \subseteq Target /\ todo' \subseteq ToSet(td.names) /\ todo' \subseteq RunTarget
    BY <1>1 DEF StartRunPass, Unresolved
  <1>3. PhaseInv'
    <2>1. PlaceInv'
      BY <1>1 DEF StartRunPass, PlaceInv
    <2>2. TodoInv'
      BY <1>2 DEF StartRunPass, TodoInv
    <2>3. ASSUME ~abort' PROVE PassInv'
      <3>1. PassInv
        BY <2>3 DEF Inv, PhaseInv, StartRunPass
      <3> QED BY <3>1 DEF StartRunPass, PassInv, Unresolved
    <2> QED BY <2>1, <2>2, <2>3 DEF PhaseInv
  <1> QED BY <1>1, <1>2, <1>3, StillInv DEF StartRunPass, Places

\* A round that has given the name up has added nothing.
LEMMA EndResolveInv == ASSUME Inv, EndResolve PROVE Inv'
  <1>1. /\ Renamed(td') /\ calls = <<>> /\ files = <<>> /\ files \in Seq(Fn) /\ added \in BOOLEAN
        /\ todo \subseteq Target
    BY Unchanged DEF EndResolve, Inv, TypeOK
  <1>2. PhaseInv'
    <2>1. PlaceInv'
      BY <1>1 DEF EndResolve, PlaceInv
    <2>2. TodoInv'
      BY DEF Inv, PhaseInv, EndResolve, TodoInv
    <2>3. ASSUME ~abort' PROVE PassInv'
      <3>1. PassInv
        BY <2>3 DEF Inv, PhaseInv, EndResolve
      <3>2. ~added' => ~added /\ pc = "except"
        BY DEF EndResolve
      <3> QED BY <3>1, <3>2 DEF EndResolve, PassInv, Unresolved
    <2> QED BY <2>1, <2>2, <2>3 DEF PhaseInv
  <1> QED BY <1>1, <1>2, StillInv DEF EndResolve, Places

\* After a pass that has added nothing, no name is left to resolve.
LEMMA EndPassInv == ASSUME Inv, EndPass PROVE Inv'
  <1>1. /\ Renamed(td') /\ calls = <<>> /\ files = <<>> /\ files \in Seq(Fn) /\ added \in BOOLEAN
        /\ ToSet(td.names) \subseteq Target
    BY Unchanged, Elements DEF EndPass, Inv, TypeOK, PhaseInv, PlaceInv
  <1>2. /\ todo' \subseteq Target /\ todo' \subseteq ToSet(td.names)
        /\ pc' = "build" => todo' \cap RunTarget = {}
    BY <1>1 DEF EndPass, Unresolved
  <1>3. PhaseInv'
    <2>1. PlaceInv'
      BY <1>1 DEF EndPass, PlaceInv
    <2>2. TodoInv'
      BY <1>2 DEF EndPass, TodoInv
    <2>3. ASSUME ~abort' PROVE PassInv'
      <3>1. PassInv
        BY <2>3 DEF Inv, PhaseInv, EndPass
      <3>2. CASE added
        BY <3>2 DEF EndPass, PassInv, Unresolved
      <3>3. CASE ~added
        <4>1. Unresolved(Target \ RunTarget) = {} /\ Unresolved(RunTarget) = {}
          BY <3>1, <3>3 DEF EndPass, PassInv
        <4>2. Unresolved(Target)' = {}
          BY <4>1 DEF EndPass, Unresolved
        <4> QED BY <3>3, <4>2 DEF EndPass, PassInv
      <3> QED BY <3>2, <3>3
    <2> QED BY <2>1, <2>2, <2>3 DEF PhaseInv
  <1> QED BY <1>1, <1>2, <1>3, StillInv DEF EndPass, Places

LEMMA TryAltConfigsInv == ASSUME Inv, TryAltConfigs PROVE Inv'
  <1>1. Renamed(td') /\ calls = <<>> /\ todo \subseteq Target /\ added \in BOOLEAN
    BY Unchanged DEF TryAltConfigs, Inv, TypeOK, PhaseInv, PlaceInv
  <1>2. files' \in Seq(Fn)
    <2>1. PICK failed \in SUBSET Selected(AllNeeds) : files' = SetToSeq(failed)
      BY DEF TryAltConfigs
    <2>2. failed \subseteq Fn
      BY <2>1 DEF Selected
    <2>3. IsFiniteSet(failed)
      BY <2>2, TargetAssumption, FS_Subset
    <2>4. SetToSeq(failed) \in Seq(failed)
      BY <2>3, SetToSeqIs
    <2> QED BY <2>1, <2>2, <2>4
  <1>3. PhaseInv'
    <2>1. PlaceInv'
      BY DEF TryAltConfigs, PlaceInv
    <2>2. TodoInv'
      BY DEF Inv, PhaseInv, TryAltConfigs, TodoInv
    <2>3. ASSUME ~abort' PROVE PassInv'
      BY <2>3 DEF Inv, PhaseInv, TryAltConfigs, PassInv, Unresolved
    <2> QED BY <2>1, <2>2, <2>3 DEF PhaseInv
  <1> QED BY <1>1, <1>2, <1>3, StillInv DEF TryAltConfigs, Places

LEMMA FailNextInv == ASSUME Inv, FailNext PROVE Inv'
  <1>1. /\ Typed /\ CoreInv /\ Rest /\ pc = "retrying" /\ pc' = pc /\ files # <<>>
        /\ files \in Seq(Fn) /\ files' = Tail(files)
    BY InvTyped DEF FailNext, Inv, TypeOK, Rest
  <1>2. Head(files) \in Fn /\ files' \in Seq(Fn)
    BY <1>1, Popped
  <1>3. /\ td' \in TD /\ calls' \in Seq(Frames) /\ CoreInv'
        /\ td'.names = td.names /\ td'.have = td.have /\ td'.failed_deps = td.failed_deps
    <2>1. CASE Head(files) \in td.failed_fnids
      <3>1. Renamed(td') /\ UNCHANGED <<td, calls>>
        BY <2>1, Unchanged DEF FailNext
      <3> QED BY <1>1, <3>1, StillCore DEF Typed, Rest
    <2>2. CASE Head(files) \notin td.failed_fnids
      <3>1. FailFnid(td, Head(files))
        BY <2>2 DEF FailNext
      <3> QED BY <1>1, <1>2, <3>1, FailCore DEF Rest
    <2> QED BY <2>1, <2>2
  <1>4. PhaseInv'
    <2>1. PlaceInv'
      BY <1>1 DEF PlaceInv
    <2>2. TodoInv'
      BY <1>1, <1>3 DEF Inv, PhaseInv, TodoInv, Rest
    <2>3. ASSUME ~abort' PROVE PassInv'
      BY <1>1, <1>3, <2>3 DEF Inv, PhaseInv, PassInv, Unresolved, Rest
    <2> QED BY <2>1, <2>2, <2>3 DEF PhaseInv
  <1>5. TypeOK'
    BY <1>1, <1>2, <1>3, RoundTyped DEF Places
  <1> QED BY <1>3, <1>4, <1>5 DEF Inv

LEMMA EndRetryInv == ASSUME Inv, EndRetry PROVE Inv'
  <1>1. /\ Renamed(td') /\ files \in Seq(Fn) /\ todo \subseteq Target /\ added \in BOOLEAN
    BY Unchanged DEF EndRetry, Inv, TypeOK
  <1>2. PhaseInv'
    <2>1. PlaceInv'
      BY DEF EndRetry, PlaceInv
    <2>2. TodoInv'
      BY DEF Inv, PhaseInv, EndRetry, TodoInv
    <2>3. ASSUME ~abort' PROVE PassInv'
      BY <2>3 DEF Inv, PhaseInv, EndRetry, PassInv, Unresolved
    <2> QED BY <2>1, <2>2, <2>3 DEF PhaseInv
  <1> QED BY <1>1, <1>2, StillInv DEF EndRetry, Places

LEMMA StuttersInv == ASSUME Inv, UNCHANGED vars PROVE Inv'
  <1>1. UNCHANGED <<dataCache, abort, td, pc, asked, todo, item, files, added, calls>>
    BY DEF vars
  <1>2. TypeOK'
    BY <1>1 DEF Inv, TypeOK
  <1>3. CoreInv'
    BY <1>1, Unchanged, InvTyped, StillCore DEF Inv
  <1>4. PhaseInv'
    <2>1. PlaceInv'
      BY <1>1 DEF Inv, PhaseInv, PlaceInv, Providers
    <2>2. TodoInv'
      BY <1>1 DEF Inv, PhaseInv, TodoInv
    <2>3. ASSUME ~abort' PROVE PassInv'
      BY <1>1, <2>3 DEF Inv, PhaseInv, PassInv, Unresolved
    <2> QED BY <2>1, <2>2, <2>3 DEF PhaseInv
  <1> QED BY <1>2, <1>3, <1>4 DEF Inv

LEMMA NextInv == ASSUME Inv, [Next]_vars PROVE Inv'
  <1>1. \/ AddTarget \/ MarkExternal \/ StartPass \/ ResolveBuild \/ StartRunPass \/ ResolveRun
        \/ EndResolve \/ EndPass \/ AddEligible \/ FailRound \/ RemoveRound \/ FailNext \/ EndRetry
        \/ TryAltConfigs \/ UNCHANGED vars
    BY DEF Next, Step, Stopped
  <1> QED BY <1>1, AddTargetInv, MarkExternalInv, StartPassInv, ResolveBuildInv, StartRunPassInv,
             ResolveRunInv, EndResolveInv, EndPassInv, AddEligibleInv, FailRoundInv, RemoveRoundInv,
             FailNextInv, EndRetryInv, TryAltConfigsInv, StuttersInv

LEMMA Always == Spec => []Inv
  <1>1. Inv /\ [Next]_vars => Inv'
    BY NextInv
  <1> QED BY <1>1, InitInv, PTL DEF Spec

-----------------------------------------------------------------------------
(* What resolution promises *)

\* add_tasks, build_targets, fail_fnid and the caller's loops keep the tables
\* of TaskData well typed (taskdata.py:36-60), for any metadata.
THEOREM TypeCorrect == Spec => []TypeOK
  BY Always, PTL DEF Inv

\* When no removal is under way, a listed provider is known and has not failed,
\* and a name a good file needs has one.
LEMMA Settled ==
    ASSUME Inv, ~abort, pc \in {"done", "retried"}
    PROVE  /\ \A t \in Target : \A f \in ToSet(td.providers[t]) :
                 f \in ToSet(td.known) \ td.failed_fnids /\ f \in ToSet(Providers(t))
           /\ \A f \in ToSet(td.known) : \A t \in Deps(f) \ Ignored :
                 f \in td.failed_fnids \/ td.providers[t] # <<>>
  <1>1. /\ TableInv /\ ListInv /\ RemovalInv /\ calls = <<>> /\ Unresolved(Target) = {} /\ dataCache \in DataCaches
        /\ ToSet(td.names) \subseteq Target /\ ToSet(td.known) \subseteq Fn
    <2>1. td.names \in Seq(Target) /\ td.known \in Seq(Fn)
      BY InvTyped DEF Inv, Typed, TD
    <2> QED BY <2>1, Elements DEF Inv, TypeOK, CoreInv, PhaseInv, PlaceInv, PassInv
  <1>2. \A proc, x : ~Calling(proc, x)
    BY <1>1 DEF Calling, ToSet
  <1>3. ASSUME NEW f \in ToSet(td.known), NEW t \in Deps(f) \ Ignored, f \notin td.failed_fnids
        PROVE  td.providers[t] # <<>>
    <2>1. t \in ToSet(td.names) /\ t \in Target
      BY <1>1 DEF TableInv
    <2>2. t \notin td.failed_deps
      BY <1>1, <1>2, <1>3 DEF RemovalInv
    <2>3. t \in td.have
      BY <1>1, <1>3, <2>1, <2>2 DEF Unresolved
    <2> QED BY <1>1, <2>1, <2>2, <2>3 DEF ListInv
  <1> QED BY <1>1, <1>2, <1>3 DEF ListInv, RemovalInv

LEMMA CompleteThen == ASSUME Inv, ~abort, pc \in {"done", "retried"} PROVE Complete(Needed)
  <1> DEFINE good == ToSet(td.known) \ td.failed_fnids
             chosen(names) == {td.providers[t][1] : t \in {n \in names : td.providers[n] # <<>>}}
             needed(queue) == ToSet(CommandLine) \cup UNION {Needed[f] : f \in queue}
  <1>1. /\ td.providers \in [Target -> Seq(Fn)] /\ td.known \in Seq(Fn) /\ good \in SUBSET Fn
        /\ dataCache \in DataCaches
    <2>1. td.providers \in [Target -> Seq(Fn)] /\ td.known \in Seq(Fn) /\ dataCache \in DataCaches
      BY InvTyped DEF Inv, Typed, TD
    <2> QED BY <2>1, Elements
  <1>2. needed(good) \subseteq Target
    <2>1. ToSet(CommandLine) \subseteq Target
      BY TargetAssumption, Elements
    <2>2. \A f \in good : Needed[f] \subseteq Target
      BY <1>1, Metadata DEF Needed
    <2> QED BY <2>1, <2>2
  <1>3. chosen(needed(good)) \subseteq good
    <2> SUFFICES ASSUME NEW t \in needed(good), td.providers[t] # <<>>
                 PROVE  td.providers[t][1] \in good
      OBVIOUS
    <2>1. t \in Target /\ td.providers[t] \in Seq(Fn)
      BY <1>1, <1>2
    <2>2. 1 \in DOMAIN td.providers[t]
      BY <2>1
    <2>3. td.providers[t][1] \in ToSet(td.providers[t])
      BY <2>2 DEF ToSet
    <2> HIDE DEF needed
    <2> QED BY <2>1, <2>3, Settled
  <1>4. Selected(Needed) \subseteq good
    BY <1>1, <1>3 DEF Selected
  <1>5. \A f \in Fn : Needed[f] = Deps(f)
    BY DEF Needed
  <1> QED BY <1>1, <1>4, <1>5, Settled DEF Complete

\* Under -k the queue that prepare_runqueue builds from the tables, after
\* add_unresolved (taskdata.py:531) and after every retry, has only buildable
\* files, and a provider for each DEPENDS and RDEPENDS of them.
THEOREM QueueCompleteHolds == Spec => []QueueComplete
  <1>1. Inv => QueueComplete
    BY CompleteThen DEF QueueComplete
  <1> QED BY <1>1, Always, PTL

LEMMA DeadThen == ASSUME Inv, ~abort, pc = "done" PROVE Dead(Needed) \cap ToSet(td.known) \subseteq td.failed_fnids
  <1> DEFINE lost == td.failed_fnids \cup (Fn \ ToSet(td.known))
  <1>1. /\ td.providers \in [Target -> Seq(Fn)] /\ lost \in SUBSET Fn /\ dataCache \in DataCaches
    BY InvTyped DEF Inv, Typed, TD
  <1>2. ASSUME NEW f \in Fn, NEW t \in Needed[f], t \notin Ignored, ToSet(Providers(t)) \subseteq lost, f \notin lost
        PROVE  FALSE
    <2>1. t \in Deps(f) \ Ignored /\ t \in Target /\ f \in ToSet(td.known) /\ f \notin td.failed_fnids
      BY <1>1, <1>2, Metadata DEF Needed
    <2>2. td.providers[t] # <<>> /\ td.providers[t] \in Seq(Fn)
      BY <1>1, <2>1, Settled
    <2>3. PICK p : p \in ToSet(td.providers[t])
      BY <2>2, Elements
    <2>4. p \in ToSet(td.known) \ td.failed_fnids /\ p \in ToSet(Providers(t))
      BY <2>1, <2>3, Settled
    <2> QED BY <1>2, <2>4
  <1>3. \A f \in Fn : (\E t \in Needed[f] : t \notin Ignored /\ ToSet(Providers(t)) \subseteq lost) => f \in lost
    <2> HIDE DEF lost
    <2> QED BY <1>2
  <1>4. Dead(Needed) \subseteq lost
    <2> HIDE DEF lost
    <2> QED BY <1>1, <1>3 DEF Dead
  <1> QED BY <1>4

\* Under -k every known file whose DEPENDS and RDEPENDS cannot be met, through
\* whatever chain or cycle, is in failed_fnids when add_unresolved returns:
\* fail_fnid and remove_buildtarget (taskdata.py:469-513) reach all of them.
THEOREM DeadAreFailedHolds == Spec => []DeadAreFailed
  <1>1. Inv => DeadAreFailed
    BY DeadThen DEF DeadAreFailed
  <1> QED BY <1>1, Always, PTL

-----------------------------------------------------------------------------
(* Why something is given up *)

ForReason ==
    /\ \A t \in td.have :
          t \in td'.failed_deps \ td.failed_deps =>
              td'.providers[t] = <<>> \/ (abort /\ pc = "try" /\ t = item)
    /\ \A f \in td'.failed_fnids \ td.failed_fnids :
          pc = "retrying" \/ AllNeeds[f] \cap td'.failed_deps # {}

\* Without a provider to choose from, the name had no list before.
LEMMA NothingForReason ==
    ASSUME Inv, NEW t, t \notin td.have, NEW s, s.failed_deps = td.failed_deps,
           s \in TD, s.failed_fnids = td.failed_fnids,
           RemoveTarget(s, t, <<>>)
    PROVE  ForReason
  <1>1. td'.failed_deps = td.failed_deps \cup {t} /\ td'.failed_fnids = td.failed_fnids
    BY DEF RemoveTarget, TD
  <1> QED BY <1>1 DEF ForReason

LEMMA SameForReason ==
    ASSUME td'.failed_deps = td.failed_deps, td'.failed_fnids = td.failed_fnids
    PROVE  ForReason
  BY DEF ForReason

LEMMA AddTargetForReason == ASSUME Inv, AddTarget PROVE ForReason
  <1> DEFINE named == [td EXCEPT !.names = AddNames(@, <<item'>>)]
  <1>1. Typed /\ item' \in Target
    <2>1. asked \in 0 .. Len(CommandLine) /\ asked < Len(CommandLine) /\ Len(CommandLine) \in Nat
      BY TargetAssumption DEF Inv, TypeOK, AddTarget
    <2>2. asked + 1 \in 1 .. Len(CommandLine)
      BY <2>1
    <2> QED BY <2>2, TargetAssumption, InvTyped DEF AddTarget
  <1>2. named \in TD /\ named.failed_deps = td.failed_deps /\ named.failed_fnids = td.failed_fnids
    <2>1. td.names \in Seq(Target) /\ <<item'>> \in Seq(Target)
      BY <1>1 DEF Typed, TD
    <2>2. \A names, more \in Seq(Target) : AddNames(names, more) \in Seq(Target)
      BY AddNamesIs
    <2>3. AddNames(td.names, <<item'>>) \in Seq(Target)
      BY <2>1, <2>2
    <2> QED BY <1>1, <2>3 DEF Typed, TD
  <1>3. td' = named \/ (NothingEligible(item') /\ RemoveTarget(named, item', <<>>))
    BY DEF AddTarget
  <1>4. NothingEligible(item') => item' \notin td.have
    BY DEF NothingEligible, Skipped
  <1> HIDE DEF named
  <1> QED BY <1>2, <1>3, <1>4, NothingForReason, SameForReason

LEMMA ResolveForReason == ASSUME Inv, ResolveBuild \/ ResolveRun PROVE ForReason
  <1>1. td' = td \/ (NothingEligible(item') /\ RemoveTarget(td, item', <<>>))
    BY DEF ResolveBuild, ResolveRun
  <1>2. NothingEligible(item') => item' \notin td.have
    BY DEF NothingEligible, Skipped
  <1> QED BY <1>1, <1>2, NothingForReason, SameForReason, InvTyped DEF Typed

LEMMA AddEligibleForReason == ASSUME Inv, AddEligible PROVE ForReason
  <1> DEFINE p == Head(files)
  <1>1. /\ Typed /\ CoreInv /\ calls = <<>> /\ UNCHANGED <<dataCache, abort>>
        /\ item \in ToSet(td.names) /\ p \in Fn /\ p \in ToSet(Providers(item))
    <2>1. /\ files \in Seq(Fn) /\ files # <<>> /\ item \in ToSet(td.names)
          /\ ToSet(files) \subseteq ToSet(Providers(item))
      BY DEF AddEligible, Inv, TypeOK, PhaseInv, PlaceInv, TodoInv
    <2> QED BY <2>1, Popped, InvTyped DEF AddEligible, Inv
  <1>2. CASE p \in td.failed_fnids
    BY <1>2, SameForReason DEF AddEligible
  <1>3. CASE p \notin td.failed_fnids
    <2>1. AddTasks([td EXCEPT !.have = @ \cup {item},
                              !.providers[item] = IF Contains(@, p) THEN @ ELSE Append(@, p)], p)
      BY <1>3 DEF AddEligible
    <2> HIDE DEF p
    <2>2. /\ td'.failed_deps = td.failed_deps /\ td'.failed_fnids \subseteq td.failed_fnids \cup {p}
          /\ p \in td'.failed_fnids => Deps(p) \cap td.failed_deps # {}
      BY <1>1, <1>3, <2>1, AddCore
    <2>3. AllNeeds[p] = Deps(p) \cup Idepends(p)
      BY <1>1 DEF AllNeeds
    <2> QED BY <2>2, <2>3 DEF ForReason
  <1> QED BY <1>2, <1>3

LEMMA FailRoundForReason == ASSUME Inv, FailRound PROVE ForReason
  <1> DEFINE f == Head(calls).arg
             build == Listing(f) \ RunTarget
             t == FirstOf(td.names, IF build # {} THEN build ELSE Listing(f))
  <1>1. Typed /\ CoreInv /\ calls # <<>> /\ UNCHANGED <<dataCache, abort>>
    BY InvTyped DEF Inv, FailRound
  <1>2. f \in Fn /\ Calling("fail_fnid", f)
    BY <1>1, HeadCall DEF FailRound, Calling
  <1>3. CASE Listing(f) # {}
    <2>1. RemoveProvider(f, t)
      BY <1>3 DEF FailRound, Return
    <2>2. t \in Listing(f)
      <3>1. td.names \in Seq(Target) /\ Listing(f) \subseteq ToSet(td.names)
        BY <1>1 DEF Typed, TD, Listing
      <3> DEFINE S == IF build # {} THEN build ELSE Listing(f)
      <3>2. S \subseteq Listing(f) /\ ToSet(td.names) \cap S # {}
        BY <1>3, <3>1
      <3> HIDE DEF S
      <3>3. FirstOf(td.names, S) \in S
        BY <3>1, <3>2, FirstOfIs
      <3> QED BY <3>2, <3>3 DEF S
    <2> HIDE DEF t, f
    <2>3. t \in Target /\ Contains(td.providers[t], f)
      <3>1. td.names \in Seq(Target)
        BY <1>1 DEF Typed, TD
      <3> QED BY <2>2, <3>1, Elements DEF Listing
    <2>4. /\ td'.failed_deps \subseteq td.failed_deps \cup {t}
          /\ t \in td'.failed_deps \ td.failed_deps => td'.providers[t] = <<>>
          /\ td'.failed_fnids = td.failed_fnids
      BY <1>1, <1>2, <2>1, <2>3, RemoveProviderCore
    <2> QED BY <2>4 DEF ForReason
  <1>4. CASE Listing(f) = {}
    BY <1>4, SameForReason DEF FailRound, Return
  <1> QED BY <1>3, <1>4

LEMMA RemoveRoundForReason == ASSUME Inv, RemoveRound PROVE ForReason
  <1> DEFINE t == Head(calls).arg
             left == ToSet(td.known) \ td.failed_fnids
             dependees == {f \in left : t \in Deps(f)}
             idependees == {f \in left : t \notin RunTarget /\ t \in Idepends(f)}
             S == IF dependees # {} THEN dependees ELSE idependees
             f == FirstOf(td.known, S)
  <1>1. Typed /\ CoreInv /\ calls # <<>> /\ Head(calls).proc = "remove_target"
    BY InvTyped DEF Inv, RemoveRound
  <1>2. \/ dependees \cup idependees # {} /\ FailFnid(td, f)
        \/ Return
        \/ abort /\ Raise
    BY DEF RemoveRound
  <1>3. CASE dependees \cup idependees # {} /\ FailFnid(td, f)
    <2>1. t \in td.failed_deps
      BY <1>1, HeadCall DEF CoreInv, ReasonInv
    <2>2. f \in Fn /\ f \in S
      <3>1. td.known \in Seq(Fn) /\ ToSet(td.known) \subseteq Fn
        BY <1>1, Elements DEF Typed, TD
      <3>2. S \subseteq ToSet(td.known) /\ S # {}
        BY <1>3
      <3> HIDE DEF S
      <3>3. ToSet(td.known) \cap S # {}
        BY <3>2
      <3> QED BY <3>1, <3>3, FirstOfIs
    <2>3. t \in AllNeeds[f]
      <3>1. t \in Deps(f) \cup Idepends(f)
        <4> HIDE DEF f
        <4> QED BY <2>2
      <3> HIDE DEF f, t
      <3> QED BY <2>2, <3>1 DEF AllNeeds
    <2> HIDE DEF f, t
    <2>4. td'.failed_fnids = td.failed_fnids \cup {f} /\ td'.failed_deps = td.failed_deps
      BY <1>1, <1>3 DEF FailFnid, Typed, TD
    <2> QED BY <2>1, <2>3, <2>4 DEF ForReason
  <1>4. CASE Return
    BY <1>4, SameForReason DEF Return
  <1>5. CASE abort /\ Raise
    <2>1. CASE pc = "try" /\ RemoveTarget(td, item, <<>>)
      <3>1. td'.failed_deps = td.failed_deps \cup {item} /\ td'.failed_fnids = td.failed_fnids
        BY <1>1, <2>1 DEF RemoveTarget, Typed, TD
      <3> QED BY <1>5, <2>1, <3>1 DEF ForReason
    <2>2. CASE td' = td
      BY <2>2, SameForReason
    <2> QED BY <1>5, <2>1, <2>2 DEF Raise
  <1> QED BY <1>2, <1>3, <1>4, <1>5

LEMMA StepForReason == ASSUME Inv, [Next]_vars PROVE ForReason
  <1>1. CASE AddTarget
    BY <1>1, AddTargetForReason
  <1>2. CASE ResolveBuild \/ ResolveRun
    BY <1>2, ResolveForReason
  <1>3. CASE AddEligible
    BY <1>3, AddEligibleForReason
  <1>4. CASE FailRound
    BY <1>4, FailRoundForReason
  <1>5. CASE RemoveRound
    BY <1>5, RemoveRoundForReason
  <1>6. CASE MarkExternal
    <2>1. td'.failed_deps = td.failed_deps /\ td'.failed_fnids = td.failed_fnids
      BY <1>6, InvTyped DEF MarkExternal, Typed, TD
    <2> QED BY <2>1, SameForReason
  <1>7. CASE FailNext
    <2>1. CASE FailFnid(td, Head(files))
      <3>1. td'.failed_deps = td.failed_deps
        BY <2>1, InvTyped DEF FailFnid, Typed, TD
      <3> QED BY <1>7, <3>1 DEF ForReason, FailNext
    <2>2. CASE td' = td
      BY <2>2, SameForReason
    <2> QED BY <1>7, <2>1, <2>2 DEF FailNext
  <1>8. CASE StartPass \/ StartRunPass \/ EndResolve \/ EndPass \/ EndRetry \/ TryAltConfigs \/ UNCHANGED vars
    <2>1. td' = td
      BY <1>8 DEF StartPass, StartRunPass, EndResolve, EndPass, EndRetry, TryAltConfigs, vars
    <2> QED BY <2>1, SameForReason
  <1> QED BY <1>1, <1>2, <1>3, <1>4, <1>5, <1>6, <1>7, <1>8 DEF Next, Step, Stopped

\* remove_buildtarget comes for a name that has providers only from the last of
\* them (taskdata.py:480-489), or from the NoProvider of another name while this
\* one is resolved without -k; fail_fnid comes for a file only from a name that
\* it needs and that is given up, or from a retry.
THEOREM GivenUpForReasonHolds == Spec => GivenUpForReason
  <1>1. Inv /\ [Next]_vars => [ForReason]_vars
    BY StepForReason
  <1>2. Spec => [][ForReason]_vars
    BY <1>1, Always, PTL DEF Spec
  <1> QED BY <1>2 DEF GivenUpForReason, ForReason
=============================================================================
