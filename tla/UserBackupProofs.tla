------------------------- MODULE UserBackupProofs --------------------------
(***************************************************************************)
(* Proofs about Attachments and UserBackup, for any objects, files, links, *)
(* limits and requests: the references in a body and the rows of its       *)
(* object agree, no object goes over the limits, and what is restored is   *)
(* what there was.                                                         *)
(***************************************************************************)
EXTENDS UserBackup, FiniteSetTheorems, WellFoundedInduction, TLAPS

(* What clients send has one, two or three components.  What is stored has *)
(* ATTACHs in two of them at most.                                         *)
Sent == {i \in Ics : Len(i.parts) \in 1..3}
Body == {i \in Sent : Len(i.parts) = 3 => \E k \in 1..3 : i.parts[k] = {}}

(* Tables in which every row belongs to an object.                         *)
Sane ==
  {S \in [obj : [Href -> Object \cup {None}], older : SUBSET (Href \X Href),
          rows : SUBSET Row, next : Nat] :
     /\ IsFiniteSet(S.rows)
     /\ \A h \in Href : S.obj[h] # None => S.obj[h].ics \in Body
     /\ \A r \in S.rows : S.obj[r.href] # None}

LocalsOK ==
  /\ hd \in [Handler -> [pc : {"idle", "save", "insert"}, href : Href \cup {None},
                         uid : Uid \cup {None}, ics : Body \cup {None}, rows : SUBSET Row]]
  /\ \A w \in Handler : hd[w].pc # "idle" =>
       hd[w].href \in Href /\ hd[w].uid \in Uid /\ hd[w].ics \in Body

FileInv ==
  /\ db \in Sane /\ db.next <= MaxId
  /\ LocalsOK
  /\ requests \in 0..MaxRequests /\ outOfStep \subseteq Href
  /\ \A h \in Href \ outOfStep : InStepAt(db, h)

-----------------------------------------------------------------------------
(* Finite sets, folds and sums.                                            *)

LEMMA Least ==
  ASSUME NEW S \in SUBSET Nat, S # {}
  PROVE  \E n \in S : \A m \in S : n <= m
<1> DEFINE R == OpToRel(<, Nat)
<1>1. IsWellFoundedOn(R, Nat)
  BY NatLessThanWellFounded
<1> HIDE DEF R
<1>2. PICK n \in S : \A m \in S : <<m, n>> \notin R
  BY <1>1, WFMin
<1>3. \A m, k \in Nat : m < k => <<m, k>> \in R
  BY DEF R, OpToRel
<1>4. \A m \in S : m \in Nat /\ n \in Nat /\ ~(m < n)
  BY <1>2, <1>3
<1> QED  BY <1>4

LEMMA IntervalFinite ==
  ASSUME NEW n \in Nat
  PROVE  IsFiniteSet(1..n) /\ Cardinality(1..n) = n
<1>1. 1 \in Int /\ n \in Int
  OBVIOUS
<1>2. IsFiniteSet(1..n) /\ Cardinality(1..n) = IF 1 > n THEN 0 ELSE n-1+1
  BY ONLY <1>1, FS_Interval, Zenon
<1> QED  BY <1>2

LEMMA ImageFinite ==
  ASSUME NEW S, IsFiniteSet(S), NEW f, f \in [S -> {f[x] : x \in S}]
  PROVE  IsFiniteSet({f[x] : x \in S}) /\ Cardinality({f[x] : x \in S}) <= Cardinality(S)
<1>1. f \in Surjection(S, {f[x] : x \in S})
  BY DEF Surjection
<1> QED  BY <1>1, FS_Surjection

(* What holds of a set when it holds of all its strict subsets holds of    *)
(* every finite set: by the least number of elements at which it fails.    *)
LEMMA SetsReach ==
  ASSUME NEW T, IsFiniteSet(T), NEW X,
         \A s \in SUBSET T : (\A r \in SUBSET s : r # s => r \in X) => s \in X
  PROVE  \A s \in SUBSET T : s \in X
<1> DEFINE Bad == {s \in SUBSET T : s \notin X}
           B == {Cardinality(s) : s \in Bad}
<1>1. SUFFICES ASSUME Bad # {}  PROVE FALSE
  OBVIOUS
<1>2. \A s \in SUBSET T : IsFiniteSet(s) /\ Cardinality(s) \in Nat
  BY FS_Subset, FS_CardinalityType
<1>3. B \in SUBSET Nat /\ B # {}
  BY <1>1, <1>2
<1> HIDE DEF B
<1>4. PICK n \in B : \A m \in B : n <= m
  BY <1>3, Least
<1>5. PICK s \in Bad : n = Cardinality(s)
  BY <1>4 DEF B
<1>6. PICK r \in SUBSET s : r # s /\ r \notin X
  BY <1>5
<1>7. Cardinality(r) <= n /\ Cardinality(r) # n
  <2>1. IsFiniteSet(s)
    BY <1>2, <1>5
  <2> QED  BY <1>5, <1>6, <2>1, FS_Subset
<1>8. r \in Bad
  BY <1>5, <1>6
<1>9. Cardinality(r) \in B /\ Cardinality(r) \in Nat /\ n \in Nat
  BY <1>3, <1>8 DEF B
<1> QED  BY <1>4, <1>7, <1>9

Some(s) == CHOOSE x \in s : TRUE

LEMMA SomeIs ==
  ASSUME NEW s, s # {}
  PROVE  Some(s) \in s
BY DEF Some

(* In particular what holds of {}, and of a set when it holds of the set   *)
(* without the element that a fold takes.                                  *)
LEMMA FoldsReach ==
  ASSUME NEW T, IsFiniteSet(T), NEW X, {} \in X,
         \A s \in SUBSET T : s # {} /\ s \ {Some(s)} \in X => s \in X
  PROVE  \A s \in SUBSET T : s \in X
<1>1. ASSUME NEW s \in SUBSET T, \A r \in SUBSET s : r # s => r \in X  PROVE s \in X
  <2>1. CASE s = {}
    BY <2>1
  <2>2. CASE s # {}
    <3>1. Some(s) \in s
      BY <2>2, SomeIs
    <3>2. s \ {Some(s)} \in X
      BY <1>1, <3>1
    <3> QED  BY <2>2, <3>2
  <2> QED  BY <2>1, <2>2
<1> QED  BY <1>1, SetsReach

(* A fold over the subsets of T, of an operation that G is the graph of.   *)
Folds(g, G, base, T) ==
  g = [s \in SUBSET T |-> IF s = {} THEN base ELSE G[<<Some(s), g[s \ {Some(s)}]>>]]

LEMMA FoldExists ==
  ASSUME NEW T, IsFiniteSet(T), NEW V, NEW base \in V, NEW G \in [T \X V -> V]
  PROVE  \E g \in [SUBSET T -> V] : Folds(g, G, base, T)
<1> DEFINE step(g, s) == IF s = {} THEN base ELSE G[<<Some(s), g[s \ {Some(s)}]>>]
           Upto(n) == {s \in SUBSET T : Cardinality(s) <= n}
           Good(n) == \E g \in [SUBSET T -> V] : \A s \in Upto(n) : g[s] = step(g, s)
           Bad == {n \in Nat : ~Good(n)}
<1>1. \A s \in SUBSET T : IsFiniteSet(s) /\ Cardinality(s) \in Nat /\ Cardinality(s) <= Cardinality(T)
  BY FS_Subset, FS_CardinalityType
<1>2. \A s \in SUBSET T : s # {} =>
        Some(s) \in T /\ s \ {Some(s)} \in SUBSET T /\ Cardinality(s \ {Some(s)}) = Cardinality(s) - 1
  <2> SUFFICES ASSUME NEW s \in SUBSET T, s # {}
               PROVE  Some(s) \in T /\ s \ {Some(s)} \in SUBSET T
                      /\ Cardinality(s \ {Some(s)}) = Cardinality(s) - 1
    OBVIOUS
  <2>1. Some(s) \in s
    BY SomeIs
  <2>2. IsFiniteSet(s)
    BY <1>1
  <2>3. Cardinality(s \ {Some(s)}) = IF Some(s) \in s THEN Cardinality(s) - 1 ELSE Cardinality(s)
    BY <2>2, FS_RemoveElement
  <2> QED  BY <2>1, <2>3
<1>3. Good(0)
  <2> DEFINE g == [s \in SUBSET T |-> base]
  <2>1. g \in [SUBSET T -> V]
    OBVIOUS
  <2>2. \A s \in Upto(0) : s = {}
    <3> SUFFICES ASSUME NEW s \in Upto(0)  PROVE s = {}
      OBVIOUS
    <3>1. IsFiniteSet(s) /\ Cardinality(s) = 0
      BY <1>1
    <3> QED  BY <3>1, FS_EmptySet
  <2>3. \A s \in Upto(0) : g[s] = step(g, s)
    BY <2>2
  <2> QED  BY <2>1, <2>3
<1>4. ASSUME NEW n \in Nat, Good(n)  PROVE Good(n + 1)
  <2>1. PICK g \in [SUBSET T -> V] : \A s \in Upto(n) : g[s] = step(g, s)
    BY <1>4
  <2> DEFINE h == [s \in SUBSET T |-> IF Cardinality(s) = n + 1 THEN step(g, s) ELSE g[s]]
  <2>2. \A s \in SUBSET T : step(g, s) \in V
    <3> SUFFICES ASSUME NEW s \in SUBSET T, s # {}  PROVE G[<<Some(s), g[s \ {Some(s)}]>>] \in V
      OBVIOUS
    <3>1. Some(s) \in T /\ g[s \ {Some(s)}] \in V
      BY <1>2
    <3> HIDE DEF Good, Bad, Upto
    <3> QED  BY <3>1
  <2>3. h \in [SUBSET T -> V]
    BY <2>2
  <2>4. ASSUME NEW s \in Upto(n + 1)  PROVE h[s] = step(h, s)
    <3>1. s \in SUBSET T /\ Cardinality(s) \in Nat /\ Cardinality(s) <= n + 1
      BY <1>1
    <3>2. s # {} => h[s \ {Some(s)}] = g[s \ {Some(s)}]
      <4> SUFFICES ASSUME s # {}  PROVE h[s \ {Some(s)}] = g[s \ {Some(s)}]
        OBVIOUS
      <4>1. s \ {Some(s)} \in SUBSET T /\ Cardinality(s \ {Some(s)}) = Cardinality(s) - 1
        BY <1>2, <3>1
      <4>2. Cardinality(s \ {Some(s)}) # n + 1
        BY <3>1, <4>1
      <4> QED  BY <4>1, <4>2
    <3>3. step(h, s) = step(g, s)
      BY <3>2
    <3>4. h[s] = IF Cardinality(s) = n + 1 THEN step(g, s) ELSE g[s]
      BY <3>1
    <3>5. Cardinality(s) # n + 1 => s \in Upto(n)
      BY <3>1
    <3> HIDE DEF step, Upto, h
    <3> QED  BY <2>1, <3>3, <3>4, <3>5
  <2> HIDE DEF h
  <2> QED  BY <2>3, <2>4
<1> HIDE DEF Good
<1>5. Good(Cardinality(T))
  <2>1. SUFFICES ASSUME Cardinality(T) \in Bad  PROVE FALSE
    BY <1>1
  <2>2. Bad \in SUBSET Nat /\ Bad # {}
    BY <2>1
  <2>3. PICK n \in Bad : \A m \in Bad : n <= m
    BY <2>2, Least
  <2>4. n # 0 /\ n \in Nat
    BY <1>3, <2>3
  <2>5. n - 1 \in Nat /\ n - 1 \notin Bad
    BY <2>3, <2>4
  <2>6. Good(n - 1)
    BY <2>5
  <2>7. Good((n - 1) + 1)
    BY <1>4, <2>5, <2>6
  <2> QED  BY <2>3, <2>4, <2>7
<1>6. PICK g \in [SUBSET T -> V] : \A s \in Upto(Cardinality(T)) : g[s] = step(g, s)
  BY <1>5 DEF Good
<1>7. \A s \in SUBSET T : g[s] = step(g, s)
  BY <1>1, <1>6
<1>8. g = [s \in SUBSET T |-> step(g, s)]
  BY <1>7
<1> QED  BY <1>8 DEF Folds

(* Sums, of the values of a function w.                                    *)
Sums(g, w, T) ==
  g = [s \in SUBSET T |-> IF s = {} THEN 0 ELSE w[Some(s)] + g[s \ {Some(s)}]]
Sum(w, T) == (CHOOSE g : Sums(g, w, T))[T]

LEMMA SumsExist ==
  ASSUME NEW T, IsFiniteSet(T), NEW w, \A x \in T : w[x] \in Nat
  PROVE  \E g \in [SUBSET T -> Nat] : Sums(g, w, T)
<1> DEFINE G == [p \in T \X Nat |-> w[p[1]] + p[2]]
<1>1. G \in [T \X Nat -> Nat] /\ \A x \in T, n \in Nat : G[<<x, n>>] = w[x] + n
  OBVIOUS
<1> HIDE DEF G
<1>2. PICK g \in [SUBSET T -> Nat] : Folds(g, G, 0, T)
  BY <1>1, FoldExists
<1>3. \A s \in SUBSET T : s # {} => Some(s) \in T /\ g[s \ {Some(s)}] \in Nat
  BY SomeIs
<1>4. \A s \in SUBSET T : g[s] = IF s = {} THEN 0 ELSE w[Some(s)] + g[s \ {Some(s)}]
  BY <1>1, <1>2, <1>3 DEF Folds
<1>5. g = [s \in SUBSET T |-> IF s = {} THEN 0 ELSE w[Some(s)] + g[s \ {Some(s)}]]
  BY <1>4
<1> QED  BY <1>5 DEF Sums

(* Two sums agree where both are.                                          *)
LEMMA SumsAgree ==
  ASSUME NEW T, IsFiniteSet(T), NEW R \in SUBSET T, NEW w, NEW v, NEW g, NEW h,
         \A x \in R : w[x] \in Nat /\ v[x] = w[x],
         Sums(g, w, T), Sums(h, v, R)
  PROVE  g[R] = h[R] /\ h[R] \in Nat
<1> DEFINE X == {s \in SUBSET R : g[s] = h[s] /\ h[s] \in Nat}
<1>1. {} \in X
  <2>1. g[{}] = 0 /\ h[{}] = 0
    BY DEF Sums
  <2> QED  BY <2>1
<1>2. ASSUME NEW s \in SUBSET R, s # {}, s \ {Some(s)} \in X  PROVE s \in X
  <2>1. Some(s) \in R
    BY <1>2, SomeIs
  <2>2. g[s] = w[Some(s)] + g[s \ {Some(s)}] /\ h[s] = v[Some(s)] + h[s \ {Some(s)}]
    BY <1>2 DEF Sums
  <2> QED  BY <1>2, <2>1, <2>2
<1>3. IsFiniteSet(R)
  BY FS_Subset
<1> HIDE DEF X
<1>4. R \in X
  BY <1>1, <1>2, <1>3, FoldsReach
<1> QED  BY <1>4 DEF X

LEMMA SumIs ==
  ASSUME NEW T, IsFiniteSet(T), NEW w, \A x \in T : w[x] \in Nat
  PROVE  /\ Sum(w, T) \in Nat
         /\ \A g : Sums(g, w, T) => \A R \in SUBSET T : Sum(w, R) = g[R]
<1>1. ASSUME NEW g, Sums(g, w, T), NEW R \in SUBSET T  PROVE Sum(w, R) = g[R] /\ Sum(w, R) \in Nat
  <2> DEFINE h == CHOOSE h : Sums(h, w, R)
  <2>1. IsFiniteSet(R) /\ \A x \in R : w[x] \in Nat
    BY FS_Subset
  <2>2. \E k : Sums(k, w, R)
    BY <2>1, SumsExist
  <2>3. Sums(h, w, R)
    BY <2>2
  <2> HIDE DEF h
  <2>4. g[R] = h[R] /\ h[R] \in Nat
    BY <1>1, <2>1, <2>3, SumsAgree
  <2> QED  BY <2>4 DEF Sum, h
<1>2. \E g : Sums(g, w, T)
  BY SumsExist
<1> QED  BY <1>1, <1>2

(* The order in which a sum is taken makes no difference.                  *)
LEMMA SumRemove ==
  ASSUME NEW T, IsFiniteSet(T), NEW w, \A x \in T : w[x] \in Nat, NEW a \in T
  PROVE  Sum(w, T) = w[a] + Sum(w, T \ {a})
<1>1. PICK g \in [SUBSET T -> Nat] : Sums(g, w, T)
  BY SumsExist
<1> DEFINE X == {s \in SUBSET T : \A x \in s : g[s] = w[x] + g[s \ {x}]}
<1>2. \A s \in SUBSET T : g[s] \in Nat /\ (s # {} => Some(s) \in s /\ g[s] = w[Some(s)] + g[s \ {Some(s)}])
  BY <1>1, SomeIs DEF Sums
<1>4. ASSUME NEW s \in SUBSET T, \A r \in SUBSET s : r # s => r \in X
      PROVE  s \in X
  <2> SUFFICES ASSUME NEW x \in s  PROVE g[s] = w[x] + g[s \ {x}]
    OBVIOUS
  <2> DEFINE y == Some(s)
  <2>1. y \in s /\ g[s] = w[y] + g[s \ {y}] /\ w[y] \in Nat /\ w[x] \in Nat
    BY <1>2, <1>4
  <2> HIDE DEF y
  <2>2. CASE x = y
    BY <2>1, <2>2
  <2>3. CASE x # y
    <3>1. s \ {y} \in X /\ s \ {x} \in X
      BY <1>4, <2>1
    <3>2. g[s \ {y}] = w[x] + g[(s \ {y}) \ {x}]
      BY <2>3, <3>1
    <3>3. g[s \ {x}] = w[y] + g[(s \ {x}) \ {y}]
      BY <2>1, <2>3, <3>1
    <3>4. (s \ {y}) \ {x} = (s \ {x}) \ {y} /\ (s \ {x}) \ {y} \in SUBSET T
      OBVIOUS
    <3>5. g[(s \ {x}) \ {y}] \in Nat
      BY <1>2, <3>4
    <3> DEFINE c == g[(s \ {x}) \ {y}]
    <3>6. g[s \ {y}] = w[x] + c /\ g[s \ {x}] = w[y] + c
      BY <3>2, <3>3, <3>4
    <3>7. c \in Nat
      BY <3>5
    <3> HIDE DEF c
    <3> QED  BY <2>1, <3>6, <3>7
  <2> QED  BY <2>2, <2>3
<1> HIDE DEF X
<1>5. T \in X
  BY <1>4, SetsReach
<1>6. g[T] = w[a] + g[T \ {a}]
  BY <1>5 DEF X
<1>7. Sum(w, T) = g[T] /\ Sum(w, T \ {a}) = g[T \ {a}]
  BY <1>1, SumIs
<1> QED  BY <1>6, <1>7

LEMMA SumEmpty ==
  ASSUME NEW w
  PROVE  Sum(w, {}) = 0
<1>1. IsFiniteSet({}) /\ \A x \in {} : w[x] \in Nat
  BY FS_EmptySet
<1>2. PICK g \in [SUBSET {} -> Nat] : Sums(g, w, {})
  BY <1>1, SumsExist
<1>3. g[{}] = 0
  BY <1>2 DEF Sums
<1>4. Sum(w, {}) = g[{}]
  BY <1>1, <1>2, SumIs
<1> QED  BY <1>3, <1>4

LEMMA SumMonotone ==
  ASSUME NEW T, IsFiniteSet(T), NEW w, \A x \in T : w[x] \in Nat, NEW R \in SUBSET T
  PROVE  Sum(w, R) <= Sum(w, T)
<1> DEFINE X == {s \in SUBSET T : \A r \in SUBSET s : Sum(w, r) <= Sum(w, s)}
<1>1. \A s \in SUBSET T : IsFiniteSet(s) /\ Sum(w, s) \in Nat
                           /\ \A x \in s : Sum(w, s) = w[x] + Sum(w, s \ {x})
  <2> SUFFICES ASSUME NEW s \in SUBSET T
               PROVE  IsFiniteSet(s) /\ Sum(w, s) \in Nat
                      /\ \A x \in s : Sum(w, s) = w[x] + Sum(w, s \ {x})
    OBVIOUS
  <2>1. IsFiniteSet(s) /\ \A x \in s : w[x] \in Nat
    BY FS_Subset
  <2> QED  BY <2>1, SumIs, SumRemove
<1>2. ASSUME NEW s \in SUBSET T, \A r \in SUBSET s : r # s => r \in X  PROVE s \in X
  <2> SUFFICES ASSUME NEW r \in SUBSET s, r # s  PROVE Sum(w, r) <= Sum(w, s)
    BY <1>1
  <2>1. PICK x \in s : x \notin r
    OBVIOUS
  <2>2. s \ {x} \in X /\ r \in SUBSET (s \ {x})
    BY <1>2, <2>1
  <2>3. Sum(w, r) <= Sum(w, s \ {x})
    BY <2>2
  <2>4. Sum(w, s) = w[x] + Sum(w, s \ {x}) /\ w[x] \in Nat /\ Sum(w, s \ {x}) \in Nat
        /\ Sum(w, r) \in Nat /\ Sum(w, s) \in Nat
    BY <1>1, <2>1
  <2> HIDE DEF X
  <2> QED  BY <2>3, <2>4
<1> HIDE DEF X
<1>3. T \in X
  BY <1>2, SetsReach
<1> QED  BY <1>3 DEF X

LEMMA SumUnion ==
  ASSUME NEW T, IsFiniteSet(T), NEW w, \A x \in T : w[x] \in Nat,
         NEW A \in SUBSET T, NEW B \in SUBSET T
  PROVE  Sum(w, A \cup B) <= Sum(w, A) + Sum(w, B)
<1> DEFINE X == {s \in SUBSET B : Sum(w, A \cup s) <= Sum(w, A) + Sum(w, s)}
<1>1. \A s \in SUBSET T : IsFiniteSet(s) /\ Sum(w, s) \in Nat
                           /\ \A x \in s : Sum(w, s) = w[x] + Sum(w, s \ {x})
  <2> SUFFICES ASSUME NEW s \in SUBSET T
               PROVE  IsFiniteSet(s) /\ Sum(w, s) \in Nat
                      /\ \A x \in s : Sum(w, s) = w[x] + Sum(w, s \ {x})
    OBVIOUS
  <2>1. IsFiniteSet(s) /\ \A x \in s : w[x] \in Nat
    BY FS_Subset
  <2> QED  BY <2>1, SumIs, SumRemove
<1>2. {} \in X
  <2>1. A \cup {} = A /\ Sum(w, A) \in Nat /\ Sum(w, {}) = 0
    BY <1>1, SumEmpty
  <2> QED  BY <2>1
<1>3. ASSUME NEW s \in SUBSET B, s # {}, s \ {Some(s)} \in X  PROVE s \in X
  <2> DEFINE x == Some(s)
  <2>1. x \in s /\ s \in SUBSET T /\ s \ {x} \in SUBSET T /\ A \cup s \in SUBSET T
        /\ A \cup (s \ {x}) \in SUBSET T /\ x \in T
    BY <1>3, SomeIs
  <2>2. Sum(w, A \cup (s \ {x})) <= Sum(w, A) + Sum(w, s \ {x})
    BY <1>3
  <2> HIDE DEF x, X
  <2>3. /\ Sum(w, s) = w[x] + Sum(w, s \ {x}) /\ w[x] \in Nat
        /\ Sum(w, s \ {x}) \in Nat /\ Sum(w, A) \in Nat /\ Sum(w, s) \in Nat
        /\ Sum(w, A \cup (s \ {x})) \in Nat /\ Sum(w, A \cup s) \in Nat
    BY <1>1, <2>1
  <2>4. Sum(w, A \cup s) <= w[x] + Sum(w, A \cup (s \ {x}))
    <3>1. CASE x \in A
      <4>1. A \cup s = A \cup (s \ {x})
        BY <2>1, <3>1
      <4>2. Sum(w, A \cup s) = Sum(w, A \cup (s \ {x}))
        BY <4>1
      <4> QED  BY <2>3, <4>2
    <3>2. CASE x \notin A
      <4>1. (A \cup s) \ {x} = A \cup (s \ {x}) /\ x \in A \cup s
        BY <2>1, <3>2
      <4>2. Sum(w, A \cup s) = w[x] + Sum(w, (A \cup s) \ {x})
        BY <1>1, <2>1, <4>1
      <4> QED  BY <2>3, <4>1, <4>2
    <3> QED  BY <3>1, <3>2
  <2>5. Sum(w, A \cup s) <= Sum(w, A) + Sum(w, s)
    BY <2>2, <2>3, <2>4
  <2> QED  BY <2>5 DEF X
<1>4. IsFiniteSet(B)
  BY FS_Subset
<1> HIDE DEF X
<1>5. B \in X
  BY <1>2, <1>3, <1>4, FoldsReach
<1> QED  BY <1>5 DEF X

-----------------------------------------------------------------------------
(* Bodies.                                                                 *)

LEMMA PartsOf ==
  ASSUME NEW ics \in Sent
  PROVE  /\ ics = [uid |-> ics.uid, parts |-> ics.parts] /\ ics.uid \in Uid
         /\ ics.parts \in Seq(SUBSET Attach) /\ Len(ics.parts) \in 1..3
         /\ DOMAIN ics.parts = 1..Len(ics.parts)
         /\ \A i \in DOMAIN ics.parts : ics.parts[i] \in SUBSET Attach
BY DEF Sent, Ics

LEMMA SmallMin ==
  ASSUME NEW B \in SUBSET (1..3), B # {}
  PROVE  Min(B) \in B
<1>1. \E x \in B : \A y \in B : x =< y
  <2>1. CASE 1 \in B
    BY <2>1
  <2>2. CASE 1 \notin B /\ 2 \in B
    BY <2>2
  <2>3. CASE 1 \notin B /\ 2 \notin B
    <3>1. \A y \in B : y = 3
      BY <2>3
    <3>2. 3 \in B
      BY <3>1
    <3>3. \A y \in B : 3 =< y
      BY <3>1
    <3> QED  BY <3>2, <3>3
  <2> QED  BY <2>1, <2>2, <2>3
<1> QED  BY <1>1 DEF Min

LEMMA HostIs ==
  ASSUME NEW ics \in Sent
  PROVE  /\ attachHost(ics) \in DOMAIN ics.parts
         /\ Bearing(ics) # {} => attachHost(ics) \in Bearing(ics)
<1>1. DOMAIN ics.parts = 1..Len(ics.parts) /\ Len(ics.parts) \in 1..3
  BY PartsOf
<1>2. Bearing(ics) \subseteq DOMAIN ics.parts /\ Bearing(ics) \in SUBSET (1..3)
  BY <1>1 DEF Bearing
<1>3. CASE Bearing(ics) = {}
  BY <1>1, <1>3 DEF attachHost
<1>4. CASE Bearing(ics) # {}
  BY <1>2, <1>4, SmallMin DEF attachHost
<1> QED  BY <1>3, <1>4

(* A component of a body is replaced.                                      *)
LEMMA PartReplaced ==
  ASSUME NEW ics \in Sent, NEW h \in DOMAIN ics.parts, NEW s \in SUBSET Attach
  PROVE  /\ [ics EXCEPT !.parts[h] = s] \in Sent
         /\ ([ics EXCEPT !.parts[h] = s]).parts = [ics.parts EXCEPT ![h] = s]
         /\ DOMAIN [ics.parts EXCEPT ![h] = s] = DOMAIN ics.parts
         /\ Len([ics.parts EXCEPT ![h] = s]) = Len(ics.parts)
<1> DEFINE parts == [ics.parts EXCEPT ![h] = s]
<1>1. ics = [uid |-> ics.uid, parts |-> ics.parts] /\ ics.uid \in Uid
      /\ ics.parts \in Seq(SUBSET Attach) /\ Len(ics.parts) \in 1..3
  BY PartsOf
<1>2. parts \in Seq(SUBSET Attach) /\ Len(parts) = Len(ics.parts) /\ DOMAIN parts = DOMAIN ics.parts
  BY <1>1
<1>3. [ics EXCEPT !.parts[h] = s] = [uid |-> ics.uid, parts |-> parts]
  BY <1>1
<1> HIDE DEF parts
<1>4. [uid |-> ics.uid, parts |-> parts] \in Sent
  BY <1>1, <1>2 DEF Sent, Ics
<1> QED  BY <1>2, <1>3, <1>4 DEF parts

LEMMA KindsOfAttach ==
  ASSUME NEW a \in Attach
  PROVE  /\ "inline" \in DOMAIN a => a.inline \in File
         /\ "link" \in DOMAIN a => "id" \notin DOMAIN a
BY DEF Attach

LEMMA SplitIs ==
  ASSUME NEW ics \in Sent
  PROVE  LET split == SplitAttachments(ics)  h == attachHost(ics) IN
         /\ split.rest \in Body
         /\ split.rest.parts = [ics.parts EXCEPT ![h] = {}]
         /\ split.rest.uid = ics.uid /\ DOMAIN split.rest.parts = DOMAIN ics.parts
         /\ split.inlines \subseteq File
         /\ split.external \subseteq Attach
         /\ \A a \in split.external : "id" \notin DOMAIN a
<1> DEFINE split == SplitAttachments(ics)
           h == attachHost(ics)
<1>1. h \in DOMAIN ics.parts /\ h \in 1..3 /\ ics.parts[h] \in SUBSET Attach
  BY HostIs, PartsOf
<1>2. /\ split.rest = [ics EXCEPT !.parts[h] = {}]
      /\ split.inlines = {a.inline : a \in {x \in ics.parts[h] : "inline" \in DOMAIN x}}
      /\ split.external = {x \in ics.parts[h] : "link" \in DOMAIN x}
  BY DEF SplitAttachments
<1> HIDE DEF h, split
<1>3. split.rest \in Sent /\ split.rest.parts = [ics.parts EXCEPT ![h] = {}]
  BY <1>1, <1>2, PartReplaced
<1>7. split.rest.uid = ics.uid /\ DOMAIN split.rest.parts = DOMAIN ics.parts
  BY <1>1, <1>2, <1>3, PartsOf
<1>4. split.rest.parts[h] = {}
  BY <1>1, <1>3
<1>5. split.rest \in Body
  BY <1>1, <1>3, <1>4 DEF Body
<1>6. split.inlines \subseteq File /\ split.external \subseteq Attach
      /\ \A a \in split.external : "id" \notin DOMAIN a
  BY <1>1, <1>2, KindsOfAttach
<1> QED  BY <1>3, <1>5, <1>6, <1>7 DEF h, split

LEMMA ManagedIs ==
  ASSUME NEW rows \in SUBSET Row
  PROVE  /\ {Managed(i) : i \in Ids(rows)} \subseteq Attach
         /\ \A i : Managed(i).id = i /\ "id" \in DOMAIN Managed(i)
<1>1. Ids(rows) \subseteq Id
  BY DEF Ids, Row
<1>2. \A i \in Id : Managed(i) \in [id : Id]
  BY DEF Managed
<1>3. \A i : Managed(i).id = i /\ "id" \in DOMAIN Managed(i)
  BY DEF Managed
<1> QED  BY <1>1, <1>2, <1>3 DEF Attach

(* Where the ATTACHs of a body are once its host has lost its own, and the *)
(* new host has got those of the rows: the two hosts have all of them,     *)
(* unless there was a third component with some.                           *)
LEMMA TwoHosts ==
  ASSUME NEW ics \in Sent, Cardinality(Bearing(ics)) <= 2,
         NEW j \in DOMAIN ics.parts,
         j # attachHost(ics), j # attachHost(SplitAttachments(ics).rest)
  PROVE  ics.parts[j] = {}
<1> DEFINE rest == SplitAttachments(ics).rest
           h == attachHost(ics)
           g == attachHost(rest)
<1>1. rest \in Sent /\ rest.parts = [ics.parts EXCEPT ![h] = {}]
  BY SplitIs DEF Body
<1>2. DOMAIN rest.parts = DOMAIN ics.parts /\ h \in DOMAIN ics.parts /\ g \in DOMAIN ics.parts
      /\ rest.parts[h] = {} /\ \A i \in DOMAIN ics.parts : i # h => rest.parts[i] = ics.parts[i]
  BY <1>1, HostIs
<1>3. /\ Bearing(ics) # {} => h \in Bearing(ics)
      /\ Bearing(rest) # {} => g \in Bearing(rest)
  BY <1>1, HostIs
<1> HIDE DEF rest, h, g
<1>4. SUFFICES ASSUME ics.parts[j] # {}  PROVE FALSE
  OBVIOUS
<1>5. j # h /\ j # g
  BY DEF h, g, rest
<1>6. j \in Bearing(ics) /\ j \in Bearing(rest)
  BY <1>2, <1>4, <1>5 DEF Bearing
<1>7. g \in Bearing(rest) /\ h \in Bearing(ics) /\ g # h /\ g \in Bearing(ics)
  BY <1>2, <1>3, <1>6 DEF Bearing
<1>8. DOMAIN ics.parts \subseteq 1..3
  BY PartsOf
<1>9. Bearing(ics) = 1..3
  <2>1. Bearing(ics) \subseteq 1..3
    BY <1>8 DEF Bearing
  <2>2. j \in 1..3 /\ g \in 1..3 /\ h \in 1..3
    BY <1>6, <1>7, <2>1
  <2>3. 1..3 \subseteq {j, g, h}
    BY <1>5, <1>7, <2>2
  <2> QED  BY <1>6, <1>7, <2>1, <2>3
<1>10. Cardinality(1..3) = 3
  <2>1. 1 \in Int /\ 3 \in Int
    OBVIOUS
  <2>2. Cardinality(1..3) = IF 1 > 3 THEN 0 ELSE 3-1+1
    BY ONLY <2>1, FS_Interval, Zenon
  <2> QED  BY <2>2
<1> QED  BY <1>9, <1>10

(* WriteAttachments, of the body of a PUT or of a stored one.              *)
LEMMA WriteIs ==
  ASSUME NEW ics \in Sent, NEW rows \in SUBSET Row
  PROVE  LET new == WriteAttachments(SplitAttachments(ics), rows) IN
         /\ new \in Body /\ new.uid = ics.uid /\ DOMAIN new.parts = DOMAIN ics.parts
         /\ Cardinality(Bearing(ics)) <= 2 => RefsOf(new) = Ids(rows)
<1> DEFINE split == SplitAttachments(ics)
           rest == split.rest
           h == attachHost(ics)
           g == attachHost(rest)
           s == split.external \cup {Managed(i) : i \in Ids(rows)}
           new == WriteAttachments(split, rows)
<1>1. rest \in Body /\ rest \in Sent /\ rest.parts = [ics.parts EXCEPT ![h] = {}] /\ rest.uid = ics.uid
  <2>1. rest \in Body /\ rest.parts = [ics.parts EXCEPT ![h] = {}]
    BY SplitIs
  <2>2. rest = [ics EXCEPT !.parts[h] = {}]
    BY DEF SplitAttachments
  <2>3. rest.uid = ics.uid
    BY <2>2, PartsOf
  <2> QED  BY <2>1, <2>3 DEF Body
<1>2. s \in SUBSET Attach
  BY SplitIs, ManagedIs
<1>3. h \in DOMAIN ics.parts /\ g \in DOMAIN rest.parts /\ DOMAIN rest.parts = DOMAIN ics.parts
      /\ DOMAIN ics.parts = 1..Len(ics.parts) /\ Len(ics.parts) \in 1..3
      /\ Len(rest.parts) = Len(ics.parts)
  BY <1>1, HostIs, PartsOf, PartReplaced
<1>4. new = [rest EXCEPT !.parts[g] = s]
  BY DEF WriteAttachments
<1>5. Bearing(rest) # {} => g \in Bearing(rest)
  BY <1>1, HostIs
<1> HIDE DEF split, rest, h, g, s, new
<1>6. new \in Sent /\ new.parts = [rest.parts EXCEPT ![g] = s] /\ new.uid = rest.uid
      /\ Len(new.parts) = Len(ics.parts) /\ DOMAIN new.parts = DOMAIN ics.parts
  <2> DEFINE e == [rest EXCEPT !.parts[g] = s]
  <2>0. e \in Sent /\ e.parts = [rest.parts EXCEPT ![g] = s]
    <3>1. rest \in Sent /\ g \in DOMAIN rest.parts /\ s \in SUBSET Attach
      BY <1>1, <1>2, <1>3
    <3> QED  BY <3>1, PartReplaced
  <2> HIDE DEF e
  <2>1. new \in Sent /\ new.parts = [rest.parts EXCEPT ![g] = s]
    BY <1>4, <2>0 DEF e
  <2>2. Len(new.parts) = Len(rest.parts) /\ DOMAIN new.parts = DOMAIN rest.parts
    BY <1>1, <1>2, <1>3, <2>1, PartReplaced
  <2>3. rest = [uid |-> rest.uid, parts |-> rest.parts]
    BY <1>1, PartsOf
  <2>4. new.uid = rest.uid
    BY <1>4, <2>3
  <2> QED  BY <1>3, <2>1, <2>2, <2>4
<1>7. \A j \in DOMAIN ics.parts : j # g => new.parts[j] = rest.parts[j]
  BY <1>3, <1>6
<1>8. rest.parts[h] = {}
  BY <1>1, <1>3
<1>9. new \in Body
  <2>1. SUFFICES ASSUME Len(ics.parts) = 3  PROVE \E k \in 1..3 : new.parts[k] = {}
    BY <1>6 DEF Body
  <2>2. CASE Bearing(rest) # {}
    <3>1. g # h
      BY <1>5, <1>8, <2>2 DEF Bearing
    <3> QED  BY <1>3, <1>7, <1>8, <2>1, <3>1
  <2>3. CASE Bearing(rest) = {}
    <3>1. \A j \in 1..3 : rest.parts[j] = {}
      BY <1>3, <2>1, <2>3 DEF Bearing
    <3>2. PICK k \in 1..3 : k # g
      OBVIOUS
    <3> QED  BY <1>3, <1>7, <2>1, <3>1, <3>2
  <2> QED  BY <2>2, <2>3
<1>10. ASSUME Cardinality(Bearing(ics)) <= 2
       PROVE  RefsOf(new) = Ids(rows)
  <2>1. \A j \in DOMAIN ics.parts : j # g => new.parts[j] = {}
    <3> SUFFICES ASSUME NEW j \in DOMAIN ics.parts, j # g  PROVE new.parts[j] = {}
      OBVIOUS
    <3>1. CASE j = h
      BY <1>7, <1>8, <3>1
    <3>2. CASE j # h
      <4>1. ics.parts[j] = {}
        BY <1>10, <3>2, TwoHosts DEF h, g, rest, split
      <4> QED  BY <1>1, <1>3, <1>7, <3>2, <4>1
    <3> QED  BY <3>1, <3>2
  <2>2. new.parts[g] = s
    BY <1>3, <1>6
  <2>3. AttachOf(new) = s
    BY <1>3, <1>6, <2>1, <2>2 DEF AttachOf
  <2>4. \A a \in split.external : "id" \notin DOMAIN a
    BY SplitIs DEF split
  <2>5. \A i : Managed(i).id = i /\ "id" \in DOMAIN Managed(i)
    BY ManagedIs
  <2>6. {x \in s : "id" \in DOMAIN x} = {Managed(i) : i \in Ids(rows)}
    BY <2>4, <2>5 DEF s
  <2> QED  BY <2>3, <2>5, <2>6 DEF RefsOf
<1> QED  BY <1>1, <1>6, <1>9, <1>10 DEF new, split

-----------------------------------------------------------------------------
(* Tables.                                                                 *)

LEMMA SaneIs ==
  ASSUME NEW S \in Sane
  PROVE  /\ S = [obj |-> S.obj, older |-> S.older, rows |-> S.rows, next |-> S.next]
         /\ S.obj \in [Href -> Object \cup {None}] /\ S.rows \in SUBSET Row /\ S.next \in Nat
         /\ S.older \in SUBSET (Href \X Href)
         /\ \A h \in Href : S.obj[h] # None => S.obj[h] \in Object /\ S.obj[h].ics \in Body
         /\ \A r \in S.rows : r.href \in Href /\ S.obj[r.href] # None
         /\ \A h : RowsAt(S, h) \in SUBSET Row
         /\ IsFiniteSet(S.rows) /\ \A h : IsFiniteSet(RowsAt(S, h))
<1>1. /\ S \in [obj : [Href -> Object \cup {None}], older : SUBSET (Href \X Href),
               rows : SUBSET Row, next : Nat]
      /\ IsFiniteSet(S.rows)
  BY DEF Sane
<1>2. \A h : RowsAt(S, h) \subseteq S.rows
  BY DEF RowsAt
<1>3. \A h : IsFiniteSet(RowsAt(S, h))
  BY <1>1, <1>2, FS_Subset
<1>4. /\ \A h \in Href : S.obj[h] # None => S.obj[h] \in Object /\ S.obj[h].ics \in Body
      /\ \A r \in S.rows : r.href \in Href /\ S.obj[r.href] # None
  BY <1>1 DEF Sane, Row
<1> QED  BY <1>1, <1>2, <1>3, <1>4

LEMMA ObjectIs ==
  ASSUME NEW uid \in Uid, NEW ics \in Body
  PROVE  /\ [uid |-> uid, ics |-> ics] \in Object /\ [uid |-> uid, ics |-> ics] # None
         /\ ([uid |-> uid, ics |-> ics]).uid = uid /\ ([uid |-> uid, ics |-> ics]).ics = ics
BY NoneAssumption DEF Object, Body, Sent

LEMMA DeletedIs ==
  ASSUME NEW S \in Sane, NEW gone \in SUBSET Href
  PROVE  LET T == Deleted(S, gone) IN
         /\ T \in Sane /\ T.next = S.next /\ T.rows \subseteq S.rows
         /\ \A g \in gone : T.obj[g] = None
         /\ \A g \in Href \ gone : T.obj[g] = S.obj[g] /\ RowsAt(T, g) = RowsAt(S, g)
         /\ \A g \in Href : InStepAt(S, g) => InStepAt(T, g)
<1> DEFINE T == Deleted(S, gone)
           obj == [h \in Href |-> IF h \in gone THEN None ELSE S.obj[h]]
           older == {p \in S.older : p[1] \notin gone /\ p[2] \notin gone}
           rows == {r \in S.rows : r.href \notin gone}
<1>1. T = [obj |-> obj, older |-> older, rows |-> rows, next |-> S.next]
  <2>1. S = [obj |-> S.obj, older |-> S.older, rows |-> S.rows, next |-> S.next]
    BY SaneIs
  <2>2. T = [S EXCEPT !.obj = obj, !.older = older, !.rows = rows]
    BY DEF Deleted
  <2> HIDE DEF T, obj, older, rows
  <2> QED  BY <2>1, <2>2
<1>2. T.obj = obj /\ T.rows = rows /\ T.next = S.next
  BY <1>1
<1> HIDE DEF T
<1>3. /\ obj \in [Href -> Object \cup {None}] /\ older \in SUBSET (Href \X Href)
      /\ \A g \in Href : obj[g] # None => obj[g].ics \in Body
      /\ \A r \in rows : obj[r.href] # None
  BY SaneIs
<1>4. IsFiniteSet(rows)
  BY SaneIs, FS_Subset
<1>5. T \in Sane
  <2> HIDE DEF obj, older
  <2> QED  BY <1>1, <1>3, <1>4, SaneIs DEF Sane
<1>6. \A g \in Href \ gone : T.obj[g] = S.obj[g] /\ RowsAt(T, g) = RowsAt(S, g)
  BY <1>2 DEF RowsAt
<1>7. \A g \in gone : T.obj[g] = None
  BY <1>2
<1>8. \A g \in Href : InStepAt(S, g) => InStepAt(T, g)
  BY <1>6, <1>7 DEF InStepAt
<1> QED  BY <1>2, <1>5, <1>6, <1>7, <1>8 DEF T

LEMMA InsertObjectIs ==
  ASSUME NEW S \in Sane, NEW h \in Href, NEW uid \in Uid, NEW ics \in Body
  PROVE  LET T == InsertObject(S, h, uid, ics) IN
         /\ T \in Sane /\ T.next = S.next /\ T.rows = S.rows
         /\ T.obj[h] # None /\ T.obj[h].uid = uid /\ T.obj[h].ics = ics
         /\ \A g : RowsAt(T, g) = RowsAt(S, g)
         /\ \A g \in Href \ {h} : T.obj[g] = S.obj[g]
         /\ \A g \in Href \ {h} : InStepAt(S, g) => InStepAt(T, g)
<1> DEFINE T == InsertObject(S, h, uid, ics)
           o == [uid |-> uid, ics |-> ics]
           obj == [S.obj EXCEPT ![h] = o]
           older == S.older \cup (IF S.obj[h] = None THEN Live(S) \X {h} ELSE {})
<1>1. o \in Object /\ o # None /\ o.uid = uid /\ o.ics = ics
  BY ObjectIs
<1>2. T = [obj |-> obj, older |-> older, rows |-> S.rows, next |-> S.next]
  <2>1. S = [obj |-> S.obj, older |-> S.older, rows |-> S.rows, next |-> S.next]
    BY SaneIs
  <2>2. T = [S EXCEPT !.obj = obj, !.older = older]
    BY DEF InsertObject
  <2> HIDE DEF T, obj, older
  <2> QED  BY <2>1, <2>2
<1>3. T.obj = obj /\ T.rows = S.rows /\ T.next = S.next
  BY <1>2
<1>4. older \in SUBSET (Href \X Href)
  BY SaneIs DEF Live
<1> HIDE DEF T, o, older
<1>5. /\ obj \in [Href -> Object \cup {None}]
      /\ \A g \in Href : obj[g] # None => obj[g].ics \in Body
      /\ \A r \in S.rows : obj[r.href] # None
  BY <1>1, SaneIs
<1>6. T \in Sane
  <2> HIDE DEF obj
  <2> QED  BY <1>2, <1>4, <1>5, SaneIs DEF Sane
<1>7. T.obj[h] = o /\ \A g \in Href \ {h} : T.obj[g] = S.obj[g]
  BY <1>3, SaneIs
<1>8. \A g : RowsAt(T, g) = RowsAt(S, g)
  BY <1>3 DEF RowsAt
<1>9. \A g \in Href \ {h} : InStepAt(S, g) => InStepAt(T, g)
  BY <1>7, <1>8 DEF InStepAt
<1> QED  BY <1>1, <1>3, <1>6, <1>7, <1>8, <1>9 DEF T, o

LEMMA DisplaceIs ==
  ASSUME NEW S \in Sane, NEW h \in Href, NEW uid
  PROVE  LET T == Displace(S, h, uid) IN
         /\ T \in Sane /\ T.next = S.next /\ T.rows \subseteq S.rows
         /\ RowsAt(T, h) = RowsAt(S, h)
         /\ \A g \in Href \ {h} :
              T.obj[g] = None \/ (T.obj[g] = S.obj[g] /\ RowsAt(T, g) = RowsAt(S, g))
         /\ \A g \in Href \ {h} : S.obj[g] = None \/ S.obj[g].uid # uid =>
              T.obj[g] = S.obj[g] /\ RowsAt(T, g) = RowsAt(S, g)
         /\ \A g \in Href : InStepAt(S, g) => InStepAt(T, g)
<1> DEFINE gone == CalendarObjectByUID(S, uid) \ {h}
           T == Displace(S, h, uid)
<1>1. gone \in SUBSET Href /\ h \notin gone
      /\ \A g \in gone : S.obj[g] # None /\ S.obj[g].uid = uid
  BY DEF CalendarObjectByUID, Live
<1>2. T = Deleted(S, gone)
  BY DEF Displace
<1> HIDE DEF gone, T
<1>3. /\ T \in Sane /\ T.next = S.next /\ T.rows \subseteq S.rows
      /\ \A g \in gone : T.obj[g] = None
      /\ \A g \in Href \ gone : T.obj[g] = S.obj[g] /\ RowsAt(T, g) = RowsAt(S, g)
      /\ \A g \in Href : InStepAt(S, g) => InStepAt(T, g)
  BY <1>1, <1>2, DeletedIs
<1> QED  BY <1>1, <1>3 DEF T

LEMMA UpsertIs ==
  ASSUME NEW S \in Sane, NEW h \in Href, NEW uid \in Uid, NEW ics \in Body
  PROVE  LET T == UpsertCalendarObject(S, h, uid, ics) IN
         /\ T \in Sane /\ T.next = S.next /\ T.rows \subseteq S.rows
         /\ T.obj[h] # None /\ T.obj[h].uid = uid /\ T.obj[h].ics = ics
         /\ RowsAt(T, h) = RowsAt(S, h)
         /\ \A g \in Href \ {h} : InStepAt(S, g) => InStepAt(T, g)
<1> DEFINE D == Displace(S, h, uid)
           T == InsertObject(D, h, uid, ics)
<1>1. UpsertCalendarObject(S, h, uid, ics) = T
  BY DEF UpsertCalendarObject
<1>2. /\ D \in Sane /\ D.next = S.next /\ D.rows \subseteq S.rows
      /\ RowsAt(D, h) = RowsAt(S, h)
      /\ \A g \in Href : InStepAt(S, g) => InStepAt(D, g)
  BY DisplaceIs
<1> HIDE DEF D
<1>3. /\ T \in Sane /\ T.next = D.next /\ T.rows = D.rows
      /\ T.obj[h] # None /\ T.obj[h].uid = uid /\ T.obj[h].ics = ics
      /\ \A g : RowsAt(T, g) = RowsAt(D, g)
      /\ \A g \in Href \ {h} : InStepAt(D, g) => InStepAt(T, g)
  BY <1>2, InsertObjectIs
<1> HIDE DEF T
<1> QED  BY <1>1, <1>2, <1>3

(* Other objects stay, or go when they have the UID.                       *)
Spared(S, T, g) == T.obj[g] = S.obj[g] /\ RowsAt(T, g) = RowsAt(S, g)

OthersSpared(S, T, h, uid) ==
  \A g \in Href \ {h} :
    /\ T.obj[g] = None \/ Spared(S, T, g)
    /\ S.obj[g] = None \/ S.obj[g].uid # uid => Spared(S, T, g)

LEMMA UpsertOthers ==
  ASSUME NEW S \in Sane, NEW h \in Href, NEW uid \in Uid, NEW ics \in Body
  PROVE  OthersSpared(S, UpsertCalendarObject(S, h, uid, ics), h, uid)
<1> DEFINE D == Displace(S, h, uid)
           T == InsertObject(D, h, uid, ics)
<1>1. T = UpsertCalendarObject(S, h, uid, ics)
  BY DEF UpsertCalendarObject
<1>2. /\ D \in Sane
      /\ \A g \in Href \ {h} :
           D.obj[g] = None \/ (D.obj[g] = S.obj[g] /\ RowsAt(D, g) = RowsAt(S, g))
      /\ \A g \in Href \ {h} : S.obj[g] = None \/ S.obj[g].uid # uid =>
           D.obj[g] = S.obj[g] /\ RowsAt(D, g) = RowsAt(S, g)
  BY DisplaceIs
<1> HIDE DEF D
<1>3. /\ \A g \in Href \ {h} : T.obj[g] = D.obj[g]
      /\ \A g : RowsAt(T, g) = RowsAt(D, g)
  BY <1>2, InsertObjectIs
<1> HIDE DEF T
<1> QED  BY <1>1, <1>2, <1>3 DEF OthersSpared, Spared

(* T spares what S spares, when nothing has become of the other objects    *)
(* between them.                                                           *)
LEMMA SparedChain ==
  ASSUME NEW S, NEW T, NEW U, NEW V, NEW h, NEW uid,
         OthersSpared(S, T, h, uid), OthersSpared(U, V, h, uid),
         \A g \in Href \ {h} : Spared(T, U, g)
  PROVE  OthersSpared(S, V, h, uid)
<1>1. ASSUME NEW g \in Href \ {h}  PROVE V.obj[g] = None \/ Spared(S, V, g)
  BY DEF OthersSpared, Spared
<1>2. ASSUME NEW g \in Href \ {h}, S.obj[g] = None \/ S.obj[g].uid # uid  PROVE Spared(S, V, g)
  BY <1>2 DEF OthersSpared, Spared
<1> QED  BY <1>1, <1>2 DEF OthersSpared

LEMMA DeleteIs ==
  ASSUME NEW S \in Sane, NEW h \in Href
  PROVE  LET T == DeleteCalendarObject(S, h) IN
         /\ T \in Sane /\ T.next = S.next /\ T.rows \subseteq S.rows
         /\ \A g \in Href : InStepAt(S, g) => InStepAt(T, g)
<1>1. {h} \in SUBSET Href /\ DeleteCalendarObject(S, h) = Deleted(S, {h})
  BY DEF DeleteCalendarObject
<1> QED  BY <1>1, DeletedIs

(* A row more or less at h disturbs no other object.                       *)
LEMMA OthersStay ==
  ASSUME NEW S \in Sane, NEW h \in Href, S.obj[h] # None, NEW rows \in SUBSET Row, NEW n \in Nat,
         IsFiniteSet(rows), \A r \in Row : r.href # h => (r \in rows <=> r \in S.rows)
  PROVE  LET T == [obj |-> S.obj, older |-> S.older, rows |-> rows, next |-> n] IN
         /\ T \in Sane
         /\ \A g \in Href \ {h} : InStepAt(S, g) => InStepAt(T, g)
<1> DEFINE T == [obj |-> S.obj, older |-> S.older, rows |-> rows, next |-> n]
<1>1. T.obj = S.obj /\ T.rows = rows
  OBVIOUS
<1>2. \A r \in rows : S.obj[r.href] # None
  BY SaneIs
<1>3. T \in Sane
  BY <1>2, SaneIs DEF Sane
<1> HIDE DEF T
<1>4. ASSUME NEW g \in Href \ {h}  PROVE RowsAt(T, g) = RowsAt(S, g)
  BY <1>1, SaneIs DEF RowsAt
<1> QED  BY <1>1, <1>3, <1>4 DEF InStepAt, T

LEMMA FilesInOrder ==
  ASSUME NEW files \in SUBSET File
  PROVE  LET s == SetToSeq(files) IN
         /\ Len(s) \in Nat /\ Len(s) = Cardinality(files)
         /\ DOMAIN s = 1..Len(s)
         /\ \A i \in DOMAIN s : s[i] \in files
         /\ \A i, j \in DOMAIN s : s[i] = s[j] => i = j
<1>1. IsFiniteSet(files)
  BY FileAssumption, FS_Subset
<1>2. Cardinality(files) \in Nat /\ ExistsBijection(1..Cardinality(files), files)
  BY <1>1, FS_CardinalityType
<1>3. \E f \in [1..Cardinality(files) -> files] : IsInjective(f)
  BY <1>2 DEF ExistsBijection, Bijection, Injection, IsInjective
<1>4. SetToSeq(files) \in [1..Cardinality(files) -> files] /\ IsInjective(SetToSeq(files))
  BY <1>3 DEF SetToSeq
<1> QED  BY <1>2, <1>4 DEF IsInjective

LEMMA InsertIs ==
  ASSUME NEW S \in Sane, NEW h \in Href, S.obj[h] # None, NEW files \in SUBSET File
  PROVE  LET T == InsertAttachments(S, h, files) IN
         /\ T \in Sane /\ T.obj = S.obj
         /\ \A g \in Href \ {h} : InStepAt(S, g) => InStepAt(T, g)
<1> DEFINE T == InsertAttachments(S, h, files)
           s == SetToSeq(files)
           new == {[id |-> S.next + i, href |-> h, file |-> s[i]] : i \in DOMAIN s}
<1>1. T = [obj |-> S.obj, older |-> S.older, rows |-> S.rows \cup new, next |-> S.next + Len(s)]
  <2>1. S = [obj |-> S.obj, older |-> S.older, rows |-> S.rows, next |-> S.next]
    BY SaneIs
  <2>2. T = [S EXCEPT !.rows = S.rows \cup new, !.next = S.next + Len(s)]
    BY DEF InsertAttachments
  <2> HIDE DEF T, new, s
  <2> QED  BY <2>1, <2>2
<1>2. Len(s) \in Nat /\ DOMAIN s = 1..Len(s) /\ \A i \in DOMAIN s : s[i] \in File
  BY FilesInOrder
<1> HIDE DEF s
<1>3. S.next + Len(s) \in Nat /\ S.next \in Nat
  BY <1>1, <1>2, SaneIs
<1>4. \A i \in DOMAIN s : S.next + i \in Id
  BY <1>2, <1>3 DEF Id
<1>12. IsFiniteSet(new)
  <2>1. IsFiniteSet(DOMAIN s)
    BY <1>2, IntervalFinite
  <2> DEFINE f == [i \in DOMAIN s |-> [id |-> S.next + i, href |-> h, file |-> s[i]]]
  <2>2. f \in [DOMAIN s -> {f[i] : i \in DOMAIN s}] /\ new = {f[i] : i \in DOMAIN s}
    OBVIOUS
  <2> HIDE DEF f, new
  <2>3. IsFiniteSet({f[i] : i \in DOMAIN s})
    BY <2>1, <2>2, ImageFinite
  <2> QED  BY <2>2, <2>3
<1>5. new \subseteq Row /\ \A r \in new : r.href = h
  BY <1>2, <1>4 DEF Row
<1>6. S.rows \cup new \in SUBSET Row
      /\ \A r \in Row : r.href # h => (r \in S.rows \cup new <=> r \in S.rows)
  BY <1>5, SaneIs
<1> HIDE DEF T, new
<1> DEFINE rows == S.rows \cup new
           n == S.next + Len(s)
<1>7. rows \in SUBSET Row /\ n \in Nat /\ \A r \in Row : r.href # h => (r \in rows <=> r \in S.rows)
  BY <1>3, <1>6
<1>8. T = [obj |-> S.obj, older |-> S.older, rows |-> rows, next |-> n]
  BY <1>1
<1>13. IsFiniteSet(rows)
  BY <1>12, SaneIs, FS_Union
<1> HIDE DEF rows, n
<1>9. /\ [obj |-> S.obj, older |-> S.older, rows |-> rows, next |-> n] \in Sane
      /\ \A g \in Href \ {h} : InStepAt(S, g) => InStepAt([obj |-> S.obj, older |-> S.older, rows |-> rows, next |-> n], g)
  BY <1>7, <1>13, OthersStay
<1>10. T \in Sane /\ \A g \in Href \ {h} : InStepAt(S, g) => InStepAt(T, g)
  BY <1>8, <1>9
<1>11. T.obj = S.obj
  BY <1>1
<1> QED  BY <1>10, <1>11 DEF T

LEMMA ManagedOnlyIs ==
  ASSUME NEW S \in Sane, NEW h \in Href, S.obj[h] # None, NEW ids
  PROVE  LET T == [S EXCEPT !.rows = {r \in @ : r.href # h \/ r.id \in ids}] IN
         /\ T \in Sane /\ T.obj = S.obj /\ T.next = S.next
         /\ \A g \in Href \ {h} : InStepAt(S, g) => InStepAt(T, g)
<1> DEFINE rows == {r \in S.rows : r.href # h \/ r.id \in ids}
           T == [S EXCEPT !.rows = {r \in @ : r.href # h \/ r.id \in ids}]
<1>1. T = [obj |-> S.obj, older |-> S.older, rows |-> rows, next |-> S.next]
  <2>1. S = [obj |-> S.obj, older |-> S.older, rows |-> S.rows, next |-> S.next]
    BY SaneIs
  <2>2. T = [S EXCEPT !.rows = rows]
    OBVIOUS
  <2> HIDE DEF rows, T
  <2> QED  BY <2>1, <2>2
<1>2. rows \in SUBSET Row /\ S.next \in Nat /\ \A r \in Row : r.href # h => (r \in rows <=> r \in S.rows)
  BY SaneIs
<1>6. IsFiniteSet(rows)
  BY SaneIs, FS_Subset
<1> HIDE DEF T, rows
<1>3. /\ [obj |-> S.obj, older |-> S.older, rows |-> rows, next |-> S.next] \in Sane
      /\ \A g \in Href \ {h} :
           InStepAt(S, g) => InStepAt([obj |-> S.obj, older |-> S.older, rows |-> rows, next |-> S.next], g)
  BY <1>2, <1>6, OthersStay
<1>4. T \in Sane /\ \A g \in Href \ {h} : InStepAt(S, g) => InStepAt(T, g)
  BY <1>1, <1>3
<1>5. T.obj = S.obj /\ T.next = S.next
  BY <1>1
<1> QED  BY <1>4, <1>5 DEF T

(* The transaction of a PUT, and of an item of an import: h is in step     *)
(* when all went well, and every other object is if it was.                *)
LEMMA PutIs ==
  ASSUME NEW S \in Sane, NEW h \in Href, NEW uid \in Uid, NEW ics \in Sent
  PROVE  LET p == PutICS(S, h, uid, ics) IN
         /\ p.st \in Sane
         /\ \A g \in Href \ {h} : InStepAt(S, g) => InStepAt(p.st, g)
         /\ p.ok /\ Cardinality(Bearing(ics)) <= 2 => InStepAt(p.st, h)
<1> DEFINE p == PutICS(S, h, uid, ics)
           split == SplitAttachments(ics)
           S0 == UpsertCalendarObject(S, h, uid, split.rest)
           a == ApplyICSAttachments(S0, h, split)
           S1 == [S0 EXCEPT !.rows = {r \in @ : r.href # h \/ r.id \in split.managed}]
           S2 == InsertAttachments(S1, h, split.inlines)
           new == WriteAttachments(split, RowsAt(S2, h))
           S3 == UpsertCalendarObject(S2, h, uid, new)
           fits == Fits(S1, h, split.inlines)
<1>1. split.rest \in Body /\ split.inlines \in SUBSET File
  BY SplitIs
<1>2. /\ p.ok = fits
      /\ p.st = IF fits THEN S3 ELSE S1
  <2>1. /\ p.ok = a.ok
        /\ p.st = IF a.ok THEN UpsertCalendarObject(a.st, h, uid, a.ics) ELSE a.st
    BY DEF PutICS
  <2>2. a = IF fits THEN [ok |-> TRUE, st |-> S2, ics |-> new] ELSE [ok |-> FALSE, st |-> S1, ics |-> split.rest]
    BY DEF ApplyICSAttachments
  <2> HIDE DEF p, a, fits, S1, S2, new
  <2>3. /\ a.ok = fits /\ a.st = (IF fits THEN S2 ELSE S1)
        /\ fits => a.ics = new
    <3>1. fits \in BOOLEAN
      BY DEF fits, Fits
    <3> QED  BY <2>2, <3>1
  <2> QED  BY <2>1, <2>3
<1>3. S1 = [S0 EXCEPT !.rows = {r \in @ : r.href # h \/ r.id \in split.managed}]
  OBVIOUS
<1>4. ASSUME NEW rows \in SUBSET Row
      PROVE  /\ WriteAttachments(split, rows) \in Body
             /\ Cardinality(Bearing(ics)) <= 2 => RefsOf(WriteAttachments(split, rows)) = Ids(rows)
  BY WriteIs
<1> HIDE DEF split, fits, p
<1>5. /\ S0 \in Sane /\ S0.obj[h] # None /\ S0.next = S.next
      /\ \A g \in Href \ {h} : InStepAt(S, g) => InStepAt(S0, g)
  <2>1. split.rest \in Body
    BY <1>1
  <2>2. S0 \in Sane
    BY <2>1, UpsertIs
  <2>3. S0.obj[h] # None
    BY <2>1, UpsertIs
  <2>4. S0.next = S.next
    BY <2>1, UpsertIs
  <2>5. \A g \in Href \ {h} : InStepAt(S, g) => InStepAt(S0, g)
    BY <2>1, UpsertIs
  <2> QED  BY <2>2, <2>3, <2>4, <2>5
<1> HIDE DEF S0
<1>6. /\ S1 \in Sane /\ S1.obj = S0.obj /\ S1.next = S0.next
      /\ \A g \in Href \ {h} : InStepAt(S0, g) => InStepAt(S1, g)
  BY <1>5, ManagedOnlyIs
<1> HIDE DEF S1
<1>7. CASE ~fits
  BY <1>2, <1>5, <1>6, <1>7 DEF p
<1>8. CASE fits
  <2>2. /\ S2 \in Sane /\ S2.obj = S1.obj
        /\ \A g \in Href \ {h} : InStepAt(S1, g) => InStepAt(S2, g)
    BY <1>1, <1>5, <1>6, InsertIs
  <2> HIDE DEF S2
  <2>3. RowsAt(S2, h) \in SUBSET Row
    BY <2>2, SaneIs
  <2>4. /\ new \in Body
        /\ Cardinality(Bearing(ics)) <= 2 => RefsOf(new) = Ids(RowsAt(S2, h))
    BY <1>4, <2>3
  <2> HIDE DEF new
  <2>5. /\ S3 \in Sane /\ S3.obj[h] # None /\ S3.obj[h].ics = new
        /\ RowsAt(S3, h) = RowsAt(S2, h)
        /\ \A g \in Href \ {h} : InStepAt(S2, g) => InStepAt(S3, g)
    <3>1. S2 \in Sane /\ new \in Body
      BY <2>2, <2>4
    <3>2. S3 \in Sane
      BY <3>1, UpsertIs
    <3>3. S3.obj[h] # None /\ S3.obj[h].ics = new
      BY <3>1, UpsertIs
    <3>4. RowsAt(S3, h) = RowsAt(S2, h)
      BY <3>1, UpsertIs
    <3>5. \A g \in Href \ {h} : InStepAt(S2, g) => InStepAt(S3, g)
      BY <3>1, UpsertIs
    <3> QED  BY <3>2, <3>3, <3>4, <3>5
  <2> HIDE DEF S3
  <2>6. Cardinality(Bearing(ics)) <= 2 => InStepAt(S3, h)
    BY <2>4, <2>5 DEF InStepAt
  <2> QED  BY <1>2, <1>5, <1>6, <1>8, <2>2, <2>5, <2>6 DEF p
<1> QED  BY <1>7, <1>8

LEMMA BodyBears ==
  ASSUME NEW ics \in Body
  PROVE  Cardinality(Bearing(ics)) <= 2
<1>1. ics \in Sent /\ Len(ics.parts) \in 1..3 /\ DOMAIN ics.parts = 1..Len(ics.parts)
  BY PartsOf DEF Body
<1>2. \E a, b \in 1..3 : Bearing(ics) \subseteq {a, b}
  <2>1. CASE Len(ics.parts) = 3
    <3>1. PICK k \in 1..3 : ics.parts[k] = {}
      BY <2>1 DEF Body
    <3>2. Bearing(ics) \subseteq (1..3) \ {k}
      BY <1>1, <2>1, <3>1 DEF Bearing
    <3>3. \E a, b \in 1..3 : (1..3) \ {k} \subseteq {a, b}
      <4>1. CASE k = 1
        <5>1. (1..3) \ {k} \subseteq {2, 3}
          BY <4>1
        <5> QED  BY <5>1
      <4>2. CASE k = 2
        <5>1. (1..3) \ {k} \subseteq {1, 3}
          BY <4>2
        <5> QED  BY <5>1
      <4>3. CASE k = 3
        <5>1. (1..3) \ {k} \subseteq {1, 2}
          BY <4>3
        <5> QED  BY <5>1
      <4> QED  BY <4>1, <4>2, <4>3
    <3> QED  BY <3>2, <3>3
  <2>2. CASE Len(ics.parts) # 3
    <3>1. Bearing(ics) \subseteq {1, 2}
      BY <1>1, <2>2 DEF Bearing
    <3> QED  BY <3>1
  <2> QED  BY <2>1, <2>2
<1>3. PICK a \in 1..3, b \in 1..3 : Bearing(ics) \subseteq {a, b}
  BY <1>2
<1>4. IsFiniteSet({a}) /\ Cardinality({a}) = 1
  BY FS_Singleton
<1>5. IsFiniteSet({a} \cup {b}) /\ Cardinality({a} \cup {b}) <= 2
  <2>1. /\ IsFiniteSet({a} \cup {b})
        /\ Cardinality({a} \cup {b}) = IF b \in {a} THEN Cardinality({a}) ELSE Cardinality({a}) + 1
    BY <1>4, FS_AddElement
  <2> QED  BY <1>4, <2>1
<1>6. Bearing(ics) \subseteq {a} \cup {b}
  BY <1>3
<1>7. Cardinality(Bearing(ics)) <= Cardinality({a} \cup {b})
  BY <1>5, <1>6, FS_Subset
<1>8. Cardinality(Bearing(ics)) \in Nat /\ Cardinality({a} \cup {b}) \in Nat
  BY <1>5, <1>6, FS_Subset, FS_CardinalityType
<1> QED  BY <1>5, <1>7, <1>8

(* The references in a stored body are made those of the rows.             *)
LEMMA RewrittenIs ==
  ASSUME NEW S \in Sane, NEW h \in Href, S.obj[h] # None
  PROVE  LET T == UpsertCalendarObject(S, h, S.obj[h].uid,
                    RewriteManagedAttachments(S, h, S.obj[h].ics)) IN
         /\ T \in Sane /\ T.next = S.next
         /\ InStepAt(T, h)
         /\ \A g \in Href \ {h} : InStepAt(S, g) => InStepAt(T, g)
<1> DEFINE ics == S.obj[h].ics
           new == RewriteManagedAttachments(S, h, ics)
           T == UpsertCalendarObject(S, h, S.obj[h].uid, new)
<1>1. S.obj[h].uid \in Uid /\ ics \in Body /\ ics \in Sent
  BY SaneIs DEF Object, Body
<1>2. RowsAt(S, h) \in SUBSET Row
  BY SaneIs
<1>3. new = WriteAttachments(SplitAttachments(ics), RowsAt(S, h))
  BY DEF RewriteManagedAttachments
<1> HIDE DEF new, ics
<1>4. new \in Body /\ RefsOf(new) = Ids(RowsAt(S, h))
  BY <1>1, <1>2, <1>3, WriteIs, BodyBears
<1>5. T \in Sane /\ T.next = S.next
  BY <1>1, <1>4, UpsertIs
<1>6. T.obj[h].ics = new /\ RowsAt(T, h) = RowsAt(S, h)
  BY <1>1, <1>4, UpsertIs
<1>7. \A g \in Href \ {h} : InStepAt(S, g) => InStepAt(T, g)
  BY <1>1, <1>4, UpsertIs
<1> HIDE DEF T
<1>8. InStepAt(T, h)
  BY <1>4, <1>6 DEF InStepAt
<1> QED  BY <1>5, <1>7, <1>8 DEF T, new, ics

-----------------------------------------------------------------------------
(* Requests.                                                               *)

LEMMA StoreKeeps ==
  ASSUME NEW S \in Sane, S.next <= MaxId, NEW bad \in SUBSET Href, outOfStep \subseteq Href,
         Store(S, bad), \A h \in Href \ (outOfStep \cup bad) : InStepAt(S, h)
  PROVE  /\ db' \in Sane /\ db'.next <= MaxId /\ outOfStep' \subseteq Href
         /\ \A h \in Href \ outOfStep' : InStepAt(db', h)
BY DEF Store, InStepAt, RowsAt

(* A transaction on h, which leaves the other objects as they were.        *)
LEMMA AtomicKeepsFileInv ==
  ASSUME FileInv, Atomic, NEW S \in Sane, S.next <= MaxId, NEW h \in Href, NEW bad \in SUBSET {h},
         \A g \in Href \ {h} : InStepAt(db, g) => InStepAt(S, g),
         h \in bad \/ h \in outOfStep \/ InStepAt(S, h),
         Store(S, bad)
  PROVE  FileInv'
<1>1. \A g \in Href \ (outOfStep \cup bad) : InStepAt(S, g)
  BY DEF FileInv
<1>2. bad \in SUBSET Href /\ outOfStep \subseteq Href
  BY DEF FileInv
<1>3. /\ db' \in Sane /\ db'.next <= MaxId /\ outOfStep' \subseteq Href
      /\ \A g \in Href \ outOfStep' : InStepAt(db', g)
  BY <1>1, <1>2, StoreKeeps
<1>4. hd' = hd /\ requests' = requests + 1 /\ requests < MaxRequests
  BY DEF Atomic
<1>5. LocalsOK' /\ requests' \in 0..MaxRequests
  BY <1>4, BoundAssumption DEF FileInv, LocalsOK
<1> QED  BY <1>3, <1>5 DEF FileInv

LEMMA BodiesAreSent ==
  ASSUME FileInv, NEW uid \in Uid, NEW ics \in Bodies(uid)
  PROVE  ics \in Sent
<1>1. Values \subseteq Attach /\ Files \subseteq Attach
      /\ \A i \in Ids(db.rows) : Managed(i) \in Attach
  <2>1. db.rows \in SUBSET Row
    BY SaneIs DEF FileInv
  <2> QED  BY <2>1, ManagedIs DEF Values, Files, Attach, Ids, Row
<1>2. ASSUME NEW s \in SUBSET Attach
      PROVE  [uid |-> uid, parts |-> <<s>>] \in Sent
  BY DEF Sent, Ics
<1>3. ASSUME NEW s \in SUBSET Attach, NEW t \in SUBSET Attach
      PROVE  [uid |-> uid, parts |-> <<s, t>>] \in Sent
  BY DEF Sent, Ics
<1>4. ASSUME NEW s \in SUBSET Attach
      PROVE  [uid |-> uid, parts |-> <<s, s, s>>] \in Sent
  BY DEF Sent, Ics
<1>5. CASE ics \in {[uid |-> uid, parts |-> <<s>>] : s \in {v \in SUBSET Values : Cardinality(v) <= MaxAttach}}
  BY <1>1, <1>2, <1>5
<1>6. CASE ics \in {[uid |-> uid, parts |-> <<{a}, {a}>>] : a \in Files}
  BY <1>1, <1>3, <1>6
<1>7. CASE ics \in {[uid |-> uid, parts |-> <<{Managed(i)}, {Managed(i)}, {Managed(i)}>>] : i \in Ids(db.rows)}
  BY <1>1, <1>4, <1>7
<1> QED  BY <1>5, <1>6, <1>7 DEF Bodies

LEMMA BearingIs ==
  ASSUME NEW ics \in Sent
  PROVE  Cardinality(Bearing(ics)) \in Nat
<1>1. IsFiniteSet(1..3)
  <2>1. 1 \in Int /\ 3 \in Int
    OBVIOUS
  <2> QED  BY ONLY <2>1, FS_Interval, Zenon
<1>2. Bearing(ics) \subseteq 1..3
  BY PartsOf DEF Bearing
<1> QED  BY <1>1, <1>2, FS_Subset, FS_CardinalityType

LEMMA EmptyBody ==
  ASSUME NEW uid \in Uid
  PROVE  /\ [uid |-> uid, parts |-> <<{}>>] \in Body
         /\ RefsOf([uid |-> uid, parts |-> <<{}>>]) = {}
<1> DEFINE ics == [uid |-> uid, parts |-> <<{}>>]
<1>1. ics.parts = <<{}>> /\ DOMAIN ics.parts = {1} /\ ics.parts[1] = {} /\ Len(ics.parts) = 1
  OBVIOUS
<1>2. ics \in Body
  BY DEF Body, Sent, Ics
<1>3. AttachOf(ics) = {}
  BY <1>1 DEF AttachOf
<1> QED  BY <1>2, <1>3 DEF RefsOf

LEMMA UnchangedIs ==
  ASSUME FileInv, NEW h \in Href
  PROVE  db \in Sane /\ db.next <= MaxId /\ (h \in outOfStep \/ InStepAt(db, h))
BY DEF FileInv

LEMMA PutKeepsFileInv ==
  ASSUME FileInv, NEW h \in Href, NEW uid \in Uid, NEW ics \in Bodies(uid), PutICSWithAttachments(h, uid, ics)
  PROVE  FileInv'
<1> DEFINE p == PutICS(db, h, uid, ics)
<1>1. Atomic /\ IF p.ok THEN p.st.next <= MaxId /\ Store(p.st, Overlooked(h, ics)) ELSE Store(db, {})
  BY DEF PutICSWithAttachments
<1>2. ics \in Sent /\ db \in Sane /\ db.next <= MaxId
  BY BodiesAreSent DEF FileInv
<1> HIDE DEF p
<1>3. CASE ~p.ok
  BY <1>1, <1>3, UnchangedIs, AtomicKeepsFileInv
<1>4. CASE p.ok
  <2>1. p.st.next <= MaxId
    BY <1>1, <1>4
  <2>2. /\ p.st \in Sane
        /\ \A g \in Href \ {h} : InStepAt(db, g) => InStepAt(p.st, g)
        /\ p.ok /\ Cardinality(Bearing(ics)) <= 2 => InStepAt(p.st, h)
    BY <1>2, <2>1, PutIs DEF p
  <2>3. h \in Overlooked(h, ics) \/ InStepAt(p.st, h)
    <3>1. Cardinality(Bearing(ics)) \in Nat
      BY <1>2, BearingIs
    <3> QED  BY <1>4, <2>2, <3>1 DEF Overlooked
  <2>4. Overlooked(h, ics) \in SUBSET {h}
    BY DEF Overlooked
  <2> QED  BY <1>1, <1>4, <2>1, <2>2, <2>3, <2>4, AtomicKeepsFileInv
<1> QED  BY <1>3, <1>4

LEMMA FoundIs ==
  ASSUME NEW uid \in Uid, NEW h,
         LET found == CalendarObjectByUID(db, uid) IN h \in IF found = {} THEN {HrefOf[uid]} ELSE found
  PROVE  h \in Href
<1>1. CalendarObjectByUID(db, uid) \subseteq Href
  BY DEF CalendarObjectByUID, Live
<1> QED  BY <1>1, HrefAssumption

LEMMA ImportKeepsFileInv ==
  ASSUME FileInv, NEW uid \in Uid, NEW ics \in Bodies(uid), NEW h, importCalendar(ics, h)
  PROVE  FileInv'
<1> DEFINE p == PutICS(db, h, ics.uid, ics)
           bad == IF p.ok THEN Overlooked(h, ics) ELSE {h}
<1>1. Atomic /\ p.st.next <= MaxId /\ Store(p.st, bad)
  BY DEF importCalendar
<1>2. ics \in Sent /\ db \in Sane /\ db.next <= MaxId /\ ics.uid \in Uid
  BY BodiesAreSent, PartsOf DEF FileInv
<1>3. h \in Href
  BY <1>2, FoundIs DEF importCalendar
<1> HIDE DEF p
<1>4. /\ p.st \in Sane
      /\ \A g \in Href \ {h} : InStepAt(db, g) => InStepAt(p.st, g)
      /\ p.ok /\ Cardinality(Bearing(ics)) <= 2 => InStepAt(p.st, h)
  BY <1>1, <1>2, <1>3, PutIs DEF p
<1>5. bad \in SUBSET {h} /\ (h \in bad \/ InStepAt(p.st, h))
  <2>1. Cardinality(Bearing(ics)) \in Nat
    BY <1>2, BearingIs
  <2> QED  BY <1>4, <2>1 DEF Overlooked
<1> HIDE DEF bad
<1> QED  BY <1>1, <1>3, <1>4, <1>5, AtomicKeepsFileInv

LEMMA DeleteKeepsFileInv ==
  ASSUME FileInv, NEW h \in Href, deleteEvent(h)
  PROVE  FileInv'
<1> DEFINE S == DeleteCalendarObject(db, h)
<1>1. Atomic /\ Store(S, {})
  BY DEF deleteEvent
<1>2. db \in Sane /\ db.next <= MaxId /\ (h \in outOfStep \/ InStepAt(db, h))
  BY UnchangedIs
<1>3. S \in Sane /\ S.next = db.next
  BY <1>2, DeleteIs
<1>4. \A g \in Href : InStepAt(db, g) => InStepAt(S, g)
  BY <1>2, DeleteIs
<1> HIDE DEF S
<1> QED  BY <1>1, <1>2, <1>3, <1>4, AtomicKeepsFileInv

LEMMA UploadKeepsFileInv ==
  ASSUME FileInv, NEW h \in Href, NEW files \in SUBSET File, uploadItemAttachments(h, files)
  PROVE  FileInv'
<1> DEFINE S == InsertAttachments(db, h, files)
           T == UpsertCalendarObject(S, h, S.obj[h].uid, RewriteManagedAttachments(S, h, S.obj[h].ics))
<1>1. /\ Atomic /\ db.obj[h] # None
      /\ IF ~Fits(db, h, files) THEN Store(db, {}) ELSE S.next <= MaxId /\ Store(T, {})
  BY DEF uploadItemAttachments
<1>2. db \in Sane /\ db.next <= MaxId
  BY DEF FileInv
<1>3. CASE ~Fits(db, h, files)
  BY <1>1, <1>3, UnchangedIs, AtomicKeepsFileInv
<1>4. CASE Fits(db, h, files)
  <2>1. S.next <= MaxId
    BY <1>1, <1>4
  <2>2. S \in Sane /\ S.obj = db.obj
    BY <1>1, <1>2, <2>1, InsertIs
  <2>3. \A g \in Href \ {h} : InStepAt(db, g) => InStepAt(S, g)
    BY <1>1, <1>2, <2>1, InsertIs
  <2>4. S.obj[h] # None
    BY <1>1, <2>2
  <2> HIDE DEF S
  <2>5. T \in Sane /\ T.next = S.next
    BY <2>2, <2>4, RewrittenIs
  <2>6. InStepAt(T, h)
    BY <2>2, <2>4, RewrittenIs
  <2>7. \A g \in Href \ {h} : InStepAt(S, g) => InStepAt(T, g)
    BY <2>2, <2>4, RewrittenIs
  <2> HIDE DEF T
  <2>8. Store(T, {})
    BY <1>1, <1>4
  <2>9. T.next <= MaxId
    BY <2>1, <2>5
  <2> QED  BY <1>1, <2>3, <2>5, <2>6, <2>7, <2>8, <2>9, AtomicKeepsFileInv
<1> QED  BY <1>3, <1>4

LEMMA DeleteFileKeepsFileInv ==
  ASSUME FileInv, NEW r \in db.rows, deleteItemAttachment(r)
  PROVE  FileInv'
<1> DEFINE h == r.href
           S == [db EXCEPT !.rows = @ \ {r}]
           T == UpsertCalendarObject(S, h, S.obj[h].uid, RewriteManagedAttachments(S, h, S.obj[h].ics))
<1>1. Atomic /\ Store(T, {})
  BY DEF deleteItemAttachment
<1>2. db \in Sane /\ db.next <= MaxId
  BY DEF FileInv
<1>3. h \in Href /\ db.obj[h] # None
  BY <1>2, SaneIs
<1>4. S = [obj |-> db.obj, older |-> db.older, rows |-> db.rows \ {r}, next |-> db.next]
  <2>1. db = [obj |-> db.obj, older |-> db.older, rows |-> db.rows, next |-> db.next]
    BY <1>2, SaneIs
  <2> QED  BY <2>1
<1> DEFINE rows == db.rows \ {r}
<1>5. rows \in SUBSET Row /\ db.next \in Nat /\ \A x \in Row : x.href # h => (x \in rows <=> x \in db.rows)
  BY <1>2, SaneIs
<1>6. S = [obj |-> db.obj, older |-> db.older, rows |-> rows, next |-> db.next] /\ S.next = db.next /\ S.obj = db.obj
  BY <1>4
<1>13. IsFiniteSet(rows)
  BY <1>2, SaneIs, FS_Subset
<1> HIDE DEF rows, S, h
<1>7. /\ [obj |-> db.obj, older |-> db.older, rows |-> rows, next |-> db.next] \in Sane
      /\ \A g \in Href \ {h} :
           InStepAt(db, g) => InStepAt([obj |-> db.obj, older |-> db.older, rows |-> rows, next |-> db.next], g)
  BY <1>2, <1>3, <1>5, <1>13, OthersStay
<1>8. S \in Sane /\ S.obj[h] # None /\ \A g \in Href \ {h} : InStepAt(db, g) => InStepAt(S, g)
  BY <1>3, <1>6, <1>7
<1>9. T \in Sane /\ T.next = S.next
  BY <1>3, <1>8, RewrittenIs
<1>10. InStepAt(T, h)
  BY <1>3, <1>8, RewrittenIs
<1>11. \A g \in Href \ {h} : InStepAt(S, g) => InStepAt(T, g)
  BY <1>3, <1>8, RewrittenIs
<1> HIDE DEF T
<1>12. T.next <= MaxId
  BY <1>2, <1>6, <1>9
<1> QED  BY <1>1, <1>3, <1>8, <1>9, <1>10, <1>11, <1>12, AtomicKeepsFileInv

LEMMA IdleIs ==
  /\ Idle \in [pc : {"idle", "save", "insert"}, href : Href \cup {None},
               uid : Uid \cup {None}, ics : Body \cup {None}, rows : SUBSET Row]
  /\ Idle.pc = "idle"
BY DEF Idle

(* A request gets new locals: it is idle, or has a name and a body.        *)
LEMMA LocalsSet ==
  ASSUME LocalsOK, NEW w \in Handler, NEW l, hd' = [hd EXCEPT ![w] = l],
         \/ l = Idle
         \/ \E h \in Href, uid \in Uid, ics \in Body, rows \in SUBSET Row :
              l = Saving(h, uid, ics, rows)
  PROVE  LocalsOK'
<1>1. /\ l \in [pc : {"idle", "save", "insert"}, href : Href \cup {None},
                uid : Uid \cup {None}, ics : Body \cup {None}, rows : SUBSET Row]
      /\ l.pc # "idle" => l.href \in Href /\ l.uid \in Uid /\ l.ics \in Body
  <2>1. CASE l = Idle
    BY <2>1, IdleIs
  <2>2. CASE \E h \in Href, uid \in Uid, ics \in Body, rows \in SUBSET Row :
               l = Saving(h, uid, ics, rows)
    BY <2>2 DEF Saving
  <2> QED  BY <2>1, <2>2
<1> QED  BY <1>1 DEF LocalsOK

LEMMA StartKeepsFileInv ==
  ASSUME FileInv, NEW w \in Handler,
         \/ \E h \in Href, uid \in Uid : PutPlain(w, h, uid, [uid |-> uid, parts |-> <<{}>>])
         \/ \E uid \in Uid : createEvent(w, uid)
         \/ \E h \in Href : updateEvent(w, h)
  PROVE  FileInv'
<1>1. \E h \in Href, uid \in Uid, ics \in Body, rows \in SUBSET Row :
        /\ Start(w) /\ UNCHANGED <<db, outOfStep>>
        /\ hd' = [hd EXCEPT ![w] = Saving(h, uid, ics, rows)]
  <2>1. CASE \E h \in Href, uid \in Uid : PutPlain(w, h, uid, [uid |-> uid, parts |-> <<{}>>])
    <3>1. PICK h \in Href, uid \in Uid : PutPlain(w, h, uid, [uid |-> uid, parts |-> <<{}>>])
      BY <2>1
    <3> QED  BY <3>1, EmptyBody DEF PutPlain
  <2>2. CASE \E uid \in Uid : createEvent(w, uid)
    <3>1. PICK uid \in Uid : createEvent(w, uid)
      BY <2>2
    <3>2. HrefOf[uid] \in Href
      BY HrefAssumption
    <3> QED  BY <3>1, <3>2, EmptyBody DEF createEvent
  <2>3. CASE \E h \in Href : updateEvent(w, h)
    <3>1. PICK h \in Href : updateEvent(w, h)
      BY <2>3
    <3> DEFINE uid == db.obj[h].uid
               ics == db.obj[h].ics
               rows == RowsAt(db, h)
    <3>2. /\ Start(w) /\ UNCHANGED <<db, outOfStep>> /\ db.obj[h] # None
          /\ hd' = [hd EXCEPT ![w] = Saving(h, uid, ics, rows)]
      BY <3>1 DEF updateEvent
    <3>3. uid \in Uid /\ ics \in Body /\ rows \in SUBSET Row
      BY <3>2, SaneIs DEF FileInv, Object
    <3> HIDE DEF uid, ics, rows
    <3> QED  BY <3>2, <3>3
  <2> QED  BY <2>1, <2>2, <2>3
<1>2. PICK h \in Href, uid \in Uid, ics \in Body, rows \in SUBSET Row :
        /\ Start(w) /\ UNCHANGED <<db, outOfStep>>
        /\ hd' = [hd EXCEPT ![w] = Saving(h, uid, ics, rows)]
  BY <1>1
<1>3. LocalsOK'
  BY <1>2, LocalsSet DEF FileInv
<1>4. requests' \in 0..MaxRequests
  BY <1>2, BoundAssumption DEF Start, FileInv
<1> QED  BY <1>2, <1>3, <1>4 DEF FileInv

(* The other object with the UID goes, if there is one.                    *)
LEMMA DisplaceKeepsFileInv ==
  ASSUME FileInv, NEW w \in Handler, DisplaceOther(w)
  PROVE  FileInv'
<1> DEFINE S == Displace(db, hd[w].href, hd[w].uid)
<1>1. hd[w].pc = "save" /\ Store(S, {}) /\ hd' = [hd EXCEPT ![w].pc = "insert"] /\ requests' = requests
  BY DEF DisplaceOther
<1>2. hd[w].href \in Href /\ db \in Sane /\ db.next <= MaxId
  BY <1>1 DEF FileInv, LocalsOK
<1>3. S \in Sane /\ S.next = db.next /\ \A g \in Href : InStepAt(db, g) => InStepAt(S, g)
  BY <1>2, DisplaceIs
<1> HIDE DEF S
<1>4. \A g \in Href \ (outOfStep \cup {}) : InStepAt(S, g)
  BY <1>3 DEF FileInv
<1>5. {} \in SUBSET Href /\ outOfStep \subseteq Href /\ S.next <= MaxId
  BY <1>2, <1>3 DEF FileInv
<1>6. /\ db' \in Sane /\ db'.next <= MaxId /\ outOfStep' \subseteq Href
      /\ \A g \in Href \ outOfStep' : InStepAt(db', g)
  BY <1>1, <1>3, <1>4, <1>5, StoreKeeps
<1>7. LocalsOK'
  BY <1>1 DEF FileInv, LocalsOK
<1> QED  BY <1>1, <1>6, <1>7 DEF FileInv

(* A body that was read earlier is stored: it is in step if the rows are   *)
(* those it was read with, and it agreed with them.                        *)
LEMMA SaveKeepsFileInv ==
  ASSUME FileInv, NEW w \in Handler, Save(w)
  PROVE  FileInv'
<1> DEFINE h == hd[w].href
           ics == hd[w].ics
           S == InsertObject(db, h, hd[w].uid, ics)
           bad == IF RowsAt(db, h) # hd[w].rows \/ RefsOf(ics) # Ids(hd[w].rows) THEN {h} ELSE {}
<1>1. /\ hd[w].pc # "idle" /\ Store(S, bad)
      /\ hd' = [hd EXCEPT ![w] = Idle] /\ requests' = requests
  BY DEF Save
<1>2. h \in Href /\ hd[w].uid \in Uid /\ ics \in Body /\ db \in Sane /\ db.next <= MaxId
  BY <1>1 DEF FileInv, LocalsOK
<1> HIDE DEF h, ics
<1>3. S \in Sane /\ S.next = db.next
  BY <1>2, InsertObjectIs
<1>4. S.obj[h].ics = ics /\ RowsAt(S, h) = RowsAt(db, h)
  BY <1>2, InsertObjectIs
<1>5. \A g \in Href \ {h} : InStepAt(db, g) => InStepAt(S, g)
  BY <1>2, InsertObjectIs
<1> HIDE DEF S
<1>6. h \in bad \/ InStepAt(S, h)
  BY <1>4 DEF InStepAt
<1>7. bad \in SUBSET Href /\ outOfStep \subseteq Href
  BY <1>2 DEF FileInv
<1> HIDE DEF bad
<1>8. \A g \in Href \ (outOfStep \cup bad) : InStepAt(S, g)
  BY <1>5, <1>6 DEF FileInv
<1>9. /\ db' \in Sane /\ db'.next <= MaxId /\ outOfStep' \subseteq Href
      /\ \A g \in Href \ outOfStep' : InStepAt(db', g)
  BY <1>1, <1>2, <1>3, <1>7, <1>8, StoreKeeps
<1>10. LocalsOK'
  BY <1>1, LocalsSet DEF FileInv
<1> QED  BY <1>1, <1>9, <1>10 DEF FileInv

LEMMA AbandonKeepsFileInv ==
  ASSUME FileInv, NEW w \in Handler, Abandon(w)
  PROVE  FileInv'
<1>1. hd' = [hd EXCEPT ![w] = Idle] /\ UNCHANGED <<db, requests, outOfStep>>
  BY DEF Abandon
<1>2. LocalsOK'
  BY <1>1, LocalsSet DEF FileInv
<1> QED  BY <1>1, <1>2 DEF FileInv

-----------------------------------------------------------------------------
Weight == [r \in Row |-> Size[r.file]]

IsUsage(g, R) ==
  g = [s \in SUBSET R |-> IF s = {} THEN 0
                          ELSE LET x == CHOOSE x \in s : TRUE IN Size[x.file] + g[s \ {x}]]

LEMMA UsageFolds ==
  ASSUME NEW S, NEW h
  PROVE  Usage(S, h) = (CHOOSE g : IsUsage(g, RowsAt(S, h)))[RowsAt(S, h)]
BY DEF Usage, MapThenSumSet, MapThenFoldSet, IsUsage

LEMMA UsageIs ==
  ASSUME NEW S \in Sane, NEW h
  PROVE  Usage(S, h) = Sum(Weight, RowsAt(S, h))
<1> DEFINE R == RowsAt(S, h)
           k == CHOOSE g : IsUsage(g, R)
<1>1. R \in SUBSET Row /\ IsFiniteSet(R)
  BY SaneIs
<1>2. \A x \in R : Weight[x] \in Nat /\ Weight[x] = Size[x.file]
  BY <1>1, SizeAssumption DEF Row, Weight
<1> HIDE DEF R
<1>3. ASSUME NEW g  PROVE IsUsage(g, R) <=> Sums(g, Weight, R)
  <2> DEFINE f1(s) == IF s = {} THEN 0
                          ELSE LET x == CHOOSE x \in s : TRUE IN Size[x.file] + g[s \ {x}]
             f2(s) == IF s = {} THEN 0 ELSE Weight[Some(s)] + g[s \ {Some(s)}]
  <2>1. ASSUME NEW s \in SUBSET R  PROVE f1(s) = f2(s)
    <3>1. CASE s # {}
      <4>1. Some(s) \in R
        BY <3>1, SomeIs
      <4> QED  BY <1>2, <4>1 DEF Some
    <3> QED  BY <3>1
  <2> HIDE DEF f1, f2
  <2>2. [s \in SUBSET R |-> f1(s)] = [s \in SUBSET R |-> f2(s)]
    BY <2>1
  <2>3. (g = [s \in SUBSET R |-> f1(s)]) <=> (g = [s \in SUBSET R |-> f2(s)])
    BY <2>2
  <2> QED  BY <2>3 DEF IsUsage, Sums, f1, f2
<1>4. \E g : Sums(g, Weight, R)
  BY <1>1, <1>2, SumsExist
<1>5. Sums(k, Weight, R)
  BY <1>3, <1>4
<1>6. Sum(Weight, R) = k[R]
  BY <1>1, <1>2, <1>5, SumIs
<1> QED  BY <1>6, UsageFolds DEF R

LEMMA BytesFolds ==
  ASSUME NEW files
  PROVE  Bytes(files) = (CHOOSE g : Sums(g, Size, files))[files]
BY DEF Bytes, MapThenSumSet, MapThenFoldSet, Sums, Some

LEMMA BytesIs ==
  ASSUME NEW files
  PROVE  Bytes(files) = Sum(Size, files)
BY BytesFolds DEF Sum

-----------------------------------------------------------------------------
(* What requests and restores do to the tables: ids go up, and the rows    *)
(* that are in neither S nor F have ids of their own; the limits are kept. *)

Sized(f) == Size[f] > 0 /\ Size[f] <= MaxFile

Limited(S) ==
  /\ \A h \in Href : Cardinality(RowsAt(S, h)) <= MaxFiles /\ Usage(S, h) <= MaxTotal
  /\ \A r \in S.rows : Sized(r.file)

Follows(S, T, F) ==
  /\ S.next <= T.next
  /\ \A r \in T.rows : r \in S.rows \cup F \/ r.id \in (S.next + 1)..T.next
  /\ \A q, r \in T.rows \ (S.rows \cup F) : q.id = r.id => q = r
  /\ Limited(S) => Limited(T)

LEMMA FollowsChain ==
  ASSUME NEW S \in Sane, NEW T \in Sane, NEW U \in Sane, NEW F \in SUBSET Row,
         Follows(S, T, F), Follows(T, U, F)
  PROVE  Follows(S, U, F)
<1>1. S.next \in Nat /\ T.next \in Nat /\ U.next \in Nat /\ \A r \in T.rows \cup U.rows : r.id \in Nat
  BY SaneIs DEF Row, Id
<1>2. S.next <= U.next
  BY <1>1 DEF Follows
<1>3. \A r \in U.rows : r \in S.rows \cup F \/ r.id \in (S.next + 1)..U.next
  BY <1>1 DEF Follows
<1>4. ASSUME NEW q \in U.rows \ (S.rows \cup F), NEW r \in U.rows \ (S.rows \cup F), q.id = r.id
      PROVE  q = r
  <2>1. CASE q \in T.rows /\ r \in T.rows
    BY <1>4, <2>1 DEF Follows
  <2>2. CASE q \notin T.rows /\ r \notin T.rows
    BY <1>4, <2>2 DEF Follows
  <2>3. CASE q \in T.rows /\ r \notin T.rows
    <3>1. q.id <= T.next /\ r.id >= T.next + 1
      BY <1>1, <1>4, <2>3 DEF Follows
    <3> QED  BY <1>1, <1>4, <3>1
  <2>4. CASE q \notin T.rows /\ r \in T.rows
    <3>1. r.id <= T.next /\ q.id >= T.next + 1
      BY <1>1, <1>4, <2>4 DEF Follows
    <3> QED  BY <1>1, <1>4, <3>1
  <2> QED  BY <2>1, <2>2, <2>3, <2>4
<1>5. Limited(S) => Limited(U)
  BY DEF Follows
<1> QED  BY <1>2, <1>3, <1>4, <1>5 DEF Follows

LEMMA WeightIs ==
  ASSUME NEW R \in SUBSET Row
  PROVE  \A x \in R : Weight[x] = Size[x.file] /\ Weight[x] \in Nat
BY SizeAssumption DEF Weight, Row

LEMMA FewerRows ==
  ASSUME NEW S \in Sane, NEW T \in Sane, T.rows \subseteq S.rows, Limited(S)
  PROVE  Limited(T)
<1>1. ASSUME NEW h \in Href
      PROVE  Cardinality(RowsAt(T, h)) <= MaxFiles /\ Usage(T, h) <= MaxTotal
  <2>1. RowsAt(T, h) \in SUBSET RowsAt(S, h)
    BY DEF RowsAt
  <2>2. IsFiniteSet(RowsAt(S, h)) /\ IsFiniteSet(RowsAt(T, h)) /\ RowsAt(S, h) \in SUBSET Row
        /\ RowsAt(T, h) \in SUBSET Row
    BY SaneIs
  <2>3. Cardinality(RowsAt(T, h)) <= Cardinality(RowsAt(S, h))
        /\ Cardinality(RowsAt(T, h)) \in Nat /\ Cardinality(RowsAt(S, h)) \in Nat
    BY <2>1, <2>2, FS_Subset, FS_CardinalityType
  <2>4. Usage(S, h) = Sum(Weight, RowsAt(S, h)) /\ Usage(T, h) = Sum(Weight, RowsAt(T, h))
    BY UsageIs
  <2>5. (\A x \in RowsAt(S, h) : Weight[x] \in Nat) /\ (\A x \in RowsAt(T, h) : Weight[x] \in Nat)
    BY <2>2, WeightIs
  <2>6. Sum(Weight, RowsAt(T, h)) <= Sum(Weight, RowsAt(S, h))
    BY <2>1, <2>2, <2>5, SumMonotone
  <2>7. Sum(Weight, RowsAt(T, h)) \in Nat /\ Sum(Weight, RowsAt(S, h)) \in Nat
    BY <2>2, <2>5, SumIs
  <2>8. Cardinality(RowsAt(S, h)) <= MaxFiles /\ Usage(S, h) <= MaxTotal
    BY DEF Limited
  <2> QED  BY <2>3, <2>4, <2>6, <2>7, <2>8, BoundAssumption
<1>2. \A r \in T.rows : Sized(r.file)
  BY DEF Limited
<1> QED  BY <1>1, <1>2 DEF Limited

LEMMA FewerFollows ==
  ASSUME NEW S \in Sane, NEW T \in Sane, T.rows \subseteq S.rows, T.next = S.next, NEW F
  PROVE  Follows(S, T, F)
<1>1. S.next \in Nat
  BY SaneIs
<1> QED  BY <1>1, FewerRows DEF Follows

LEMMA UpsertFollows ==
  ASSUME NEW S \in Sane, NEW h \in Href, NEW uid \in Uid, NEW ics \in Body, NEW F
  PROVE  Follows(S, UpsertCalendarObject(S, h, uid, ics), F)
<1> DEFINE T == UpsertCalendarObject(S, h, uid, ics)
<1>1. T \in Sane /\ T.next = S.next /\ T.rows \subseteq S.rows
  BY UpsertIs
<1> HIDE DEF T
<1> QED  BY <1>1, FewerFollows DEF T

LEMMA DeleteFollows ==
  ASSUME NEW S \in Sane, NEW h \in Href, NEW F
  PROVE  Follows(S, DeleteCalendarObject(S, h), F)
<1> DEFINE T == DeleteCalendarObject(S, h)
<1>1. T \in Sane /\ T.next = S.next /\ T.rows \subseteq S.rows
  BY DeleteIs
<1> HIDE DEF T
<1> QED  BY <1>1, FewerFollows DEF T

(* Rows with different files weigh what the files do.                      *)
LEMMA FilesWeigh ==
  ASSUME NEW R \in SUBSET Row, IsFiniteSet(R), \A q, r \in R : q.file = r.file => q = r
  PROVE  Sum(Weight, R) = Sum(Size, {r.file : r \in R})
<1> DEFINE X == {s \in SUBSET R : Sum(Weight, s) = Sum(Size, {r.file : r \in s})}
<1>1. {} \in X
  <2>1. {r.file : r \in {}} = {}
    OBVIOUS
  <2>2. Sum(Weight, {}) = 0 /\ Sum(Size, {}) = 0
    BY SumEmpty
  <2> QED  BY <2>1, <2>2
<1>2. ASSUME NEW s \in SUBSET R, s # {}, s \ {Some(s)} \in X  PROVE s \in X
  <2> DEFINE x == Some(s)
             fs(q) == {r.file : r \in q}
  <2>1. x \in s /\ s \in SUBSET Row /\ IsFiniteSet(s)
    BY <1>2, SomeIs, FS_Subset
  <2>2. fs(s) \subseteq File /\ x.file \in fs(s)
    BY <2>1 DEF Row
  <2>3. fs(s) \ {x.file} = fs(s \ {x})
    BY <2>1
  <2>4. IsFiniteSet(fs(s)) /\ \A f \in fs(s) : Size[f] \in Nat
    BY <2>2, FileAssumption, SizeAssumption, FS_Subset
  <2>5. \A r \in s : Weight[r] \in Nat /\ Weight[r] = Size[r.file]
    BY <2>1, WeightIs
  <2> HIDE DEF x, fs
  <2>6. Sum(Weight, s) = Weight[x] + Sum(Weight, s \ {x})
    BY <2>1, <2>5, SumRemove
  <2>7. Sum(Size, fs(s)) = Size[x.file] + Sum(Size, fs(s) \ {x.file})
    BY <2>2, <2>4, SumRemove
  <2>8. Sum(Weight, s \ {x}) = Sum(Size, fs(s \ {x}))
    BY <1>2 DEF x, fs
  <2>9. Sum(Weight, s) = Sum(Size, fs(s))
    BY <2>1, <2>3, <2>5, <2>6, <2>7, <2>8
  <2> QED  BY <2>9 DEF fs
<1> HIDE DEF X
<1>3. R \in X
  BY <1>1, <1>2, FoldsReach
<1> QED  BY <1>3 DEF X

(* Rows for other files, of the sizes the limits allow, come to h.         *)
LEMMA RowsAdded ==
  ASSUME NEW S \in Sane, NEW T \in Sane, NEW h \in Href, NEW new \in SUBSET Row, IsFiniteSet(new),
         T.rows = S.rows \cup new, \A r \in new : r.href = h,
         NEW files \in SUBSET File, {r.file : r \in new} \subseteq files,
         \A q, r \in new : q.file = r.file => q = r,
         Cardinality(new) <= Cardinality(files),
         Fits(S, h, files), Limited(S)
  PROVE  Limited(T)
<1>1. IsFiniteSet(files) /\ \A f \in files : Size[f] \in Nat
  BY FileAssumption, SizeAssumption, FS_Subset
<1>2. /\ \A f \in files : Sized(f)
      /\ Cardinality(RowsAt(S, h)) + Cardinality(files) <= MaxFiles
      /\ Usage(S, h) + Bytes(files) <= MaxTotal
  BY DEF Fits, Sized
<1>3. \A r \in T.rows : Sized(r.file)
  BY <1>2 DEF Limited
<1>4. ASSUME NEW g \in Href  PROVE Cardinality(RowsAt(T, g)) <= MaxFiles /\ Usage(T, g) <= MaxTotal
  <2>1. CASE g # h
    <3>1. RowsAt(T, g) = RowsAt(S, g)
      BY <2>1 DEF RowsAt
    <3>2. Usage(T, g) = Usage(S, g)
      BY <3>1, UsageIs
    <3> QED  BY <3>1, <3>2 DEF Limited
  <2>2. CASE g = h
    <3> DEFINE R == RowsAt(S, h)
    <3>1. RowsAt(T, h) = R \cup new
      BY DEF RowsAt
    <3>2. IsFiniteSet(R) /\ R \in SUBSET Row /\ Usage(S, h) = Sum(Weight, R)
          /\ Usage(T, h) = Sum(Weight, RowsAt(T, h))
      BY SaneIs, UsageIs
    <3> HIDE DEF R
    <3>3. /\ IsFiniteSet(R \cup new) /\ Cardinality(R) \in Nat /\ Cardinality(new) \in Nat
          /\ Cardinality(R \cup new) <= Cardinality(R) + Cardinality(new)
          /\ Cardinality(R \cup new) \in Nat /\ Cardinality(files) \in Nat
      <4>1. IsFiniteSet(R \cup new) /\ Cardinality(R \cup new) = Cardinality(R) + Cardinality(new) - Cardinality(R \cap new)
        BY <3>2, FS_Union
      <4>2. IsFiniteSet(R \cap new)
        BY <3>2, FS_Intersection
      <4>3. Cardinality(R \cap new) \in Nat /\ Cardinality(R) \in Nat /\ Cardinality(new) \in Nat
            /\ Cardinality(R \cup new) \in Nat /\ Cardinality(files) \in Nat
        BY <1>1, <3>2, <4>1, <4>2, FS_CardinalityType
      <4> QED  BY <4>1, <4>3
    <3>4. /\ Sum(Weight, R \cup new) <= Sum(Weight, R) + Sum(Weight, new)
          /\ Sum(Weight, R) \in Nat /\ Sum(Weight, new) \in Nat /\ Sum(Weight, R \cup new) \in Nat
      <4>1. \A x \in R \cup new : Weight[x] \in Nat
        BY <3>2, WeightIs
      <4>2. Sum(Weight, R \cup new) <= Sum(Weight, R) + Sum(Weight, new)
        <5> DEFINE U == R \cup new
        <5>1. R \in SUBSET U /\ new \in SUBSET U /\ IsFiniteSet(U) /\ \A x \in U : Weight[x] \in Nat
          BY <3>3, <4>1
        <5> HIDE DEF U
        <5>2. Sum(Weight, R \cup new) <= Sum(Weight, R) + Sum(Weight, new)
          BY <5>1, SumUnion
        <5> QED  BY <5>2
      <4>3. Sum(Weight, R \cup new) \in Nat
        BY <3>3, <4>1, SumIs
      <4>4. Sum(Weight, R) \in Nat
        BY <3>2, <4>1, SumIs
      <4>5. Sum(Weight, new) \in Nat
        BY <4>1, SumIs
      <4> QED  BY <4>2, <4>3, <4>4, <4>5
    <3>5. Sum(Weight, new) = Sum(Size, {r.file : r \in new})
      BY FilesWeigh
    <3>6. Sum(Size, {r.file : r \in new}) <= Sum(Size, files) /\ Sum(Size, files) \in Nat
      BY <1>1, SumMonotone, SumIs
    <3>7. Bytes(files) = Sum(Size, files)
      BY BytesIs
    <3>8. Cardinality(RowsAt(T, h)) <= MaxFiles
      BY <1>2, <3>1, <3>3, BoundAssumption DEF R
    <3>9. Usage(T, h) <= MaxTotal
      <4>1. Sum(Weight, R) + Sum(Size, files) <= MaxTotal
        BY <1>2, <3>2, <3>7
      <4>2. Sum(Weight, R \cup new) <= MaxTotal
        BY <3>4, <3>5, <3>6, <4>1, BoundAssumption
      <4> QED  BY <3>1, <3>2, <4>2
    <3> QED  BY <2>2, <3>8, <3>9
  <2> QED  BY <2>1, <2>2
<1> QED  BY <1>3, <1>4 DEF Limited

LEMMA InsertFollows ==
  ASSUME NEW S \in Sane, NEW h \in Href, S.obj[h] # None, NEW files \in SUBSET File,
         Fits(S, h, files), NEW F \in SUBSET Row
  PROVE  LET T == InsertAttachments(S, h, files) IN
         /\ Follows(S, T, F)
         /\ S.rows \subseteq T.rows
         /\ \A g \in Href \ {h} : RowsAt(T, g) = RowsAt(S, g)
<1> DEFINE T == InsertAttachments(S, h, files)
           s == SetToSeq(files)
           f == [i \in DOMAIN s |-> [id |-> S.next + i, href |-> h, file |-> s[i]]]
           new == {f[i] : i \in DOMAIN s}
<1>1. T.rows = S.rows \cup new /\ T.next = S.next + Len(s) /\ T.obj = S.obj
  <2>1. S = [obj |-> S.obj, older |-> S.older, rows |-> S.rows, next |-> S.next]
    BY SaneIs
  <2>2. T = [S EXCEPT !.rows = S.rows \cup {[id |-> S.next + i, href |-> h, file |-> s[i]] : i \in DOMAIN s},
                      !.next = S.next + Len(s)]
    BY DEF InsertAttachments
  <2>3. new = {[id |-> S.next + i, href |-> h, file |-> s[i]] : i \in DOMAIN s}
    OBVIOUS
  <2> HIDE DEF T, s, f, new
  <2>4. T = [S EXCEPT !.rows = S.rows \cup new, !.next = S.next + Len(s)]
    BY <2>2, <2>3
  <2> QED  BY <2>1, <2>4
<1>2. T \in Sane /\ S.next \in Nat
  BY InsertIs, SaneIs
<1>3. /\ Len(s) \in Nat /\ Len(s) = Cardinality(files) /\ DOMAIN s = 1..Len(s)
      /\ \A i \in DOMAIN s : s[i] \in files
      /\ \A i, j \in DOMAIN s : s[i] = s[j] => i = j
  BY FilesInOrder
<1> HIDE DEF T, s
<1>4. \A i \in DOMAIN s : f[i].id = S.next + i /\ f[i].href = h /\ f[i].file = s[i] /\ f[i] \in Row
  BY <1>2, <1>3 DEF Row, Id
<1>5. f \in [DOMAIN s -> new]
  OBVIOUS
<1>6. DOMAIN f = DOMAIN s
  OBVIOUS
<1> HIDE DEF f
<1>7. IsFiniteSet(new) /\ Cardinality(new) <= Cardinality(files)
  <2>1. IsFiniteSet(DOMAIN s) /\ Cardinality(DOMAIN s) = Cardinality(files)
    BY <1>3, IntervalFinite
  <2>2. IsFiniteSet({f[i] : i \in DOMAIN s}) /\ Cardinality({f[i] : i \in DOMAIN s}) <= Cardinality(DOMAIN s)
    BY <1>5, <2>1, ImageFinite
  <2> QED  BY <2>1, <2>2
<1>8. /\ new \in SUBSET Row /\ \A r \in new : r.href = h /\ r.id \in (S.next + 1)..T.next
      /\ {r.file : r \in new} \subseteq files
  BY <1>1, <1>2, <1>3, <1>4
<1>9. /\ \A q, r \in new : q.file = r.file => q = r
      /\ \A q, r \in new : q.id = r.id => q = r
  BY <1>2, <1>3, <1>4
<1> HIDE DEF new
<1>10. Limited(S) => Limited(T)
  BY <1>1, <1>2, <1>7, <1>8, <1>9, RowsAdded
<1>11. Follows(S, T, F)
  BY <1>1, <1>2, <1>3, <1>8, <1>9, <1>10 DEF Follows
<1>12. \A g \in Href \ {h} : RowsAt(T, g) = RowsAt(S, g)
  BY <1>1, <1>8 DEF RowsAt
<1> QED  BY <1>1, <1>11, <1>12 DEF T

LEMMA FollowsItself ==
  ASSUME NEW S \in Sane, NEW F
  PROVE  Follows(S, S, F)
<1>1. S.next \in Nat
  BY SaneIs
<1> QED  BY <1>1 DEF Follows

(* A PUT, whether it succeeds or has to give up.                           *)
LEMMA PutFollows ==
  ASSUME NEW S \in Sane, NEW h \in Href, NEW uid \in Uid, NEW ics \in Sent, NEW F \in SUBSET Row
  PROVE  Follows(S, PutICS(S, h, uid, ics).st, F)
<1> DEFINE p == PutICS(S, h, uid, ics)
           split == SplitAttachments(ics)
           S0 == UpsertCalendarObject(S, h, uid, split.rest)
           a == ApplyICSAttachments(S0, h, split)
           rows1 == {r \in S0.rows : r.href # h \/ r.id \in split.managed}
           S1 == [S0 EXCEPT !.rows = rows1]
           S2 == InsertAttachments(S1, h, split.inlines)
           new == WriteAttachments(split, RowsAt(S2, h))
           S3 == UpsertCalendarObject(S2, h, uid, new)
           fits == Fits(S1, h, split.inlines)
<1>1. split.rest \in Body /\ split.inlines \in SUBSET File
  BY SplitIs
<1>2. p.st = IF fits THEN S3 ELSE S1
  <2>1. p.st = IF a.ok THEN UpsertCalendarObject(a.st, h, uid, a.ics) ELSE a.st
    BY DEF PutICS
  <2>2. a = IF fits THEN [ok |-> TRUE, st |-> S2, ics |-> new] ELSE [ok |-> FALSE, st |-> S1, ics |-> split.rest]
    BY DEF ApplyICSAttachments
  <2> HIDE DEF p, a, fits, S1, S2, new
  <2> QED  BY <2>1, <2>2
<1>3. \A rows \in SUBSET Row : WriteAttachments(split, rows) \in Body
  BY WriteIs
<1>4. S1 = [S0 EXCEPT !.rows = {r \in @ : r.href # h \/ r.id \in split.managed}]
  OBVIOUS
<1> HIDE DEF split, fits, p
<1>5. S0 \in Sane /\ S0.obj[h] # None
  <2>1. S0 \in Sane
    BY <1>1, UpsertIs
  <2>2. S0.obj[h] # None
    BY <1>1, UpsertIs
  <2> QED  BY <2>1, <2>2
<1>6. Follows(S, S0, F)
  BY <1>1, UpsertFollows
<1> HIDE DEF S0
<1>7. S1 \in Sane /\ S1.obj = S0.obj /\ S1.next = S0.next
  BY <1>4, <1>5, ManagedOnlyIs
<1>8. S1.rows \subseteq S0.rows
  <2>1. S0 = [obj |-> S0.obj, older |-> S0.older, rows |-> S0.rows, next |-> S0.next]
    BY <1>5, SaneIs
  <2>2. S1.rows = rows1
    BY <2>1
  <2> QED  BY <2>2
<1> HIDE DEF S1
<1>9. Follows(S0, S1, F)
  BY <1>5, <1>7, <1>8, FewerFollows
<1>10. Follows(S, S1, F)
  BY <1>5, <1>6, <1>7, <1>9, FollowsChain
<1>11. CASE ~fits
  BY <1>2, <1>10, <1>11 DEF p
<1>12. CASE fits
  <2>1. S2 \in Sane /\ S2.obj = S1.obj
    BY <1>1, <1>5, <1>7, InsertIs
  <2>2. Follows(S1, S2, F)
    BY <1>1, <1>5, <1>7, <1>12, InsertFollows DEF fits
  <2> HIDE DEF S2
  <2>3. RowsAt(S2, h) \in SUBSET Row
    BY <2>1, SaneIs
  <2>4. new \in Body
    BY <1>3, <2>3
  <2> HIDE DEF new
  <2>5. S3 \in Sane
    BY <2>1, <2>4, UpsertIs
  <2>6. Follows(S2, S3, F)
    BY <2>1, <2>4, UpsertFollows
  <2> HIDE DEF S3
  <2>7. Follows(S, S2, F)
    BY <1>7, <1>10, <2>1, <2>2, FollowsChain
  <2>8. Follows(S, S3, F)
    BY <2>1, <2>5, <2>6, <2>7, FollowsChain
  <2> QED  BY <1>2, <1>12, <2>8 DEF p
<1> QED  BY <1>11, <1>12

LEMMA RewriteFollows ==
  ASSUME NEW S \in Sane, NEW h \in Href, S.obj[h] # None, NEW F
  PROVE  Follows(S, UpsertCalendarObject(S, h, S.obj[h].uid,
                      RewriteManagedAttachments(S, h, S.obj[h].ics)), F)
<1> DEFINE ics == S.obj[h].ics
           new == RewriteManagedAttachments(S, h, ics)
<1>1. S.obj[h].uid \in Uid /\ ics \in Sent
  BY SaneIs DEF Object, Body
<1>2. RowsAt(S, h) \in SUBSET Row
  BY SaneIs
<1>3. new = WriteAttachments(SplitAttachments(ics), RowsAt(S, h))
  BY DEF RewriteManagedAttachments
<1> HIDE DEF new, ics
<1>4. new \in Body
  BY <1>1, <1>2, <1>3, WriteIs
<1>5. Follows(S, UpsertCalendarObject(S, h, S.obj[h].uid, new), F)
  BY <1>1, <1>4, UpsertFollows
<1> QED  BY <1>5 DEF new, ics

(* Each request.                                                           *)
LEMMA RequestFollows ==
  ASSUME FileInv, FileRequest
  PROVE  Follows(db, db', {})
<1>1. db \in Sane /\ {} \in SUBSET Row
  BY DEF FileInv
<1>2. Follows(db, db, {})
  BY <1>1, FollowsItself
<1>3. ASSUME NEW uid \in Uid, NEW ics \in Bodies(uid), NEW h \in Href, PutICSWithAttachments(h, uid, ics)
      PROVE  Follows(db, db', {})
  <2>1. ics \in Sent
    BY BodiesAreSent
  <2>2. db' = db \/ db' = PutICS(db, h, uid, ics).st
    BY <1>3 DEF PutICSWithAttachments, Store
  <2>3. Follows(db, PutICS(db, h, uid, ics).st, {})
    BY <1>1, <2>1, PutFollows
  <2> QED  BY <1>2, <2>2, <2>3
<1>4. ASSUME NEW uid \in Uid, NEW ics \in Bodies(uid), NEW h, importCalendar(ics, h)
      PROVE  Follows(db, db', {})
  <2>1. ics \in Sent /\ ics.uid \in Uid
    BY BodiesAreSent, PartsOf
  <2>2. db' = PutICS(db, h, ics.uid, ics).st
    BY <1>4 DEF importCalendar, Store
  <2>3. h \in Href
    BY <1>4, <2>1, FoundIs DEF importCalendar
  <2> QED  BY <1>1, <2>1, <2>2, <2>3, PutFollows
<1>6. ASSUME NEW h \in Href, deleteEvent(h)
      PROVE  Follows(db, db', {})
  <2>1. db' = DeleteCalendarObject(db, h)
    BY <1>6 DEF deleteEvent, Store
  <2>2. Follows(db, DeleteCalendarObject(db, h), {})
    BY <1>1, DeleteFollows
  <2> QED  BY <2>1, <2>2
<1>7. ASSUME NEW h \in Href, NEW files \in SUBSET File, uploadItemAttachments(h, files)
      PROVE  Follows(db, db', {})
  <2> DEFINE S == InsertAttachments(db, h, files)
             T == UpsertCalendarObject(S, h, S.obj[h].uid, RewriteManagedAttachments(S, h, S.obj[h].ics))
  <2>1. db.obj[h] # None /\ (db' = db \/ (Fits(db, h, files) /\ db' = T))
    BY <1>7 DEF uploadItemAttachments, Store
  <2>2. S \in Sane /\ S.obj = db.obj
    BY <1>1, <2>1, InsertIs
  <2>3. ASSUME Fits(db, h, files)  PROVE Follows(db, S, {})
    BY <1>1, <2>1, <2>3, InsertFollows
  <2>4. S.obj[h] # None
    BY <2>1, <2>2
  <2> HIDE DEF S
  <2>5. T \in Sane
    BY <2>2, <2>4, RewrittenIs
  <2>6. Follows(S, T, {})
    BY <2>2, <2>4, RewriteFollows
  <2> HIDE DEF T
  <2>7. Fits(db, h, files) => Follows(db, T, {})
    BY <1>1, <2>2, <2>3, <2>5, <2>6, FollowsChain
  <2> QED  BY <1>2, <2>1, <2>7
<1>8. ASSUME NEW r \in db.rows, deleteItemAttachment(r)
      PROVE  Follows(db, db', {})
  <2> DEFINE h == r.href
             S == [db EXCEPT !.rows = @ \ {r}]
             T == UpsertCalendarObject(S, h, S.obj[h].uid, RewriteManagedAttachments(S, h, S.obj[h].ics))
             rows == db.rows \ {r}
  <2>1. db' = T
    BY <1>8 DEF deleteItemAttachment, Store
  <2>2. h \in Href /\ db.obj[h] # None /\ db = [obj |-> db.obj, older |-> db.older, rows |-> db.rows, next |-> db.next]
    BY <1>1, SaneIs
  <2>3. S = [obj |-> db.obj, older |-> db.older, rows |-> rows, next |-> db.next]
    BY <2>2
  <2>4. rows \in SUBSET Row /\ db.next \in Nat /\ IsFiniteSet(rows) /\ rows \subseteq db.rows
        /\ \A x \in Row : x.href # h => (x \in rows <=> x \in db.rows)
    BY <1>1, SaneIs, FS_Subset
  <2> HIDE DEF rows, S, h
  <2>5. [obj |-> db.obj, older |-> db.older, rows |-> rows, next |-> db.next] \in Sane
    BY <1>1, <2>2, <2>4, OthersStay
  <2>6. S \in Sane /\ S.obj = db.obj /\ S.rows = rows /\ S.next = db.next /\ S.obj[h] # None
    BY <2>2, <2>3, <2>5
  <2>7. Follows(db, S, {})
    BY <1>1, <2>4, <2>6, FewerFollows
  <2>8. T \in Sane
    BY <2>2, <2>6, RewrittenIs
  <2>9. Follows(S, T, {})
    BY <2>2, <2>6, RewriteFollows
  <2> HIDE DEF T
  <2> QED  BY <1>1, <2>1, <2>6, <2>7, <2>8, <2>9, FollowsChain
<1> QED  BY <1>3, <1>4, <1>6, <1>7, <1>8 DEF FileRequest

LEMMA StepFollows ==
  ASSUME FileInv, FileNext
  PROVE  Follows(db, db', {})
<1>1. db \in Sane
  BY DEF FileInv
<1>2. CASE FileRequest
  BY <1>2, RequestFollows
<1>3. ASSUME NEW w \in Handler, DisplaceOther(w)
      PROVE  Follows(db, db', {})
  <2> DEFINE S == Displace(db, hd[w].href, hd[w].uid)
  <2>1. hd[w].pc = "save" /\ db' = S
    BY <1>3 DEF DisplaceOther, Store
  <2>2. hd[w].href \in Href
    BY <2>1 DEF FileInv, LocalsOK
  <2>3. S \in Sane /\ S.next = db.next /\ S.rows \subseteq db.rows
    BY <1>1, <2>2, DisplaceIs
  <2> HIDE DEF S
  <2> QED  BY <1>1, <2>1, <2>3, FewerFollows
<1>4. ASSUME NEW w \in Handler, Save(w)
      PROVE  Follows(db, db', {})
  <2> DEFINE S == InsertObject(db, hd[w].href, hd[w].uid, hd[w].ics)
  <2>1. hd[w].pc = "insert" /\ db' = S
    BY <1>4 DEF Save, Store
  <2>2. hd[w].href \in Href /\ hd[w].uid \in Uid /\ hd[w].ics \in Body
    BY <2>1 DEF FileInv, LocalsOK
  <2>3. S \in Sane /\ S.next = db.next /\ S.rows = db.rows
    BY <1>1, <2>2, InsertObjectIs
  <2> HIDE DEF S
  <2> QED  BY <1>1, <2>1, <2>3, FewerFollows
<1>5. ASSUME db' = db  PROVE Follows(db, db', {})
  BY <1>1, <1>5, FollowsItself
<1>6. ASSUME NEW w \in Handler,
             \/ \E h \in Href :
                  \/ updateEvent(w, h)
                  \/ \E uid \in Uid : PutPlain(w, h, uid, [uid |-> uid, parts |-> <<{}>>])
             \/ \E uid \in Uid : createEvent(w, uid)
             \/ Abandon(w)
      PROVE  db' = db
  BY <1>6 DEF updateEvent, createEvent, PutPlain, Abandon
<1> QED  BY <1>2, <1>3, <1>4, <1>5, <1>6 DEF FileNext

LEMMA FileNextKeepsFileInv ==
  ASSUME FileInv, FileNext
  PROVE  FileInv'
<1>1. CASE FileRequest
  BY <1>1, PutKeepsFileInv, ImportKeepsFileInv, DeleteKeepsFileInv,
     UploadKeepsFileInv, DeleteFileKeepsFileInv DEF FileRequest
<1>2. CASE \E w \in Handler :
             \/ \E h \in Href :
                  \/ updateEvent(w, h)
                  \/ \E uid \in Uid : PutPlain(w, h, uid, [uid |-> uid, parts |-> <<{}>>])
             \/ \E uid \in Uid : createEvent(w, uid)
             \/ DisplaceOther(w) \/ Save(w) \/ Abandon(w)
  BY <1>2, StartKeepsFileInv, DisplaceKeepsFileInv, SaveKeepsFileInv, AbandonKeepsFileInv
<1> QED  BY <1>1, <1>2 DEF FileNext

LEMMA InitFileInv ==
  ASSUME InitFiles
  PROVE  FileInv
<1>1. db = [obj |-> [h \in Href |-> None], older |-> {}, rows |-> {}, next |-> 0]
  BY DEF InitFiles
<1>2. db \in Sane /\ db.next <= MaxId /\ \A h \in Href : InStepAt(db, h)
  BY <1>1, BoundAssumption, FS_EmptySet DEF Sane, InStepAt
<1>3. LocalsOK
  BY IdleIs DEF InitFiles, LocalsOK
<1>4. requests \in 0..MaxRequests /\ outOfStep \subseteq Href
  BY BoundAssumption DEF InitFiles
<1> QED  BY <1>2, <1>3, <1>4 DEF FileInv

-----------------------------------------------------------------------------
(* The invariant of exports and restores.  A row keeps its name and its    *)
(* file, whatever becomes of it: what the tables, the export in progress   *)
(* and the archive know under an id is the same row.  As long as nobody    *)
(* has written, the export has the objects it is done with, and their      *)
(* rows but for those it has yet to read.                                  *)

Listed(obj) == {h \in Href : obj[h] # None}

Snapshot(obj) ==
  /\ obj \in [Href -> Object \cup {None}]
  /\ \A h \in Href : obj[h] # None => obj[h].ics \in Body

(* The items, and the bodies by segment, of the objects in done.           *)
Kept(obj, done, items, ics) ==
  /\ items = {[href |-> h, uid |-> obj[h].uid] : h \in done}
  /\ ics \in [Segment -> Body \cup {None}]
  /\ \A h \in done : \E g \in done :
       SegmentOf[g] = SegmentOf[h] /\ ics[SegmentOf[h]] = obj[g].ics

Known(S, b, a) ==
  S.rows \cup (IF b = NoBuild THEN {} ELSE b.files) \cup (IF a = None THEN {} ELSE a.files)

IdsOK(S, K) ==
  /\ \A q, r \in K : q.id = r.id => q = r
  /\ \A r \in K : r.id <= S.next

Done(b) == Listed(b.obj) \ b.todo

(* The fields of an export.                                                *)
Export(pc, kind, of, was, acc, todo, obj, items, href, pending, ics, files) ==
  [pc |-> pc, kind |-> kind, of |-> of, was |-> was, account |-> acc, todo |-> todo,
   obj |-> obj, items |-> items, href |-> href, pending |-> pending, ics |-> ics,
   files |-> files]

IsExport(b) ==
  b = Export(b.pc, b.kind, b.of, b.was, b.account, b.todo, b.obj, b.items, b.href, b.pending,
             b.ics, b.files)

BuildTyped(b) ==
  /\ IsExport(b)
  /\ b.pc \in {"objects", "tokens", "shares", "written"}
  /\ b.pc # "objects" => b.todo = {} /\ b.pending = {}
  /\ b.kind \in Kind /\ b.account \in Account
  /\ Snapshot(b.obj) /\ b.todo \subseteq Listed(b.obj)
  /\ Kept(b.obj, Done(b), b.items, b.ics) /\ IsFiniteSet(b.items)
  /\ b.files \subseteq Row /\ IsFiniteSet(b.files)

PendingOK(b, S, K) ==
  /\ \A i \in b.pending : i \in Nat /\ i <= S.next
  /\ \A r \in K : r.id \in b.pending => r.href = b.href
  /\ b.pending # {} => b.href \in Done(b)

BuildCurrent(b, S) ==
  b.of # None =>
    /\ b.of = S /\ b.obj = S.obj
    /\ b.files = {r \in S.rows : r.href \in Done(b) /\ r.id \notin b.pending}

BuildOK(b, S, K) ==
  b = NoBuild \/ (BuildTyped(b) /\ PendingOK(b, S, K) /\ BuildCurrent(b, S))

(* What can be restored: an item for a name, with a body.                  *)
Restorable(arch) ==
  /\ arch.items \subseteq [href : Href, uid : Uid] /\ IsFiniteSet(arch.items)
  /\ \A i, j \in arch.items : i.href = j.href => i = j
  /\ \A i \in arch.items : Open(arch, i) \in Body
  /\ arch.files \subseteq Row /\ IsFiniteSet(arch.files)

(* The archive is what S was.                                              *)
Depicts(arch, S) ==
  /\ S \in Sane /\ Limited(S)
  /\ Kept(S.obj, Listed(S.obj), arch.items, arch.ics)
  /\ arch.files = S.rows

ArchiveOK(a) ==
  a # None =>
    /\ a.kind \in Kind /\ a.account \in Account
    /\ a.was # None => a.account = a.was
    /\ Restorable(a)
    /\ a.of # None => Depicts(a, a.of)

(* As long as nobody has written the account, the export has read it as it *)
(* is.                                                                     *)
AccountRead ==
  build # NoBuild /\ build.was # None => build.was = account /\ build.account = account

Inv ==
  /\ FileInv
  /\ Limited(db)
  /\ account \in Account /\ others \subseteq Email /\ restored \in BOOLEAN
  /\ IdsOK(db, Known(db, build, archive))
  /\ BuildOK(build, db, Known(db, build, archive)) /\ AccountRead
  /\ ArchiveOK(archive)
  /\ RestoreFaithful

-----------------------------------------------------------------------------
(* Restoring an object.                                                    *)

LEMMA BytesOfOne ==
  ASSUME NEW f \in File
  PROVE  Bytes({f}) = Size[f] /\ Size[f] \in Nat /\ IsFiniteSet({f}) /\ Cardinality({f}) = 1
<1>1. IsFiniteSet({f}) /\ Cardinality({f}) = 1
  BY FS_Singleton
<1>2. \A x \in {f} : Size[x] \in Nat
  BY SizeAssumption
<1>3. Sum(Size, {f}) = Size[f] + Sum(Size, {f} \ {f})
  BY <1>1, <1>2, SumRemove
<1>4. {f} \ {f} = {}
  OBVIOUS
<1>5. Sum(Size, {}) = 0
  BY SumEmpty
<1>6. Sum(Size, {f}) = Size[f]
  BY <1>2, <1>3, <1>4, <1>5
<1> QED  BY <1>1, <1>2, <1>6, BytesIs

(* T has what S has, and what may have come to it belongs to h.            *)
Grows(S, T, h, F) ==
  /\ T \in Sane /\ T.obj = S.obj
  /\ S.rows \subseteq T.rows
  /\ \A g \in Href \ {h} : RowsAt(T, g) = RowsAt(S, g)
  /\ Follows(S, T, F)

LEMMA GrowsChain ==
  ASSUME NEW S \in Sane, NEW T, NEW U, NEW h, NEW F \in SUBSET Row, Grows(S, T, h, F), Grows(T, U, h, F)
  PROVE  Grows(S, U, h, F)
<1>1. T \in Sane /\ U \in Sane /\ Follows(S, T, F) /\ Follows(T, U, F)
  BY DEF Grows
<1>2. Follows(S, U, F)
  BY <1>1, FollowsChain
<1>3. /\ U \in Sane /\ U.obj = S.obj /\ S.rows \subseteq U.rows
      /\ \A g \in Href \ {h} : RowsAt(U, g) = RowsAt(S, g)
  BY DEF Grows
<1> QED  BY <1>2, <1>3 DEF Grows

LEMMA GrowsItself ==
  ASSUME NEW S \in Sane, NEW h, NEW F
  PROVE  Grows(S, S, h, F)
BY FollowsItself DEF Grows

(* A file of the archive.                                                  *)
LEMMA RestoreAttachmentIs ==
  ASSUME NEW S \in Sane, NEW F \in SUBSET Row, NEW f \in F, S.obj[f.href] # None
  PROVE  /\ Grows(S, RestoreAttachment(S, f), f.href, F)
         /\ Fits(S, f.href, {f.file}) => RestoreAttachment(S, f).rows = S.rows \cup {f}
<1> DEFINE T == RestoreAttachment(S, f)
           h == f.href
           rows == S.rows \cup {f}
<1>1. f \in Row /\ h \in Href /\ f.file \in File
  BY DEF Row
<1>2. CASE ~Fits(S, h, {f.file})
  <2>1. T = S
    BY <1>2 DEF RestoreAttachment
  <2> QED  BY <1>2, <2>1, GrowsItself
<1>3. CASE Fits(S, h, {f.file})
  <2>1. T = [S EXCEPT !.rows = rows]
    BY <1>3 DEF RestoreAttachment
  <2>2. S = [obj |-> S.obj, older |-> S.older, rows |-> S.rows, next |-> S.next] /\ S.next \in Nat /\ IsFiniteSet(S.rows)
    BY SaneIs
  <2>3. T = [obj |-> S.obj, older |-> S.older, rows |-> rows, next |-> S.next]
    BY <2>1, <2>2
  <2>4. rows \in SUBSET Row /\ IsFiniteSet(rows) /\ \A r \in Row : r.href # h => (r \in rows <=> r \in S.rows)
    BY <1>1, <2>2, SaneIs, FS_AddElement
  <2>5. T.rows = rows /\ T.obj = S.obj /\ T.next = S.next
    BY <2>3
  <2> HIDE DEF T
  <2>6. T \in Sane
    <3> HIDE DEF rows
    <3> QED  BY <1>1, <2>2, <2>3, <2>4, OthersStay DEF h
  <2> DEFINE new == {f}
             files == {f.file}
  <2>7. new \in SUBSET Row /\ IsFiniteSet(new) /\ files \in SUBSET File
        /\ Cardinality(new) <= Cardinality(files)
    <3>1. IsFiniteSet(new) /\ Cardinality(new) = 1 /\ Cardinality(files) = 1
      BY FS_Singleton
    <3> QED  BY <1>1, <3>1
  <2>8. T.rows = S.rows \cup new /\ (\A r \in new : r.href = h) /\ {r.file : r \in new} \subseteq files
        /\ (\A q, r \in new : q.file = r.file => q = r) /\ Fits(S, h, files)
    BY <1>3, <2>5
  <2>9. Limited(S) => Limited(T)
    <3> HIDE DEF new, files
    <3> QED  BY <1>1, <2>6, <2>7, <2>8, RowsAdded
  <2>10. Follows(S, T, F)
    BY <2>2, <2>5, <2>9 DEF Follows
  <2>11. \A g \in Href \ {h} : RowsAt(T, g) = RowsAt(S, g)
    BY <2>5 DEF RowsAt
  <2>12. Grows(S, T, h, F)
    BY <2>5, <2>6, <2>10, <2>11 DEF Grows
  <2> QED  BY <2>5, <2>12 DEF T
<1> QED  BY <1>2, <1>3

IsRestoring(g, base, R) ==
  g = [s \in SUBSET R |-> IF s = {} THEN base
                          ELSE RestoreAttachment(g[s \ {Some(s)}], Some(s))]

LEMMA RestoringFolds ==
  ASSUME NEW base, NEW R
  PROVE  FoldSet(LAMBDA f, T : RestoreAttachment(T, f), base, R)
           = (CHOOSE g : IsRestoring(g, base, R))[R]
BY DEF FoldSet, MapThenFoldSet, IsRestoring, Some

LEMMA RestoringExists ==
  ASSUME NEW S \in Sane, NEW F \in SUBSET Row, NEW R \in SUBSET F, IsFiniteSet(R),
         \A f \in R : S.obj[f.href] # None
  PROVE  \E g : IsRestoring(g, S, R)
<1> DEFINE V == {T \in Sane : T.obj = S.obj}
           G == [p \in R \X V |-> RestoreAttachment(p[2], p[1])]
<1>1. ASSUME NEW x \in R, NEW T \in V  PROVE RestoreAttachment(T, x) \in V
  <2>1. T \in Sane /\ x \in F /\ T.obj[x.href] # None
    OBVIOUS
  <2>2. Grows(T, RestoreAttachment(T, x), x.href, F)
    BY <2>1, RestoreAttachmentIs
  <2> QED  BY <2>2 DEF Grows
<1> HIDE DEF V
<1>2. G \in [R \X V -> V] /\ \A x \in R, T \in V : G[<<x, T>>] = RestoreAttachment(T, x)
  BY <1>1
<1>3. S \in V
  BY DEF V
<1> HIDE DEF G
<1>4. PICK g \in [SUBSET R -> V] : Folds(g, G, S, R)
  BY <1>2, <1>3, FoldExists
<1>5. \A s \in SUBSET R : s # {} => Some(s) \in R /\ g[s \ {Some(s)}] \in V
  BY SomeIs
<1>6. \A s \in SUBSET R : g[s] = IF s = {} THEN S ELSE RestoreAttachment(g[s \ {Some(s)}], Some(s))
  BY <1>2, <1>4, <1>5 DEF Folds
<1>7. g = [s \in SUBSET R |-> IF s = {} THEN S ELSE RestoreAttachment(g[s \ {Some(s)}], Some(s))]
  BY <1>6
<1> QED  BY <1>7 DEF IsRestoring

(* All files of an object; they all come back when the object had none,    *)
(* and they are within the limits together.                                *)
LEMMA FilesRestored ==
  ASSUME NEW S \in Sane, NEW h \in Href, S.obj[h] # None, NEW F \in SUBSET Row,
         NEW R \in SUBSET F, IsFiniteSet(R), \A f \in R : f.href = h
  PROVE  LET T == FoldSet(LAMBDA f, T : RestoreAttachment(T, f), S, R) IN
         /\ Grows(S, T, h, F)
         /\ /\ RowsAt(S, h) = {}
            /\ Cardinality(R) <= MaxFiles /\ Sum(Weight, R) <= MaxTotal
            /\ \A f \in R : Sized(f.file)
            => R \subseteq T.rows
<1> DEFINE T == FoldSet(LAMBDA f, T : RestoreAttachment(T, f), S, R)
           k == CHOOSE g : IsRestoring(g, S, R)
           easy == /\ RowsAt(S, h) = {}
                   /\ Cardinality(R) <= MaxFiles /\ Sum(Weight, R) <= MaxTotal
                   /\ \A f \in R : Sized(f.file)
           X == {s \in SUBSET R : Grows(S, k[s], h, F) /\ (easy => k[s].rows = S.rows \cup s)}
<1>1. T = k[R]
  BY RestoringFolds
<1>2. IsRestoring(k, S, R)
  BY RestoringExists
<1> HIDE DEF T, k
<1>3. k[{}] = S /\ \A s \in SUBSET R : s # {} => k[s] = RestoreAttachment(k[s \ {Some(s)}], Some(s))
  BY <1>2 DEF IsRestoring
<1>4. {} \in X
  BY <1>3, GrowsItself
<1>5. ASSUME NEW s \in SUBSET R, s # {}, s \ {Some(s)} \in X  PROVE s \in X
  <2> DEFINE x == Some(s)
             U == k[s \ {x}]
  <2>1. x \in s /\ x \in R /\ x \in F /\ x.href = h /\ x.file \in File
    BY <1>5, SomeIs DEF Row
  <2>2. Grows(S, U, h, F) /\ (easy => U.rows = S.rows \cup (s \ {x}))
    BY <1>5
  <2>3. k[s] = RestoreAttachment(U, x)
    BY <1>3, <1>5
  <2> HIDE DEF x, U, X, easy
  <2>4. U \in Sane /\ U.obj[x.href] # None
    BY <2>1, <2>2 DEF Grows
  <2>5. /\ Grows(U, k[s], h, F)
        /\ Fits(U, h, {x.file}) => k[s].rows = U.rows \cup {x}
    BY <2>1, <2>3, <2>4, RestoreAttachmentIs
  <2>6. Grows(S, k[s], h, F)
    BY <2>2, <2>5, GrowsChain
  <2>7. ASSUME easy  PROVE Fits(U, h, {x.file})
    <3> DEFINE r == s \ {x}
    <3>1. RowsAt(U, h) = r
      <4>1. U.rows = S.rows \cup r /\ RowsAt(S, h) = {} /\ \A q \in r : q.href = h
        BY <2>2, <2>7 DEF easy
      <4> HIDE DEF r
      <4> QED  BY <4>1 DEF RowsAt
    <3>2. IsFiniteSet(s) /\ s \in SUBSET Row /\ Cardinality(s) \in Nat /\ Cardinality(s) <= Cardinality(R)
          /\ Cardinality(R) \in Nat
      BY FS_Subset, FS_CardinalityType
    <3>3. Cardinality(r) = Cardinality(s) - 1
      <4>1. Cardinality(s \ {x}) = IF x \in s THEN Cardinality(s) - 1 ELSE Cardinality(s)
        BY <3>2, FS_RemoveElement
      <4> QED  BY <2>1, <4>1
    <3>4. \A q \in R : Weight[q] = Size[q.file] /\ Weight[q] \in Nat
      BY WeightIs
    <3>5. Sum(Weight, s) = Weight[x] + Sum(Weight, r)
      <4>1. \A q \in s : Weight[q] \in Nat
        BY <3>4
      <4> QED  BY <2>1, <3>2, <4>1, SumRemove
    <3>6. Sum(Weight, s) <= Sum(Weight, R) /\ Sum(Weight, R) \in Nat
      BY <3>4, SumMonotone, SumIs
    <3>7. Sum(Weight, r) \in Nat /\ Sum(Weight, s) \in Nat
      <4>1. IsFiniteSet(r) /\ (\A q \in r : Weight[q] \in Nat) /\ (\A q \in s : Weight[q] \in Nat)
        BY <3>2, <3>4, FS_Subset
      <4> QED  BY <3>2, <4>1, SumIs
    <3>8. Usage(U, h) = Sum(Weight, r)
      BY <2>4, <3>1, UsageIs
    <3>9. Bytes({x.file}) = Size[x.file] /\ Cardinality({x.file}) = 1 /\ Size[x.file] = Weight[x]
          /\ Weight[x] \in Nat
      BY <2>1, <3>4, BytesOfOne
    <3>10. Cardinality(RowsAt(U, h)) + Cardinality({x.file}) <= MaxFiles
      <4>1. Cardinality(R) <= MaxFiles
        BY <2>7 DEF easy
      <4> QED  BY <3>1, <3>2, <3>3, <3>9, <4>1, BoundAssumption
    <3>11. Usage(U, h) + Bytes({x.file}) <= MaxTotal
      <4>1. Sum(Weight, R) <= MaxTotal
        BY <2>7 DEF easy
      <4> HIDE DEF r
      <4> QED  BY <3>5, <3>6, <3>7, <3>8, <3>9, <4>1, BoundAssumption
    <3>12. Sized(x.file)
      BY <2>1, <2>7 DEF easy
    <3> QED  BY <3>10, <3>11, <3>12 DEF Fits, Sized
  <2>8. easy => k[s].rows = S.rows \cup s
    <3> SUFFICES ASSUME easy  PROVE k[s].rows = S.rows \cup s
      OBVIOUS
    <3>1. k[s].rows = (S.rows \cup (s \ {x})) \cup {x}
      BY <2>2, <2>5, <2>7
    <3> QED  BY <2>1, <3>1
  <2> QED  BY <2>6, <2>8 DEF X
<1> HIDE DEF X, easy
<1>6. R \in X
  BY <1>4, <1>5, FoldsReach
<1>7. Grows(S, T, h, F) /\ (easy => T.rows = S.rows \cup R)
  BY <1>1, <1>6 DEF X
<1> QED  BY <1>7 DEF T, easy

(* The files that were still in the body.                                  *)
Taken(S, h, f) == IF Fits(S, h, {f}) THEN InsertAttachments(S, h, {f}) ELSE S

LEMMA TakenIs ==
  ASSUME NEW S \in Sane, NEW h \in Href, S.obj[h] # None, NEW F \in SUBSET Row, NEW f \in File
  PROVE  Grows(S, Taken(S, h, f), h, F)
<1> DEFINE T == InsertAttachments(S, h, {f})
<1>1. CASE ~Fits(S, h, {f})
  BY <1>1, GrowsItself DEF Taken
<1>2. CASE Fits(S, h, {f})
  <2>1. {f} \in SUBSET File
    OBVIOUS
  <2>2. T \in Sane /\ T.obj = S.obj
    BY <2>1, InsertIs
  <2>3. Follows(S, T, F) /\ S.rows \subseteq T.rows /\ \A g \in Href \ {h} : RowsAt(T, g) = RowsAt(S, g)
    BY <1>2, <2>1, InsertFollows
  <2> HIDE DEF T
  <2>4. Grows(S, T, h, F)
    BY <2>2, <2>3 DEF Grows
  <2> QED  BY <1>2, <2>4 DEF Taken, T
<1> QED  BY <1>1, <1>2

IsTaking(g, base, h, R) ==
  g = [s \in SUBSET R |-> IF s = {} THEN base ELSE Taken(g[s \ {Some(s)}], h, Some(s))]

TakenAll(base, h, R) ==
  FoldSet(LAMBDA f, T : IF Fits(T, h, {f}) THEN InsertAttachments(T, h, {f}) ELSE T, base, R)

LEMMA TakingFolds ==
  ASSUME NEW base, NEW h, NEW R
  PROVE  TakenAll(base, h, R) = (CHOOSE g : IsTaking(g, base, h, R))[R]
BY DEF TakenAll, FoldSet, MapThenFoldSet, IsTaking, Taken, Some

LEMMA TakingExists ==
  ASSUME NEW S \in Sane, NEW h \in Href, S.obj[h] # None, NEW R \in SUBSET File
  PROVE  \E g : IsTaking(g, S, h, R)
<1> DEFINE V == {T \in Sane : T.obj = S.obj}
           G == [p \in R \X V |-> Taken(p[2], h, p[1])]
<1>1. ASSUME NEW x \in R, NEW T \in V  PROVE Taken(T, h, x) \in V
  <2>1. T \in Sane /\ x \in File /\ T.obj[h] # None /\ {} \in SUBSET Row
    OBVIOUS
  <2>2. Grows(T, Taken(T, h, x), h, {})
    BY <2>1, TakenIs
  <2> QED  BY <2>2 DEF Grows
<1> HIDE DEF V
<1>2. G \in [R \X V -> V] /\ \A x \in R, T \in V : G[<<x, T>>] = Taken(T, h, x)
  BY <1>1
<1>3. S \in V /\ IsFiniteSet(R)
  BY FileAssumption, FS_Subset DEF V
<1> HIDE DEF G
<1>4. PICK g \in [SUBSET R -> V] : Folds(g, G, S, R)
  BY <1>2, <1>3, FoldExists
<1>5. \A s \in SUBSET R : s # {} => Some(s) \in R /\ g[s \ {Some(s)}] \in V
  BY SomeIs
<1>6. \A s \in SUBSET R : g[s] = IF s = {} THEN S ELSE Taken(g[s \ {Some(s)}], h, Some(s))
  BY <1>2, <1>4, <1>5 DEF Folds
<1>7. g = [s \in SUBSET R |-> IF s = {} THEN S ELSE Taken(g[s \ {Some(s)}], h, Some(s))]
  BY <1>6
<1> QED  BY <1>7 DEF IsTaking

LEMMA FilesTaken ==
  ASSUME NEW S \in Sane, NEW h \in Href, S.obj[h] # None, NEW F \in SUBSET Row, NEW R \in SUBSET File
  PROVE  Grows(S, TakenAll(S, h, R), h, F)
<1> DEFINE T == TakenAll(S, h, R)
           k == CHOOSE g : IsTaking(g, S, h, R)
           X == {s \in SUBSET R : Grows(S, k[s], h, F)}
<1>1. T = k[R]
  BY TakingFolds
<1>2. IsTaking(k, S, h, R)
  BY TakingExists
<1> HIDE DEF T, k
<1>3. k[{}] = S /\ \A s \in SUBSET R : s # {} => k[s] = Taken(k[s \ {Some(s)}], h, Some(s))
  BY <1>2 DEF IsTaking
<1>4. {} \in X
  BY <1>3, GrowsItself
<1>5. ASSUME NEW s \in SUBSET R, s # {}, s \ {Some(s)} \in X  PROVE s \in X
  <2> DEFINE x == Some(s)
             U == k[s \ {x}]
  <2>1. x \in File
    BY <1>5, SomeIs
  <2>2. Grows(S, U, h, F)
    BY <1>5
  <2>3. k[s] = Taken(U, h, x)
    BY <1>3, <1>5
  <2> HIDE DEF x, U, X
  <2>4. U \in Sane /\ U.obj[h] # None
    BY <2>2 DEF Grows
  <2>5. Grows(U, k[s], h, F)
    BY <2>1, <2>3, <2>4, TakenIs
  <2>6. Grows(S, k[s], h, F)
    BY <2>2, <2>5, GrowsChain
  <2> QED  BY <2>6 DEF X
<1>6. IsFiniteSet(R)
  BY FileAssumption, FS_Subset
<1> HIDE DEF X
<1>7. R \in X
  BY <1>4, <1>5, <1>6, FoldsReach
<1> QED  BY <1>1, <1>7 DEF X, T

(* The object has the UID of the item, the components of the body that is  *)
(* opened for it, and references to its rows.  Other objects stay, unless  *)
(* they have the UID.  The files all come back, if there were none at the  *)
(* name and the limits allow them.                                         *)
FilesOf(arch, h) == {f \in arch.files : f.href = h}

Easy(arch, h) ==
  /\ Cardinality(FilesOf(arch, h)) <= MaxFiles /\ Sum(Weight, FilesOf(arch, h)) <= MaxTotal
  /\ \A f \in FilesOf(arch, h) : Sized(f.file)

LEMMA RestoreObjectIs ==
  ASSUME NEW S \in Sane, NEW arch, Restorable(arch), NEW item \in arch.items
  PROVE  LET T == restoreObject(S, arch, item)  h == item.href IN
         /\ T \in Sane /\ Follows(S, T, arch.files)
         /\ InStepAt(T, h) /\ \A g \in Href \ {h} : InStepAt(S, g) => InStepAt(T, g)
         /\ T.obj[h] # None /\ T.obj[h].uid = item.uid
         /\ T.obj[h].ics.uid = Open(arch, item).uid
         /\ DOMAIN T.obj[h].ics.parts = DOMAIN Open(arch, item).parts
         /\ OthersSpared(S, T, h, item.uid)
         /\ RowsAt(S, h) = {} /\ Easy(arch, h) => FilesOf(arch, h) \subseteq T.rows
<1> DEFINE T == restoreObject(S, arch, item)
           h == item.href
           F == arch.files
           R == FilesOf(arch, h)
           ics == Open(arch, item)
           split == SplitAttachments(ics)
           S1 == UpsertCalendarObject(S, h, item.uid, split.rest)
           S2 == FoldSet(LAMBDA f, U : RestoreAttachment(U, f), S1, R)
           S3 == TakenAll(S2, h, split.inlines)
           new == RewriteManagedAttachments(S3, h, split.rest)
<1>1. T = UpsertCalendarObject(S3, h, item.uid, new)
  BY DEF restoreObject, FilesOf, TakenAll
<1>2. h \in Href /\ item.uid \in Uid /\ ics \in Sent /\ F \in SUBSET Row /\ R \in SUBSET F
      /\ IsFiniteSet(R) /\ \A f \in R : f.href = h
  BY FS_Subset DEF Restorable, Body, FilesOf
<1>3. split.rest \in Body /\ split.inlines \in SUBSET File /\ split.rest.uid = ics.uid
      /\ DOMAIN split.rest.parts = DOMAIN ics.parts
  BY <1>2, SplitIs
<1>4. new = WriteAttachments(SplitAttachments(split.rest), RowsAt(S3, h))
  BY DEF RewriteManagedAttachments
<1> DEFINE uid == item.uid
           rest == split.rest
           inlines == split.inlines
<1>5. S1 = UpsertCalendarObject(S, h, uid, rest) /\ rest \in Body /\ inlines \in SUBSET File /\ uid \in Uid
  BY <1>2, <1>3
<1>6. S3 = TakenAll(S2, h, inlines)
  OBVIOUS
<1> HIDE DEF T, F, R, ics, split, S3, new, rest, inlines, uid, h
<1>7. S1 \in Sane /\ S1.obj[h] # None /\ RowsAt(S1, h) = RowsAt(S, h)
      /\ \A g \in Href \ {h} : InStepAt(S, g) => InStepAt(S1, g)
  <2>1. S1 \in Sane
    BY <1>2, <1>5, UpsertIs
  <2>2. S1.obj[h] # None
    BY <1>2, <1>5, UpsertIs
  <2>3. RowsAt(S1, h) = RowsAt(S, h)
    BY <1>2, <1>5, UpsertIs
  <2>4. \A g \in Href \ {h} : InStepAt(S, g) => InStepAt(S1, g)
    BY <1>2, <1>5, UpsertIs
  <2> QED  BY <2>1, <2>2, <2>3, <2>4
<1>8. Follows(S, S1, F) /\ OthersSpared(S, S1, h, uid)
  <2> HIDE DEF S1
  <2> QED  BY <1>2, <1>5, UpsertFollows, UpsertOthers
<1> HIDE DEF S1
<1>9. Grows(S1, S2, h, F)
  BY <1>2, <1>7, FilesRestored
<1>10. RowsAt(S, h) = {} /\ Easy(arch, h) => R \subseteq S2.rows
  BY <1>2, <1>7, FilesRestored DEF Easy, R
<1> HIDE DEF S2
<1>11. Grows(S2, S3, h, F)
  <2>1. S2 \in Sane /\ S2.obj[h] # None
    BY <1>7, <1>9 DEF Grows
  <2> QED  BY <1>2, <1>5, <1>6, <2>1, FilesTaken
<1>12. Grows(S1, S3, h, F)
  BY <1>2, <1>7, <1>9, <1>11, GrowsChain
<1>13. S3 \in Sane /\ RowsAt(S3, h) \in SUBSET Row /\ S2.rows \subseteq S3.rows
       /\ S3.obj = S1.obj /\ Follows(S1, S3, F)
       /\ \A g \in Href \ {h} : RowsAt(S3, g) = RowsAt(S1, g)
  BY <1>11, <1>12, SaneIs DEF Grows
<1>14. /\ new \in Body /\ new.uid = rest.uid /\ DOMAIN new.parts = DOMAIN rest.parts
       /\ RefsOf(new) = Ids(RowsAt(S3, h))
  <2>1. rest \in Sent /\ Cardinality(Bearing(rest)) <= 2
    BY <1>5, BodyBears DEF Body
  <2>2. new = WriteAttachments(SplitAttachments(rest), RowsAt(S3, h))
    BY <1>4 DEF rest
  <2> QED  BY <1>13, <2>1, <2>2, WriteIs
<1>15. T = UpsertCalendarObject(S3, h, uid, new)
  BY <1>1 DEF uid, h
<1>16. T \in Sane /\ RowsAt(T, h) = RowsAt(S3, h)
       /\ \A g \in Href \ {h} : InStepAt(S3, g) => InStepAt(T, g)
  <2>1. T \in Sane
    BY <1>2, <1>5, <1>13, <1>14, <1>15, UpsertIs
  <2>2. RowsAt(T, h) = RowsAt(S3, h)
    BY <1>2, <1>5, <1>13, <1>14, <1>15, UpsertIs
  <2>3. \A g \in Href \ {h} : InStepAt(S3, g) => InStepAt(T, g)
    BY <1>2, <1>5, <1>13, <1>14, <1>15, UpsertIs
  <2> QED  BY <2>1, <2>2, <2>3
<1>17. Follows(S3, T, F) /\ OthersSpared(S3, T, h, uid)
  <2>1. Follows(S3, T, F)
    BY <1>2, <1>5, <1>13, <1>14, <1>15, UpsertFollows
  <2>2. OthersSpared(S3, T, h, uid)
    BY <1>2, <1>5, <1>13, <1>14, <1>15, UpsertOthers
  <2> QED  BY <2>1, <2>2
<1>18. Follows(S, T, F)
  <2>1. Follows(S, S3, F)
    BY <1>2, <1>7, <1>8, <1>13, FollowsChain
  <2> QED  BY <1>2, <1>13, <1>16, <1>17, <2>1, FollowsChain
<1>19. T.obj[h] # None /\ T.obj[h].uid = uid /\ T.obj[h].ics = new
  BY <1>2, <1>5, <1>13, <1>14, <1>15, UpsertIs
<1>20. InStepAt(T, h)
  BY <1>14, <1>16, <1>19 DEF InStepAt
<1>21. ASSUME NEW g \in Href \ {h}, InStepAt(S, g)  PROVE InStepAt(T, g)
  <2>1. InStepAt(S1, g)
    BY <1>7, <1>21
  <2>2. InStepAt(S3, g)
    BY <1>13, <2>1 DEF InStepAt
  <2> QED  BY <1>16, <2>2
<1>22. OthersSpared(S, T, h, uid)
  <2>1. \A g \in Href \ {h} : Spared(S1, S3, g)
    BY <1>13 DEF Spared
  <2> QED  BY <1>8, <1>17, <2>1, SparedChain
<1>23. ASSUME RowsAt(S, h) = {}, Easy(arch, h)  PROVE R \subseteq T.rows
  <2>1. R \subseteq RowsAt(S3, h)
    BY <1>2, <1>10, <1>13, <1>23 DEF RowsAt
  <2> QED  BY <1>16, <2>1 DEF RowsAt
<1>24. new.uid = ics.uid /\ DOMAIN new.parts = DOMAIN ics.parts
  BY <1>3, <1>14 DEF rest
<1> QED  BY <1>16, <1>18, <1>19, <1>20, <1>21, <1>22, <1>23, <1>24 DEF T, F, R, ics, h, uid

(* All items, one after the other, when the tables are empty.              *)
IsReplay(g, base, arch) ==
  g = [s \in SUBSET arch.items |-> IF s = {} THEN base
                                   ELSE restoreObject(g[s \ {Some(s)}], arch, Some(s))]

LEMMA ReplayFolds ==
  ASSUME NEW arch
  PROVE  restoreCalendars(arch) = (CHOOSE g : IsReplay(g, Emptied, arch))[arch.items]
BY DEF restoreCalendars, FoldSet, MapThenFoldSet, IsReplay, Some

LEMMA ReplayExists ==
  ASSUME NEW S \in Sane, NEW arch, Restorable(arch)
  PROVE  \E g : IsReplay(g, S, arch)
<1> DEFINE R == arch.items
           G == [p \in R \X Sane |-> restoreObject(p[2], arch, p[1])]
<1>1. ASSUME NEW x \in R, NEW T \in Sane  PROVE restoreObject(T, arch, x) \in Sane
  BY RestoreObjectIs
<1>2. G \in [R \X Sane -> Sane] /\ \A x \in R, T \in Sane : G[<<x, T>>] = restoreObject(T, arch, x)
  BY <1>1
<1>3. IsFiniteSet(R)
  BY DEF Restorable
<1> HIDE DEF G, R
<1>4. PICK g \in [SUBSET R -> Sane] : Folds(g, G, S, R)
  BY <1>2, <1>3, FoldExists
<1>5. \A s \in SUBSET R : s # {} => Some(s) \in R /\ g[s \ {Some(s)}] \in Sane
  BY SomeIs
<1>6. \A s \in SUBSET R : g[s] = IF s = {} THEN S ELSE restoreObject(g[s \ {Some(s)}], arch, Some(s))
  BY <1>2, <1>4, <1>5 DEF Folds
<1>7. g = [s \in SUBSET R |-> IF s = {} THEN S ELSE restoreObject(g[s \ {Some(s)}], arch, Some(s))]
  BY <1>6
<1> QED  BY <1>7 DEF IsReplay, R

(* The object of an item is back.                                          *)
Restored(arch, S, i) ==
  /\ S.obj[i.href].uid = i.uid
  /\ S.obj[i.href].ics.uid = Open(arch, i).uid
  /\ DOMAIN S.obj[i.href].ics.parts = DOMAIN Open(arch, i).parts
  /\ Easy(arch, i.href) => FilesOf(arch, i.href) \subseteq S.rows

(* Every UID of the items in s is back, and no objects but theirs: what    *)
(* shares its UID with another may be missing.                             *)
Replayed(arch, S, s) ==
  /\ S \in Sane /\ Follows(Emptied, S, arch.files)
  /\ \A h \in Href : InStepAt(S, h)
  /\ \A h \in Href : S.obj[h] # None => \E i \in s : i.href = h
  /\ \A i \in s : S.obj[i.href] # None => Restored(arch, S, i)
  /\ \A i \in s : \E h \in Href : S.obj[h] # None /\ S.obj[h].uid = i.uid

LEMMA EmptiedIs ==
  ASSUME db \in Sane
  PROVE  /\ Emptied \in Sane /\ Emptied.rows = {} /\ Emptied.next = db.next
         /\ \A h \in Href : Emptied.obj[h] = None
<1>1. Href \in SUBSET Href /\ Emptied = Deleted(db, Href)
  BY DEF Emptied
<1>2. Emptied \in Sane /\ Emptied.next = db.next /\ \A h \in Href : Emptied.obj[h] = None
  BY <1>1, DeletedIs
<1>3. \A r \in Emptied.rows : r.href \in Href /\ Emptied.obj[r.href] # None
  BY <1>2, SaneIs
<1> QED  BY <1>2, <1>3

LEMMA ReplayedNext ==
  ASSUME NEW arch, Restorable(arch), NEW s \in SUBSET arch.items, NEW x \in s, NEW U,
         Emptied \in Sane, Replayed(arch, U, s \ {x})
  PROVE  Replayed(arch, restoreObject(U, arch, x), s)
<1> DEFINE T == restoreObject(U, arch, x)
           h == x.href
<1>1. U \in Sane /\ x \in arch.items /\ h \in Href /\ x.uid \in Uid
  BY DEF Replayed, Restorable
<1>2. \A i \in s \ {x} : i.href \in Href /\ i.href # x.href
  BY DEF Restorable
<1>3. U.obj[h] = None
  BY <1>1, <1>2 DEF Replayed
<1>4. RowsAt(U, h) = {}
  BY <1>1, <1>3 DEF Sane, RowsAt
<1>5. /\ T \in Sane /\ Follows(U, T, arch.files)
      /\ InStepAt(T, h) /\ \A g \in Href \ {h} : InStepAt(U, g) => InStepAt(T, g)
      /\ T.obj[h] # None /\ T.obj[h].uid = x.uid
      /\ T.obj[h].ics.uid = Open(arch, x).uid
      /\ DOMAIN T.obj[h].ics.parts = DOMAIN Open(arch, x).parts
      /\ OthersSpared(U, T, h, x.uid)
      /\ RowsAt(U, h) = {} /\ Easy(arch, h) => FilesOf(arch, h) \subseteq T.rows
  BY <1>1, RestoreObjectIs
<1> HIDE DEF T
<1>6. \A g \in Href \ {h} : T.obj[g] = None \/ Spared(U, T, g)
  BY <1>5 DEF OthersSpared
<1>7. \A g \in Href \ {h} : U.obj[g] # None /\ U.obj[g].uid # x.uid => T.obj[g] = U.obj[g]
  BY <1>5 DEF OthersSpared, Spared
<1>8. Follows(Emptied, T, arch.files)
  <2>1. Follows(Emptied, U, arch.files) /\ arch.files \in SUBSET Row
    BY DEF Replayed, Restorable
  <2> QED  BY <1>1, <1>5, <2>1, FollowsChain
<1>9. \A g \in Href : InStepAt(T, g)
  BY <1>5 DEF Replayed
<1>10. ASSUME NEW g \in Href, T.obj[g] # None  PROVE \E i \in s : i.href = g
  <2>1. CASE g = h
    BY <2>1
  <2>2. CASE g # h
    BY <1>6, <1>10, <2>2 DEF Replayed, Spared
  <2> QED  BY <2>1, <2>2
<1>11. Restored(arch, T, x)
  BY <1>4, <1>5 DEF Restored
<1>12. ASSUME NEW i \in s \ {x}, T.obj[i.href] # None  PROVE Restored(arch, T, i)
  <2>1. i.href \in Href \ {h} /\ Spared(U, T, i.href)
    BY <1>2, <1>6, <1>12
  <2>2. Restored(arch, U, i)
    BY <1>12, <2>1 DEF Replayed, Spared
  <2>3. FilesOf(arch, i.href) \subseteq U.rows => FilesOf(arch, i.href) \subseteq T.rows
    <3> SUFFICES ASSUME FilesOf(arch, i.href) \subseteq U.rows, NEW f \in FilesOf(arch, i.href)
                 PROVE  f \in T.rows
      OBVIOUS
    <3>1. f \in RowsAt(U, i.href)
      BY DEF RowsAt, FilesOf
    <3>2. f \in RowsAt(T, i.href)
      BY <2>1, <3>1 DEF Spared
    <3> QED  BY <3>2 DEF RowsAt
  <2> QED  BY <2>1, <2>2, <2>3 DEF Restored, Spared
<1>13. ASSUME NEW i \in s  PROVE \E g \in Href : T.obj[g] # None /\ T.obj[g].uid = i.uid
  <2>1. CASE i.uid = x.uid
    BY <1>1, <1>5, <2>1
  <2>2. CASE i.uid # x.uid
    <3>1. PICK g \in Href : U.obj[g] # None /\ U.obj[g].uid = i.uid
      BY <2>2 DEF Replayed
    <3> QED  BY <1>3, <1>7, <2>2, <3>1
  <2> QED  BY <2>1, <2>2
<1>14. Replayed(arch, T, s)
  BY <1>5, <1>8, <1>9, <1>10, <1>11, <1>12, <1>13 DEF Replayed
<1> QED  BY <1>14 DEF T

LEMMA CalendarsRestored ==
  ASSUME db \in Sane, NEW arch, Restorable(arch)
  PROVE  Replayed(arch, restoreCalendars(arch), arch.items)
<1> DEFINE k == CHOOSE g : IsReplay(g, Emptied, arch)
           R == arch.items
           X == {s \in SUBSET R : Replayed(arch, k[s], s)}
<1>1. restoreCalendars(arch) = k[R]
  BY ReplayFolds
<1>2. Emptied \in Sane /\ Emptied.rows = {} /\ \A h \in Href : Emptied.obj[h] = None
  BY EmptiedIs
<1>3. IsReplay(k, Emptied, arch)
  BY <1>2, ReplayExists
<1> HIDE DEF k
<1>4. k[{}] = Emptied /\ \A s \in SUBSET R : s # {} => k[s] = restoreObject(k[s \ {Some(s)}], arch, Some(s))
  BY <1>3 DEF IsReplay
<1>5. {} \in X
  BY <1>2, <1>4, FollowsItself DEF Replayed, InStepAt
<1>6. ASSUME NEW s \in SUBSET R, s # {}, s \ {Some(s)} \in X  PROVE s \in X
  <2>1. Some(s) \in s
    BY <1>6, SomeIs
  <2>2. Replayed(arch, k[s \ {Some(s)}], s \ {Some(s)})
    BY <1>6
  <2>3. Replayed(arch, restoreObject(k[s \ {Some(s)}], arch, Some(s)), s)
    BY <1>2, <2>1, <2>2, ReplayedNext
  <2> QED  BY <1>4, <1>6, <2>3
<1>7. IsFiniteSet(R)
  BY DEF Restorable
<1> HIDE DEF X
<1>8. R \in X
  BY <1>5, <1>6, <1>7, FoldsReach
<1> QED  BY <1>1, <1>8 DEF X

-----------------------------------------------------------------------------
(* An archive of what S was: each object has an item, and its files are    *)
(* within the limits, as they were in S.                                   *)

LEMMA DepictedIsEasy ==
  ASSUME NEW arch, NEW S, Depicts(arch, S), NEW h \in Href
  PROVE  Easy(arch, h)
<1>1. S \in Sane /\ Limited(S) /\ arch.files = S.rows
  BY DEF Depicts
<1>2. FilesOf(arch, h) = RowsAt(S, h)
  BY <1>1 DEF FilesOf, RowsAt
<1>3. Usage(S, h) = Sum(Weight, RowsAt(S, h))
  BY <1>1, UsageIs
<1>4. \A f \in RowsAt(S, h) : Sized(f.file)
  BY <1>1 DEF Limited, RowsAt
<1>5. Cardinality(RowsAt(S, h)) <= MaxFiles /\ Usage(S, h) <= MaxTotal
  BY <1>1 DEF Limited
<1> QED  BY <1>2, <1>3, <1>4, <1>5 DEF Easy

LEMMA DepictedItems ==
  ASSUME NEW arch, NEW S, Depicts(arch, S)
  PROVE  /\ \A h \in Href : S.obj[h] # None <=> \E i \in arch.items : i.href = h
         /\ \A i \in arch.items : i.href \in Href /\ i.uid = S.obj[i.href].uid
         /\ \A h \in Own(arch) : \E i \in arch.items :
              i.href = h /\ h \in Href /\ S.obj[h] # None /\ Open(arch, i) = S.obj[h].ics
<1>1. arch.items = {[href |-> h, uid |-> S.obj[h].uid] : h \in Listed(S.obj)}
  BY DEF Depicts, Kept
<1>2. \A h \in Listed(S.obj) : \E g \in Listed(S.obj) :
        SegmentOf[g] = SegmentOf[h] /\ arch.ics[SegmentOf[h]] = S.obj[g].ics
  BY DEF Depicts, Kept
<1>3. ASSUME NEW h \in Listed(S.obj)  PROVE \E i \in arch.items : i.href = h
  <2>1. [href |-> h, uid |-> S.obj[h].uid] \in arch.items
    BY <1>1
  <2>2. [href |-> h, uid |-> S.obj[h].uid].href = h
    OBVIOUS
  <2> QED  BY <2>1, <2>2
<1>4. \A i \in arch.items : i.href \in Listed(S.obj) /\ i.uid = S.obj[i.href].uid
  BY <1>1
<1>5. ASSUME NEW h \in Own(arch)
      PROVE  \E i \in arch.items :
               i.href = h /\ h \in Href /\ S.obj[h] # None /\ Open(arch, i) = S.obj[h].ics
  <2>1. PICK i \in arch.items :
          i.href = h /\ \A y \in arch.items : SegmentOf[i.href] = SegmentOf[y.href] => i = y
    BY DEF Own
  <2>2. h \in Listed(S.obj)
    BY <1>4, <2>1
  <2>3. PICK g \in Listed(S.obj) : SegmentOf[g] = SegmentOf[h] /\ arch.ics[SegmentOf[h]] = S.obj[g].ics
    BY <1>2, <2>2
  <2>4. PICK y \in arch.items : y.href = g
    BY <1>3, <2>3
  <2>5. g = h
    BY <2>1, <2>3, <2>4
  <2> QED  BY <2>1, <2>2, <2>3, <2>5 DEF Open, Listed
<1> QED  BY <1>3, <1>4, <1>5 DEF Listed

(* Restoring it brings back what S was.                                    *)
Returned(arch, S, T) ==
  /\ \A h \in Live(T) : h \in Live(S) /\ T.obj[h].uid = S.obj[h].uid
  /\ \A h \in Live(S) : \E g \in Live(T) : T.obj[g].uid = S.obj[h].uid
  /\ \A r \in S.rows : r.href \in Live(T) => r \in T.rows
  /\ \A h \in Own(arch) \cap Live(T) :
       /\ T.obj[h].ics.uid = S.obj[h].ics.uid
       /\ DOMAIN T.obj[h].ics.parts = DOMAIN S.obj[h].ics.parts
       /\ RefsOf(T.obj[h].ics) = Ids(RowsAt(T, h))

LEMMA DepictedReturns ==
  ASSUME db \in Sane, NEW arch, Restorable(arch), NEW S, Depicts(arch, S)
  PROVE  Returned(arch, S, restoreCalendars(arch))
<1> DEFINE T == restoreCalendars(arch)
<1>1. Replayed(arch, T, arch.items)
  BY CalendarsRestored
<1> HIDE DEF T
<1>2. /\ \A h \in Href : S.obj[h] # None <=> \E i \in arch.items : i.href = h
      /\ \A i \in arch.items : i.href \in Href /\ i.uid = S.obj[i.href].uid
      /\ \A h \in Own(arch) : \E i \in arch.items :
           i.href = h /\ h \in Href /\ S.obj[h] # None /\ Open(arch, i) = S.obj[h].ics
  BY DepictedItems
<1>3. ASSUME NEW h \in Live(T)  PROVE h \in Live(S) /\ T.obj[h].uid = S.obj[h].uid
  <2>1. PICK i \in arch.items : i.href = h
    BY <1>1 DEF Live, Replayed
  <2>2. Restored(arch, T, i)
    BY <1>1, <2>1 DEF Live, Replayed
  <2> QED  BY <1>2, <2>1, <2>2 DEF Live, Restored
<1>4. ASSUME NEW h \in Live(S)  PROVE \E g \in Live(T) : T.obj[g].uid = S.obj[h].uid
  <2>1. PICK i \in arch.items : i.href = h
    BY <1>2 DEF Live
  <2>2. i.uid = S.obj[h].uid
    BY <1>2, <2>1
  <2> QED  BY <1>1, <2>2 DEF Live, Replayed
<1>5. ASSUME NEW r \in S.rows, r.href \in Live(T)  PROVE r \in T.rows
  <2>1. S \in Sane /\ arch.files = S.rows
    BY DEF Depicts
  <2>2. r.href \in Href /\ S.obj[r.href] # None
    BY <2>1, SaneIs DEF Row
  <2>3. PICK i \in arch.items : i.href = r.href
    BY <1>2, <2>2
  <2>4. Easy(arch, i.href)
    BY <2>2, <2>3, DepictedIsEasy
  <2>5. Restored(arch, T, i)
    BY <1>1, <1>5, <2>3 DEF Live, Replayed
  <2>6. FilesOf(arch, i.href) \subseteq T.rows
    BY <2>4, <2>5 DEF Restored
  <2> QED  BY <2>1, <2>3, <2>6 DEF FilesOf
<1>6. ASSUME NEW h \in Own(arch), h \in Live(T)
      PROVE  /\ T.obj[h].ics.uid = S.obj[h].ics.uid
             /\ DOMAIN T.obj[h].ics.parts = DOMAIN S.obj[h].ics.parts
             /\ RefsOf(T.obj[h].ics) = Ids(RowsAt(T, h))
  <2>1. PICK i \in arch.items :
          i.href = h /\ h \in Href /\ S.obj[h] # None /\ Open(arch, i) = S.obj[h].ics
    BY <1>2
  <2>2. Restored(arch, T, i) /\ InStepAt(T, h) /\ T.obj[h] # None
    BY <1>1, <1>6, <2>1 DEF Live, Replayed
  <2> QED  BY <2>1, <2>2 DEF Restored, InStepAt
<1> QED  BY <1>3, <1>4, <1>5, <1>6 DEF T, Returned

-----------------------------------------------------------------------------
(* What a step of the tables from S to T means to the ids and to the       *)
(* export in progress, which loses its history when T is another state.    *)

LEMMA IdsStay ==
  ASSUME NEW S \in Sane, NEW T \in Sane, NEW F \in SUBSET Row, Follows(S, T, F),
         NEW K \in SUBSET Row, S.rows \cup F \subseteq K, IdsOK(S, K),
         NEW L, L \subseteq K \cup T.rows
  PROVE  IdsOK(T, L) /\ \A r \in L : r \in K \/ r.id > S.next
<1>1. S.next \in Nat /\ T.next \in Nat /\ \A r \in K \cup T.rows : r.id \in Nat
  BY SaneIs DEF Row, Id
<1>2. \A r \in K : r.id <= S.next
  BY DEF IdsOK
<1>3. \A r \in T.rows \ K : r.id > S.next /\ r.id <= T.next
  BY <1>1 DEF Follows
<1>4. S.next <= T.next
  BY DEF Follows
<1>5. \A r \in L : r.id <= T.next
  BY <1>1, <1>2, <1>3, <1>4
<1>6. ASSUME NEW q \in L, NEW r \in L, q.id = r.id  PROVE q = r
  <2>1. CASE q \in K /\ r \in K
    BY <1>6, <2>1 DEF IdsOK
  <2>2. CASE q \notin K /\ r \notin K
    BY <1>6, <2>2 DEF Follows
  <2>3. (q \in K /\ r \notin K) \/ (q \notin K /\ r \in K) => FALSE
    BY <1>1, <1>2, <1>3, <1>6
  <2> QED  BY <2>1, <2>2, <2>3
<1> QED  BY <1>3, <1>5, <1>6 DEF IdsOK

LEMMA BuildPc ==
  ASSUME NEW b, NEW S, NEW K, BuildOK(b, S, K)
  PROVE  /\ b = NoBuild <=> b.pc = "idle"
         /\ b # NoBuild => BuildTyped(b)
<1>1. NoBuild.pc = "idle"
  BY DEF NoBuild
<1>2. BuildTyped(b) => b.pc # "idle"
  BY DEF BuildTyped
<1> QED  BY <1>1, <1>2 DEF BuildOK

LEMMA ExportIs ==
  ASSUME NEW pc, NEW kind, NEW of, NEW was, NEW acc, NEW todo, NEW obj, NEW items, NEW href,
         NEW pending, NEW ics, NEW files,
         NEW b, b = Export(pc, kind, of, was, acc, todo, obj, items, href, pending, ics, files)
  PROVE  /\ IsExport(b)
         /\ b.pc = pc /\ b.kind = kind /\ b.of = of /\ b.was = was /\ b.account = acc
         /\ b.todo = todo /\ b.obj = obj /\ b.items = items /\ b.href = href
         /\ b.pending = pending /\ b.ics = ics /\ b.files = files
<1>1. /\ b.pc = pc /\ b.kind = kind /\ b.of = of /\ b.was = was /\ b.account = acc
      /\ b.todo = todo /\ b.obj = obj /\ b.items = items /\ b.href = href
      /\ b.pending = pending /\ b.ics = ics /\ b.files = files
  BY DEF Export
<1> QED  BY <1>1 DEF IsExport

(* An export that loses its history.                                       *)
Less(b, c) ==
  /\ b # NoBuild
  /\ \/ c = [b EXCEPT !.of = None]
     \/ c = [b EXCEPT !.was = None]
     \/ c = [b EXCEPT !.of = None, !.was = None]

LEMMA Forgotten ==
  ASSUME NEW b, BuildTyped(b), NEW c, Less(b, c)
  PROVE  /\ BuildTyped(c) /\ c # NoBuild
         /\ c.of \in {None, b.of} /\ c.was \in {None, b.was} /\ c.account = b.account
         /\ c.obj = b.obj /\ c.files = b.files /\ c.pending = b.pending /\ c.href = b.href
         /\ Done(c) = Done(b)
         /\ c = [b EXCEPT !.was = None] \/ c = [b EXCEPT !.of = None, !.was = None] => c.was = None
         /\ c = [b EXCEPT !.of = None] \/ c = [b EXCEPT !.of = None, !.was = None] => c.of = None
<1> DEFINE Lost(of, was) == Export(b.pc, b.kind, of, was, b.account, b.todo, b.obj, b.items,
                                   b.href, b.pending, b.ics, b.files)
<1>1. b = Lost(b.of, b.was)
  BY DEF BuildTyped, IsExport
<1>2. \A of, was, d : d = Lost(of, was) => [d EXCEPT !.of = None] = Lost(None, was)
                                            /\ [d EXCEPT !.was = None] = Lost(of, None)
  BY DEF Export
<1>3. [b EXCEPT !.of = None, !.was = None] = [[b EXCEPT !.of = None] EXCEPT !.was = None]
  OBVIOUS
<1> HIDE DEF Lost
<1> DEFINE c1 == [b EXCEPT !.of = None]
           c2 == [b EXCEPT !.was = None]
           c3 == [c1 EXCEPT !.was = None]
<1>4. /\ [b EXCEPT !.of = None] = Lost(None, b.was)
      /\ [b EXCEPT !.was = None] = Lost(b.of, None)
      /\ [b EXCEPT !.of = None, !.was = None] = Lost(None, None)
  <2>1. c1 = Lost(None, b.was) /\ c2 = Lost(b.of, None)
    BY <1>1, <1>2
  <2>2. [b EXCEPT !.of = None, !.was = None] = c3
    BY <1>3
  <2> HIDE DEF c1
  <2>3. c3 = Lost(None, None)
    BY <1>2, <2>1
  <2> QED  BY <2>1, <2>2, <2>3 DEF c1
<1>5. PICK of \in {None, b.of}, was \in {None, b.was} : c = Lost(of, was)
  BY <1>4 DEF Less
<1>6. /\ IsExport(c)
      /\ c.pc = b.pc /\ c.kind = b.kind /\ c.of = of /\ c.was = was /\ c.account = b.account
      /\ c.todo = b.todo /\ c.obj = b.obj /\ c.items = b.items /\ c.href = b.href
      /\ c.pending = b.pending /\ c.ics = b.ics /\ c.files = b.files
  BY <1>5, ExportIs DEF Lost
<1>7. Done(c) = Done(b)
  BY <1>6 DEF Done
<1>8. BuildTyped(c)
  BY <1>6, <1>7 DEF BuildTyped
<1>9. c # NoBuild
  BY <1>8 DEF BuildTyped, NoBuild
<1>10. \A x, y : Lost(x, y).of = x /\ Lost(x, y).was = y
  BY ExportIs DEF Lost
<1> QED  BY <1>4, <1>6, <1>7, <1>8, <1>9, <1>10

LEMMA BuildStays ==
  ASSUME NEW S \in Sane, NEW T \in Sane, S.next <= T.next, NEW b, NEW K, BuildOK(b, S, K),
         NEW L, \A r \in L : r \in K \/ r.id > S.next, \A r \in L : r.id \in Nat,
         NEW c, c = b \/ Less(b, c), T = S \/ b = NoBuild \/ c.of = None
  PROVE  BuildOK(c, T, L)
<1>1. S.next \in Nat /\ T.next \in Nat
  BY SaneIs
<1>2. CASE b = NoBuild
  BY <1>2 DEF BuildOK, Less
<1>3. CASE b # NoBuild
  <2>1. BuildTyped(b) /\ PendingOK(b, S, K) /\ BuildCurrent(b, S)
    BY <1>3 DEF BuildOK
  <2>2. /\ BuildTyped(c) /\ c.of \in {None, b.of} /\ c.obj = b.obj
        /\ c.files = b.files /\ c.pending = b.pending /\ c.href = b.href /\ Done(c) = Done(b)
    BY <2>1, Forgotten
  <2>3. PendingOK(c, T, L)
    BY <1>1, <2>1, <2>2 DEF PendingOK
  <2>4. BuildCurrent(c, T)
    BY <1>3, <2>1, <2>2 DEF BuildCurrent
  <2> QED  BY <2>2, <2>3, <2>4 DEF BuildOK
<1> QED  BY <1>2, <1>3

LEMMA KnownStays ==
  ASSUME NEW S, NEW T, NEW b, NEW a, NEW c, b = NoBuild \/ BuildTyped(b), c = b \/ Less(b, c)
  PROVE  Known(T, c, a) \subseteq Known(S, b, a) \cup T.rows
<1>1. CASE c = b
  BY <1>1 DEF Known
<1>2. CASE Less(b, c)
  <2>1. b # NoBuild /\ BuildTyped(b)
    BY <1>2 DEF Less
  <2>2. c.files = b.files
    BY <1>2, <2>1, Forgotten
  <2> QED  BY <2>1, <2>2 DEF Known
<1> QED  BY <1>1, <1>2

LEMMA KnownRows ==
  ASSUME Inv
  PROVE  Known(db, build, archive) \in SUBSET Row
<1>1. db.rows \subseteq Row
  BY SaneIs DEF Inv, FileInv
<1>2. build # NoBuild => build.files \subseteq Row
  BY DEF Inv, BuildOK, BuildTyped
<1>3. archive # None => archive.files \subseteq Row
  BY DEF Inv, ArchiveOK, Restorable
<1> QED  BY <1>1, <1>2, <1>3 DEF Known

(* The parts of the invariant that are about the tables and the export.    *)
LEMMA TablesStay ==
  ASSUME Inv, NEW S \in Sane, S.next = db.next, NEW F \in SUBSET Row,
         S.rows \cup F \subseteq Known(db, build, archive), Limited(S),
         db' \in Sane, Follows(S, db', F), archive' = archive,
         build' = build \/ Less(build, build'), db' = db \/ build = NoBuild \/ build'.of = None
  PROVE  /\ Limited(db')
         /\ IdsOK(db', Known(db', build', archive'))
         /\ BuildOK(build', db', Known(db', build', archive'))
<1> DEFINE K == Known(db, build, archive)
           L == Known(db', build', archive')
<1>1. K \in SUBSET Row /\ db \in Sane /\ IdsOK(db, K) /\ BuildOK(build, db, K)
  BY KnownRows DEF Inv, FileInv
<1>2. IdsOK(S, K)
  BY <1>1 DEF IdsOK
<1>3. build = NoBuild \/ BuildTyped(build)
  BY <1>1 DEF BuildOK
<1>4. L \subseteq K \cup db'.rows
  BY <1>3, KnownStays
<1> HIDE DEF K, L
<1>5. IdsOK(db', L) /\ \A r \in L : r \in K \/ r.id > S.next
  BY <1>1, <1>2, <1>4, IdsStay DEF K
<1>6. db.next <= db'.next
  BY DEF Follows
<1>7. \A r \in L : r.id \in Nat
  BY <1>1, <1>4, SaneIs DEF Row, Id
<1>8. BuildOK(build', db', L)
  BY <1>1, <1>5, <1>6, <1>7, BuildStays
<1>9. Limited(db')
  BY DEF Follows
<1> QED  BY <1>5, <1>8, <1>9 DEF L

LEMMA AccountStays ==
  ASSUME Inv,
         \/ account' = account /\ (build' = build \/ Less(build, build'))
         \/ build' = NoBuild \/ build'.was = None
  PROVE  AccountRead'
<1>1. BuildOK(build, db, Known(db, build, archive)) /\ AccountRead
  BY DEF Inv
<1>2. CASE Less(build, build') /\ account' = account
  <2>1. build # NoBuild /\ BuildTyped(build)
    BY <1>1, <1>2 DEF Less, BuildOK
  <2>2. build'.was \in {None, build.was} /\ build'.account = build.account
    BY <1>2, <2>1, Forgotten
  <2> QED  BY <1>1, <1>2, <2>1, <2>2 DEF AccountRead
<1> QED  BY <1>1, <1>2 DEF AccountRead

-----------------------------------------------------------------------------
(* The steps.                                                              *)

LEMMA FilesUnchanged ==
  ASSUME FileInv, UNCHANGED <<db, hd, outOfStep>>, requests' \in 0..MaxRequests
  PROVE  FileInv'
BY DEF FileInv, LocalsOK, InStepAt, RowsAt

LEMMA OneMore ==
  ASSUME FileInv, requests < MaxRequests, requests' = requests + 1
  PROVE  requests' \in 0..MaxRequests
BY BoundAssumption DEF FileInv

LEMMA FileStepKeepsInv ==
  ASSUME Inv, FileStep
  PROVE  Inv'
<1>1. FileInv /\ FileNext /\ db \in Sane
  BY DEF Inv, FileInv, FileStep
<1>2. FileInv' /\ db' \in Sane
  BY <1>1, FileNextKeepsFileInv DEF FileInv
<1>3. Follows(db, db', {})
  BY <1>1, StepFollows
<1>4. /\ UNCHANGED <<account, others, archive>> /\ restored' = (restored /\ db' = db)
      /\ build' = IF build.pc # "idle" /\ db' # db THEN [build EXCEPT !.of = None] ELSE build
  BY DEF FileStep
<1>5. (build' = build \/ Less(build, build')) /\ (db' = db \/ build = NoBuild \/ build'.of = None)
  <2>1. (build = NoBuild <=> build.pc = "idle") /\ (build # NoBuild => BuildTyped(build))
    BY BuildPc DEF Inv
  <2>2. CASE build' = build /\ (db' = db \/ build = NoBuild)
    BY <2>2
  <2>3. CASE build # NoBuild /\ build' = [build EXCEPT !.of = None]
    <3>1. Less(build, build')
      BY <2>3 DEF Less
    <3> QED  BY <2>1, <2>3, <3>1, Forgotten
  <2> QED  BY <1>4, <2>1, <2>2, <2>3
<1>6. /\ Limited(db')
      /\ IdsOK(db', Known(db', build', archive'))
      /\ BuildOK(build', db', Known(db', build', archive'))
  <2>1. db.rows \cup {} \subseteq Known(db, build, archive) /\ {} \in SUBSET Row
        /\ Limited(db) /\ db.next = db.next /\ archive' = archive
    BY <1>4 DEF Known, Inv
  <2> QED  BY <1>1, <1>2, <1>3, <1>5, <2>1, TablesStay
<1>7. account' \in Account /\ others' \subseteq Email /\ restored' \in BOOLEAN /\ ArchiveOK(archive')
      /\ AccountRead'
  BY <1>4, <1>5, AccountStays DEF Inv
<1>8. RestoreFaithful'
  <2>1. CASE ~restored'
    BY <1>4, <2>1 DEF Inv, RestoreFaithful
  <2>2. CASE restored'
    <3>1. restored /\ db' = db /\ archive' = archive /\ account' = account /\ others' = others
      BY <1>4, <2>2
    <3> QED  BY <3>1 DEF Inv, RestoreFaithful, Own, RowsAt, Live
  <2> QED  BY <2>1, <2>2
<1> QED  BY <1>2, <1>6, <1>7, <1>8 DEF Inv

LEMMA BuildKeepsInv ==
  ASSUME Inv, NEW kind \in Kind, Build(kind)
  PROVE  Inv'
<1> DEFINE none == [s \in Segment |-> None]
           c == Export("objects", kind, db, account, account, Live(db), db.obj, {}, None, {}, none, {})
<1>1. /\ build.pc = "idle" /\ requests + 2 <= MaxRequests /\ requests' = requests + 2 /\ build' = c
      /\ UNCHANGED <<db, hd, outOfStep, account, others, archive, restored>>
  BY DEF Build, Export
<1> HIDE DEF none
<1>2. /\ IsExport(c)
      /\ c.pc = "objects" /\ c.kind = kind /\ c.of = db /\ c.was = account /\ c.account = account
      /\ c.todo = Live(db) /\ c.obj = db.obj /\ c.items = {} /\ c.href = None
      /\ c.pending = {} /\ c.ics = none /\ c.files = {}
  BY ExportIs
<1> HIDE DEF c
<1>3. c.todo = Listed(db.obj) /\ c.pc # "idle"
  BY <1>2 DEF Live, Listed
<1>4. FileInv' /\ FileInv /\ db \in Sane
  <2>1. requests' \in 0..MaxRequests
    BY <1>1, BoundAssumption DEF Inv, FileInv
  <2> QED  BY <1>1, <2>1, FilesUnchanged DEF Inv, FileInv
<1>5. Snapshot(c.obj)
  BY <1>2, <1>4, SaneIs DEF Snapshot, Inv
<1>6. Done(c) = {}
  BY <1>2, <1>3 DEF Done
<1>7. Kept(c.obj, Done(c), c.items, c.ics)
  BY <1>2, <1>6 DEF Kept, none
<1>8. BuildTyped(c)
  BY <1>2, <1>3, <1>5, <1>7, FS_EmptySet DEF BuildTyped, Inv
<1>9. BuildCurrent(c, db)
  BY <1>2, <1>6 DEF BuildCurrent
<1>10. Known(db, c, archive) \subseteq Known(db, build, archive)
  BY <1>2 DEF Known
<1>11. IdsOK(db, Known(db, c, archive))
  BY <1>10 DEF Inv, IdsOK
<1>12. PendingOK(c, db, Known(db, c, archive))
  BY <1>2 DEF PendingOK
<1>13. BuildOK(c, db, Known(db, c, archive))
  BY <1>8, <1>9, <1>12 DEF BuildOK
<1>14. /\ IdsOK(db', Known(db', build', archive')) /\ BuildOK(build', db', Known(db', build', archive'))
       /\ Limited(db') /\ ArchiveOK(archive')
       /\ account' \in Account /\ others' \subseteq Email /\ restored' \in BOOLEAN
  BY <1>1, <1>11, <1>13 DEF Inv
<1>15. RestoreFaithful'
  BY <1>1 DEF Inv, RestoreFaithful, Own, RowsAt, Live
<1>16. AccountRead'
  BY <1>1, <1>2 DEF AccountRead
<1> QED  BY <1>4, <1>14, <1>15, <1>16 DEF Inv

(* An export goes on: nothing but build changes.                           *)
LEMMA ExportKeepsInv ==
  ASSUME Inv, UNCHANGED <<fileVars, account, others, archive, restored>>,
         BuildTyped(build'), AccountRead', PendingOK(build', db, Known(db, build, archive)),
         BuildCurrent(build', db), Known(db, build', archive) \subseteq Known(db, build, archive)
  PROVE  Inv'
<1>1. IdsOK(db, Known(db, build', archive))
  BY DEF Inv, IdsOK
<1>2. PendingOK(build', db, Known(db, build', archive))
  BY DEF PendingOK
<1>3. BuildOK(build', db, Known(db, build', archive))
  BY <1>2 DEF BuildOK
<1>4. FileInv'
  BY FilesUnchanged DEF fileVars, Inv, FileInv
<1>5. /\ IdsOK(db', Known(db', build', archive')) /\ BuildOK(build', db', Known(db', build', archive'))
      /\ Limited(db') /\ ArchiveOK(archive')
      /\ account' \in Account /\ others' \subseteq Email /\ restored' \in BOOLEAN
  BY <1>1, <1>3 DEF Inv, fileVars
<1>6. RestoreFaithful'
  BY DEF Inv, RestoreFaithful, Own, RowsAt, Live, fileVars
<1> QED  BY <1>4, <1>5, <1>6 DEF Inv

(* The fields of an export that one of its steps writes.                   *)
WithObject(b, todo, ics, items, href, pending) ==
  [b EXCEPT !.todo = todo, !.ics = ics, !.items = items, !.href = href, !.pending = pending]

WithFile(b, pending, files) == [b EXCEPT !.pending = pending, !.files = files]

WithAccount(b, acc, pc) == [b EXCEPT !.account = acc, !.pc = pc]

LEMMA ObjectWritten ==
  ASSUME NEW b, IsExport(b), NEW todo, NEW ics, NEW items, NEW href, NEW pending
  PROVE  WithObject(b, todo, ics, items, href, pending)
           = Export(b.pc, b.kind, b.of, b.was, b.account, todo, b.obj, items, href, pending, ics,
                    b.files)
<1> DEFINE c1 == [b EXCEPT !.todo = todo]
           c2 == [c1 EXCEPT !.ics = ics]
           c3 == [c2 EXCEPT !.items = items]
           c4 == [c3 EXCEPT !.href = href]
           c5 == [c4 EXCEPT !.pending = pending]
<1>1. WithObject(b, todo, ics, items, href, pending) = c5
  BY DEF WithObject
<1> DEFINE E(to, it, hr, pe, ic) ==
             Export(b.pc, b.kind, b.of, b.was, b.account, to, b.obj, it, hr, pe, ic, b.files)
<1>2. b = E(b.todo, b.items, b.href, b.pending, b.ics)
  BY DEF IsExport
<1>3. \A d, to, it, hr, pe, ic : d = E(to, it, hr, pe, ic) =>
        /\ [d EXCEPT !.todo = todo] = E(todo, it, hr, pe, ic)
        /\ [d EXCEPT !.ics = ics] = E(to, it, hr, pe, ics)
        /\ [d EXCEPT !.items = items] = E(to, items, hr, pe, ic)
        /\ [d EXCEPT !.href = href] = E(to, it, href, pe, ic)
        /\ [d EXCEPT !.pending = pending] = E(to, it, hr, pending, ic)
  BY DEF Export
<1> HIDE DEF E
<1>4. c1 = E(todo, b.items, b.href, b.pending, b.ics)
  BY <1>2, <1>3
<1> HIDE DEF c1
<1>5. c2 = E(todo, b.items, b.href, b.pending, ics)
  BY <1>3, <1>4
<1> HIDE DEF c2
<1>6. c3 = E(todo, items, b.href, b.pending, ics)
  BY <1>3, <1>5
<1> HIDE DEF c3
<1>7. c4 = E(todo, items, href, b.pending, ics)
  BY <1>3, <1>6
<1> HIDE DEF c4
<1>8. c5 = E(todo, items, href, pending, ics)
  BY <1>3, <1>7
<1> QED  BY <1>1, <1>8 DEF E

LEMMA FileWritten ==
  ASSUME NEW b, IsExport(b), NEW pending, NEW files
  PROVE  WithFile(b, pending, files)
           = Export(b.pc, b.kind, b.of, b.was, b.account, b.todo, b.obj, b.items, b.href, pending,
                    b.ics, files)
<1> DEFINE c1 == [b EXCEPT !.pending = pending]
           c2 == [c1 EXCEPT !.files = files]
           E(pe, fi) == Export(b.pc, b.kind, b.of, b.was, b.account, b.todo, b.obj, b.items,
                               b.href, pe, b.ics, fi)
<1>1. WithFile(b, pending, files) = c2
  BY DEF WithFile
<1>2. b = E(b.pending, b.files)
  BY DEF IsExport
<1>3. \A d, pe, fi : d = E(pe, fi) => /\ [d EXCEPT !.pending = pending] = E(pending, fi)
                                      /\ [d EXCEPT !.files = files] = E(pe, files)
  BY DEF Export
<1> HIDE DEF E
<1>4. c1 = E(pending, b.files)
  BY <1>2, <1>3
<1> HIDE DEF c1
<1>5. c2 = E(pending, files)
  BY <1>3, <1>4
<1> QED  BY <1>1, <1>5 DEF E

LEMMA AccountWritten ==
  ASSUME NEW b, IsExport(b), NEW acc, NEW pc
  PROVE  WithAccount(b, acc, pc)
           = Export(pc, b.kind, b.of, b.was, acc, b.todo, b.obj, b.items, b.href, b.pending,
                    b.ics, b.files)
<1> DEFINE c1 == [b EXCEPT !.account = acc]
           c2 == [c1 EXCEPT !.pc = pc]
           E(a, p) == Export(p, b.kind, b.of, b.was, a, b.todo, b.obj, b.items,
                             b.href, b.pending, b.ics, b.files)
<1>1. WithAccount(b, acc, pc) = c2
  BY DEF WithAccount
<1>2. b = E(b.account, b.pc)
  BY DEF IsExport
<1>3. \A d, a, p : d = E(a, p) => /\ [d EXCEPT !.account = acc] = E(acc, p)
                                  /\ [d EXCEPT !.pc = pc] = E(a, pc)
  BY DEF Export
<1> HIDE DEF E
<1>4. c1 = E(acc, b.pc)
  BY <1>2, <1>3
<1> HIDE DEF c1
<1>5. c2 = E(acc, pc)
  BY <1>3, <1>4
<1> QED  BY <1>1, <1>5 DEF E

LEMMA WriteObjectKeepsInv ==
  ASSUME Inv, NEW h \in Href, writeObject(h)
  PROVE  Inv'
<1> DEFINE K == Known(db, build, archive)
           b == build
           item == [href |-> h, uid |-> b.obj[h].uid]
           c == [b EXCEPT !.todo = b.todo \ {h}, !.ics = [b.ics EXCEPT ![SegmentOf[h]] = b.obj[h].ics],
                          !.items = b.items \cup {item},
                          !.href = h, !.pending = Ids(RowsAt(db, h))]
<1>1. /\ b.pc = "objects" /\ h \in b.todo /\ b.pending = {} /\ build' = c
      /\ UNCHANGED <<fileVars, account, others, archive, restored>>
  BY DEF writeObject
<1>2. BuildTyped(b) /\ BuildOK(b, db, K) /\ b # NoBuild /\ IdsOK(db, K) /\ db \in Sane
  BY <1>1, BuildPc DEF Inv, FileInv
<1>3. BuildCurrent(b, db)
  BY <1>2 DEF BuildOK
<1>4. IsExport(b)
  BY <1>2 DEF BuildTyped
<1> DEFINE todo == b.todo \ {h}
           ics == [b.ics EXCEPT ![SegmentOf[h]] = b.obj[h].ics]
           items == b.items \cup {item}
           pending == Ids(RowsAt(db, h))
<1>5. c = WithObject(b, todo, ics, items, h, pending)
  BY DEF WithObject
<1> HIDE DEF b, c, todo, ics, items, pending
<1>6. c = Export(b.pc, b.kind, b.of, b.was, b.account, todo, b.obj, items, h, pending, ics, b.files)
  BY <1>4, <1>5, ObjectWritten
<1>7. /\ c.pc = "objects" /\ c.kind = b.kind /\ c.of = b.of /\ c.todo = todo /\ c.obj = b.obj
      /\ c.items = items /\ c.href = h /\ c.pending = pending /\ c.ics = ics
      /\ c.files = b.files /\ c.was = b.was /\ c.account = b.account
  BY <1>1, <1>6, ExportIs DEF b
<1>8. IsExport(c)
  BY <1>6, ExportIs
<1>9. /\ h \in Listed(b.obj) /\ h \notin Done(b) /\ Done(c) = Done(b) \cup {h}
      /\ Done(b) \subseteq Href /\ b.obj[h].ics \in Body
  BY <1>1, <1>2, <1>7 DEF BuildTyped, Done, Snapshot, Listed, todo
<1>10. Kept(c.obj, Done(c), c.items, c.ics)
  <2>1. Kept(b.obj, Done(b), b.items, b.ics)
    BY <1>2 DEF BuildTyped
  <2>2. c.items = {[href |-> k, uid |-> c.obj[k].uid] : k \in Done(c)}
    <3>1. b.items = {[href |-> k, uid |-> b.obj[k].uid] : k \in Done(b)}
      BY <2>1 DEF Kept
    <3> QED  BY <1>7, <1>9, <3>1 DEF items, item
  <2>3. ics \in [Segment -> Body \cup {None}] /\ ics[SegmentOf[h]] = b.obj[h].ics
        /\ \A x \in Segment : x # SegmentOf[h] => ics[x] = b.ics[x]
    BY <1>9, <2>1, SegmentAssumption DEF Kept, ics
  <2>4. ASSUME NEW k \in Done(c)
        PROVE  \E g \in Done(c) : SegmentOf[g] = SegmentOf[k] /\ ics[SegmentOf[k]] = b.obj[g].ics
    <3>1. CASE SegmentOf[k] = SegmentOf[h]
      BY <1>9, <2>3, <3>1
    <3>2. CASE SegmentOf[k] # SegmentOf[h]
      <4>1. k \in Done(b) /\ SegmentOf[k] \in Segment
        BY <1>9, <2>4, <3>2, SegmentAssumption
      <4>2. PICK g \in Done(b) : SegmentOf[g] = SegmentOf[k] /\ b.ics[SegmentOf[k]] = b.obj[g].ics
        BY <2>1, <4>1 DEF Kept
      <4> QED  BY <1>9, <2>3, <3>2, <4>1, <4>2
    <3> QED  BY <3>1, <3>2
  <2> QED  BY <1>7, <2>2, <2>3, <2>4 DEF Kept
<1>11. BuildTyped(c)
  <2>1. IsFiniteSet(items)
    BY <1>2, FS_AddElement DEF BuildTyped, items
  <2>2. c.todo \subseteq Listed(c.obj) /\ Snapshot(c.obj) /\ c.kind \in Kind
        /\ c.files \subseteq Row /\ IsFiniteSet(c.files) /\ c.account \in Account
    BY <1>2, <1>7 DEF BuildTyped, todo
  <2> QED  BY <1>7, <1>8, <1>10, <2>1, <2>2 DEF BuildTyped
<1>12. \A i \in pending : \E q \in db.rows : q.href = h /\ q.id = i
  BY DEF pending, Ids, RowsAt
<1>13. db.rows \subseteq K /\ db.rows \subseteq Row
  BY <1>2, SaneIs DEF Known
<1> HIDE DEF K
<1>14. PendingOK(c, db, K)
  <2>1. \A i \in pending : i \in Nat /\ i <= db.next
    BY <1>2, <1>12, <1>13 DEF IdsOK, Row, Id
  <2>2. \A r \in K : r.id \in pending => r.href = h
    BY <1>2, <1>12, <1>13 DEF IdsOK
  <2> QED  BY <1>7, <1>9, <2>1, <2>2 DEF PendingOK
<1>15. BuildCurrent(c, db)
  <2>1. SUFFICES ASSUME b.of # None
                 PROVE  b.of = db /\ b.obj = db.obj
                        /\ b.files = {r \in db.rows : r.href \in Done(c) /\ r.id \notin pending}
    BY <1>7 DEF BuildCurrent
  <2>2. b.of = db /\ b.obj = db.obj
        /\ b.files = {r \in db.rows : r.href \in Done(b) /\ r.id \notin {}}
    BY <1>1, <1>3, <2>1 DEF BuildCurrent, b
  <2>3. ASSUME NEW r \in db.rows
        PROVE  r.href \in Done(b) <=> (r.href \in Done(c) /\ r.id \notin pending)
    <3>1. CASE r.href = h
      BY <1>9, <3>1 DEF pending, Ids, RowsAt
    <3>2. CASE r.href # h
      BY <1>2, <1>9, <1>12, <1>13, <3>2 DEF IdsOK
    <3> QED  BY <3>1, <3>2
  <2> QED  BY <2>2, <2>3
<1>16. Known(db, c, archive) \subseteq K
  BY <1>2, <1>7 DEF Known, K, b
<1>17. AccountRead'
  <2>1. AccountRead
    BY DEF Inv
  <2>2. account' = account
    BY <1>1
  <2> QED  BY <1>1, <1>2, <1>7, <2>1, <2>2 DEF AccountRead, b
<1> QED  BY <1>1, <1>11, <1>14, <1>15, <1>16, <1>17, ExportKeepsInv DEF K

LEMMA WriteFileKeepsInv ==
  ASSUME Inv, NEW id, writeFile(id)
  PROVE  Inv'
<1> DEFINE K == Known(db, build, archive)
           b == build
           found == {x \in db.rows : x.id = id}
           read == {[id |-> r.id, href |-> b.href, file |-> r.file] : r \in found}
           c == [b EXCEPT !.pending = b.pending \ {id}, !.files = b.files \cup read]
<1>1. /\ b.pc = "objects" /\ id \in b.pending /\ build' = c
      /\ UNCHANGED <<fileVars, account, others, archive, restored>>
  BY DEF writeFile
<1>2. BuildTyped(b) /\ BuildOK(b, db, K) /\ b # NoBuild /\ IdsOK(db, K) /\ db \in Sane
  BY <1>1, BuildPc DEF Inv, FileInv
<1>3. BuildCurrent(b, db) /\ PendingOK(b, db, K)
  BY <1>2 DEF BuildOK
<1>4. IsExport(b)
  BY <1>2 DEF BuildTyped
<1>5. db.rows \subseteq K /\ db.rows \subseteq Row /\ IsFiniteSet(db.rows)
  BY <1>2, SaneIs DEF Known
<1>6. \A r \in found : r \in Row /\ r.href = b.href
  BY <1>1, <1>3, <1>5 DEF PendingOK
<1>7. \A r \in found : [id |-> r.id, href |-> b.href, file |-> r.file] = r
  BY <1>6 DEF Row
<1>8. read = found
  BY <1>7
<1> DEFINE pending == b.pending \ {id}
           files == b.files \cup found
<1>9. c = WithFile(b, pending, files)
  BY <1>8 DEF WithFile
<1> HIDE DEF b, c, pending, files, found, K
<1>10. c = Export(b.pc, b.kind, b.of, b.was, b.account, b.todo, b.obj, b.items, b.href, pending,
                  b.ics, files)
  BY <1>4, <1>9, FileWritten
<1>11. /\ c.pc = "objects" /\ c.kind = b.kind /\ c.of = b.of /\ c.todo = b.todo /\ c.obj = b.obj
       /\ c.items = b.items /\ c.href = b.href /\ c.pending = pending /\ c.ics = b.ics
       /\ c.files = files /\ c.was = b.was /\ c.account = b.account
  BY <1>1, <1>10, ExportIs DEF b
<1>12. IsExport(c)
  BY <1>10, ExportIs
<1>13. Done(c) = Done(b)
  BY <1>11 DEF Done
<1>14. found \subseteq db.rows /\ IsFiniteSet(found)
  BY <1>5, FS_Subset DEF found
<1>15. BuildTyped(c)
  <2>1. files \subseteq Row /\ IsFiniteSet(files)
    BY <1>2, <1>5, <1>14, FS_Union DEF BuildTyped, files
  <2> QED  BY <1>2, <1>11, <1>12, <1>13, <2>1 DEF BuildTyped
<1>16. PendingOK(c, db, K)
  BY <1>3, <1>11, <1>13 DEF PendingOK, pending
<1>17. BuildCurrent(c, db)
  <2>1. SUFFICES ASSUME b.of # None
                 PROVE  b.of = db /\ b.obj = db.obj
                        /\ files = {r \in db.rows : r.href \in Done(b) /\ r.id \notin pending}
    BY <1>11, <1>13 DEF BuildCurrent
  <2>2. b.of = db /\ b.obj = db.obj
        /\ b.files = {r \in db.rows : r.href \in Done(b) /\ r.id \notin b.pending}
    BY <1>3, <2>1 DEF BuildCurrent
  <2>3. b.href \in Done(b)
    BY <1>1, <1>3 DEF PendingOK, b
  <2>4. ASSUME NEW r \in db.rows
        PROVE  (r.href \in Done(b) /\ r.id \notin pending)
                 <=> ((r.href \in Done(b) /\ r.id \notin b.pending) \/ r \in found)
    BY <1>1, <1>6, <2>3 DEF pending, found, b
  <2> QED  BY <1>14, <2>2, <2>4 DEF files
<1>18. Known(db, c, archive) \subseteq K
  <2>1. files \subseteq K
    BY <1>2, <1>5, <1>14 DEF files, Known, K, b
  <2> QED  BY <1>11, <2>1 DEF Known, K
<1>19. AccountRead'
  <2>1. AccountRead
    BY DEF Inv
  <2>2. account' = account
    BY <1>1
  <2> QED  BY <1>1, <1>2, <1>11, <2>1, <2>2 DEF AccountRead, b, c
<1> QED  BY <1>1, <1>15, <1>16, <1>17, <1>18, <1>19, ExportKeepsInv DEF K

(* A table of the account is read.                                         *)
LEMMA ReadKeepsInv ==
  ASSUME Inv, build # NoBuild, build.todo = {}, build.pending = {},
         NEW acc \in Account, build.was # None => acc = account,
         NEW pc \in {"tokens", "shares", "written"}, build' = WithAccount(build, acc, pc),
         UNCHANGED <<fileVars, account, others, archive, restored>>
  PROVE  Inv'
<1> DEFINE K == Known(db, build, archive)
           b == build
           c == WithAccount(b, acc, pc)
<1>1. BuildTyped(b) /\ BuildCurrent(b, db) /\ PendingOK(b, db, K) /\ AccountRead
  BY DEF Inv, BuildOK
<1>2. c = Export(pc, b.kind, b.of, b.was, acc, b.todo, b.obj, b.items, b.href, b.pending, b.ics,
                 b.files)
  BY <1>1, AccountWritten DEF BuildTyped
<1> HIDE DEF c
<1>3. /\ IsExport(c)
      /\ c.pc = pc /\ c.kind = b.kind /\ c.of = b.of /\ c.was = b.was /\ c.account = acc
      /\ c.todo = b.todo /\ c.obj = b.obj /\ c.items = b.items /\ c.href = b.href
      /\ c.pending = b.pending /\ c.ics = b.ics /\ c.files = b.files
  BY <1>2, ExportIs
<1>4. Done(c) = Done(b)
  BY <1>3 DEF Done
<1>5. BuildTyped(c)
  BY <1>1, <1>3, <1>4 DEF BuildTyped
<1>6. PendingOK(c, db, K) /\ BuildCurrent(c, db)
  BY <1>1, <1>3, <1>4 DEF PendingOK, BuildCurrent
<1>7. Known(db, c, archive) \subseteq K
  BY <1>3 DEF Known
<1>8. build' = c
  BY DEF c
<1>9. AccountRead'
  BY <1>1, <1>3, <1>8 DEF AccountRead
<1> QED  BY <1>5, <1>6, <1>7, <1>8, <1>9, ExportKeepsInv

LEMMA AccountReadsKeepInv ==
  ASSUME Inv, buildAccount \/ ListBackups \/ ListShares
  PROVE  Inv'
<1>1. account \in Account /\ AccountRead
      /\ (build # NoBuild => BuildTyped(build)) /\ (build = NoBuild <=> build.pc = "idle")
  BY BuildPc DEF Inv
<1>2. build # NoBuild /\ build.todo = {} /\ build.pending = {} /\ build.account \in Account
      /\ UNCHANGED <<fileVars, account, others, archive, restored>>
  BY <1>1 DEF buildAccount, ListBackups, ListShares, Complete, BuildTyped
<1>3. build.was # None => build.account = account
  BY <1>1, <1>2 DEF AccountRead
<1>4. CASE buildAccount
  <2> DEFINE acc == [build.account EXCEPT !.password = account.password]
  <2>1. build' = WithAccount(build, acc, "tokens")
    BY <1>4 DEF buildAccount, WithAccount
  <2>2. acc \in Account /\ (build.account = account => acc = account)
    BY <1>1, <1>2 DEF Account
  <2> HIDE DEF acc
  <2> QED  BY <1>2, <1>3, <2>1, <2>2, ReadKeepsInv
<1>5. CASE ListBackups
  <2> DEFINE acc == [build.account EXCEPT !.tokens = account.tokens]
  <2>1. build' = WithAccount(build, acc, "shares")
    BY <1>5 DEF ListBackups, WithAccount
  <2>2. acc \in Account /\ (build.account = account => acc = account)
    BY <1>1, <1>2 DEF Account
  <2> HIDE DEF acc
  <2> QED  BY <1>2, <1>3, <2>1, <2>2, ReadKeepsInv
<1>6. CASE ListShares
  <2> DEFINE acc == [build.account EXCEPT !.shares = account.shares]
  <2>1. build' = WithAccount(build, acc, "written")
    BY <1>6 DEF ListShares, WithAccount
  <2>2. acc \in Account /\ (build.account = account => acc = account)
    BY <1>1, <1>2 DEF Account
  <2> HIDE DEF acc
  <2> QED  BY <1>2, <1>3, <2>1, <2>2, ReadKeepsInv
<1> QED  BY <1>4, <1>5, <1>6

LEMMA WriteUserBackupKeepsInv ==
  ASSUME Inv, writeUserBackup
  PROVE  Inv'
<1> DEFINE b == build
           K == Known(db, build, archive)
           a == [kind |-> b.kind, of |-> b.of, was |-> b.was, items |-> b.items, ics |-> b.ics,
                 files |-> b.files, account |-> b.account]
<1>1. /\ b.pc = "written" \/ (b.pc = "objects" /\ b.todo = {} /\ b.pending = {})
      /\ archive' = a /\ build' = NoBuild
      /\ restored' = FALSE /\ UNCHANGED <<fileVars, account, others>>
  BY DEF writeUserBackup, Complete
<1>2. BuildTyped(b) /\ BuildOK(b, db, K) /\ b # NoBuild /\ IdsOK(db, K) /\ db \in Sane
  BY <1>1, BuildPc DEF Inv, FileInv
<1>3. BuildCurrent(b, db) /\ AccountRead /\ b.todo = {} /\ b.pending = {}
  BY <1>1, <1>2 DEF BuildOK, BuildTyped, Inv
<1>4. /\ a.kind = b.kind /\ a.of = b.of /\ a.items = b.items /\ a.ics = b.ics /\ a.files = b.files
      /\ a.account = b.account /\ a.was = b.was
  OBVIOUS
<1> HIDE DEF a
<1>5. Done(b) = Listed(b.obj)
  BY <1>3 DEF Done
<1>6. /\ a.items = {[href |-> h, uid |-> b.obj[h].uid] : h \in Listed(b.obj)}
      /\ \A h \in Listed(b.obj) : \E g \in Listed(b.obj) :
           SegmentOf[g] = SegmentOf[h] /\ a.ics[SegmentOf[h]] = b.obj[g].ics
  BY <1>2, <1>4, <1>5 DEF BuildTyped, Kept
<1>7. b.obj \in [Href -> Object \cup {None}]
      /\ \A h \in Listed(b.obj) : h \in Href /\ b.obj[h] \in Object /\ b.obj[h].ics \in Body
  BY <1>2 DEF BuildTyped, Snapshot, Listed
<1>8. \A i \in a.items : /\ i.href \in Listed(b.obj) /\ i.uid = b.obj[i.href].uid
                         /\ i = [href |-> i.href, uid |-> b.obj[i.href].uid]
  BY <1>6
<1> HIDE DEF b
<1>9. Restorable(a)
  <2>1. a.items \subseteq [href : Href, uid : Uid]
    BY <1>6, <1>7 DEF Object
  <2>2. ASSUME NEW i \in a.items, NEW j \in a.items, i.href = j.href  PROVE i = j
    BY <1>8, <2>2
  <2>3. \A i \in a.items : Open(a, i) \in Body
    BY <1>6, <1>7, <1>8 DEF Open
  <2>4. IsFiniteSet(a.items) /\ a.files \subseteq Row /\ IsFiniteSet(a.files)
    BY <1>2, <1>4 DEF BuildTyped
  <2> QED  BY <2>1, <2>2, <2>3, <2>4 DEF Restorable
<1>10. ASSUME a.of # None  PROVE Depicts(a, a.of)
  <2>1. a.of = db /\ b.obj = db.obj
        /\ a.files = {r \in db.rows : r.href \in Listed(db.obj) /\ r.id \notin {}}
    BY <1>3, <1>4, <1>5, <1>10 DEF BuildCurrent, b
  <2>2. a.files = db.rows
    BY <1>2, <2>1, SaneIs DEF Listed
  <2>3. Kept(db.obj, Listed(db.obj), a.items, a.ics)
    BY <1>2, <1>4, <1>5, <2>1 DEF BuildTyped
  <2> QED  BY <1>2, <2>1, <2>2, <2>3 DEF Depicts, Inv
<1>11. ArchiveOK(a)
  <2>1. a.was # None => a.account = a.was
    BY <1>2, <1>3, <1>4 DEF AccountRead, b
  <2> QED  BY <1>2, <1>4, <1>9, <1>10, <2>1 DEF ArchiveOK, BuildTyped
<1>12. Known(db, NoBuild, a) \subseteq K
  BY <1>2, <1>4 DEF Known, b
<1>13. IdsOK(db, Known(db, NoBuild, a))
  BY <1>2, <1>12 DEF IdsOK
<1>14. BuildOK(NoBuild, db, Known(db, NoBuild, a))
  BY DEF BuildOK
<1>15. FileInv'
  BY <1>1, FilesUnchanged DEF fileVars, Inv, FileInv
<1>16. /\ IdsOK(db', Known(db', build', archive')) /\ BuildOK(build', db', Known(db', build', archive'))
       /\ Limited(db') /\ ArchiveOK(archive')
       /\ account' \in Account /\ others' \subseteq Email /\ restored' \in BOOLEAN
       /\ AccountRead'
  BY <1>1, <1>11, <1>13, <1>14 DEF Inv, fileVars, AccountRead
<1>17. RestoreFaithful'
  BY <1>1 DEF Inv, RestoreFaithful
<1> QED  BY <1>15, <1>16, <1>17 DEF Inv

(* The account that a restore leaves.                                      *)
LEMMA AccountRestored ==
  ASSUME Inv, archive # None
  PROVE  /\ AccountOf(archive) \in Account
         /\ AccountOf(archive).email \notin others
         /\ archive.kind = "full" =>
              /\ AccountOf(archive).password = archive.account.password
              /\ AccountOf(archive).tokens = archive.account.tokens
              /\ AccountOf(archive).email # archive.account.email => archive.account.email \in others
              /\ archive.account.shares # {} => AccountOf(archive).shares = archive.account.shares
<1> DEFINE a == archive.account
           email == IF a.email \in others THEN account.email ELSE a.email
           shares == restoreShares(a)
<1>1. account \in Account /\ account.email \notin others /\ a \in Account
  BY DEF Inv, RestoreFaithful, ArchiveOK
<1>2. /\ shares \in SUBSET Grantee /\ (a.shares # {} => shares = a.shares)
      /\ email \in Email /\ email \notin others /\ (email # a.email => a.email \in others)
  BY <1>1 DEF restoreShares, Account
<1> HIDE DEF email, shares
<1>3. restoreAccount(a) = [a EXCEPT !.email = email, !.shares = shares]
  BY DEF restoreAccount, email, shares
<1>4. /\ restoreAccount(a) \in Account
      /\ restoreAccount(a).email = email /\ restoreAccount(a).shares = shares
      /\ restoreAccount(a).password = a.password /\ restoreAccount(a).tokens = a.tokens
  BY <1>1, <1>2, <1>3 DEF Account
<1> HIDE DEF a
<1>5. AccountOf(archive) = IF archive.kind = "full" THEN restoreAccount(a) ELSE account
  BY DEF AccountOf, a
<1> QED  BY <1>1, <1>2, <1>4, <1>5 DEF a

LEMMA EmptiedIsEasy ==
  ASSUME db \in Sane
  PROVE  Limited(Emptied)
<1>1. Emptied \in Sane /\ Emptied.rows = {} /\ \A h \in Href : Emptied.obj[h] = None
  BY EmptiedIs
<1>2. \A h : RowsAt(Emptied, h) = {}
  BY <1>1 DEF RowsAt
<1>3. Sum(Weight, {}) = 0 /\ Cardinality({}) = 0
  BY SumEmpty, FS_EmptySet
<1>4. \A h : Usage(Emptied, h) = 0
  BY <1>1, <1>2, <1>3, UsageIs
<1> QED  BY <1>1, <1>2, <1>3, <1>4, BoundAssumption DEF Limited

LEMMA RestoreKeepsInv ==
  ASSUME Inv, Restore
  PROVE  Inv'
<1> DEFINE S == restoreCalendars(archive)
<1>1. /\ archive # None /\ requests' = requests
      /\ S.next <= MaxId /\ Store(S, {})
      /\ account' = AccountOf(archive) /\ restored' = TRUE
      /\ build' = IF build.pc = "idle" THEN build ELSE [build EXCEPT !.of = None, !.was = None]
      /\ UNCHANGED <<hd, others, archive>>
  BY DEF Restore
<1>2. FileInv /\ db \in Sane /\ ArchiveOK(archive) /\ Restorable(archive) /\ archive.files \in SUBSET Row
  BY <1>1 DEF Inv, FileInv, ArchiveOK, Restorable
<1>3. Replayed(archive, S, archive.items)
  BY <1>2, CalendarsRestored
<1>4. archive.of # None => Returned(archive, archive.of, S)
  BY <1>1, <1>2, DepictedReturns DEF ArchiveOK
<1> HIDE DEF S
<1>5. S \in Sane /\ Follows(Emptied, S, archive.files) /\ \A h \in Href : InStepAt(S, h)
  BY <1>3 DEF Replayed
<1>6. db' = S
  BY <1>1 DEF Store
<1>7. FileInv'
  <2>1. /\ db' \in Sane /\ db'.next <= MaxId /\ outOfStep' \subseteq Href
        /\ \A h \in Href \ outOfStep' : InStepAt(db', h)
    BY <1>1, <1>2, <1>5, StoreKeeps DEF FileInv
  <2>2. LocalsOK' /\ requests' \in 0..MaxRequests
    BY <1>1, <1>2 DEF FileInv, LocalsOK
  <2> QED  BY <2>1, <2>2 DEF FileInv
<1>8. /\ build' = build \/ Less(build, build')
      /\ build = NoBuild \/ build'.of = None
      /\ build' = NoBuild \/ build'.was = None
  <2>1. (build = NoBuild <=> build.pc = "idle") /\ (build # NoBuild => BuildTyped(build))
    BY BuildPc DEF Inv
  <2>2. CASE build = NoBuild
    BY <1>1, <2>1, <2>2
  <2>3. CASE build # NoBuild
    <3>1. build' = [build EXCEPT !.of = None, !.was = None]
      BY <1>1, <2>1, <2>3
    <3>2. Less(build, build')
      BY <2>3, <3>1 DEF Less
    <3> QED  BY <2>1, <2>3, <3>1, <3>2, Forgotten
  <2> QED  BY <2>2, <2>3
<1>9. /\ Limited(db')
      /\ IdsOK(db', Known(db', build', archive'))
      /\ BuildOK(build', db', Known(db', build', archive'))
  <2>1. Emptied \in Sane /\ Emptied.next = db.next /\ Emptied.rows = {}
    BY <1>2, EmptiedIs
  <2>2. Limited(Emptied)
    BY <1>2, EmptiedIsEasy
  <2>3. Emptied.rows \cup archive.files \subseteq Known(db, build, archive)
    BY <1>1, <2>1 DEF Known
  <2>4. db' \in Sane /\ Follows(Emptied, db', archive.files) /\ archive' = archive
    BY <1>1, <1>5, <1>6
  <2> QED  BY <1>2, <1>8, <2>1, <2>2, <2>3, <2>4, TablesStay
<1>10. /\ account' \in Account /\ account'.email \notin others'
       /\ archive'.kind = "full" =>
            /\ account'.password = archive'.account.password
            /\ account'.tokens = archive'.account.tokens
            /\ account'.email # archive'.account.email => archive'.account.email \in others'
            /\ archive'.account.shares # {} => account'.shares = archive'.account.shares
  BY <1>1, AccountRestored
<1>11. others' \subseteq Email /\ restored' \in BOOLEAN /\ ArchiveOK(archive') /\ AccountRead'
  BY <1>1, <1>2, <1>8, AccountStays DEF Inv
<1>12. RestoreFaithful'
  <2>1. archive' = archive /\ (archive.was # None => archive.account = archive.was)
    BY <1>1, <1>2 DEF ArchiveOK
  <2>2. archive'.of # None => Returned(archive', archive'.of, db')
    BY <1>4, <1>6, <2>1
  <2>3. archive'.was # None => archive'.account = archive'.was
    BY <2>1
  <2>4. archive'.of # None =>
          /\ \A h \in Live(db') : h \in Live(archive'.of) /\ db'.obj[h].uid = archive'.of.obj[h].uid
          /\ \A h \in Live(archive'.of) :
               \E g \in Live(db') : db'.obj[g].uid = archive'.of.obj[h].uid
          /\ \A r \in archive'.of.rows : r.href \in Live(db') => r \in db'.rows
          /\ \A h \in Own(archive') \cap Live(db') :
               /\ db'.obj[h].ics.uid = archive'.of.obj[h].ics.uid
               /\ DOMAIN db'.obj[h].ics.parts = DOMAIN archive'.of.obj[h].ics.parts
               /\ RefsOf(db'.obj[h].ics) = Ids(RowsAt(db', h))
    BY <2>2 DEF Returned
  <2> QED  BY <1>10, <2>3, <2>4 DEF RestoreFaithful
<1> QED  BY <1>7, <1>9, <1>10, <1>11, <1>12 DEF Inv

(* Nothing happens to the tables, and to the export only that the account  *)
(* is no longer what it was.                                               *)
LEMMA TablesUnchanged ==
  ASSUME Inv, UNCHANGED <<db, hd, outOfStep, archive>>, requests' \in 0..MaxRequests,
         build' = build \/ Less(build, build'), AccountRead',
         account' \in Account, others' \subseteq Email, restored' \in BOOLEAN, RestoreFaithful'
  PROVE  Inv'
<1>1. FileInv' /\ db \in Sane /\ db' = db /\ Limited(db)
  BY FilesUnchanged DEF Inv, FileInv
<1>2. build = NoBuild \/ BuildTyped(build)
  BY DEF Inv, BuildOK
<1>3. Known(db', build', archive') \subseteq Known(db, build, archive)
  <2>1. Known(db, build', archive) \subseteq Known(db, build, archive) \cup db.rows
    BY <1>2, KnownStays
  <2> QED  BY <1>1, <2>1 DEF Known
<1>4. IdsOK(db', Known(db', build', archive'))
  BY <1>1, <1>3 DEF Inv, IdsOK
<1>5. BuildOK(build', db', Known(db', build', archive'))
  <2>1. \A r \in Known(db', build', archive') : r.id \in Nat
    BY <1>3, KnownRows DEF Row, Id
  <2>2. db.next <= db'.next
    BY <1>1, SaneIs
  <2> QED  BY <1>1, <1>3, <2>1, <2>2, BuildStays DEF Inv
<1> QED  BY <1>1, <1>4, <1>5 DEF Inv

LEMMA ChangesKeepInv ==
  ASSUME Inv, Changes, account' \in Account, others' \subseteq Email, account'.email \notin others'
  PROVE  Inv'
<1>1. /\ requests < MaxRequests /\ requests' = requests + 1 /\ restored' = FALSE
      /\ build' = IF build.pc = "idle" THEN build ELSE [build EXCEPT !.was = None]
      /\ UNCHANGED <<db, hd, outOfStep, archive>>
  BY DEF Changes
<1>2. (build' = build \/ Less(build, build')) /\ (build' = NoBuild \/ build'.was = None)
  <2>1. (build = NoBuild <=> build.pc = "idle") /\ (build # NoBuild => BuildTyped(build))
    BY BuildPc DEF Inv
  <2>2. CASE build = NoBuild
    BY <1>1, <2>1, <2>2
  <2>3. CASE build # NoBuild
    <3>1. build' = [build EXCEPT !.was = None]
      BY <1>1, <2>1, <2>3
    <3>2. Less(build, build')
      BY <2>3, <3>1 DEF Less
    <3> QED  BY <2>1, <2>3, <3>1, <3>2, Forgotten
  <2> QED  BY <2>2, <2>3
<1>3. AccountRead'
  BY <1>2, AccountStays
<1>4. RestoreFaithful'
  BY <1>1 DEF RestoreFaithful
<1>5. requests' \in 0..MaxRequests
  BY <1>1, OneMore DEF Inv
<1> QED  BY <1>1, <1>2, <1>3, <1>4, <1>5, TablesUnchanged

LEMMA AccountKeepsInv ==
  ASSUME Inv,
         \/ changePassword \/ AddToken
         \/ \E e \in Email : UpdateProfile(e) \/ OthersUpdateProfile(e)
         \/ \E g \in Grantee : UpsertShare(g)
  PROVE  Inv'
<1>1. account \in Account /\ others \subseteq Email /\ account.email \notin others
  BY DEF Inv, RestoreFaithful
<1>2. ASSUME changePassword \/ AddToken  PROVE Inv'
  <2>1. account' \in Account /\ account'.email = account.email /\ others' = others /\ Changes
    BY <1>1, <1>2, StateAssumption DEF changePassword, AddToken, Account
  <2> QED  BY <1>1, <2>1, ChangesKeepInv
<1>3. ASSUME NEW e \in Email, UpdateProfile(e)  PROVE Inv'
  <2>1. account' \in Account /\ account'.email = e /\ e \notin others /\ others' = others /\ Changes
    BY <1>1, <1>3 DEF UpdateProfile, Account
  <2> QED  BY <1>1, <2>1, ChangesKeepInv
<1>4. ASSUME NEW e \in Email, OthersUpdateProfile(e)  PROVE Inv'
  <2>1. account' = account /\ others' = {e} /\ e # account.email /\ Changes
    BY <1>4 DEF OthersUpdateProfile
  <2> QED  BY <1>1, <2>1, ChangesKeepInv
<1>5. ASSUME NEW g \in Grantee, UpsertShare(g)  PROVE Inv'
  <2>1. account' \in Account /\ account'.email = account.email /\ others' = others /\ Changes
    BY <1>1, <1>5 DEF UpsertShare, Account
  <2> QED  BY <1>1, <2>1, ChangesKeepInv
<1> QED  BY <1>2, <1>3, <1>4, <1>5

LEMMA NextKeepsInv ==
  ASSUME Inv, [Next]_vars
  PROVE  Inv'
<1>1. CASE FileStep
  BY <1>1, FileStepKeepsInv
<1>2. CASE \E kind \in Kind : Build(kind)
  BY <1>2, BuildKeepsInv
<1>3. CASE \E h \in Href : writeObject(h)
  BY <1>3, WriteObjectKeepsInv
<1>4. CASE \E id \in 1..MaxId : writeFile(id)
  BY <1>4, WriteFileKeepsInv
<1>5. CASE buildAccount \/ ListBackups \/ ListShares
  BY <1>5, AccountReadsKeepInv
<1>6. CASE writeUserBackup
  BY <1>6, WriteUserBackupKeepsInv
<1>7. CASE Restore
  BY <1>7, RestoreKeepsInv
<1>8. CASE changePassword \/ AddToken \/ (\E e \in Email : UpdateProfile(e) \/ OthersUpdateProfile(e))
           \/ (\E g \in Grantee : UpsertShare(g))
  BY <1>8, AccountKeepsInv
<1>9. CASE RefuseRestore \/ UNCHANGED vars
  <2>1. UNCHANGED <<fileVars, account, others, build, archive, restored>>
    BY <1>9 DEF RefuseRestore, vars
  <2>2. requests' \in 0..MaxRequests
    BY <2>1 DEF fileVars, Inv, FileInv
  <2>3. AccountRead' /\ account' \in Account /\ others' \subseteq Email /\ restored' \in BOOLEAN
    BY <2>1 DEF Inv, AccountRead
  <2>4. RestoreFaithful'
    BY <2>1 DEF Inv, RestoreFaithful, Own, RowsAt, Live, fileVars
  <2>5. UNCHANGED <<db, hd, outOfStep, archive>> /\ build' = build
    BY <2>1 DEF fileVars
  <2> QED  BY <2>2, <2>3, <2>4, <2>5, TablesUnchanged
<1> QED  BY <1>1, <1>2, <1>3, <1>4, <1>5, <1>6, <1>7, <1>8, <1>9 DEF Next

LEMMA InitInv ==
  ASSUME Init
  PROVE  Inv
<1>1. /\ InitFiles /\ others = {} /\ build = NoBuild /\ archive = None /\ restored = FALSE
      /\ account = [email |-> CHOOSE e \in Email : TRUE, password |-> 0, tokens |-> 0, shares |-> {}]
  BY DEF Init
<1>2. FileInv /\ db = [obj |-> [h \in Href |-> None], older |-> {}, rows |-> {}, next |-> 0] /\ db \in Sane
  BY <1>1, InitFileInv DEF InitFiles, FileInv
<1>3. db.rows = {} /\ \A h \in Href : db.obj[h] = None
  BY <1>2
<1>4. account \in Account
  <2>1. (CHOOSE e \in Email : TRUE) \in Email
    BY EmailAssumption
  <2> QED  BY <1>1, <2>1, StateAssumption DEF Account
<1>5. Limited(db)
  <2>1. \A h : RowsAt(db, h) = {}
    BY <1>3 DEF RowsAt
  <2>2. Sum(Weight, {}) = 0 /\ Cardinality({}) = 0
    BY SumEmpty, FS_EmptySet
  <2>3. \A h : Usage(db, h) = 0
    BY <1>2, <2>1, <2>2, UsageIs
  <2> QED  BY <1>3, <2>1, <2>2, <2>3, BoundAssumption DEF Limited
<1>6. Known(db, build, archive) = {}
  BY <1>1, <1>3 DEF Known
<1>7. IdsOK(db, Known(db, build, archive)) /\ BuildOK(build, db, Known(db, build, archive))
      /\ ArchiveOK(archive) /\ RestoreFaithful /\ AccountRead
  BY <1>1, <1>6 DEF IdsOK, BuildOK, ArchiveOK, RestoreFaithful, AccountRead
<1> QED  BY <1>1, <1>2, <1>4, <1>5, <1>7 DEF Inv

LEMMA InvariantHolds == Spec => []Inv
<1>1. Init => Inv
  BY InitInv
<1>2. Inv /\ [Next]_vars => Inv'
  BY NextKeepsInv
<1> QED  BY <1>1, <1>2, PTL DEF Spec

-----------------------------------------------------------------------------
(* The theorems.                                                           *)

(* The tables, the locals of the requests, the export in progress, the     *)
(* archive and the account have their types: attachments.go, backup.go and *)
(* restore.go store nothing else in them.                                  *)
THEOREM TypeCorrect == Spec => []TypeOK
<1>1. Inv => TypeOK
  <2> SUFFICES ASSUME Inv  PROVE TypeOK
    OBVIOUS
  <2>1. db \in Sane /\ db.next <= MaxId /\ LocalsOK /\ requests \in 0..MaxRequests /\ outOfStep \subseteq Href
    BY DEF Inv, FileInv
  <2>2. db.obj \in [Href -> Object \cup {None}] /\ db.older \subseteq Href \X Href /\ db.rows \subseteq Row /\ db.next \in 0..MaxId
    BY <2>1, SaneIs, BoundAssumption
  <2>3. FileTypeOK
    BY <2>1, <2>2 DEF FileTypeOK, LocalsOK
  <2>4. account \in Account /\ others \subseteq Email /\ restored \in BOOLEAN
    BY DEF Inv
  <2>5. build # NoBuild => build.files \subseteq Row /\ build.todo \subseteq Href
                           /\ build.account \in Account
    BY DEF Inv, BuildOK, BuildTyped, Listed
  <2>6. archive # None => archive.files \subseteq Row /\ archive.account \in Account
    BY DEF Inv, ArchiveOK, Restorable
  <2> QED  BY <2>3, <2>4, <2>5, <2>6 DEF TypeOK
<1> QED  BY <1>1, InvariantHolds, PTL

(* The references in a body are the rows of its object, and every row has  *)
(* an object, also after a restore; but for the bodies that were stored on *)
(* an outdated view of the rows, the items an import gave up on, and       *)
(* bodies with ATTACHs in three components (storage/attachments.go,        *)
(* icsutil/attach.go, restoreObject).                                      *)
THEOREM InStepGuarantee == Spec => []InStep
<1>1. Inv => InStep
  BY SaneIs DEF Inv, FileInv, InStep
<1> QED  BY <1>1, InvariantHolds, PTL

(* CheckInlineAttachmentLimits and insertAttachment hold the number and    *)
(* the bytes of the files of an object down, and what a restore inserts.   *)
THEOREM LimitsGuarantee == Spec => []WithinLimits
<1>1. Inv => WithinLimits
  BY DEF Inv, Limited, WithinLimits
<1> QED  BY <1>1, InvariantHolds, PTL

(* What Build wrote while nobody else did, Restore brings back if Open     *)
(* takes the archive: every UID, no object that was not there, and the     *)
(* files under their ids, however many, and whatever came in between.  Of  *)
(* objects that share a UID the last to come back stays.  The account,     *)
(* which Build reads table by table, is what it was when nobody changed it *)
(* while Build ran.                                                        *)
THEOREM RestoreGuarantee == Spec => []RestoreFaithful
<1>1. Inv => RestoreFaithful
  BY DEF Inv
<1> QED  BY <1>1, InvariantHolds, PTL

=============================================================================
