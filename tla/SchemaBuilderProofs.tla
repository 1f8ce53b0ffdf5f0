------------------------ MODULE SchemaBuilderProofs -------------------------
(***************************************************************************)
(* Proofs about SchemaBuilder for every set of fields, keys, values and    *)
(* limits: what a published schema is, that finish() accepts exactly the   *)
(* schemas it should, and that the canonical bytes of each can be read     *)
(* back, part by part: numbers, texts, metadata, types, fields.            *)
(***************************************************************************)
EXTENDS SchemaBuilder, CommonLemmas, FiniteSetTheorems

-----------------------------------------------------------------------------
(* Sums.                                                                   *)

\* A family of subsets of a finite set that has every subset of which it has
\* all that lack one element has the set itself.
LEMMA SubsetInduction ==
  ASSUME NEW S, IsFiniteSet(S), NEW F,
         \A s \in SUBSET S : (\A x \in s : s \ {x} \in F) => s \in F
  PROVE  S \in F
<1> DEFINE Sizes == {Cardinality(s) : s \in {s \in SUBSET S : s \notin F}}
<1>1. \A s \in SUBSET S : IsFiniteSet(s) /\ Cardinality(s) \in Nat
  BY FS_Subset, FS_CardinalityType
<1>2. SUFFICES ASSUME Sizes # {} PROVE FALSE
  OBVIOUS
<1>3. Sizes \subseteq Nat
  BY <1>1
<1>4. PICK n \in Sizes : \A m \in Sizes : n <= m
  <2> HIDE DEF Sizes
  <2> QED
    BY <1>2, <1>3, LeastExists
<1>5. PICK s \in SUBSET S : s \notin F /\ n = Cardinality(s)
  BY <1>4
<1>6. PICK x \in s : s \ {x} \notin F
  BY <1>5
<1>7. s \ {x} \in SUBSET S /\ s \ {x} \notin F
  BY <1>5, <1>6
<1>8. Cardinality(s \ {x}) = n - 1 /\ n \in Nat
  BY <1>1, <1>5, <1>6, FS_RemoveElement
<1>9. Cardinality(s \ {x}) \in Sizes
  BY <1>7
<1>10. n <= Cardinality(s \ {x})
  BY <1>4, <1>9
<1> HIDE DEF Sizes
<1> QED
  BY <1>8, <1>10

\* What adding one element at a time makes of a sum
AddsUp(g, f, S) ==
  /\ g \in [SUBSET S -> Nat] /\ g[{}] = 0
  /\ \A s \in SUBSET S : \A x \in s : g[s] = f[x] + g[s \ {x}]

\* A sum over a set is what adding one element at a time makes of it.
LEMMA SumIs ==
  ASSUME NEW S, IsFiniteSet(S), NEW f, NEW g, AddsUp(g, f, S)
  PROVE  SumFunctionOnSet(f, S) = g[S]
<1>0. /\ g \in [SUBSET S -> Nat] /\ g[{}] = 0
      /\ \A s \in SUBSET S : \A x \in s : g[s] = f[x] + g[s \ {x}]
  BY DEF AddsUp
<1> DEFINE next(it, s) == IF s = {} THEN 0
                          ELSE f[CHOOSE x \in s : TRUE] + it[s \ {CHOOSE x \in s : TRUE}]
           sum[s \in SUBSET S] == IF s = {} THEN 0
                                  ELSE f[CHOOSE x \in s : TRUE] + sum[s \ {CHOOSE x \in s : TRUE}]
<1>1. SumFunctionOnSet(f, S) = sum[S]
  BY DEF SumFunctionOnSet, FoldFunctionOnSet, MapThenFoldSet
<1>2. g = [s \in SUBSET S |-> next(g, s)]
  <2>1. ASSUME NEW s \in SUBSET S PROVE g[s] = next(g, s)
    <3>1. CASE s = {}
      BY <1>0, <3>1
    <3>2. CASE s # {}
      <4>1. (CHOOSE x \in s : TRUE) \in s
        BY <3>2
      <4> QED
        BY <1>0, <3>2, <4>1
    <3> QED
      BY <3>1, <3>2
  <2> QED
    BY <1>0, <2>1
<1>3. sum = [s \in SUBSET S |-> next(sum, s)]
  <2>1. \E it : it = [s \in SUBSET S |-> next(it, s)]
    BY <1>2
  <2> QED
    BY <2>1
<1> HIDE DEF sum
<1> DEFINE F == {s \in SUBSET S : sum[s] = g[s]}
<1>4. sum[{}] = 0
  BY <1>3
<1>5. ASSUME NEW s \in SUBSET S, \A x \in s : s \ {x} \in F
      PROVE  s \in F
  <2>1. CASE s = {}
    BY <1>0, <1>4, <2>1
  <2>2. CASE s # {}
    <3> DEFINE x == CHOOSE x \in s : TRUE
    <3>1. x \in s
      BY <2>2
    <3>2. sum[s] = f[x] + sum[s \ {x}]
      BY <1>3, <2>2
    <3>3. sum[s \ {x}] = g[s \ {x}]
      BY <1>5, <3>1
    <3> QED
      BY <1>0, <3>1, <3>2, <3>3
  <2> QED
    BY <2>1, <2>2
<1> QED
  <2> HIDE DEF F
  <2>1. S \in F
    BY <1>5, SubsetInduction
  <2> QED
    BY <1>1, <2>1 DEF F

\* The bytes of the members of S, those of x being B[x], each with its owner
Owned(S, B) == UNION {{x} \X B[x] : x \in S}

\* A sum of sizes is the size of all of them together.
LEMMA SumCounts ==
  ASSUME NEW S, IsFiniteSet(S), NEW f, NEW B,
         \A x \in S : IsFiniteSet(B[x]) /\ Cardinality(B[x]) = f[x]
  PROVE  /\ IsFiniteSet(Owned(S, B))
         /\ SumFunctionOnSet(f, S) = Cardinality(Owned(S, B))
<1>1. ASSUME NEW s \in SUBSET S, NEW x \in s
      PROVE  /\ Owned(s, B) = Owned(s \ {x}, B) \cup ({x} \X B[x])
             /\ Owned(s \ {x}, B) \cap ({x} \X B[x]) = {}
  <2>1. s = (s \ {x}) \cup {x}
    OBVIOUS
  <2>2. \A a, b : Owned(a \cup b, B) = Owned(a, B) \cup Owned(b, B)
    BY Zenon DEF Owned
  <2>3. Owned({x}, B) = {x} \X B[x]
    BY Zenon DEF Owned
  <2>4. Owned(s, B) = Owned(s \ {x}, B) \cup ({x} \X B[x])
    <3>1. Owned((s \ {x}) \cup {x}, B) = Owned(s \ {x}, B) \cup Owned({x}, B)
      BY <2>2
    <3> QED
      BY <2>1, <2>3, <3>1, Zenon
  <2>6. Owned(s \ {x}, B) \cap ({x} \X B[x]) = {}
    <3> SUFFICES ASSUME NEW e \in Owned(s \ {x}, B), e \in {x} \X B[x] PROVE FALSE
      OBVIOUS
    <3>1. PICK y \in s \ {x} : e \in {y} \X B[y]
      BY Zenon DEF Owned
    <3>2. e[1] = y /\ e[1] = x
      BY <3>1
    <3> QED
      BY <3>1, <3>2
  <2> QED
    BY <2>4, <2>6
<1>2. Owned({}, B) = {}
  BY DEF Owned
<1>3. ASSUME NEW x \in S
      PROVE  /\ IsFiniteSet({x} \X B[x]) /\ f[x] \in Nat
             /\ Cardinality({x} \X B[x]) = f[x]
  <2> DEFINE one == {x}
             some == B[x]
  <2>1. IsFiniteSet(one) /\ Cardinality(one) = 1
    BY FS_Singleton
  <2>2. IsFiniteSet(some) /\ Cardinality(some) = f[x] /\ Cardinality(some) \in Nat
    BY FS_CardinalityType
  <2> HIDE DEF one, some
  <2>3. IsFiniteSet(one \X some) /\ Cardinality(one \X some) = 1 * Cardinality(some)
    BY <2>1, <2>2, FS_Product
  <2> QED
    BY <2>2, <2>3 DEF one, some
<1> DEFINE F == {s \in SUBSET S : IsFiniteSet(Owned(s, B))}
<1>4. \A s \in SUBSET S : (\A x \in s : s \ {x} \in F) => s \in F
  <2> SUFFICES ASSUME NEW s \in SUBSET S, \A x \in s : s \ {x} \in F PROVE s \in F
    OBVIOUS
  <2>1. CASE s = {}
    BY <1>2, <2>1, FS_EmptySet
  <2>2. CASE s # {}
    <3>1. PICK x \in s : TRUE
      BY <2>2
    <3>2. IsFiniteSet(Owned(s \ {x}, B)) /\ IsFiniteSet({x} \X B[x])
      BY <1>3, <3>1
    <3>3. IsFiniteSet(Owned(s \ {x}, B) \cup ({x} \X B[x]))
      BY <3>2, FS_Union, Zenon
    <3> QED
      BY <1>1, <3>1, <3>3
  <2> QED
    BY <2>1, <2>2
<1>5. \A s \in SUBSET S : IsFiniteSet(Owned(s, B))
  <2> SUFFICES ASSUME NEW s \in SUBSET S PROVE IsFiniteSet(Owned(s, B))
    OBVIOUS
  <2>1. S \in F
    <3> HIDE DEF F
    <3> QED
      BY <1>4, SubsetInduction
  <2>2. Owned(s, B) \in SUBSET Owned(S, B)
    BY Zenon DEF Owned
  <2> QED
    BY <2>1, <2>2, FS_Subset
<1> DEFINE g == [s \in SUBSET S |-> Cardinality(Owned(s, B))]
<1>6. g \in [SUBSET S -> Nat]
  BY <1>5, FS_CardinalityType
<1>7. g[{}] = 0
  BY <1>2, FS_EmptySet
<1>8. ASSUME NEW s \in SUBSET S, NEW x \in s
      PROVE  g[s] = f[x] + g[s \ {x}]
  <2> DEFINE P == Owned(s \ {x}, B)
             Q == {x} \X B[x]
  <2>1. IsFiniteSet(P) /\ IsFiniteSet(Q) /\ Cardinality(Q) = f[x] /\ f[x] \in Nat
    BY <1>3, <1>5
  <2>2. Owned(s, B) = P \cup Q /\ P \cap Q = {}
    BY <1>1
  <2>3. Cardinality(P) \in Nat /\ Cardinality({}) = 0
    BY <2>1, FS_CardinalityType, FS_EmptySet
  <2>4. g[s] = Cardinality(Owned(s, B)) /\ g[s \ {x}] = Cardinality(P)
    OBVIOUS
  <2> HIDE DEF P, Q, g
  <2>5. Cardinality(P \cup Q) = Cardinality(P) + Cardinality(Q) - Cardinality(P \cap Q)
    BY <2>1, FS_Union
  <2>6. Cardinality(P \cap Q) = 0
    BY <2>2, <2>3
  <2>7. Cardinality(Owned(s, B)) = Cardinality(P) + f[x]
    BY <2>1, <2>2, <2>3, <2>5, <2>6
  <2> QED
    BY <2>1, <2>3, <2>4, <2>7
<1>9. AddsUp(g, f, S) /\ g[S] = Cardinality(Owned(S, B))
  BY <1>6, <1>7, <1>8 DEF AddsUp
<1> HIDE DEF g
<1>10. SumFunctionOnSet(f, S) = g[S]
  BY <1>9, SumIs
<1> QED
  BY <1>5, <1>9, <1>10

-----------------------------------------------------------------------------
(* The order of keys.                                                      *)

\* A byte is a number.
LEMMA OctetIsNat == \A x \in Octet : x \in Nat /\ x <= 255
BY DEF Octet

\* Of two texts one is less than the other.
LEMMA LessTotal ==
  ASSUME NEW s \in Seq(Octet), NEW t \in Seq(Octet), s # t
  PROVE  TextLess(s, t) \/ TextLess(t, s)
<1> DEFINE D == {i \in 1..Len(s) : i <= Len(t) /\ s[i] # t[i]}
<1>1. Len(s) \in Nat /\ Len(t) \in Nat
  OBVIOUS
<1>2. CASE D = {}
  <2>1. \A i \in 1..Len(s) : i <= Len(t) => s[i] = t[i]
    BY <1>2
  <2>2. Len(s) # Len(t)
    <3> SUFFICES ASSUME Len(s) = Len(t) PROVE FALSE
      OBVIOUS
    <3>1. \A i \in 1..Len(s) : s[i] = t[i]
      BY <1>1, <2>1
    <3> QED
      BY <3>1
  <2>3. CASE Len(s) < Len(t)
    BY <1>1, <2>1, <2>3 DEF TextLess
  <2>4. CASE Len(t) < Len(s)
    BY <1>1, <2>1, <2>4 DEF TextLess
  <2> QED
    BY <1>1, <2>2, <2>3, <2>4
<1>3. CASE D # {}
  <2>1. PICK i \in D : \A j \in D : i <= j
    <3>1. D \subseteq Nat
      OBVIOUS
    <3> HIDE DEF D
    <3> QED
      BY <1>3, <3>1, LeastExists
  <2>2. i \in 1..Len(s) /\ i <= Len(t) /\ s[i] # t[i]
    BY <2>1
  <2>3. \A j \in 1..(i - 1) : s[j] = t[j]
    <3> SUFFICES ASSUME NEW j \in 1..(i - 1), s[j] # t[j] PROVE FALSE
      OBVIOUS
    <3>1. j \in D /\ ~(i <= j)
      BY <1>1, <2>2
    <3> QED
      BY <2>1, <3>1
  <2>4. s[i] \in Nat /\ t[i] \in Nat
    <3>1. s[i] \in Octet /\ t[i] \in Octet
      BY <1>1, <2>2
    <3> QED
      BY <3>1, OctetIsNat
  <2> DEFINE n == i - 1
  <2>5. n \in 0..Len(s) /\ n \in 0..Len(t) /\ n < Len(s) /\ n < Len(t) /\ n + 1 = i
    BY <1>1, <2>2
  <2> HIDE DEF n, D
  <2>6. \A j \in 1..n : s[j] = t[j]
    BY <2>3 DEF n
  <2>7. CASE s[i] < t[i]
    BY <2>5, <2>6, <2>7 DEF TextLess
  <2>8. CASE t[i] < s[i]
    BY <2>5, <2>6, <2>8 DEF TextLess
  <2> QED
    BY <2>2, <2>4, <2>7, <2>8
<1> QED
  BY <1>2, <1>3

\* The order of texts is transitive.
LEMMA LessTransitive ==
  ASSUME NEW s \in Seq(Octet), NEW t \in Seq(Octet), NEW u \in Seq(Octet),
         TextLess(s, t), TextLess(t, u)
  PROVE  TextLess(s, u)
<1>1. /\ Len(s) \in Nat /\ Len(t) \in Nat /\ Len(u) \in Nat
      /\ \A i \in 1..Len(s) : s[i] \in Nat
      /\ \A i \in 1..Len(t) : t[i] \in Nat
      /\ \A i \in 1..Len(u) : u[i] \in Nat
  <2>1. /\ \A i \in 1..Len(s) : s[i] \in Octet
        /\ \A i \in 1..Len(t) : t[i] \in Octet
        /\ \A i \in 1..Len(u) : u[i] \in Octet
    OBVIOUS
  <2> QED
    BY <2>1, OctetIsNat
<1>2. PICK n \in 0..Len(s) : /\ n < Len(t) /\ \A i \in 1..n : s[i] = t[i]
                             /\ n < Len(s) => s[n + 1] < t[n + 1]
  BY DEF TextLess
<1>3. PICK m \in 0..Len(t) : /\ m < Len(u) /\ \A i \in 1..m : t[i] = u[i]
                             /\ m < Len(t) => t[m + 1] < u[m + 1]
  BY DEF TextLess
<1>4. CASE n < m
  <2>1. n < Len(u) /\ \A i \in 1..n : s[i] = u[i]
    BY <1>1, <1>2, <1>3, <1>4
  <2>2. n + 1 \in 1..m /\ t[n + 1] = u[n + 1]
    BY <1>1, <1>2, <1>3, <1>4
  <2> QED
    BY <1>2, <2>1, <2>2 DEF TextLess
<1>5. CASE m <= n
  <2>1. m \in 0..Len(s) /\ \A i \in 1..m : s[i] = u[i]
    BY <1>1, <1>2, <1>3, <1>5
  <2>2. m < Len(t) /\ t[m + 1] < u[m + 1]
    BY <1>1, <1>2, <1>3, <1>5
  <2>3. m < Len(s) => s[m + 1] < u[m + 1]
    <3> SUFFICES ASSUME m < Len(s) PROVE s[m + 1] < u[m + 1]
      OBVIOUS
    <3>1. /\ m + 1 \in 1..Len(s) /\ m + 1 \in 1..Len(t) /\ m + 1 \in 1..Len(u)
      BY <1>1, <1>3, <2>2
    <3>2. /\ s[m + 1] \in Nat /\ t[m + 1] \in Nat /\ u[m + 1] \in Nat
      BY <1>1, <3>1
    <3>3. CASE m = n
      BY <1>2, <2>2, <3>2, <3>3
    <3>4. CASE m # n
      <4>1. m + 1 \in 1..n
        BY <1>2, <1>3, <1>5, <3>4
      <4> QED
        BY <1>2, <2>2, <4>1
    <3> QED
      BY <3>3, <3>4
  <2> QED
    BY <1>3, <2>1, <2>3 DEF TextLess
<1> QED
  BY <1>2, <1>3, <1>4, <1>5

\* Some text of a finite set comes last.
LEMMA LastText ==
  ASSUME NEW K, IsFiniteSet(K), K \subseteq Seq(Octet), K # {}
  PROVE  \E k \in K : \A j \in K \ {k} : TextLess(j, k)
<1> DEFINE F == {s \in SUBSET K : s = {} \/ \E k \in s : \A j \in s \ {k} : TextLess(j, k)}
<1>1. ASSUME NEW s \in SUBSET K, \A x \in s : s \ {x} \in F
      PROVE  s \in F
  <2>1. CASE s = {}
    BY <2>1
  <2>2. CASE s # {}
    <3>1. PICK x \in s : TRUE
      BY <2>2
    <3>2. s \ {x} \in F
      BY <1>1
    <3>3. CASE s \ {x} = {}
      <4>1. \A j \in s \ {x} : TextLess(j, x)
        BY <3>3
      <4> QED
        BY <4>1
    <3>4. CASE s \ {x} # {}
      <4>1. PICK k \in s \ {x} : \A j \in (s \ {x}) \ {k} : TextLess(j, k)
        BY <3>2, <3>4
      <4>2. x \in Seq(Octet) /\ k \in Seq(Octet) /\ x # k
        BY <3>1, <4>1
      <4>3. CASE TextLess(x, k)
        <5>1. \A j \in s \ {k} : TextLess(j, k)
          BY <4>1, <4>3
        <5> QED
          BY <5>1
      <4>4. CASE TextLess(k, x)
        <5>1. ASSUME NEW j \in s \ {x} PROVE TextLess(j, x)
          <6>1. CASE j = k
            BY <4>4, <6>1
          <6>2. CASE j # k
            <7>1. TextLess(j, k) /\ j \in Seq(Octet)
              BY <4>1, <6>2
            <7> QED
              BY <4>2, <4>4, <7>1, LessTransitive
          <6> QED
            BY <6>1, <6>2
        <5> QED
          BY <3>1, <5>1
      <4> QED
        BY <4>2, <4>3, <4>4, LessTotal
    <3> QED
      BY <3>3, <3>4
  <2> QED
    BY <2>1, <2>2
<1> HIDE DEF F
<1>2. K \in F
  BY <1>1, SubsetInduction
<1> QED
  BY <1>2 DEF F

\* All keys in increasing order
Increasing(list, keys, n) ==
  /\ list \in [1..n -> keys]
  /\ \A i, j \in 1..n : list[i] = list[j] => i = j
  /\ \A k \in keys : \E i \in 1..n : list[i] = k
  /\ \A i, j \in 1..n : i < j => TextLess(list[i], list[j])

\* Every finite set of keys can be put in order.
LEMMA OrderExists ==
  ASSUME NEW K, IsFiniteSet(K), K \subseteq Seq(Octet)
  PROVE  \E list : Increasing(list, K, Cardinality(K))
<1> DEFINE F == {s \in SUBSET K : \E list : Increasing(list, s, Cardinality(s))}
<1>1. ASSUME NEW s \in SUBSET K, \A x \in s : s \ {x} \in F
      PROVE  s \in F
  <2>1. IsFiniteSet(s) /\ Cardinality(s) \in Nat
    BY FS_Subset, FS_CardinalityType
  <2> DEFINE n == Cardinality(s)
  <2>2. CASE s = {}
    <3>1. n = 0
      BY <2>2, FS_EmptySet
    <3> DEFINE list == [i \in 1..0 |-> i]
    <3>2. Increasing(list, s, 0)
      BY <2>2 DEF Increasing
    <3> HIDE DEF list
    <3> QED
      BY <3>1, <3>2
  <2>3. CASE s # {}
    <3>1. PICK k \in s : \A j \in s \ {k} : TextLess(j, k)
      BY <2>1, <2>3, LastText
    <3>2. Cardinality(s \ {k}) = n - 1
      BY <2>1, FS_RemoveElement
    <3>3. PICK l : Increasing(l, s \ {k}, n - 1)
      BY <1>1, <3>2
    <3>4. n \in Nat \ {0}
      BY <2>1, <2>3, FS_EmptySet
    <3> HIDE DEF n
    <3> DEFINE list == [i \in 1..n |-> IF i = n THEN k ELSE l[i]]
    <3>5. \A i \in 1..n : i # n => i \in 1..(n - 1) /\ list[i] = l[i] /\ l[i] \in s \ {k}
      BY <3>3, <3>4 DEF Increasing
    <3>6. n \in 1..n /\ list[n] = k /\ \A i \in 1..(n - 1) : i \in 1..n /\ i # n
      BY <3>4
    <3>7. DOMAIN list = 1..n /\ list = [i \in 1..n |-> list[i]]
      OBVIOUS
    <3> HIDE DEF list
    <3>8. list \in [1..n -> s]
      <4>1. \A i \in 1..n : list[i] \in s
        BY <3>5, <3>6
      <4> QED
        BY <3>7, <4>1
    <3>9. ASSUME NEW i \in 1..n, NEW j \in 1..n, list[i] = list[j]
          PROVE  i = j
      <4>1. CASE i = n \/ j = n
        BY <3>5, <3>6, <3>9, <4>1
      <4>2. CASE i # n /\ j # n
        BY <3>3, <3>5, <3>9, <4>2 DEF Increasing
      <4> QED
        BY <4>1, <4>2
    <3>10. ASSUME NEW x \in s
           PROVE  \E i \in 1..n : list[i] = x
      <4>1. CASE x = k
        BY <3>6, <4>1
      <4>2. CASE x # k
        <5>1. PICK i \in 1..(n - 1) : l[i] = x
          BY <3>3, <4>2 DEF Increasing
        <5> QED
          BY <3>5, <3>6, <5>1
      <4> QED
        BY <4>1, <4>2
    <3>11. ASSUME NEW i \in 1..n, NEW j \in 1..n, i < j
           PROVE  TextLess(list[i], list[j])
      <4>1. i # n
        BY <3>4, <3>11
      <4>2. CASE j = n
        BY <3>1, <3>5, <3>6, <4>1, <4>2
      <4>3. CASE j # n
        BY <3>3, <3>5, <3>11, <4>1, <4>3 DEF Increasing
      <4> QED
        BY <4>2, <4>3
    <3>12. Increasing(list, s, n)
      BY <3>8, <3>9, <3>10, <3>11 DEF Increasing
    <3> QED
      BY <3>12 DEF n
  <2> QED
    BY <2>2, <2>3
<1> HIDE DEF F
<1>2. K \in F
  BY <1>1, SubsetInduction
<1> QED
  BY <1>2 DEF F

\* The keys of metadata are listed once each.
LEMMA InOrderIs ==
  ASSUME NEW K, IsFiniteSet(K), K \subseteq Seq(Octet)
  PROVE  /\ InOrder(K) \in [1..Cardinality(K) -> K]
         /\ \A i, j \in 1..Cardinality(K) : InOrder(K)[i] = InOrder(K)[j] => i = j
         /\ \A k \in K : \E i \in 1..Cardinality(K) : InOrder(K)[i] = k
<1> DEFINE n == Cardinality(K)
<1>1. PICK list : Increasing(list, K, n)
  BY OrderExists
<1>2. list \in Bijection(1..n, K)
  BY <1>1 DEF Increasing, Bijection, Injection, Surjection, IsInjective
<1>3. DOMAIN list = 1..n /\ \A i, j \in 1..n : i < j => TextLess(list[i], list[j])
  BY <1>1 DEF Increasing
<1>4. InOrder(K) \in Bijection(1..n, K)
  BY <1>2, <1>3 DEF InOrder
<1> HIDE DEF n
<1>5. InOrder(K) \in [1..n -> K]
  BY <1>4 DEF Bijection, Injection
<1> QED
  BY <1>4, <1>5 DEF n, Bijection, Injection, Surjection, IsInjective

-----------------------------------------------------------------------------
(* Where codes stand.                                                      *)

\* The code c stands in b after the first p bytes.
Occurs(b, p, c) == p + Len(c) <= Len(b) /\ \A i \in 1..Len(c) : b[p + i] = c[i]

\* Two codes one after the other are a code.
LEMMA JoinIs ==
  ASSUME NEW c \in Seq(Octet), NEW d \in Seq(Octet)
  PROVE  /\ c \o d \in Seq(Octet) /\ Len(c \o d) = Len(c) + Len(d)
         /\ Len(c) \in Nat /\ Len(d) \in Nat
OBVIOUS

\* Where two codes stand one after the other.
LEMMA OccursBoth ==
  ASSUME NEW b \in Seq(Octet), NEW p \in Nat, NEW c \in Seq(Octet), NEW d \in Seq(Octet),
         Occurs(b, p, c \o d)
  PROVE  /\ Occurs(b, p, c) /\ Occurs(b, p + Len(c), d)
         /\ Len(c) \in Nat /\ Len(d) \in Nat /\ Len(c \o d) = Len(c) + Len(d)
<1> DEFINE m == Len(c)
           n == Len(d)
           e == c \o d
<1>1. /\ m \in Nat /\ n \in Nat /\ Len(b) \in Nat /\ Len(e) = m + n
      /\ \A i \in 1..m : e[i] = c[i]
      /\ \A i \in 1..n : e[m + i] = d[i]
  OBVIOUS
<1>2. p + Len(e) <= Len(b) /\ \A i \in 1..Len(e) : b[p + i] = e[i]
  BY DEF Occurs
<1> HIDE DEF m, n, e
<1>3. p + m <= Len(b) /\ (p + m) + n <= Len(b)
  BY <1>1, <1>2
<1>4. \A i \in 1..m : i \in 1..Len(e)
  BY <1>1
<1>5. \A i \in 1..n : m + i \in 1..Len(e) /\ p + (m + i) = (p + m) + i
  BY <1>1
<1>6. \A i \in 1..n : b[(p + m) + i] = d[i]
  BY <1>1, <1>2, <1>5
<1> QED
  BY <1>1, <1>2, <1>3, <1>4, <1>6 DEF Occurs, m, n, e

\* A list of codes is the last of its partial concatenations.
LEMMA FlattenSteps ==
  ASSUME NEW n \in Nat \ {0}, NEW cs \in [1..n -> Seq(Octet)]
  PROVE  \E f \in [0..n -> Seq(Octet)] :
           /\ f[0] = <<>> /\ f[n] = FlattenSeq(cs)
           /\ \A i \in 1..n : f[i] = f[i - 1] \o cs[i]
<1> DEFINE V == Seq(Octet)
           step == [i \in 1..n |-> [x \in V |-> x \o cs[i]]]
<1>1. step \in [1..n -> [V -> V]]
  OBVIOUS
<1>2. <<>> \in V /\ n \in Nat
  OBVIOUS
<1>3. \A i \in 1..n, x \in V : step[i][x] = x \o cs[i]
  OBVIOUS
<1> HIDE DEF V, step
<1>4. PICK f \in [0..n -> V] : Path(f, <<>>, n, step)
  BY <1>1, <1>2, PathExists
<1>5. f[0] = <<>> /\ \A i \in 1..n : f[i] = f[i - 1] \o cs[i]
  <2>1. f[0] = <<>> /\ \A i \in 1..n : f[i] = step[i][f[i - 1]]
    BY <1>4 DEF Path
  <2>2. \A i \in 1..n : f[i - 1] \in V
    OBVIOUS
  <2> QED
    BY <1>3, <2>1, <2>2
<1> DEFINE f0 == [i \in 1..n |-> f[i]]
<1>6. f0 \in [1..n -> V] /\ \A i \in 1..n : f0[i] = f[i]
  OBVIOUS
<1>7. f0[1] = cs[1]
  <2>1. 1 \in 1..n /\ 1 - 1 = 0
    OBVIOUS
  <2>2. f[1] = <<>> \o cs[1]
    BY <1>5, <2>1
  <2>3. cs[1] \in Seq(Octet)
    BY <2>1
  <2>4. <<>> \o cs[1] = cs[1]
    BY <2>3
  <2> QED
    BY <1>6, <2>1, <2>2, <2>4
<1>8. \A i \in 2..n : f0[i] = f0[i - 1] \o cs[i]
  <2> SUFFICES ASSUME NEW i \in 2..n PROVE f0[i] = f0[i - 1] \o cs[i]
    OBVIOUS
  <2>1. i \in 1..n /\ i - 1 \in 1..n
    OBVIOUS
  <2> HIDE DEF f0
  <2> QED
    BY <1>5, <1>6, <2>1
<1> HIDE DEF f0
<1>9. Len(cs) = n
  OBVIOUS
<1>10. FlattenSeq(cs) = f0[n]
  <2>1. n \in Nat \ {0}
    OBVIOUS
  <2>2. PICK g \in [1..n -> Seq(Octet)] :
          g[1] = cs[1] /\ (\A i \in 2..n : g[i] = g[i - 1] \o cs[i]) /\ g[n] = f0[n]
    BY <1>6, <1>7, <1>8 DEF V
  <2> QED
    BY <1>9, <2>1, <2>2, FlattenUnfolds
<1>11. f[n] = FlattenSeq(cs)
  <2>1. n \in 1..n
    OBVIOUS
  <2> QED
    BY <1>6, <1>10, <2>1
<1> QED
  BY <1>5, <1>11 DEF V

\* The codes of a list, and where each of them starts: after the one before.
Chain(b, q, n, cs) ==
  /\ q \in [0..n -> Nat]
  /\ \A i \in 1..n : q[i] = q[i - 1] + Len(cs[i]) /\ Occurs(b, q[i - 1], cs[i])

\* Where the codes of a list stand one after the other.
LEMMA FlattenOccurs ==
  ASSUME NEW b \in Seq(Octet), NEW p \in Nat, NEW n \in Nat,
         NEW cs \in [1..n -> Seq(Octet)]
  PROVE  /\ FlattenSeq(cs) \in Seq(Octet)
         /\ Occurs(b, p, FlattenSeq(cs)) =>
              \E q : Chain(b, q, n, cs) /\ q[0] = p /\ q[n] = p + Len(FlattenSeq(cs))
<1>1. CASE n = 0
  <2>1. cs = <<>>
    BY <1>1
  <2>2. FlattenSeq(cs) = <<>>
    BY <2>1 DEF FlattenSeq
  <2> DEFINE q == [i \in 0..0 |-> p]
  <2>3. Chain(b, q, 0, cs) /\ q[0] = p
    BY DEF Chain
  <2> HIDE DEF q
  <2> QED
    BY <1>1, <2>2, <2>3
<1>2. CASE n # 0
  <2>1. n \in Nat \ {0}
    BY <1>2
  <2>2. PICK f \in [0..n -> Seq(Octet)] :
          /\ f[0] = <<>> /\ f[n] = FlattenSeq(cs)
          /\ \A i \in 1..n : f[i] = f[i - 1] \o cs[i]
    BY <2>1, FlattenSteps
  <2>3. FlattenSeq(cs) \in Seq(Octet)
    BY <2>1, <2>2
  <2> SUFFICES ASSUME Occurs(b, p, FlattenSeq(cs))
               PROVE  \E q : /\ Chain(b, q, n, cs) /\ q[0] = p
                             /\ q[n] = p + Len(FlattenSeq(cs))
    BY <2>3
  <2> DEFINE q == [i \in 0..n |-> p + Len(f[i])]
             T == {k \in 0..n : Occurs(b, p, f[n - k])}
  <2>4. \A i \in 1..n : /\ i - 1 \in 0..n /\ i \in 0..n
                        /\ f[i - 1] \in Seq(Octet) /\ f[i] \in Seq(Octet)
                        /\ cs[i] \in Seq(Octet)
    BY <2>1
  <2>5. 0 \in T
    <3>1. n - 0 = n /\ 0 \in 0..n
      BY <2>1
    <3> QED
      BY <2>2, <3>1
  <2>6. ASSUME NEW k \in 1..n, k - 1 \in T
        PROVE  k \in T
    <3> DEFINE i == n - (k - 1)
    <3>1. i \in 1..n /\ i - 1 = n - k /\ k \in 0..n
      BY <2>1
    <3>2. Occurs(b, p, f[i])
      BY <2>6
    <3> HIDE DEF i
    <3>3. Occurs(b, p, f[i - 1] \o cs[i])
      BY <2>2, <3>1, <3>2
    <3>4. Occurs(b, p, f[i - 1])
      BY <2>4, <3>1, <3>3, OccursBoth
    <3> QED
      BY <3>1, <3>4
  <2>7. 0..n \subseteq T
    <3> HIDE DEF T
    <3> QED
      BY <2>5, <2>6, AllOfThem
  <2>8. ASSUME NEW i \in 1..n
        PROVE  q[i] = q[i - 1] + Len(cs[i]) /\ Occurs(b, q[i - 1], cs[i])
    <3>1. n - i \in 0..n /\ n - (n - i) = i
      BY <2>1
    <3>2. Occurs(b, p, f[i])
      BY <2>7, <3>1
    <3>3. Occurs(b, p, f[i - 1] \o cs[i]) /\ f[i] = f[i - 1] \o cs[i]
      BY <2>2, <3>2
    <3>4. /\ Occurs(b, p + Len(f[i - 1]), cs[i])
          /\ Len(f[i - 1]) \in Nat /\ Len(cs[i]) \in Nat
          /\ Len(f[i]) = Len(f[i - 1]) + Len(cs[i])
      <4>1. f[i - 1] \in Seq(Octet) /\ cs[i] \in Seq(Octet)
        BY <2>4
      <4>2. Occurs(b, p + Len(f[i - 1]), cs[i])
        BY <3>3, <4>1, OccursBoth, Zenon
      <4>3. Len(f[i - 1]) \in Nat /\ Len(cs[i]) \in Nat
        BY <4>1
      <4>4. Len(f[i - 1] \o cs[i]) = Len(f[i - 1]) + Len(cs[i])
        BY <4>1
      <4> QED
        BY <3>3, <4>2, <4>3, <4>4, Zenon
    <3>5. q[i - 1] = p + Len(f[i - 1]) /\ q[i] = p + Len(f[i])
      BY <2>4
    <3> HIDE DEF q
    <3> QED
      BY <3>4, <3>5
  <2>9. q[0] = p /\ q[n] = p + Len(FlattenSeq(cs)) /\ q \in [0..n -> Nat]
    <3>1. 0 \in 0..n /\ n \in 0..n
      BY <2>1
    <3>2. \A i \in 0..n : Len(f[i]) \in Nat
      BY <2>2
    <3>3. Len(f[0]) = 0
      BY <2>2
    <3> QED
      BY <2>2, <3>1, <3>2, <3>3
  <2>10. Chain(b, q, n, cs)
    <3> HIDE DEF q
    <3> QED
      BY <2>8, <2>9 DEF Chain
  <2> HIDE DEF q
  <2> QED
    BY <2>9, <2>10
<1> QED
  BY <1>1, <1>2

-----------------------------------------------------------------------------
(* Numbers.                                                                *)

\* What a byte holds of a number and what it leaves
Low(x) == x % 256
High(x) == x \div 256
High2(x) == x \div 65536

\* A number is put together from what a byte holds and what it leaves.
LEMMA HighLow ==
  /\ \A x \in Int : High(x) \in Int /\ Low(x) \in Octet
  /\ \A x \in Nat : High(x) \in Nat /\ High(x) <= x
  /\ \A x \in Nat : Low(x) + 256 * High(x) = x
  /\ \A x \in Nat : x < 256 => High(x) = 0
BY DEF High, Low, Octet

\* Two bytes at once.
LEMMA HighTwice ==
  /\ \A x \in Nat : High2(x) \in Nat /\ High(High(x)) = High2(x)
  /\ \A x \in Nat : x < 65536 => High2(x) = 0
BY DEF High, High2

\* What is left of v when its lowest bytes have been written
Quotients(f, v, w) ==
  /\ f \in [0..w -> Int] /\ f[0] = v
  /\ \A k \in 1..w : f[k] = High(f[k - 1])

\* A number can be divided by 256 again and again.
LEMMA QuotientsExist ==
  ASSUME NEW v \in Int, NEW w \in Nat
  PROVE  \E f : Quotients(f, v, w)
<1> DEFINE V == Int
           step == [k \in 1..w |-> [x \in V |-> High(x)]]
<1>1. step \in [1..w -> [V -> V]]
  BY HighLow
<1>2. v \in V /\ \A k \in 1..w, x \in V : step[k][x] = High(x)
  OBVIOUS
<1> HIDE DEF V, step
<1>3. PICK f \in [0..w -> V] : Path(f, v, w, step)
  BY <1>1, <1>2, PathExists
<1>4. f[0] = v /\ \A k \in 1..w : f[k] = step[k][f[k - 1]] /\ f[k - 1] \in V
  BY <1>3 DEF Path
<1>5. \A k \in 1..w : f[k] = High(f[k - 1])
  BY <1>2, <1>4 DEF V
<1>6. f \in [0..w -> Int]
  BY DEF V
<1> QED
  BY <1>4, <1>5, <1>6 DEF Quotients

\* append_integer writes what is left at each byte, modulo 256.
LEMMA IntegerIs ==
  ASSUME NEW v \in Int, NEW w \in Nat \ {0}, NEW f, Quotients(f, v, w)
  PROVE  /\ Integer(v, w) \in Seq(Octet) /\ Len(Integer(v, w)) = w
         /\ \A k \in 1..w : Integer(v, w)[k] = Low(f[k - 1])
<1> DEFINE bits[k \in 1..w] == IF k = 1 THEN v ELSE High(bits[k - 1])
           g == [k \in 1..w |-> f[k - 1]]
<1>1. Integer(v, w) = [k \in 1..w |-> Low(bits[k])]
  BY DEF Integer, High, Low
<1>2. g = [k \in 1..w |-> IF k = 1 THEN v ELSE High(g[k - 1])]
  <2>1. ASSUME NEW k \in 1..w
        PROVE  g[k] = IF k = 1 THEN v ELSE High(g[k - 1])
    <3>1. CASE k = 1
      BY <3>1 DEF Quotients
    <3>2. CASE k # 1
      <4>1. k - 1 \in 1..w /\ g[k - 1] = f[(k - 1) - 1]
        BY <3>2
      <4> QED
        BY <3>2, <4>1 DEF Quotients
    <3> QED
      BY <3>1, <3>2
  <2>2. g = [k \in 1..w |-> g[k]]
    OBVIOUS
  <2>3. g \in [1..w -> Int]
    BY DEF Quotients
  <2> HIDE DEF g
  <2> QED
    BY <2>1, <2>2, <2>3
<1>3. bits = [k \in 1..w |-> IF k = 1 THEN v ELSE High(bits[k - 1])]
  <2>1. \E h : h = [k \in 1..w |-> IF k = 1 THEN v ELSE High(h[k - 1])]
    BY <1>2
  <2> QED
    BY <2>1
<1>4. \A k \in 1..w : g[k] = f[k - 1]
  OBVIOUS
<1> HIDE DEF bits, g
<1>5. \A k \in 1..w : bits[k] = f[k - 1]
  <2> DEFINE T == {k \in 0..w : k # 0 => bits[k] = g[k]}
  <2>1. 0 \in T
    OBVIOUS
  <2>2. ASSUME NEW k \in 1..w, k - 1 \in T
        PROVE  k \in T
    <3>1. CASE k = 1
      BY <1>2, <1>3, <3>1
    <3>2. CASE k # 1
      <4>1. k - 1 \in 1..w /\ bits[k - 1] = g[k - 1]
        BY <2>2, <3>2
      <4>2. bits[k] = High(bits[k - 1]) /\ g[k] = High(g[k - 1])
        BY <1>2, <1>3, <3>2
      <4> QED
        BY <4>1, <4>2
    <3> QED
      BY <3>1, <3>2
  <2>3. 0..w \subseteq T
    <3> HIDE DEF T
    <3> QED
      BY <2>1, <2>2, AllOfThem
  <2>4. ASSUME NEW k \in 1..w PROVE bits[k] = g[k]
    <3>1. k \in 0..w /\ k # 0
      OBVIOUS
    <3> QED
      BY <2>3, <3>1
  <2> QED
    BY <1>4, <2>4
<1>6. \A k \in 1..w : Low(f[k - 1]) \in Octet
  <2>1. \A k \in 1..w : f[k - 1] \in Int
    BY DEF Quotients
  <2> QED
    BY <2>1, HighLow
<1>7. Integer(v, w) = [k \in 1..w |-> Low(f[k - 1])]
  BY <1>1, <1>5
<1>8. [k \in 1..w |-> Low(f[k - 1])] \in [1..w -> Octet]
  BY <1>6
<1>9. Integer(v, w) \in [1..w -> Octet]
  BY <1>7, <1>8
<1> QED
  BY <1>7, <1>9

\* A code of a number is bytes, as many as it is to have.
LEMMA IntegerTyped ==
  ASSUME NEW v \in Int, NEW w \in Nat \ {0}
  PROVE  Integer(v, w) \in Seq(Octet) /\ Len(Integer(v, w)) = w
<1>1. PICK f : Quotients(f, v, w)
  BY QuotientsExist
<1> QED
  BY <1>1, IntegerIs

\* A number that leaves nothing after w bytes is read back from them.
LEMMA NumberRead ==
  ASSUME NEW b \in Seq(Octet), NEW p \in Nat, NEW w \in Nat \ {0}, NEW v \in 0..MaxWord,
         NEW f, Quotients(f, v, w), f[w] = 0, Occurs(b, p, Integer(v, w))
  PROVE  NumberAt(b, p, w) = v
<1> DEFINE next(h, k) ==
             IF k = 0 THEN 0 ELSE Least(ByteAt(b, p + w + 1 - k) + 256 * h[k - 1], MaxWord)
           high[k \in 0..w] ==
             IF k = 0 THEN 0 ELSE Least(ByteAt(b, p + w + 1 - k) + 256 * high[k - 1], MaxWord)
           g == [k \in 0..w |-> f[w - k]]
<1>1. MaxWord \in Nat /\ v \in Nat /\ v <= MaxWord /\ v \in Int
  BY WordAssumption
<1>2. /\ Len(b) \in Nat /\ DOMAIN b = 1..Len(b) /\ p + w <= Len(b)
      /\ \A k \in 1..w : b[p + k] = Low(f[k - 1])
  <2>1. /\ Len(Integer(v, w)) = w
        /\ \A k \in 1..w : Integer(v, w)[k] = Low(f[k - 1])
    BY <1>1, IntegerIs
  <2>2. p + Len(Integer(v, w)) <= Len(b)
        /\ \A i \in 1..Len(Integer(v, w)) : b[p + i] = Integer(v, w)[i]
    BY DEF Occurs
  <2>3. Len(b) \in Nat /\ DOMAIN b = 1..Len(b)
    OBVIOUS
  <2> DEFINE c == Integer(v, w)
  <2> HIDE DEF c
  <2>4. /\ Len(c) = w /\ (\A k \in 1..w : c[k] = Low(f[k - 1]))
        /\ p + Len(c) <= Len(b) /\ (\A i \in 1..Len(c) : b[p + i] = c[i])
    BY <2>1, <2>2 DEF c
  <2>5. p + w <= Len(b) /\ \A k \in 1..w : b[p + k] = Low(f[k - 1])
    BY <2>4
  <2> QED
    BY <2>3, <2>5
<1>3. f \in [0..w -> Int] /\ f[0] = v /\ \A k \in 1..w : f[k] = High(f[k - 1])
  BY DEF Quotients
<1>4. \A k \in 0..w : f[k] \in 0..v
  <2> DEFINE T == {k \in 0..w : f[k] \in 0..v}
  <2>1. 0 \in T
    BY <1>1, <1>3
  <2>2. ASSUME NEW k \in 1..w, k - 1 \in T PROVE k \in T
    <3>1. k \in 0..w /\ f[k - 1] \in 0..v /\ f[k] = High(f[k - 1])
      BY <1>3, <2>2
    <3>2. \A x \in 0..v : High(x) \in 0..v
      <4>1. \A x \in 0..v : x \in Nat /\ High(x) \in Nat /\ High(x) <= x
        <5>1. \A x \in 0..v : x \in Nat
          BY <1>1
        <5> QED
          BY <5>1, HighLow, Zenon
      <4> QED
        BY <1>1, <4>1
    <3> QED
      BY <3>1, <3>2
  <2>3. 0..w \subseteq T
    <3> HIDE DEF T
    <3> QED
      BY <2>1, <2>2, AllOfThem
  <2> QED
    BY <2>3
<1>5. ASSUME NEW k \in 0..w
      PROVE  g[k] = next(g, k)
  <2>1. CASE k = 0
    BY <2>1
  <2>2. CASE k # 0
    <3> DEFINE i == w - k
    <3>1. /\ i \in 0..w /\ i + 1 \in 1..w /\ (i + 1) - 1 = i /\ k - 1 \in 0..w
          /\ w - (k - 1) = i + 1 /\ p + w + 1 - k = p + (i + 1)
      BY <2>2
    <3>2. p + (i + 1) \in DOMAIN b
      BY <1>2, <3>1
    <3>3. g[k] = f[i] /\ g[k - 1] = f[i + 1]
      BY <3>1
    <3> HIDE DEF i, g
    <3>4. ByteAt(b, p + w + 1 - k) = Low(f[i])
      <4>1. b[p + (i + 1)] = Low(f[(i + 1) - 1])
        BY <1>2, <3>1
      <4>2. ByteAt(b, p + (i + 1)) = b[p + (i + 1)]
        BY <3>2 DEF ByteAt
      <4> QED
        BY <3>1, <4>1, <4>2
    <3>5. f[i + 1] = High(f[i])
      BY <1>3, <3>1
    <3>6. \A x \in Nat : Low(x) + 256 * High(x) = x
      BY HighLow
    <3>7. f[i] \in Nat /\ f[i] <= MaxWord
      BY <1>1, <1>4, <3>1
    <3>8. Least(f[i], MaxWord) = f[i]
      BY <1>1, <3>7 DEF Least
    <3> QED
      BY <2>2, <3>3, <3>4, <3>5, <3>6, <3>7, <3>8
  <2> QED
    BY <2>1, <2>2
<1>6. g = [k \in 0..w |-> next(g, k)]
  <2>1. g = [k \in 0..w |-> g[k]]
    OBVIOUS
  <2> HIDE DEF g, next
  <2> QED
    BY <1>5, <2>1
<1>7. high = [k \in 0..w |-> next(high, k)]
  <2>1. \E h : h = [k \in 0..w |-> next(h, k)]
    BY <1>6, Zenon
  <2> QED
    BY <2>1
<1>8. NumberAt(b, p, w) = high[w]
  BY DEF NumberAt
<1> HIDE DEF high
<1>9. w \in 0..w /\ g[w] = v
  BY <1>3
<1> DEFINE T == {k \in 0..w : high[k] = g[k]}
<1>10. 0 \in T
  BY <1>6, <1>7
<1>11. ASSUME NEW k \in 1..w, k - 1 \in T PROVE k \in T
  <2>1. k \in 0..w /\ k # 0 /\ high[k - 1] = g[k - 1]
    BY <1>11
  <2>2. high[k] = next(high, k) /\ g[k] = next(g, k)
    <3> HIDE DEF g, next
    <3> QED
      BY <1>5, <1>7, <2>1
  <2> HIDE DEF g
  <2> QED
    BY <2>1, <2>2
<1>12. 0..w \subseteq T
  <2> HIDE DEF T
  <2> QED
    BY <1>10, <1>11, AllOfThem
<1> HIDE DEF g
<1> QED
  BY <1>8, <1>9, <1>12

\* A number of as many bytes, halves of words split off
FitsBytes(v, w) ==
  \/ w = 1 /\ v < 256
  \/ w = 2 /\ v < 65536
  \/ w = 4 /\ High2(v) < 65536
  \/ w = 8 /\ High2(High2(High2(v))) < 65536

\* A number that fits its bytes is read back from them.
LEMMA FittingRead ==
  ASSUME NEW b \in Seq(Octet), NEW p \in Nat, NEW w \in {1, 2, 4, 8}, NEW v \in 0..MaxWord,
         FitsBytes(v, w), Occurs(b, p, Integer(v, w))
  PROVE  NumberAt(b, p, w) = v
<1>1. w \in Nat \ {0} /\ v \in Int /\ v \in Nat
  BY WordAssumption
<1>2. PICK f : Quotients(f, v, w)
  BY <1>1, QuotientsExist
<1>3. f[0] = v /\ \A k \in 1..w : f[k] = High(f[k - 1])
  BY <1>2 DEF Quotients
<1>4. \A x \in Nat : High2(x) \in Nat /\ High(High(x)) = High2(x)
  BY HighTwice
<1>5. SUFFICES f[w] = 0
  BY <1>1, <1>2, NumberRead
<1>7. CASE w = 1
  <2>1. v < 256 /\ f[1] = High(v)
    BY <1>3, <1>7 DEF FitsBytes
  <2> QED
    BY <1>1, <1>7, <2>1, HighLow
<1>8. CASE w = 2
  <2>1. v < 65536 /\ f[1] = High(v) /\ f[2] = High(f[1])
    BY <1>3, <1>8 DEF FitsBytes
  <2> QED
    BY <1>1, <1>8, <2>1, HighTwice
<1>9. CASE w = 4
  <2>1. High2(v) < 65536
    BY <1>9 DEF FitsBytes
  <2>2. f[1] = High(v) /\ f[2] = High(f[1]) /\ f[3] = High(f[2]) /\ f[4] = High(f[3])
    BY <1>3, <1>9
  <2>3. f[4] = High2(High2(v))
    BY <1>1, <1>4, <2>2
  <2> QED
    BY <1>1, <1>4, <1>9, <2>1, <2>3, HighTwice
<1>10. CASE w = 8
  <2>1. High2(High2(High2(v))) < 65536
    BY <1>10 DEF FitsBytes
  <2>2. /\ f[1] = High(v) /\ f[2] = High(f[1]) /\ f[3] = High(f[2]) /\ f[4] = High(f[3])
        /\ f[5] = High(f[4]) /\ f[6] = High(f[5]) /\ f[7] = High(f[6]) /\ f[8] = High(f[7])
    BY <1>3, <1>10
  <2>3. f[4] = High2(High2(v)) /\ f[4] \in Nat
    BY <1>1, <1>4, <2>2
  <2>4. f[8] = High2(High2(f[4]))
    BY <1>4, <2>2, <2>3
  <2>5. High2(f[4]) \in Nat /\ High2(f[4]) < 65536
    BY <1>4, <2>1, <2>3
  <2> QED
    BY <1>10, <2>4, <2>5, HighTwice
<1> QED
  BY <1>7, <1>8, <1>9, <1>10

\* A number of one byte is written as it is.
LEMMA ByteRead ==
  ASSUME NEW b \in Seq(Octet), NEW p \in Nat, NEW v, Occurs(b, p, <<v>>)
  PROVE  ByteAt(b, p + 1) = v
<1>1. p + 1 <= Len(b) /\ b[p + 1] = v
  BY DEF Occurs
<1>2. p + 1 \in DOMAIN b
  BY <1>1
<1> QED
  BY <1>1, <1>2 DEF ByteAt

\* Every size fits the eight bytes it is written in, every std::uint32_t four.
LEMMA WordsFit ==
  /\ \A n \in 0..MaxWord : FitsBytes(n, 8)
  /\ \A n \in Word32 : n \in 0..MaxWord /\ FitsBytes(n, 4)
<1>1. \A x, y \in Nat : x <= y => High2(x) <= High2(y)
  BY DEF High2
<1>2. \A x \in Nat : High2(x) \in Nat
  BY DEF High2
<1>3. MaxWord \in Nat /\ High2(High2(High2(MaxWord))) < 65536
  BY WordAssumption, WidthAssumption DEF High2
<1>4. ASSUME NEW n \in 0..MaxWord PROVE FitsBytes(n, 8)
  <2>1. n \in Nat /\ n <= MaxWord
    BY <1>3
  <2>2. High2(n) <= High2(MaxWord) /\ High2(n) \in Nat /\ High2(MaxWord) \in Nat
    BY <1>1, <1>2, <1>3, <2>1
  <2>3. /\ High2(High2(n)) <= High2(High2(MaxWord))
        /\ High2(High2(n)) \in Nat /\ High2(High2(MaxWord)) \in Nat
    BY <1>1, <1>2, <2>2
  <2>4. /\ High2(High2(High2(n))) <= High2(High2(High2(MaxWord)))
        /\ High2(High2(High2(n))) \in Nat /\ High2(High2(High2(MaxWord))) \in Nat
    BY <1>1, <1>2, <2>3
  <2>5. High2(High2(High2(n))) < 65536
    BY <1>3, <2>4
  <2> QED
    BY <2>5 DEF FitsBytes
<1>5. \A n \in Word32 : n \in 0..MaxWord /\ FitsBytes(n, 4)
  BY DEF Word32, FitsBytes, High2
<1> QED
  BY <1>4, <1>5

-----------------------------------------------------------------------------
(* Texts.                                                                  *)

\* A text whose length is a word
Text(t) == t \in Seq(Octet) /\ Len(t) <= MaxWord

\* A text is written as its length and its bytes.
LEMMA BytesIs ==
  ASSUME NEW t, Text(t)
  PROVE  /\ Bytes(t) \in Seq(Octet) /\ Len(Bytes(t)) = 8 + Len(t)
         /\ Len(t) \in 0..MaxWord /\ Integer(Len(t), 8) \in Seq(Octet)
         /\ Len(Integer(Len(t), 8)) = 8
<1>1. t \in Seq(Octet) /\ Len(t) \in Nat /\ Len(t) <= MaxWord
  BY DEF Text
<1>2. 8 \in Nat \ {0} /\ Len(t) \in Int /\ Len(t) \in 0..MaxWord
  BY <1>1, WordAssumption
<1>3. Integer(Len(t), 8) \in Seq(Octet) /\ Len(Integer(Len(t), 8)) = 8
  BY <1>2, IntegerTyped
<1> DEFINE c == Integer(Len(t), 8)
<1> HIDE DEF c
<1>4. c \o t \in Seq(Octet) /\ Len(c \o t) = Len(c) + Len(t)
  BY <1>1, <1>3 DEF c
<1> QED
  BY <1>2, <1>3, <1>4 DEF Bytes, c

\* A part of a sequence, element by element.
LEMMA PartIs ==
  ASSUME NEW S, NEW t \in Seq(S), NEW k \in Nat, NEW n \in Nat, k + n <= Len(t)
  PROVE  /\ SubSeq(t, k + 1, k + n) \in Seq(S) /\ Len(SubSeq(t, k + 1, k + n)) = n
         /\ \A i \in 1..n : SubSeq(t, k + 1, k + n)[i] = t[k + i]
<1>1. /\ SubSeq(t, k + 1, k + n) =
           [i \in 1..((k + n) - (k + 1) + 1) |-> t[i + (k + 1) - 1]]
      /\ (k + n) - (k + 1) + 1 = n /\ \A i \in 1..n : i + (k + 1) - 1 = k + i
  OBVIOUS
<1>2. SubSeq(t, k + 1, k + n) = [i \in 1..n |-> t[k + i]]
  BY <1>1
<1>3. \A i \in 1..n : t[k + i] \in S
  OBVIOUS
<1> QED
  BY <1>2, <1>3

\* A text is read back.
LEMMA TextRead ==
  ASSUME NEW b \in Seq(Octet), NEW p \in Nat, NEW t, Text(t), Occurs(b, p, Bytes(t))
  PROVE  TextAt(b, p) = t /\ TextEnd(b, p) = p + Len(Bytes(t))
<1> DEFINE c == Integer(Len(t), 8)
           n == Len(t)
<1>1. /\ t \in Seq(Octet) /\ n \in 0..MaxWord /\ n \in Nat
      /\ c \in Seq(Octet) /\ Len(c) = 8 /\ Len(Bytes(t)) = 8 + n
  BY BytesIs DEF Text
<1>2. Occurs(b, p, c \o t)
  BY DEF Bytes
<1> HIDE DEF c
<1>3. Occurs(b, p, c) /\ Occurs(b, p + 8, t)
  <2>1. Occurs(b, p, c) /\ Occurs(b, p + Len(c), t)
    BY <1>1, <1>2, OccursBoth
  <2> QED
    BY <1>1, <2>1
<1>4. NumberAt(b, p, 8) = n
  <2>1. 8 \in {1, 2, 4, 8} /\ FitsBytes(n, 8)
    BY <1>1, WordsFit
  <2> QED
    BY <1>1, <1>3, <2>1, FittingRead DEF c
<1>5. /\ Len(b) \in Nat /\ (p + 8) + n <= Len(b)
      /\ \A i \in 1..n : b[(p + 8) + i] = t[i]
  BY <1>3 DEF Occurs
<1>6. TextEnd(b, p) = p + 8 + n
  BY <1>1, <1>4, <1>5 DEF TextEnd, Least
<1> HIDE DEF n
<1>7. TextAt(b, p) = SubSeq(b, p + 9, p + 8 + n)
  BY <1>6 DEF TextAt
<1> DEFINE s == SubSeq(b, p + 9, p + 8 + n)
<1>8. Len(s) = n /\ s \in Seq(Octet) /\ \A i \in 1..n : s[i] = b[(p + 8) + i]
  <2> DEFINE k == p + 8
             u == SubSeq(b, k + 1, k + n)
  <2>1. k \in Nat /\ k + 1 = p + 9 /\ k + n = p + 8 + n /\ k + n <= Len(b)
    BY <1>1, <1>5
  <2>2. s = u
    BY <2>1
  <2> HIDE DEF s, k
  <2>3. Len(u) = n /\ u \in Seq(Octet) /\ \A i \in 1..n : u[i] = b[k + i]
    BY <1>1, <2>1, PartIs
  <2> HIDE DEF u
  <2> QED
    BY <2>2, <2>3 DEF k
<1> HIDE DEF s
<1>9. s = t
  BY <1>1, <1>5, <1>8 DEF n
<1> QED
  BY <1>1, <1>6, <1>7, <1>9 DEF s

-----------------------------------------------------------------------------
(* Lists.                                                                  *)

\* The same start, and from the same place the same step
SameSteps(q, r, n) ==
  q[0] = r[0] /\ \A i \in 1..n : q[i - 1] = r[i - 1] => q[i] = r[i]

\* Two sequences of steps that do the same from the same start are the same.
LEMMA SamePath ==
  ASSUME NEW n \in Nat, NEW q, NEW r, SameSteps(q, r, n)
  PROVE  \A i \in 0..n : q[i] = r[i]
<1> DEFINE T == {i \in 0..n : q[i] = r[i]}
<1>1. 0 \in T
  BY DEF SameSteps
<1>2. ASSUME NEW i \in 1..n, i - 1 \in T PROVE i \in T
  BY <1>2 DEF SameSteps
<1>3. 0..n \subseteq T
  <2> HIDE DEF T
  <2> QED
    BY <1>1, <1>2, AllOfThem
<1> QED
  BY <1>3

\* The codes of n items that are not empty take at least n bytes.
LEMMA ChainLength ==
  ASSUME NEW b \in Seq(Octet), NEW n \in Nat, NEW q, NEW cs, Chain(b, q, n, cs),
         \A i \in 1..n : Len(cs[i]) \in Nat \ {0}
  PROVE  n <= Len(b)
<1>1. q \in [0..n -> Nat] /\ \A i \in 1..n : q[i] = q[i - 1] + Len(cs[i])
  BY DEF Chain
<1> DEFINE T == {i \in 0..n : i <= q[i]}
<1>2. 0 \in T
  BY <1>1
<1>3. ASSUME NEW i \in 1..n, i - 1 \in T PROVE i \in T
  <2>1. i - 1 <= q[i - 1] /\ q[i - 1] \in Nat /\ Len(cs[i]) \in Nat \ {0} /\ i \in 0..n
    BY <1>1, <1>3
  <2>2. q[i] = q[i - 1] + Len(cs[i])
    BY <1>1
  <2> QED
    BY <2>1, <2>2
<1>4. 0..n \subseteq T
  <2> HIDE DEF T
  <2> QED
    BY <1>2, <1>3, AllOfThem
<1>5. CASE n = 0
  BY <1>5
<1>6. CASE n # 0
  <2>1. n \in 1..n /\ n <= q[n] /\ q[n] = q[n - 1] + Len(cs[n]) /\ Occurs(b, q[n - 1], cs[n])
    BY <1>1, <1>4, <1>6 DEF Chain
  <2>2. q[n] <= Len(b)
    BY <2>1 DEF Occurs
  <2>3. q[n] \in Nat /\ Len(b) \in Nat
    BY <1>1
  <2> QED
    BY <2>1, <2>2, <2>3
<1> QED
  BY <1>5, <1>6

-----------------------------------------------------------------------------
(* Metadata.                                                               *)

\* A key and its value are read back.
LEMMA EntryRead ==
  ASSUME NEW k, NEW v, Text(k), Text(v)
  PROVE  /\ Bytes(k) \o Bytes(v) \in Seq(Octet)
         /\ Len(Bytes(k) \o Bytes(v)) \in Nat \ {0}
         /\ \A b \in Seq(Octet), p \in Nat :
              Occurs(b, p, Bytes(k) \o Bytes(v)) =>
                /\ TextAt(b, p) = k /\ TextAt(b, TextEnd(b, p)) = v
                /\ EntryEnd(b, p) = p + Len(Bytes(k) \o Bytes(v))
<1> DEFINE c == Bytes(k)
           d == Bytes(v)
<1>1. /\ c \in Seq(Octet) /\ Len(c) = 8 + Len(k) /\ Len(k) \in Nat
      /\ d \in Seq(Octet) /\ Len(d) = 8 + Len(v) /\ Len(v) \in Nat
  BY BytesIs DEF Text
<1>2. /\ \A b \in Seq(Octet), p \in Nat : Occurs(b, p, c) =>
           TextAt(b, p) = k /\ TextEnd(b, p) = p + Len(c)
      /\ \A b \in Seq(Octet), p \in Nat : Occurs(b, p, d) =>
           TextAt(b, p) = v /\ TextEnd(b, p) = p + Len(d)
  BY TextRead, Zenon
<1> HIDE DEF c, d
<1>3. c \o d \in Seq(Octet) /\ Len(c \o d) = Len(c) + Len(d) /\ Len(c \o d) \in Nat \ {0}
  BY <1>1
<1>4. ASSUME NEW b \in Seq(Octet), NEW p \in Nat, Occurs(b, p, c \o d)
      PROVE  /\ TextAt(b, p) = k /\ TextAt(b, TextEnd(b, p)) = v
             /\ EntryEnd(b, p) = p + Len(c \o d)
  <2>1. Occurs(b, p, c) /\ Occurs(b, p + Len(c), d)
    BY <1>1, <1>4, OccursBoth
  <2>2. TextAt(b, p) = k /\ TextEnd(b, p) = p + Len(c)
    BY <1>2, <2>1
  <2>3. p + Len(c) \in Nat
    BY <1>1
  <2>4. TextAt(b, p + Len(c)) = v /\ TextEnd(b, p + Len(c)) = (p + Len(c)) + Len(d)
    BY <1>2, <2>1, <2>3
  <2>5. EntryEnd(b, p) = (p + Len(c)) + Len(d)
    BY <2>2, <2>4 DEF EntryEnd
  <2> QED
    BY <1>1, <1>3, <2>2, <2>4, <2>5
<1> QED
  BY <1>3, <1>4 DEF c, d

\* The places where the entries of metadata start.
LEMMA EntryStarts ==
  ASSUME NEW b, NEW p \in Nat, NEW n \in Nat, NEW q \in [0..n -> Nat],
         q[0] = p + 8, ListLength(b, p, 8) = n, \A i \in 1..n : EntryEnd(b, q[i - 1]) = q[i]
  PROVE  \A i \in 0..n : Starts(b, p, 8, EntryEnd)[i] = q[i]
<1> DEFINE next(h, i) == IF i = 0 THEN p + 8 ELSE EntryEnd(b, h[i - 1])
           start[i \in 0..ListLength(b, p, 8)] ==
             IF i = 0 THEN p + 8 ELSE EntryEnd(b, start[i - 1])
<1>1. Starts(b, p, 8, EntryEnd) = start
  BY DEF Starts
<1>2. ASSUME NEW i \in 0..n PROVE q[i] = next(q, i)
  <2>1. CASE i = 0
    BY <2>1
  <2>2. CASE i \in 1..n
    BY <2>2
  <2> QED
    BY <2>1, <2>2
<1>3. q = [i \in 0..n |-> next(q, i)]
  <2> HIDE DEF next
  <2> QED
    BY <1>2
<1>4. start = [i \in 0..n |-> next(start, i)]
  <2>1. \E h : h = [i \in 0..n |-> next(h, i)]
    BY <1>3, Zenon
  <2> QED
    BY <2>1
<1> HIDE DEF start
<1>5. q[0] = start[0]
  BY <1>4
<1>6. ASSUME NEW i \in 1..n, q[i - 1] = start[i - 1]
      PROVE  q[i] = start[i]
  <2>1. i \in 0..n /\ i # 0
    OBVIOUS
  <2>2. start[i] = next(start, i)
    <3> HIDE DEF next
    <3> QED
      BY <1>4, <2>1
  <2>3. start[i] = EntryEnd(b, start[i - 1])
    BY <2>1, <2>2
  <2> QED
    BY <1>6, <2>3
<1>7. \A i \in 0..n : q[i] = start[i]
  <2>1. SameSteps(q, start, n)
    BY <1>5, <1>6 DEF SameSteps
  <2> QED
    BY <2>1, SamePath
<1> QED
  BY <1>1, <1>7

\* Metadata that can be written
Sized(m) ==
  /\ m = [k \in DOMAIN m |-> m[k]]
  /\ IsFiniteSet(DOMAIN m) /\ Cardinality(DOMAIN m) <= MaxWord
  /\ \A k \in DOMAIN m : Text(k) /\ Text(m[k])

\* Metadata is read back.
LEMMA MetadataRead ==
  ASSUME NEW m, Sized(m)
  PROVE  /\ MetadataBytes(m) \in Seq(Octet)
         /\ \A b \in Seq(Octet), p \in Nat :
              Occurs(b, p, MetadataBytes(m)) =>
                MetadataAt(b, p) = m /\ MetadataEnd(b, p) = p + Len(MetadataBytes(m))
<1> DEFINE n == Cardinality(DOMAIN m)
           keys == InOrder(DOMAIN m)
           cs == [i \in DOMAIN keys |-> Bytes(keys[i]) \o Bytes(m[keys[i]])]
           size == Integer(n, 8)
           list == FlattenSeq(cs)
<1>1. IsFiniteSet(DOMAIN m) /\ n \in Nat /\ n \in 0..MaxWord /\ DOMAIN m \subseteq Seq(Octet)
  <2>1. IsFiniteSet(DOMAIN m) /\ n <= MaxWord /\ \A k \in DOMAIN m : k \in Seq(Octet)
    BY DEF Sized, Text
  <2>2. n \in Nat
    BY <2>1, FS_CardinalityType
  <2> QED
    BY <2>1, <2>2, WordAssumption
<1>2. /\ keys \in [1..n -> DOMAIN m]
      /\ \A k \in DOMAIN m : \E i \in 1..n : keys[i] = k
  BY <1>1, InOrderIs
<1>3. MetadataBytes(m) = Integer(Len(keys), 8) \o list
  BY DEF MetadataBytes
<1>4. DOMAIN keys = 1..n /\ Len(keys) = n
  <2> HIDE DEF n, keys
  <2> QED
    BY <1>1, <1>2
<1>5. \A i \in 1..n : keys[i] \in DOMAIN m /\ Text(keys[i]) /\ Text(m[keys[i]])
  <2> HIDE DEF n, keys
  <2> QED
    BY <1>2 DEF Sized
<1>6. \A i \in 1..n : cs[i] = Bytes(keys[i]) \o Bytes(m[keys[i]])
  BY <1>4
<1> HIDE DEF n, keys
<1>7. \A i \in 1..n : Bytes(keys[i]) \o Bytes(m[keys[i]]) \in Seq(Octet)
  BY <1>5, EntryRead
<1>8. cs \in [1..n -> Seq(Octet)]
  BY <1>4, <1>7
<1> HIDE DEF cs
<1>9. list \in Seq(Octet)
  BY <1>1, <1>8, FlattenOccurs
<1>10. size \in Seq(Octet) /\ Len(size) = 8
  <2>1. n \in Int /\ 8 \in Nat \ {0}
    BY <1>1
  <2> QED
    BY <2>1, IntegerTyped
<1> HIDE DEF size
<1>11. MetadataBytes(m) = size \o list
  BY <1>3, <1>4 DEF size
<1> HIDE DEF list
<1>12. MetadataBytes(m) \in Seq(Octet) /\ Len(MetadataBytes(m)) = 8 + Len(list)
  <2>1. size \o list \in Seq(Octet) /\ Len(size \o list) = Len(size) + Len(list)
    BY <1>9, <1>10, JoinIs
  <2> QED
    BY <1>10, <1>11, <2>1
<1>13. ASSUME NEW b \in Seq(Octet), NEW p \in Nat, Occurs(b, p, MetadataBytes(m))
       PROVE  MetadataAt(b, p) = m /\ MetadataEnd(b, p) = p + Len(MetadataBytes(m))
  <2>1. Occurs(b, p, size) /\ Occurs(b, p + 8, list) /\ p + 8 \in Nat
    <3>1. Occurs(b, p, size \o list)
      BY <1>11, <1>13
    <3>2. Occurs(b, p, size) /\ Occurs(b, p + Len(size), list)
      BY <1>9, <1>10, <3>1, OccursBoth, Zenon
    <3> QED
      BY <1>10, <3>2
  <2>2. PICK q : Chain(b, q, n, cs) /\ q[0] = p + 8 /\ q[n] = (p + 8) + Len(list)
    <3>1. Occurs(b, p + 8, FlattenSeq(cs))
      BY <2>1 DEF list
    <3>2. \E q : Chain(b, q, n, cs) /\ q[0] = p + 8 /\ q[n] = (p + 8) + Len(FlattenSeq(cs))
      BY <1>1, <1>8, <2>1, <3>1, FlattenOccurs, ZenonT(40)
    <3> QED
      BY <3>2, Zenon DEF list
  <2>3. /\ q \in [0..n -> Nat]
        /\ \A i \in 1..n : q[i] = q[i - 1] + Len(cs[i]) /\ Occurs(b, q[i - 1], cs[i])
    BY <2>2 DEF Chain
  <2>4. ASSUME NEW i \in 1..n
        PROVE  /\ Len(cs[i]) \in Nat \ {0} /\ EntryEnd(b, q[i - 1]) = q[i]
               /\ TextAt(b, q[i - 1]) = keys[i]
               /\ TextAt(b, TextEnd(b, q[i - 1])) = m[keys[i]]
    <3> DEFINE k == keys[i]
               v == m[keys[i]]
               e == q[i - 1]
    <3>1. Text(k) /\ Text(v) /\ cs[i] = Bytes(k) \o Bytes(v)
      BY <1>5, <1>6
    <3>2. e \in Nat /\ q[i] = e + Len(cs[i]) /\ Occurs(b, e, cs[i])
      BY <1>1, <2>3
    <3> HIDE DEF k, v, e
    <3>3. /\ Len(Bytes(k) \o Bytes(v)) \in Nat \ {0}
          /\ TextAt(b, e) = k /\ TextAt(b, TextEnd(b, e)) = v
          /\ EntryEnd(b, e) = e + Len(Bytes(k) \o Bytes(v))
      BY <3>1, <3>2, EntryRead
    <3> QED
      BY <3>1, <3>2, <3>3 DEF k, v, e
  <2>5. n <= Len(b)
    BY <1>1, <2>2, <2>4, ChainLength
  <2>6. ListLength(b, p, 8) = n
    <3>1. FitsBytes(n, 8) /\ 8 \in {1, 2, 4, 8}
      BY <1>1, WordsFit
    <3>2. NumberAt(b, p, 8) = n
      BY <1>1, <2>1, <3>1, FittingRead DEF size
    <3>3. Len(b) \in Nat
      OBVIOUS
    <3> HIDE DEF n, cs, list, size
    <3> QED
      BY <1>1, <2>5, <3>2, <3>3 DEF ListLength, Least
  <2> DEFINE starts == Starts(b, p, 8, EntryEnd)
             entries == {starts[i - 1] : i \in 1..ListLength(b, p, 8)}
             value(key) == TextAt(b, TextEnd(b, CHOOSE e \in entries : TextAt(b, e) = key))
  <2>7. \A i \in 0..n : starts[i] = q[i]
    <3>1. q \in [0..n -> Nat] /\ q[0] = p + 8 /\ \A i \in 1..n : EntryEnd(b, q[i - 1]) = q[i]
      BY <2>2, <2>3, <2>4
    <3> QED
      BY <1>1, <2>6, <3>1, EntryStarts, Zenon
  <2>8. MetadataEnd(b, p) = q[n]
    <3>1. n \in 0..n
      BY <1>1
    <3> QED
      BY <2>6, <2>7, <3>1 DEF MetadataEnd
  <2>9. MetadataEnd(b, p) = p + Len(MetadataBytes(m))
    <3>1. Len(list) \in Nat
      BY <1>9
    <3> QED
      BY <1>12, <2>2, <2>8, <3>1
  <2>10. \A i \in 1..n : i - 1 \in 0..n /\ starts[i - 1] = q[i - 1]
    BY <1>1, <2>7
  <2>11. MetadataAt(b, p) =
           [key \in {TextAt(b, e) : e \in entries} |-> value(key)]
    BY Zenon DEF MetadataAt
  <2>12. \A e \in entries : \E i \in 1..n : e = q[i - 1]
    BY <2>6, <2>10
  <2>13. \A i \in 1..n : q[i - 1] \in entries
    BY <2>6, <2>10
  <2> HIDE DEF starts, entries
  <2>14. {TextAt(b, e) : e \in entries} = DOMAIN m
    <3>1. ASSUME NEW e \in entries PROVE TextAt(b, e) \in DOMAIN m
      BY <1>5, <2>4, <2>12
    <3>2. ASSUME NEW k \in DOMAIN m PROVE \E e \in entries : TextAt(b, e) = k
      BY <1>2, <2>4, <2>13
    <3> QED
      BY <3>1, <3>2
  <2>15. ASSUME NEW k \in DOMAIN m
         PROVE  value(k) = m[k]
    <3> DEFINE e == CHOOSE e \in entries : TextAt(b, e) = k
    <3>1. \E x \in entries : TextAt(b, x) = k
      BY <1>2, <2>4, <2>13
    <3>2. e \in entries /\ TextAt(b, e) = k
      BY <3>1
    <3> HIDE DEF e
    <3>3. PICK i \in 1..n : e = q[i - 1]
      BY <2>12, <3>2
    <3>4. keys[i] = k /\ TextAt(b, TextEnd(b, e)) = m[keys[i]]
      BY <2>4, <3>2, <3>3
    <3> QED
      BY <3>4 DEF e
  <2>16. MetadataAt(b, p) = [k \in DOMAIN m |-> m[k]]
    <3> HIDE DEF value
    <3> QED
      BY <2>11, <2>14, <2>15
  <2> QED
    BY <2>9, <2>16 DEF Sized
<1> QED
  BY <1>12, <1>13

-----------------------------------------------------------------------------
(* Types.                                                                  *)

\* The sum of at most two numbers.
LEMMA SumOfTwo ==
  ASSUME NEW f, NEW n \in 0..2, \A i \in 1..n : f[i] \in Nat
  PROVE  /\ n = 0 => SumFunctionOnSet(f, 1..n) = 0
         /\ n = 1 => SumFunctionOnSet(f, 1..n) = f[1]
         /\ n = 2 => SumFunctionOnSet(f, 1..n) = f[1] + f[2]
<1> DEFINE x == IF n >= 1 THEN f[1] ELSE 0
           y == IF n = 2 THEN f[2] ELSE 0
           S == 1..n
           of(s) == (IF 1 \in s THEN x ELSE 0) + (IF 2 \in s THEN y ELSE 0)
           g == [s \in SUBSET S |-> of(s)]
<1>1. x \in Nat /\ y \in Nat /\ (1 \in S => f[1] = x) /\ (2 \in S => f[2] = y)
      /\ (1 \notin S => x = 0) /\ (2 \notin S => y = 0) /\ S \subseteq {1, 2}
  OBVIOUS
<1>2. IsFiniteSet(S)
  BY FS_Interval
<1>3. \A s \in SUBSET S : of(s) \in Nat
  BY <1>1
<1>4. of({}) = 0
  OBVIOUS
<1>5. ASSUME NEW s \in SUBSET S, NEW e \in s
      PROVE  of(s) = f[e] + of(s \ {e})
  <2>1. e = 1 \/ e = 2
    BY <1>1
  <2>2. CASE e = 1
    <3>1. 1 \in s /\ 1 \notin s \ {e} /\ (2 \in s <=> 2 \in s \ {e}) /\ f[e] = x
      BY <1>1, <2>2
    <3> HIDE DEF x, y
    <3> QED
      BY <1>1, <3>1
  <2>3. CASE e = 2
    <3>1. 2 \in s /\ 2 \notin s \ {e} /\ (1 \in s <=> 1 \in s \ {e}) /\ f[e] = y
      BY <1>1, <2>3
    <3> HIDE DEF x, y
    <3> QED
      BY <1>1, <3>1
  <2> QED
    BY <2>1, <2>2, <2>3
<1>6. AddsUp(g, f, S)
  <2>1. g \in [SUBSET S -> Nat]
    <3> HIDE DEF of, S
    <3> QED
      BY <1>3
  <2>2. \A s \in SUBSET S : g[s] = of(s)
    <3> HIDE DEF of, S
    <3> QED
      OBVIOUS
  <2>3. \A s \in SUBSET S : \A e \in s : g[s] = f[e] + g[s \ {e}]
    <3> HIDE DEF of, S, g
    <3>1. \A s \in SUBSET S : \A e \in s : s \ {e} \in SUBSET S
      OBVIOUS
    <3> QED
      BY <1>5, <2>2, <3>1
  <2>4. g[{}] = 0
    <3>1. {} \in SUBSET S
      OBVIOUS
    <3> HIDE DEF of, S, g
    <3> QED
      BY <1>4, <2>2, <3>1
  <2> QED
    BY <2>1, <2>3, <2>4 DEF AddsUp
<1>7. SumFunctionOnSet(f, S) = g[S]
  <2> HIDE DEF g, S
  <2> QED
    BY <1>2, <1>6, SumIs
<1>8. g[S] = of(S)
  OBVIOUS
<1>9. of(S) = x + y
  BY <1>1
<1> QED
  BY <1>7, <1>8, <1>9

\* Where a list has a value.
LEMMA IndexIs ==
  ASSUME NEW s, Len(s) \in Nat, NEW i \in 1..Len(s)
  PROVE  IndexOf(s, s[i]) \in 0..(Len(s) - 1) /\ s[IndexOf(s, s[i]) + 1] = s[i]
<1> DEFINE I == {k \in 1..Len(s) : s[k] = s[i]}
<1>1. i \in I /\ I \subseteq 1..Len(s) /\ I # {}
  OBVIOUS
<1>2. SelectInSeq(s, LAMBDA x : x = s[i]) = Min(I)
  BY <1>1 DEF SelectInSeq
<1>3. Min(I) \in I
  BY <1>1, LeastIndex
<1> DEFINE m == Min(I)
<1>4. m \in 1..Len(s) /\ s[m] = s[i]
  BY <1>3
<1>5. IndexOf(s, s[i]) = m - 1
  BY <1>2 DEF IndexOf
<1> HIDE DEF m
<1> QED
  BY <1>4, <1>5

\* A number of a type that its bytes can hold
FitsWidth(x, w) ==
  \/ w = 1 /\ x \in 0..255
  \/ w = 2 /\ -32768 <= x /\ x < 32768
  \/ w = 4 /\ x \in Word32

\* What the bytes can hold, width by width.
LEMMA FitsOne == \A x \in 0..255 : FitsWidth(x, 1)
BY DEF FitsWidth

LEMMA FitsFour == \A x \in Word32 : FitsWidth(x, 4)
BY DEF FitsWidth

LEMMA Signed ==
  ASSUME NEW x \in Int
  PROVE  FitsWidth(x, 2) <=> -32768 <= x /\ x < 32768
BY DEF FitsWidth

\* A number of two bytes, byte by byte.
LEMMA TwoOf ==
  ASSUME NEW x \in Int
  PROVE  /\ Integer(x, 2) \in Seq(Octet) /\ Len(Integer(x, 2)) = 2
         /\ Integer(x, 2)[1] = Low(x) /\ Integer(x, 2)[2] = Low(High(x))
<1> DEFINE w == 2
<1>1. w \in Nat \ {0} /\ 1 \in 1..w /\ 2 \in 1..w /\ 1 - 1 = 0 /\ 2 - 1 = 1
  OBVIOUS
<1>2. w = 2
  OBVIOUS
<1> HIDE DEF w
<1>3. PICK f : Quotients(f, x, w)
  BY <1>1, QuotientsExist
<1>4. /\ Integer(x, w) \in Seq(Octet) /\ Len(Integer(x, w)) = w
      /\ \A k \in 1..w : Integer(x, w)[k] = Low(f[k - 1])
  BY <1>1, <1>3, IntegerIs
<1>5. f[0] = x /\ f[1] = High(f[0])
  <2>1. f[0] = x /\ \A k \in 1..w : f[k] = High(f[k - 1])
    BY <1>3 DEF Quotients
  <2> QED
    BY <1>1, <2>1
<1>6. Integer(x, w)[1] = Low(f[0]) /\ Integer(x, w)[2] = Low(f[1])
  BY <1>1, <1>4
<1> QED
  BY <1>2, <1>4, <1>5, <1>6, Zenon

\* A number less than 0 is written as the one that is 65536 more.
LEMMA SignRead ==
  ASSUME NEW x \in Int, NEW y \in Int, y = x + 65536
  PROVE  Integer(x, 2) = Integer(y, 2)
<1>1. Low(x) = Low(y)
  BY DEF Low
<1>2. Low(High(x)) = Low(High(y))
  BY DEF Low, High
<1> DEFINE c == Integer(x, 2)
           d == Integer(y, 2)
<1>3. c \in Seq(Octet) /\ Len(c) = 2 /\ c[1] = Low(x) /\ c[2] = Low(High(x))
  BY TwoOf
<1>4. d \in Seq(Octet) /\ Len(d) = 2 /\ d[1] = Low(y) /\ d[2] = Low(High(y))
  BY TwoOf
<1> HIDE DEF c, d
<1>5. c[1] = d[1] /\ c[2] = d[2]
  BY <1>1, <1>2, <1>3, <1>4
<1>6. c = d
  BY <1>3, <1>4, <1>5
<1> QED
  BY <1>6 DEF c, d

\* A number of a type is read back.
LEMMA ParameterRead ==
  ASSUME NEW b \in Seq(Octet), NEW p \in Nat, NEW x \in Int, NEW w \in {1, 2, 4},
         FitsWidth(x, w), Occurs(b, p, Integer(x, w))
  PROVE  ParameterAt(b, p, w) = x
<1>0. MaxWord \in Nat /\ MaxWord >= 65535
  BY WordAssumption, WidthAssumption
<1>1. CASE w = 1
  <2>1. x \in 0..255
    BY <1>1 DEF FitsWidth
  <2>2. x \in 0..MaxWord /\ x < 256
    BY <1>0, <2>1
  <2>3. FitsBytes(x, w) /\ w \in {1, 2, 4, 8}
    BY <1>1, <2>2 DEF FitsBytes
  <2>4. NumberAt(b, p, w) = x
    BY <2>2, <2>3, FittingRead
  <2> QED
    BY <1>1, <2>4 DEF ParameterAt
<1>2. CASE w = 4
  <2>1. x \in Word32
    BY <1>2 DEF FitsWidth
  <2>2. x \in 0..MaxWord /\ FitsBytes(x, w) /\ w \in {1, 2, 4, 8}
    BY <1>2, <2>1, WordsFit
  <2>3. NumberAt(b, p, w) = x
    BY <2>2, FittingRead
  <2> QED
    BY <1>2, <2>3 DEF ParameterAt
<1>3. CASE w = 2
  <2>1. -32768 <= x /\ x < 32768
    BY <1>3, Signed
  <2> DEFINE y == IF x >= 0 THEN x ELSE x + 65536
  <2>2. y \in Int /\ 0 <= y /\ y < 65536 /\ (x # y => y = x + 65536)
    BY <2>1
  <2>3. (y >= 32768 => y - 65536 = x) /\ (y < 32768 => y = x)
    BY <2>1
  <2> HIDE DEF y
  <2>7. y \in 0..MaxWord
    BY <1>0, <2>2
  <2>8. FitsBytes(y, w) /\ w \in {1, 2, 4, 8}
    BY <1>3, <2>2 DEF FitsBytes
  <2>4. Integer(x, w) = Integer(y, w)
    <3>1. CASE x = y
      BY <3>1
    <3>2. CASE x # y
      <4>1. Integer(x, 2) = Integer(y, 2)
        BY <2>2, <3>2, SignRead
      <4> QED
        BY <1>3, <4>1
    <3> QED
      BY <3>1, <3>2
  <2>5. Occurs(b, p, Integer(y, w))
    BY <2>4
  <2>6. NumberAt(b, p, w) = y
    BY <2>5, <2>7, <2>8, FittingRead
  <2> QED
    BY <1>3, <2>2, <2>3, <2>6 DEF ParameterAt
<1> QED
  BY <1>1, <1>2, <1>3

\* The first n numbers of a type can be read.
NumbersAt(b, p, ws, x, n) ==
  \A i \in 1..n : ParameterAt(b, p + Before(ws, i), ws[i]) = x[i]

\* The numbers of a type, at most two, and where each of them stands.
LEMMA NumbersRead ==
  ASSUME NEW n \in 0..2, NEW ws \in [1..n -> {1, 2, 4}], NEW x \in [1..n -> Int],
         \A i \in 1..n : FitsWidth(x[i], ws[i]), NEW cs,
         cs = [i \in 1..n |-> Integer(x[i], ws[i])]
  PROVE  /\ FlattenSeq(cs) \in Seq(Octet)
         /\ \A b \in Seq(Octet), p \in Nat :
              Occurs(b, p, FlattenSeq(cs)) =>
                NumbersAt(b, p, ws, x, n) /\ p + Before(ws, n + 1) = p + Len(FlattenSeq(cs))
<1>1. \A i \in 1..n : x[i] \in Int /\ ws[i] \in {1, 2, 4} /\ ws[i] \in Nat \ {0}
  OBVIOUS
<1>2. \A i \in 1..n : cs[i] = Integer(x[i], ws[i])
  OBVIOUS
<1>3. \A i \in 1..n : Integer(x[i], ws[i]) \in Seq(Octet) /\ Len(Integer(x[i], ws[i])) = ws[i]
  BY <1>1, IntegerTyped
<1>4. cs \in [1..n -> Seq(Octet)] /\ n \in Nat
  BY <1>3
<1>5. FlattenSeq(cs) \in Seq(Octet)
  <2>1. <<>> \in Seq(Octet) /\ 0 \in Nat
    OBVIOUS
  <2> QED
    BY <1>4, <2>1, FlattenOccurs
<1>6. \A i \in 1..n : Len(cs[i]) = ws[i]
  BY <1>2, <1>3
<1>7. ASSUME NEW b \in Seq(Octet), NEW p \in Nat, Occurs(b, p, FlattenSeq(cs))
      PROVE  NumbersAt(b, p, ws, x, n) /\ p + Before(ws, n + 1) = p + Len(FlattenSeq(cs))
  <2>1. PICK q : Chain(b, q, n, cs) /\ q[0] = p /\ q[n] = p + Len(FlattenSeq(cs))
    BY <1>4, <1>7, FlattenOccurs, ZenonT(40)
  <2>2. q \in [0..n -> Nat] /\ \A i \in 1..n : q[i] = q[i - 1] + Len(cs[i]) /\ Occurs(b, q[i - 1], cs[i])
    BY <2>1 DEF Chain
  <2>3. \A i \in 1..n : q[i] = q[i - 1] + ws[i]
    BY <1>6, <2>2
  <2>4. ASSUME NEW i \in 0..n
        PROVE  q[i] = p + Before(ws, i + 1)
    <3>1. Before(ws, i + 1) = SumFunctionOnSet(ws, 1..i)
      BY DEF Before
    <3>2. i \in 0..2 /\ (\A k \in 1..i : ws[k] \in Nat)
          /\ (i = 0 \/ i = 1 \/ i = 2) /\ i <= n
      BY <1>1
    <3>3. /\ i = 0 => SumFunctionOnSet(ws, 1..i) = 0
          /\ i = 1 => SumFunctionOnSet(ws, 1..i) = ws[1]
          /\ i = 2 => SumFunctionOnSet(ws, 1..i) = ws[1] + ws[2]
      BY <3>2, SumOfTwo
    <3>4. CASE i = 0
      BY <2>1, <3>1, <3>3, <3>4
    <3>5. CASE i = 1
      <4>1. 1 \in 1..n /\ q[1] = q[0] + ws[1]
        <5>1. 1 \in 1..n /\ 1 - 1 = 0
          BY <3>2, <3>5
        <5> QED
          BY <2>3, <5>1
      <4> QED
        BY <2>1, <3>1, <3>3, <3>5, <4>1
    <3>6. CASE i = 2
      <4>1. 1 \in 1..n /\ 1 - 1 = 0 /\ 2 \in 1..n /\ 2 - 1 = 1
        BY <3>2, <3>6
      <4>2. q[1] = q[0] + ws[1] /\ q[2] = q[1] + ws[2] /\ ws[1] \in Nat /\ ws[2] \in Nat
        BY <1>1, <2>3, <4>1
      <4> QED
        BY <2>1, <3>1, <3>3, <3>6, <4>2
    <3> QED
      BY <3>2, <3>4, <3>5, <3>6
  <2>5. ASSUME NEW i \in 1..n
        PROVE  ParameterAt(b, p + Before(ws, i), ws[i]) = x[i]
    <3>1. i - 1 \in 0..n /\ (i - 1) + 1 = i /\ q[i - 1] \in Nat
      BY <2>2
    <3>2. q[i - 1] = p + Before(ws, i)
      BY <2>4, <3>1
    <3>3. Occurs(b, q[i - 1], Integer(x[i], ws[i]))
      BY <1>2, <2>2
    <3>4. x[i] \in Int /\ ws[i] \in {1, 2, 4} /\ FitsWidth(x[i], ws[i])
      BY <1>1
    <3>5. ParameterAt(b, q[i - 1], ws[i]) = x[i]
      BY <3>1, <3>3, <3>4, ParameterRead
    <3> QED
      BY <3>2, <3>5
  <2>6. p + Before(ws, n + 1) = p + Len(FlattenSeq(cs))
    <3>1. n \in 0..n
      OBVIOUS
    <3> QED
      BY <2>1, <2>4, <3>1
  <2> QED
    BY <2>5, <2>6 DEF NumbersAt
<1> QED
  BY <1>5, <1>7

\* A type that create() makes, with as many numbers as its parameters have
Typed(type) ==
  LET p == type.parameters
  IN /\ type = LogicalType(type.kind, p)
     /\ CreateError(type.kind, p) = "none"
     /\ p = Parameters(p.alternative, p.numbers)
     /\ p.numbers \in Seq(Int) /\ Len(p.numbers) = Len(Widths[p.alternative])
     /\ p.alternative = "fixed_binary" => p.numbers[1] \in Word32

\* The alternatives of parameters, each with the bytes of its numbers.
LEMMA WidthsAre ==
  /\ Len(Alternatives) = 6
  /\ Alternatives[1] = "none" /\ Alternatives[2] = "decimal" /\ Alternatives[3] = "time"
  /\ Alternatives[4] = "timestamp" /\ Alternatives[5] = "string"
  /\ Alternatives[6] = "fixed_binary"
  /\ Widths["none"] = <<>> /\ Widths["decimal"] = <<1, 2>> /\ Widths["time"] = <<1>>
  /\ Widths["timestamp"] = <<1, 1>> /\ Widths["string"] = <<1>>
  /\ Widths["fixed_binary"] = <<4>>
BY DEF Alternatives, Widths

\* What append_type writes of a type fits the bytes it is given.
LEMMA TypeFits ==
  ASSUME NEW type, Typed(type)
  PROVE  /\ \E i \in 1..20 : Kinds[i] = type.kind
         /\ \E i \in 1..6 : Alternatives[i] = type.parameters.alternative
         /\ Len(Widths[type.parameters.alternative]) \in 0..2
         /\ Widths[type.parameters.alternative] \in
              [1..Len(Widths[type.parameters.alternative]) -> {1, 2, 4}]
         /\ \A i \in 1..Len(Widths[type.parameters.alternative]) :
              FitsWidth(type.parameters.numbers[i], Widths[type.parameters.alternative][i])
<1> DEFINE kind == type.kind
           p == type.parameters
           a == p.alternative
           x == p.numbers
           ws == Widths[a]
<1>1. /\ kind \in ToSet(Kinds) /\ ValidParameters(kind, p)
      /\ Len(x) = Len(ws) /\ x \in Seq(Int)
      /\ a = "fixed_binary" => x[1] \in Word32
  BY CreatedIsValid, Zenon DEF Typed
<1>2. \E i \in 1..20 : Kinds[i] = kind
  <2>1. DOMAIN Kinds = 1..20
    BY DEF Kinds
  <2> QED
    BY <1>1, <2>1 DEF ToSet
<1>3. a = AlternativeOf(kind)
  BY <1>1 DEF ValidParameters
<1>4. a \in {"none", "decimal", "time", "timestamp", "string", "fixed_binary"}
  <2>1. AlternativeOf(kind) \in {"none", "decimal", "time", "timestamp", "string", "fixed_binary"}
    BY <1>1, KindsListed DEF AlternativeOf
  <2> QED
    BY <1>3, <2>1
<1>5. CASE a = "none"
  <2>1. ws = <<>> /\ a = Alternatives[1] /\ 1 \in 1..6
    BY <1>5, WidthsAre
  <2>2. Len(ws) = 0 /\ Len(ws) \in 0..2 /\ ws \in [1..0 -> {1, 2, 4}] /\ 1..0 = {}
    BY <2>1
  <2>3. \A i \in 1..Len(ws) : FitsWidth(x[i], ws[i])
    BY <2>2
  <2> HIDE DEF ws
  <2>4. Len(ws) \in 0..2 /\ ws \in [1..Len(ws) -> {1, 2, 4}]
    BY <2>2
  <2>5. \E i \in 1..6 : Alternatives[i] = a
    BY <2>1
  <2> QED
    BY <1>2, <2>3, <2>4, <2>5 DEF ws
<1>6. CASE a = "decimal"
  <2>1. ws = <<1, 2>> /\ a = Alternatives[2] /\ 2 \in 1..6
    BY <1>6, WidthsAre
  <2>2. Len(ws) = 2 /\ Len(ws) \in 0..2 /\ ws \in [1..2 -> {1, 2, 4}] /\ 1..2 = {1, 2}
        /\ ws[1] = 1 /\ ws[2] = 2
    BY <2>1
  <2>3. ValidDecimal(x[1], x[2])
    BY <1>1, <1>6 DEF ValidParameters
  <2>4. x[1] \in 1..38 /\ x[2] \in (-x[1])..x[1]
    BY <2>3 DEF ValidDecimal, MaxPrecision
  <2>5. x[1] \in 0..255 /\ x[2] \in Int /\ -32768 <= x[2] /\ x[2] < 32768
    BY <2>4
  <2> HIDE DEF ws, x
  <2>6. \A i \in 1..2 : FitsWidth(x[i], ws[i])
    BY <2>2, <2>5, FitsOne, Signed
  <2> QED
    BY <1>2, <2>1, <2>2, <2>6 DEF ws, x
<1>7. CASE a = "time"
  <2>1. ws = <<1>> /\ a = Alternatives[3] /\ 3 \in 1..6
    BY <1>7, WidthsAre
  <2>2. Len(ws) = 1 /\ Len(ws) \in 0..2 /\ ws \in [1..1 -> {1, 2, 4}] /\ 1..1 = {1} /\ ws[1] = 1
    BY <2>1
  <2>3. x[1] \in TimeUnits
    BY <1>1, <1>7 DEF ValidParameters
  <2>4. x[1] \in 0..255
    BY <2>3 DEF TimeUnits
  <2> HIDE DEF ws, x
  <2>5. \A i \in 1..1 : FitsWidth(x[i], ws[i])
    BY <2>2, <2>4, FitsOne
  <2> QED
    BY <1>2, <2>1, <2>2, <2>5 DEF ws, x
<1>8. CASE a = "timestamp"
  <2>1. ws = <<1, 1>> /\ a = Alternatives[4] /\ 4 \in 1..6
    BY <1>8, WidthsAre
  <2>2. Len(ws) = 2 /\ Len(ws) \in 0..2 /\ ws \in [1..2 -> {1, 2, 4}] /\ 1..2 = {1, 2}
        /\ ws[1] = 1 /\ ws[2] = 1
    BY <2>1
  <2>3. x[1] \in TimeUnits /\ x[2] \in TimezoneModes
    BY <1>1, <1>8 DEF ValidParameters
  <2>4. x[1] \in 0..255 /\ x[2] \in 0..255
    BY <2>3 DEF TimeUnits, TimezoneModes
  <2> HIDE DEF ws, x
  <2>5. \A i \in 1..2 : FitsWidth(x[i], ws[i])
    BY <2>2, <2>4, FitsOne
  <2> QED
    BY <1>2, <2>1, <2>2, <2>5 DEF ws, x
<1>9. CASE a = "string"
  <2>1. ws = <<1>> /\ a = Alternatives[5] /\ 5 \in 1..6
    BY <1>9, WidthsAre
  <2>2. Len(ws) = 1 /\ Len(ws) \in 0..2 /\ ws \in [1..1 -> {1, 2, 4}] /\ 1..1 = {1} /\ ws[1] = 1
    BY <2>1
  <2>3. x[1] \in Utf8Modes
    BY <1>1, <1>9 DEF ValidParameters
  <2>4. x[1] \in 0..255
    BY <2>3 DEF Utf8Modes
  <2> HIDE DEF ws, x
  <2>5. \A i \in 1..1 : FitsWidth(x[i], ws[i])
    BY <2>2, <2>4, FitsOne
  <2> QED
    BY <1>2, <2>1, <2>2, <2>5 DEF ws, x
<1>10. CASE a = "fixed_binary"
  <2>1. ws = <<4>> /\ a = Alternatives[6] /\ 6 \in 1..6
    BY <1>10, WidthsAre
  <2>2. Len(ws) = 1 /\ Len(ws) \in 0..2 /\ ws \in [1..1 -> {1, 2, 4}] /\ 1..1 = {1} /\ ws[1] = 4
    BY <2>1
  <2>3. x[1] \in Word32
    BY <1>1, <1>10
  <2> HIDE DEF ws, x
  <2>4. \A i \in 1..1 : FitsWidth(x[i], ws[i])
    BY <2>2, <2>3, FitsFour
  <2> QED
    BY <1>2, <2>1, <2>2, <2>4 DEF ws, x
<1> QED
  BY <1>4, <1>5, <1>6, <1>7, <1>8, <1>9, <1>10

\* A type is read back.
LEMMA TypeRead ==
  ASSUME NEW type, Typed(type)
  PROVE  /\ TypeBytes(type) \in Seq(Octet)
         /\ \A b \in Seq(Octet), p \in Nat :
              Occurs(b, p, TypeBytes(type)) =>
                TypeAt(b, p) = type /\ TypeEnd(b, p) = p + Len(TypeBytes(type))
<1> DEFINE kind == type.kind
           par == type.parameters
           a == par.alternative
           x == par.numbers
           ws == Widths[a]
           n == Len(ws)
           k == IndexOf(Kinds, kind)
           j == IndexOf(Alternatives, a)
           cs == [i \in 1..n |-> Integer(x[i], ws[i])]
           c == FlattenSeq(cs)
<1>1. /\ type = LogicalType(kind, par) /\ par = Parameters(a, x)
      /\ x \in Seq(Int) /\ Len(x) = n
  BY Zenon DEF Typed
<1>2. /\ n \in 0..2 /\ ws \in [1..n -> {1, 2, 4}]
      /\ \A i \in 1..n : FitsWidth(x[i], ws[i])
  BY TypeFits, Zenon
<1>3. k \in 0..19 /\ Kinds[k + 1] = kind
  <2>1. PICK i \in 1..20 : Kinds[i] = kind
    BY TypeFits, Zenon
  <2>2. Len(Kinds) = 20 /\ Len(Kinds) \in Nat
    BY DEF Kinds
  <2>3. /\ IndexOf(Kinds, Kinds[i]) \in 0..(Len(Kinds) - 1)
        /\ Kinds[IndexOf(Kinds, Kinds[i]) + 1] = Kinds[i]
    BY <2>2, IndexIs
  <2> QED
    BY <2>1, <2>2, <2>3
<1>4. j \in 0..5 /\ Alternatives[j + 1] = a
  <2>1. PICK i \in 1..6 : Alternatives[i] = a
    BY TypeFits, Zenon
  <2>2. Len(Alternatives) = 6 /\ Len(Alternatives) \in Nat
    BY WidthsAre
  <2>3. /\ IndexOf(Alternatives, Alternatives[i]) \in 0..(Len(Alternatives) - 1)
        /\ Alternatives[IndexOf(Alternatives, Alternatives[i]) + 1] = Alternatives[i]
    BY <2>2, IndexIs
  <2> QED
    BY <2>1, <2>2, <2>3
<1>5. TypeBytes(type) = <<k, j>> \o FlattenSeq([i \in DOMAIN ws |-> Integer(x[i], ws[i])])
  BY DEF TypeBytes
<1>6. DOMAIN ws = 1..n
  <2> HIDE DEF ws, n
  <2> QED
    BY <1>2
<1>7. TypeBytes(type) = <<k, j>> \o c
  BY <1>5, <1>6
<1> HIDE DEF kind, par, a, x, ws, n, k, j
<1>8. x \in [1..n -> Int] /\ x = [i \in 1..n |-> x[i]]
  BY <1>1
<1>9. /\ c \in Seq(Octet)
      /\ \A b \in Seq(Octet), p \in Nat :
           Occurs(b, p, c) =>
             NumbersAt(b, p, ws, x, n) /\ p + Before(ws, n + 1) = p + Len(c)
  <2>1. cs = [i \in 1..n |-> Integer(x[i], ws[i])]
    OBVIOUS
  <2> HIDE DEF cs
  <2>2. x \in [1..n -> Int]
    BY <1>8
  <2>3. n \in 0..2 /\ ws \in [1..n -> {1, 2, 4}] /\ \A i \in 1..n : FitsWidth(x[i], ws[i])
    BY <1>2
  <2>4. FlattenSeq(cs) \in Seq(Octet)
    BY <2>1, <2>2, <2>3, NumbersRead
  <2>5. ASSUME NEW b \in Seq(Octet), NEW p \in Nat, Occurs(b, p, c)
        PROVE  NumbersAt(b, p, ws, x, n) /\ p + Before(ws, n + 1) = p + Len(c)
    BY <2>1, <2>2, <2>3, <2>5, NumbersRead
  <2> QED
    BY <2>4, <2>5
<1> HIDE DEF c, cs
<1>10. <<k, j>> \in Seq(Octet) /\ Len(<<k, j>>) = 2 /\ <<k, j>>[1] = k /\ <<k, j>>[2] = j
  BY <1>3, <1>4 DEF Octet
<1> DEFINE d == <<k, j>>
<1> HIDE DEF d
<1>11. TypeBytes(type) \in Seq(Octet) /\ Len(TypeBytes(type)) = 2 + Len(c) /\ Len(c) \in Nat
  <2>1. d \o c \in Seq(Octet) /\ Len(d \o c) = Len(d) + Len(c) /\ Len(c) \in Nat
    BY <1>9, <1>10, JoinIs DEF d
  <2> QED
    BY <1>7, <1>10, <2>1 DEF d
<1>12. ASSUME NEW b \in Seq(Octet), NEW p \in Nat, Occurs(b, p, TypeBytes(type))
       PROVE  TypeAt(b, p) = type /\ TypeEnd(b, p) = p + Len(TypeBytes(type))
  <2>1. Occurs(b, p, d) /\ Occurs(b, p + 2, c) /\ p + 2 \in Nat
    <3>1. Occurs(b, p, d \o c) /\ d \in Seq(Octet) /\ Len(d) = 2
      BY <1>7, <1>10, <1>12 DEF d
    <3>2. Occurs(b, p, d) /\ Occurs(b, p + Len(d), c)
      BY <1>9, <3>1, OccursBoth
    <3> QED
      BY <3>1, <3>2
  <2>2. ByteAt(b, p + 1) = k /\ ByteAt(b, p + 2) = j
    <3>1. /\ Len(d) = 2 /\ p + Len(d) <= Len(b) /\ d[1] = k /\ d[2] = j
          /\ \A i \in 1..Len(d) : b[p + i] = d[i]
      BY <1>10, <2>1 DEF Occurs, d
    <3>2. b[p + 1] = k /\ b[p + 2] = j /\ p + 1 \in DOMAIN b /\ p + 2 \in DOMAIN b
      BY <3>1
    <3> QED
      BY <3>2 DEF ByteAt
  <2>3. AlternativeAt(b, p) = a
    BY <1>4, <2>2 DEF AlternativeAt
  <2>4. Widths[AlternativeAt(b, p)] = ws
    BY <2>3 DEF ws
  <2>5. /\ \A i \in 1..n : ParameterAt(b, p + 2 + Before(ws, i), ws[i]) = x[i]
        /\ p + 2 + Before(ws, n + 1) = p + 2 + Len(c)
    BY <1>9, <2>1 DEF NumbersAt
  <2>6. Len(ws) = n
    BY DEF n
  <2>7. TypeEnd(b, p) = p + 2 + Before(ws, n + 1)
    BY <2>4, <2>6 DEF TypeEnd
  <2>8. TypeEnd(b, p) = p + Len(TypeBytes(type))
    BY <1>11, <2>5, <2>7
  <2>9. TypeAt(b, p) =
          LogicalType(Kinds[k + 1],
            Parameters(a, [i \in 1..n |-> ParameterAt(b, p + 2 + Before(ws, i), ws[i])]))
    BY <1>6, <2>2, <2>3, <2>4 DEF TypeAt
  <2>10. [i \in 1..n |-> ParameterAt(b, p + 2 + Before(ws, i), ws[i])] = x
    BY <1>8, <2>5
  <2>11. TypeAt(b, p) = type
    BY <1>1, <1>3, <2>9, <2>10
  <2> QED
    BY <2>8, <2>11
<1> QED
  BY <1>11, <1>12

-----------------------------------------------------------------------------
(* Fields.                                                                 *)

\* Where c stands, there stand five codes one after the other.
InTurn(c, c1, c2, c3, c4, c5) ==
  \A b \in Seq(Octet), p \in Nat :
    Occurs(b, p, c) =>
      /\ Occurs(b, p, c1) /\ Occurs(b, p + Len(c1), c2)
      /\ Occurs(b, p + Len(c1) + Len(c2), c3)
      /\ Occurs(b, p + Len(c1) + Len(c2) + Len(c3), c4)
      /\ Occurs(b, p + Len(c1) + Len(c2) + Len(c3) + Len(c4), c5)

\* Five codes joined.
LEMMA FiveParts ==
  ASSUME NEW c1 \in Seq(Octet), NEW c2 \in Seq(Octet), NEW c3 \in Seq(Octet),
         NEW c4 \in Seq(Octet), NEW c5 \in Seq(Octet), NEW c,
         c = c1 \o c2 \o c3 \o c4 \o c5
  PROVE  /\ c \in Seq(Octet)
         /\ Len(c) = Len(c1) + Len(c2) + Len(c3) + Len(c4) + Len(c5)
         /\ InTurn(c, c1, c2, c3, c4, c5)
<1> DEFINE d2 == c1 \o c2
           d3 == d2 \o c3
           d4 == d3 \o c4
           d5 == d4 \o c5
<1>1. /\ d2 \in Seq(Octet) /\ Len(d2) = Len(c1) + Len(c2)
      /\ Len(c1) \in Nat /\ Len(c2) \in Nat /\ Len(c3) \in Nat /\ Len(c4) \in Nat /\ Len(c5) \in Nat
  BY JoinIs
<1>2. c = d5
  OBVIOUS
<1> HIDE DEF d2
<1>3. d3 \in Seq(Octet) /\ Len(d3) = Len(d2) + Len(c3)
  BY <1>1, JoinIs
<1> HIDE DEF d3
<1>4. d4 \in Seq(Octet) /\ Len(d4) = Len(d3) + Len(c4)
  BY <1>3, JoinIs
<1> HIDE DEF d4
<1>5. d5 \in Seq(Octet) /\ Len(d5) = Len(d4) + Len(c5)
  BY <1>4, JoinIs
<1>6. ASSUME NEW b \in Seq(Octet), NEW p \in Nat, Occurs(b, p, c)
      PROVE  /\ Occurs(b, p, c1) /\ Occurs(b, p + Len(c1), c2)
             /\ Occurs(b, p + Len(c1) + Len(c2), c3)
             /\ Occurs(b, p + Len(c1) + Len(c2) + Len(c3), c4)
             /\ Occurs(b, p + Len(c1) + Len(c2) + Len(c3) + Len(c4), c5)
  <2>1. Occurs(b, p, d4 \o c5)
    BY <1>2, <1>6
  <2>2. Occurs(b, p, d4) /\ Occurs(b, p + Len(d4), c5)
    BY <1>4, <2>1, OccursBoth
  <2>3. Occurs(b, p, d3 \o c4)
    BY <2>2 DEF d4
  <2>4. Occurs(b, p, d3) /\ Occurs(b, p + Len(d3), c4)
    BY <1>3, <2>3, OccursBoth
  <2>5. Occurs(b, p, d2 \o c3)
    BY <2>4 DEF d3
  <2>6. Occurs(b, p, d2) /\ Occurs(b, p + Len(d2), c3)
    BY <1>1, <2>5, OccursBoth
  <2>7. Occurs(b, p, c1 \o c2)
    BY <2>6 DEF d2
  <2>8. Occurs(b, p, c1) /\ Occurs(b, p + Len(c1), c2)
    BY <2>7, OccursBoth
  <2>9. /\ p + Len(d2) = p + Len(c1) + Len(c2)
        /\ p + Len(d3) = p + Len(c1) + Len(c2) + Len(c3)
        /\ p + Len(d4) = p + Len(c1) + Len(c2) + Len(c3) + Len(c4)
    BY <1>1, <1>3, <1>4
  <2> QED
    BY <2>2, <2>4, <2>6, <2>8, <2>9
<1>7. Len(c) = Len(c1) + Len(c2) + Len(c3) + Len(c4) + Len(c5)
  BY <1>1, <1>2, <1>3, <1>4, <1>5
<1>8. InTurn(c, c1, c2, c3, c4, c5)
  BY <1>6 DEF InTurn
<1> QED
  BY <1>2, <1>5, <1>7, <1>8

\* A field that can be written
Writable(f) ==
  /\ f = [id |-> f.id, name |-> f.name, type |-> f.type,
          nullable |-> f.nullable, metadata |-> f.metadata]
  /\ f.id \in Word32 /\ f.nullable \in BOOLEAN
  /\ Text(f.name) /\ Typed(f.type) /\ Sized(f.metadata)

\* A field is read back.
LEMMA FieldRead ==
  ASSUME NEW f, Writable(f)
  PROVE  /\ FieldBytes(f) \in Seq(Octet) /\ Len(FieldBytes(f)) \in Nat \ {0}
         /\ \A b \in Seq(Octet), p \in Nat :
              Occurs(b, p, FieldBytes(f)) =>
                FieldAt(b, p) = f /\ FieldEnd(b, p) = p + Len(FieldBytes(f))
<1> DEFINE flag == IF f.nullable THEN 1 ELSE 0
           c1 == Integer(f.id, 4)
           c2 == Bytes(f.name)
           c3 == TypeBytes(f.type)
           c4 == <<flag>>
           c5 == MetadataBytes(f.metadata)
           c == FieldBytes(f)
<1>1. /\ f.id \in 0..MaxWord /\ FitsBytes(f.id, 4) /\ f.id \in Int
      /\ f.nullable \in BOOLEAN
  <2>1. f.id \in Word32 /\ f.nullable \in BOOLEAN
    BY Zenon DEF Writable
  <2>2. f.id \in 0..MaxWord /\ FitsBytes(f.id, 4)
    BY <2>1, WordsFit
  <2>3. f.id \in Int
    BY <2>2, WordAssumption
  <2> QED
    BY <2>1, <2>2, <2>3
<1>2. Text(f.name) /\ Typed(f.type) /\ Sized(f.metadata)
  BY Zenon DEF Writable
<1>3. c1 \in Seq(Octet) /\ Len(c1) = 4
  <2>1. 4 \in Nat \ {0}
    OBVIOUS
  <2> QED
    BY <1>1, <2>1, IntegerTyped
<1>4. c2 \in Seq(Octet)
  BY <1>2, BytesIs
<1>5. /\ c3 \in Seq(Octet)
      /\ \A b \in Seq(Octet), p \in Nat :
           Occurs(b, p, c3) => TypeAt(b, p) = f.type /\ TypeEnd(b, p) = p + Len(c3)
  BY <1>2, TypeRead, Zenon
<1>6. c4 \in Seq(Octet) /\ Len(c4) = 1
  <2>1. flag \in Octet
    BY DEF Octet
  <2> HIDE DEF flag
  <2> QED
    BY <2>1
<1>7. /\ c5 \in Seq(Octet)
      /\ \A b \in Seq(Octet), p \in Nat :
           Occurs(b, p, c5) =>
             MetadataAt(b, p) = f.metadata /\ MetadataEnd(b, p) = p + Len(c5)
  BY <1>2, MetadataRead, Zenon
<1>8. c = c1 \o c2 \o c3 \o c4 \o c5
  BY DEF FieldBytes
<1> HIDE DEF c, c1, c2, c3, c4, c5, flag
<1>12. /\ c1 \in Seq(Octet) /\ c2 \in Seq(Octet) /\ c3 \in Seq(Octet)
       /\ c4 \in Seq(Octet) /\ c5 \in Seq(Octet)
  BY <1>3, <1>4, <1>5, <1>6, <1>7, Zenon
<1>13. /\ c \in Seq(Octet) /\ Len(c) = Len(c1) + Len(c2) + Len(c3) + Len(c4) + Len(c5)
       /\ InTurn(c, c1, c2, c3, c4, c5)
  <2>1. c \in Seq(Octet) /\ InTurn(c, c1, c2, c3, c4, c5)
    BY <1>8, <1>12, FiveParts, Zenon
  <2>2. Len(c) = Len(c1) + Len(c2) + Len(c3) + Len(c4) + Len(c5)
    BY <1>8, <1>12, FiveParts
  <2> QED
    BY <2>1, <2>2
<1>9. /\ c \in Seq(Octet) /\ Len(c) = Len(c1) + Len(c2) + Len(c3) + Len(c4) + Len(c5)
      /\ Len(c1) \in Nat /\ Len(c2) \in Nat /\ Len(c3) \in Nat /\ Len(c4) \in Nat /\ Len(c5) \in Nat
  BY <1>12, <1>13
<1>10. ASSUME NEW b \in Seq(Octet), NEW p \in Nat, Occurs(b, p, c)
       PROVE  FieldAt(b, p) = f /\ FieldEnd(b, p) = p + Len(c)
  <2> DEFINE t == p + 4 + Len(c2)
             s == t + Len(c3)
  <2>1. /\ Occurs(b, p, c1) /\ Occurs(b, p + 4, c2) /\ Occurs(b, t, c3)
        /\ Occurs(b, s, c4) /\ Occurs(b, s + 1, c5)
    <3>1. /\ Occurs(b, p, c1) /\ Occurs(b, p + Len(c1), c2)
          /\ Occurs(b, p + Len(c1) + Len(c2), c3)
          /\ Occurs(b, p + Len(c1) + Len(c2) + Len(c3), c4)
          /\ Occurs(b, p + Len(c1) + Len(c2) + Len(c3) + Len(c4), c5)
      BY <1>10, <1>13 DEF InTurn
    <3> QED
      BY <1>3, <1>6, <3>1
  <2>2. p + 4 \in Nat /\ t \in Nat /\ s \in Nat /\ s + 1 \in Nat
    BY <1>9
  <2>3. NumberAt(b, p, 4) = f.id
    <3>1. 4 \in {1, 2, 4, 8}
      OBVIOUS
    <3> QED
      BY <1>1, <2>1, <3>1, FittingRead DEF c1
  <2>4. TextAt(b, p + 4) = f.name /\ TextEnd(b, p + 4) = t
    <3>1. TextAt(b, p + 4) = f.name /\ TextEnd(b, p + 4) = (p + 4) + Len(c2)
      BY <1>2, <2>1, <2>2, TextRead DEF c2
    <3> QED
      BY <3>1
  <2> HIDE DEF t
  <2>5. TypeAt(b, t) = f.type /\ TypeEnd(b, t) = s
    BY <1>5, <2>1, <2>2
  <2> HIDE DEF s
  <2>6. ByteAt(b, s + 1) = flag
    BY <2>1, <2>2, ByteRead DEF c4
  <2>7. MetadataAt(b, s + 1) = f.metadata /\ MetadataEnd(b, s + 1) = (s + 1) + Len(c5)
    BY <1>7, <2>1, <2>2
  <2>8. TypeStart(b, p) = t /\ FlagStart(b, p) = s
    BY <2>4, <2>5 DEF TypeStart, FlagStart
  <2>9. FieldEnd(b, p) = p + Len(c)
    <3>1. FieldEnd(b, p) = (s + 1) + Len(c5)
      BY <2>7, <2>8 DEF FieldEnd
    <3> QED
      BY <1>3, <1>6, <1>9, <3>1 DEF s, t
  <2>10. (ByteAt(b, s + 1) = 1) = f.nullable
    <3>1. CASE f.nullable
      BY <2>6, <3>1 DEF flag
    <3>2. CASE ~f.nullable
      BY <1>1, <2>6, <3>2 DEF flag
    <3> QED
      BY <1>1, <3>1, <3>2
  <2>11. FieldAt(b, p) =
           [id |-> f.id, name |-> f.name, type |-> f.type,
            nullable |-> f.nullable, metadata |-> f.metadata]
    BY <2>3, <2>4, <2>5, <2>7, <2>8, <2>10, Zenon DEF FieldAt
  <2>12. FieldAt(b, p) = f
    BY <2>11, Zenon DEF Writable
  <2> QED
    BY <2>9, <2>12
<1>11. Len(c) \in Nat \ {0}
  BY <1>3, <1>9
<1> QED
  BY <1>9, <1>10, <1>11 DEF c

-----------------------------------------------------------------------------
(* Schemas.                                                                *)

\* The places where the fields of a schema start.
LEMMA FieldStarts ==
  ASSUME NEW b, NEW p \in Nat, NEW n \in Nat, NEW q \in [0..n -> Nat],
         q[0] = p + 4, ListLength(b, p, 4) = n, \A i \in 1..n : FieldEnd(b, q[i - 1]) = q[i]
  PROVE  \A i \in 0..n : Starts(b, p, 4, FieldEnd)[i] = q[i]
<1> DEFINE next(h, i) == IF i = 0 THEN p + 4 ELSE FieldEnd(b, h[i - 1])
           start[i \in 0..ListLength(b, p, 4)] ==
             IF i = 0 THEN p + 4 ELSE FieldEnd(b, start[i - 1])
<1>1. Starts(b, p, 4, FieldEnd) = start
  BY DEF Starts
<1>2. ASSUME NEW i \in 0..n PROVE q[i] = next(q, i)
  <2>1. CASE i = 0
    BY <2>1
  <2>2. CASE i \in 1..n
    BY <2>2
  <2> QED
    BY <2>1, <2>2
<1>3. q = [i \in 0..n |-> next(q, i)]
  <2> HIDE DEF next
  <2> QED
    BY <1>2
<1>4. start = [i \in 0..n |-> next(start, i)]
  <2>1. \E h : h = [i \in 0..n |-> next(h, i)]
    BY <1>3, Zenon
  <2> QED
    BY <2>1
<1> HIDE DEF start
<1>5. q[0] = start[0]
  BY <1>4
<1>6. ASSUME NEW i \in 1..n, q[i - 1] = start[i - 1]
      PROVE  q[i] = start[i]
  <2>1. i \in 0..n /\ i # 0
    OBVIOUS
  <2>2. start[i] = next(start, i)
    <3> HIDE DEF next
    <3> QED
      BY <1>4, <2>1
  <2>3. start[i] = FieldEnd(b, start[i - 1])
    BY <2>1, <2>2
  <2> QED
    BY <1>6, <2>3
<1>7. \A i \in 0..n : q[i] = start[i]
  <2>1. SameSteps(q, start, n)
    BY <1>5, <1>6 DEF SameSteps
  <2> QED
    BY <2>1, SamePath
<1> QED
  BY <1>1, <1>7

\* The fields of a schema that can be written
Listed(fields) ==
  /\ Len(fields) \in Word32 /\ fields \in [1..Len(fields) -> {fields[i] : i \in DOMAIN fields}]
  /\ \A i \in 1..Len(fields) : Writable(fields[i])

\* The header of the canonical bytes
Header == <<83, 67, 72, 1>>

\* What stands where in the canonical bytes.
LEMMA CanonicalParts ==
  ASSUME NEW h \in Seq(Octet), NEW size \in Seq(Octet), NEW list \in Seq(Octet),
         NEW m \in Seq(Octet), NEW b, b = h \o size \o list \o m
  PROVE  /\ b \in Seq(Octet) /\ Occurs(b, Len(h), size)
         /\ Occurs(b, Len(h) + Len(size), list)
         /\ Occurs(b, Len(h) + Len(size) + Len(list), m)
<1> DEFINE d2 == h \o size
           d3 == d2 \o list
           d4 == d3 \o m
<1>1. d2 \in Seq(Octet) /\ Len(d2) = Len(h) + Len(size) /\ Len(h) \in Nat /\ Len(size) \in Nat
  BY JoinIs
<1>2. b = d4
  OBVIOUS
<1> HIDE DEF d2
<1>3. d3 \in Seq(Octet) /\ Len(d3) = Len(d2) + Len(list) /\ Len(list) \in Nat
  BY <1>1, JoinIs
<1> HIDE DEF d3
<1>4. d4 \in Seq(Octet) /\ Len(d4) \in Nat
  BY <1>3, JoinIs
<1>5. 0 \in Nat /\ Occurs(b, 0, d3 \o m)
  <2>1. Occurs(d4, 0, d4)
    <3> HIDE DEF d4
    <3> QED
      BY <1>4 DEF Occurs
  <2> QED
    BY <1>2, <2>1
<1>6. b \in Seq(Octet)
  BY <1>2, <1>4
<1>7. Occurs(b, 0, d3) /\ Occurs(b, 0 + Len(d3), m)
  BY <1>3, <1>5, <1>6, OccursBoth
<1>8. Occurs(b, 0, d2 \o list)
  BY <1>7 DEF d3
<1>9. Occurs(b, 0, d2) /\ Occurs(b, 0 + Len(d2), list)
  BY <1>1, <1>5, <1>6, <1>8, OccursBoth
<1>10. Occurs(b, 0, h \o size)
  BY <1>9 DEF d2
<1>11. Occurs(b, 0 + Len(h), size)
  BY <1>5, <1>6, <1>10, OccursBoth
<1>12. /\ 0 + Len(h) = Len(h) /\ 0 + Len(d2) = Len(h) + Len(size)
       /\ 0 + Len(d3) = Len(h) + Len(size) + Len(list)
  BY <1>1, <1>3
<1> QED
  BY <1>6, <1>7, <1>9, <1>11, <1>12

\* A schema is read back.
LEMMA SchemaRead ==
  ASSUME NEW fields, Listed(fields), NEW metadata, Sized(metadata), NEW s,
         s = [fields |-> fields, metadata |-> metadata]
  PROVE  ReadSchema(Canonical(s)) = s
<1> DEFINE n == Len(fields)
           b == Canonical(s)
           size == Integer(n, 4)
           cs == [i \in DOMAIN fields |-> FieldBytes(fields[i])]
           list == FlattenSeq(cs)
           m == MetadataBytes(metadata)
<1>1. /\ n \in 0..MaxWord /\ FitsBytes(n, 4) /\ n \in Nat
      /\ DOMAIN fields = 1..n /\ fields = [i \in 1..n |-> fields[i]]
      /\ \A i \in 1..n : Writable(fields[i])
  <2>1. /\ n \in Word32 /\ fields \in [1..n -> {fields[i] : i \in DOMAIN fields}]
        /\ \A i \in 1..n : Writable(fields[i])
    BY Zenon DEF Listed
  <2>2. n \in 0..MaxWord /\ FitsBytes(n, 4)
    BY <2>1, WordsFit
  <2>3. n \in Nat
    BY <2>2, WordAssumption
  <2> HIDE DEF n
  <2> QED
    BY <2>1, <2>2, <2>3
<1>2. b = Header \o size \o list \o m
  BY DEF Canonical, Header
<1>3. \A i \in 1..n : cs[i] = FieldBytes(fields[i])
  BY <1>1
<1>4. DOMAIN cs = 1..n
  BY <1>1
<1>5. ASSUME NEW i \in 1..n
      PROVE  /\ FieldBytes(fields[i]) \in Seq(Octet) /\ Len(FieldBytes(fields[i])) \in Nat \ {0}
             /\ \A x \in Seq(Octet), p \in Nat :
                  Occurs(x, p, FieldBytes(fields[i])) =>
                    /\ FieldAt(x, p) = fields[i]
                    /\ FieldEnd(x, p) = p + Len(FieldBytes(fields[i]))
  BY <1>1, FieldRead, Zenon
<1>6. cs \in [1..n -> Seq(Octet)]
  BY <1>1, <1>5
<1> HIDE DEF cs, n
<1>7. size \in Seq(Octet) /\ Len(size) = 4
  <2>1. 4 \in Nat \ {0} /\ n \in Int
    BY <1>1
  <2> QED
    BY <2>1, IntegerTyped
<1>8. list \in Seq(Octet) /\ Len(list) \in Nat
  <2>1. <<>> \in Seq(Octet) /\ 0 \in Nat
    OBVIOUS
  <2>2. list \in Seq(Octet)
    BY <1>1, <1>6, <2>1, FlattenOccurs
  <2> HIDE DEF list
  <2> QED
    BY <2>2
<1>9. /\ m \in Seq(Octet)
      /\ \A x \in Seq(Octet), p \in Nat :
           Occurs(x, p, m) => MetadataAt(x, p) = metadata /\ MetadataEnd(x, p) = p + Len(m)
  BY MetadataRead, Zenon
<1>10. Header \in Seq(Octet) /\ Len(Header) = 4
  BY DEF Header, Octet
<1> HIDE DEF b, size, list, m
<1>11. /\ b \in Seq(Octet) /\ Occurs(b, 4, size) /\ Occurs(b, 8, list)
       /\ Occurs(b, 8 + Len(list), m)
  <2>1. /\ b \in Seq(Octet) /\ Occurs(b, Len(Header), size)
        /\ Occurs(b, Len(Header) + Len(size), list)
        /\ Occurs(b, Len(Header) + Len(size) + Len(list), m)
    BY <1>2, <1>7, <1>8, <1>9, <1>10, CanonicalParts, Zenon
  <2>2. /\ Len(Header) = 4 /\ Len(Header) + Len(size) = 8
        /\ Len(Header) + Len(size) + Len(list) = 8 + Len(list)
    BY <1>7, <1>8, <1>10
  <2> QED
    BY <2>1, <2>2
<1>12. 4 \in Nat /\ 8 \in Nat /\ 4 + 4 = 8
  OBVIOUS
<1>13. PICK q : Chain(b, q, n, cs) /\ q[0] = 8 /\ q[n] = 8 + Len(list)
  <2>1. Occurs(b, 8, FlattenSeq(cs))
    BY <1>11 DEF list
  <2>2. \E q : Chain(b, q, n, cs) /\ q[0] = 8 /\ q[n] = 8 + Len(FlattenSeq(cs))
    BY <1>1, <1>6, <1>11, <1>12, <2>1, FlattenOccurs, ZenonT(40)
  <2> QED
    BY <2>2, Zenon DEF list
<1>14. /\ q \in [0..n -> Nat]
       /\ \A i \in 1..n : q[i] = q[i - 1] + Len(cs[i]) /\ Occurs(b, q[i - 1], cs[i])
  BY <1>13 DEF Chain
<1>15. ASSUME NEW i \in 1..n
       PROVE  /\ Len(cs[i]) \in Nat \ {0} /\ FieldEnd(b, q[i - 1]) = q[i]
              /\ FieldAt(b, q[i - 1]) = fields[i]
  <2> DEFINE e == q[i - 1]
             c == FieldBytes(fields[i])
  <2>1. e \in Nat /\ q[i] = e + Len(c) /\ Occurs(b, e, c) /\ cs[i] = c
    BY <1>1, <1>3, <1>14
  <2>2. /\ Len(c) \in Nat \ {0}
        /\ \A x \in Seq(Octet), p \in Nat :
             Occurs(x, p, c) => FieldAt(x, p) = fields[i] /\ FieldEnd(x, p) = p + Len(c)
    BY <1>5
  <2> HIDE DEF c, e
  <2>3. FieldAt(b, e) = fields[i] /\ FieldEnd(b, e) = e + Len(c)
    BY <1>11, <2>1, <2>2
  <2> QED
    BY <2>1, <2>2, <2>3 DEF e
<1>16. n <= Len(b)
  BY <1>1, <1>11, <1>13, <1>15, ChainLength
<1>17. ListLength(b, 4, 4) = n
  <2>1. 4 \in {1, 2, 4, 8}
    OBVIOUS
  <2>2. NumberAt(b, 4, 4) = n
    BY <1>1, <1>11, <1>12, <2>1, FittingRead DEF size
  <2>3. Len(b) \in Nat
    BY <1>11
  <2> QED
    BY <1>1, <1>16, <2>2, <2>3 DEF ListLength, Least
<1> DEFINE starts == Starts(b, 4, 4, FieldEnd)
<1>18. \A i \in 0..n : starts[i] = q[i]
  <2> DEFINE p == 4
  <2>1. p \in Nat /\ q[0] = p + 4
    BY <1>12, <1>13
  <2>2. ListLength(b, p, 4) = n /\ starts = Starts(b, p, 4, FieldEnd)
    BY <1>17
  <2> HIDE DEF p, starts
  <2>3. q \in [0..n -> Nat] /\ \A i \in 1..n : FieldEnd(b, q[i - 1]) = q[i]
    BY <1>14, <1>15
  <2>4. \A i \in 0..n : Starts(b, p, 4, FieldEnd)[i] = q[i]
    BY <1>1, <2>1, <2>2, <2>3, FieldStarts, Zenon
  <2> QED
    BY <2>2, <2>4, Zenon
<1>19. ReadSchema(b) =
         [fields   |-> [i \in 1..n |-> FieldAt(b, starts[i - 1])],
          metadata |-> MetadataAt(b, starts[n])]
  BY <1>17 DEF ReadSchema
<1> HIDE DEF starts
<1>20. \A i \in 1..n : FieldAt(b, starts[i - 1]) = fields[i]
  <2>1. \A i \in 1..n : i - 1 \in 0..n
    BY <1>1
  <2> QED
    BY <1>15, <1>18, <2>1
<1>21. [i \in 1..n |-> FieldAt(b, starts[i - 1])] = fields
  BY <1>1, <1>20
<1>22. MetadataAt(b, starts[n]) = metadata
  <2>1. n \in 0..n /\ 8 + Len(list) \in Nat
    BY <1>1, <1>8
  <2>2. starts[n] = 8 + Len(list)
    BY <1>13, <1>18, <2>1
  <2> QED
    BY <1>9, <1>11, <2>1, <2>2
<1> QED
  BY <1>19, <1>21, <1>22 DEF b

-----------------------------------------------------------------------------
(* What the builders hold.                                                 *)

\* Metadata whose keys add_metadata_value let through
GoodKeys == {k \in Keys : KeyError(k) = "none"}
Metadata == UNION {[K -> Values] : K \in {K \in SUBSET GoodKeys : IsFiniteSet(K)}}

\* What a FieldBuilder can hold, and what its finish() can publish
MadeFields ==
  {Field(d, m) : d \in {d \in Drafts : CreateError(d.type.kind, d.type.parameters) = "none"},
                 m \in Metadata}
SoundFields == {f \in MadeFields : f.id # 0 /\ f.name # <<>> /\ ValidUtf8(f.name)}

FieldBuilderOK ==
  fb # None => \/ fb \in [made : MadeFields, finished : {FALSE}]
               \/ fb \in [made : {None}, finished : {TRUE}]

FieldOK == field # None => field \in SoundFields

SchemaBuilderOK == sb \in [fields : Seq(SoundFields), metadata : Metadata, finished : BOOLEAN]

SchemaOK ==
  schema # None =>
    /\ schema.content \in [fields : Seq(SoundFields), metadata : Metadata]
    /\ Unique(schema.content.fields)
    /\ Listed(schema.content.fields) /\ Sized(schema.content.metadata)
    /\ schema.canonical = Canonical(schema.content)

IInv == FieldBuilderOK /\ FieldOK /\ SchemaBuilderOK /\ SchemaOK

\* Metadata starts empty.
LEMMA EmptyMetadata == <<>> \in Metadata
<1>1. {} \in SUBSET GoodKeys /\ IsFiniteSet({})
  BY FS_EmptySet
<1>2. <<>> \in [{} -> Values]
  OBVIOUS
<1> QED
  BY <1>1, <1>2 DEF Metadata

\* add_metadata_value keeps metadata sound.
LEMMA MetadataGrows ==
  ASSUME NEW m \in Metadata, NEW k \in Keys, NEW v \in Values, AddMetadataError(m, k) = "none"
  PROVE  AddMetadata(m, k, v) \in Metadata
<1>1. PICK K : K \in SUBSET GoodKeys /\ IsFiniteSet(K) /\ m \in [K -> Values]
  BY DEF Metadata
<1>2. KeyError(k) = "none"
  <2>1. FirstError(<<Check(KeyError(k) # "none", KeyError(k)),
                     Check(k \in DOMAIN m, "invalid_schema")>>) = "none"
    BY DEF AddMetadataError
  <2> DEFINE a == Check(KeyError(k) # "none", KeyError(k))
             b == Check(k \in DOMAIN m, "invalid_schema")
  <2>2. /\ a.fails <=> KeyError(k) # "none"
        /\ a.error = KeyError(k) /\ b.error # "none"
    BY DEF Check
  <2>3. FirstError(<<a, b>>) = "none"
    BY <2>1
  <2> HIDE DEF a, b
  <2> QED
    BY <2>2, <2>3, TwoPass
<1>3. K \cup {k} \in SUBSET GoodKeys /\ IsFiniteSet(K \cup {k})
  BY <1>1, <1>2, FS_AddElement DEF GoodKeys
<1>4. AddMetadata(m, k, v) \in [K \cup {k} -> Values]
  BY <1>1 DEF AddMetadata
<1> QED
  BY <1>3, <1>4 DEF Metadata

-----------------------------------------------------------------------------
(* What lists of checks answer.                                            *)

Errors == {"invalid_schema", "invalid_resource_limit", "limit_exceeded", "arithmetic_overflow"}
CheckSet == [fails : BOOLEAN, error : Errors]

\* A check that can be made and what it says.
LEMMA CheckIs ==
  ASSUME NEW p \in BOOLEAN, NEW e \in Errors
  PROVE  Check(p, e) \in CheckSet /\ Check(p, e).fails = p /\ Check(p, e).error = e
BY DEF Check, CheckSet

\* A list that starts with another answers what that does unless it passes.
LEMMA ConcatFirst ==
  ASSUME NEW a \in Seq(CheckSet), NEW b \in Seq(CheckSet)
  PROVE  FirstError(a \o b) = IF FirstError(a) = "none" THEN FirstError(b) ELSE FirstError(a)
<1>1. /\ a \o b \in Seq(CheckSet) /\ Len(a \o b) = Len(a) + Len(b)
      /\ Len(a) \in Nat /\ Len(b) \in Nat
      /\ \A i \in 1..Len(a) : (a \o b)[i] = a[i]
      /\ \A i \in 1..Len(b) : (a \o b)[Len(a) + i] = b[i]
  OBVIOUS
<1>0. \A c \in CheckSet : c.error # "none"
  BY DEF CheckSet, Errors
<1>2. \A s \in Seq(CheckSet) : Len(s) \in Nat /\ \A i \in 1..Len(s) : s[i].error # "none"
  BY <1>0
<1>3. \A s \in Seq(CheckSet) : FirstError(s) = "none" <=> \A i \in 1..Len(s) : ~s[i].fails
  BY <1>2, FirstErrorNone
<1>4. \A s \in Seq(CheckSet) : \A i \in 1..Len(s) : s[i].fails =>
        \E j \in 1..i : /\ s[j].fails /\ FirstError(s) = s[j].error
                        /\ \A k \in 1..(j - 1) : ~s[k].fails
  BY <1>2, FirstErrorFails
<1>5. CASE FirstError(a) # "none"
  <2>1. PICK i \in 1..Len(a) : a[i].fails
    BY <1>3, <1>5
  <2>2. PICK j \in 1..i : /\ a[j].fails /\ FirstError(a) = a[j].error
                          /\ \A k \in 1..(j - 1) : ~a[k].fails
    BY <1>4, <2>1
  <2>3. i \in 1..Len(a \o b) /\ (a \o b)[i].fails
    BY <1>1, <2>1
  <2>4. PICK m \in 1..i : /\ (a \o b)[m].fails /\ FirstError(a \o b) = (a \o b)[m].error
                          /\ \A k \in 1..(m - 1) : ~(a \o b)[k].fails
    BY <1>1, <1>4, <2>3
  <2>5. j \in 1..Len(a) /\ m \in 1..Len(a) /\ (a \o b)[j] = a[j] /\ (a \o b)[m] = a[m]
    BY <1>1, <2>1
  <2>6. j = m
    <3>1. ~(j \in 1..(m - 1)) /\ ~(m \in 1..(j - 1))
      BY <2>2, <2>4, <2>5
    <3> QED
      BY <3>1
  <2> QED
    BY <1>5, <2>2, <2>4, <2>5, <2>6
<1>6. CASE FirstError(a) = "none" /\ FirstError(b) = "none"
  BY <1>0, <1>6, ConcatPasses
<1>7. CASE FirstError(a) = "none" /\ FirstError(b) # "none"
  <2>1. PICK i \in 1..Len(b) : b[i].fails
    BY <1>3, <1>7
  <2>2. PICK j \in 1..i : /\ b[j].fails /\ FirstError(b) = b[j].error
                          /\ \A k \in 1..(j - 1) : ~b[k].fails
    BY <1>4, <2>1
  <2>3. Len(a) + i \in 1..Len(a \o b) /\ (a \o b)[Len(a) + i].fails
    BY <1>1, <2>1
  <2>4. PICK m \in 1..(Len(a) + i) :
               /\ (a \o b)[m].fails /\ FirstError(a \o b) = (a \o b)[m].error
               /\ \A k \in 1..(m - 1) : ~(a \o b)[k].fails
    BY <1>1, <1>4, <2>3
  <2>5. m \notin 1..Len(a)
    BY <1>1, <1>3, <1>7, <2>4
  <2>6. m - Len(a) \in 1..Len(b) /\ Len(a) + (m - Len(a)) = m
    BY <1>1, <2>1, <2>4, <2>5
  <2>7. b[m - Len(a)] = (a \o b)[m]
    BY <1>1, <2>6
  <2>8. j = m - Len(a)
    <3>1. ~(m - Len(a) \in 1..(j - 1))
      BY <2>2, <2>4, <2>7
    <3>2. ~(Len(a) + j \in 1..(m - 1))
      <4>1. j \in 1..Len(b)
        BY <1>1, <2>1
      <4>2. (a \o b)[Len(a) + j].fails
        BY <1>1, <2>2, <4>1
      <4> QED
        BY <2>4, <4>2
    <3>3. /\ Len(a) \in Nat /\ j \in Nat /\ j >= 1 /\ m \in Nat /\ m >= 1
          /\ m - Len(a) >= 1
      BY <1>1, <2>1, <2>2, <2>4, <2>6
    <3>4. ~(m - Len(a) < j)
      BY <3>1, <3>3
    <3>5. ~(Len(a) + j < m)
      BY <3>2, <3>3
    <3> QED
      BY <3>3, <3>4, <3>5
  <2> QED
    BY <1>7, <2>2, <2>4, <2>7, <2>8
<1> QED
  BY <1>5, <1>6, <1>7

\* A list of one check.
LEMMA OneCheck ==
  ASSUME NEW c \in CheckSet
  PROVE  /\ <<c>> \in Seq(CheckSet)
         /\ FirstError(<<c>>) = IF c.fails THEN c.error ELSE "none"
<1>1. c.error # "none"
  BY DEF CheckSet, Errors
<1> DEFINE s == <<c>>
<1>2. Len(s) = 1 /\ s[1] = c /\ s \in Seq(CheckSet)
  OBVIOUS
<1> HIDE DEF s
<1>3. Len(s) \in Nat /\ \A i \in 1..Len(s) : s[i].error # "none"
  BY <1>1, <1>2
<1>4. CASE ~c.fails
  BY <1>2, <1>3, <1>4, FirstErrorNone DEF s
<1>5. CASE c.fails
  <2>1. 1 \in 1..Len(s) /\ s[1].fails
    BY <1>2, <1>5
  <2>2. PICK j \in 1..1 : FirstError(s) = s[j].error
    BY <1>3, <2>1, FirstErrorFails
  <2> QED
    BY <1>2, <1>5, <2>2 DEF s
<1> QED
  BY <1>2, <1>4, <1>5 DEF s

\* Short lists put together.
LEMMA Joins ==
  ASSUME NEW S, NEW a \in S, NEW b \in S, NEW c \in S
  PROVE  <<a>> \o <<b>> = <<a, b>> /\ <<a>> \o <<b, c>> = <<a, b, c>>
<1> DEFINE s == <<a>>
           t == <<b>>
           u == <<b, c>>
           st == <<a, b>>
           su == <<a, b, c>>
<1>1. /\ s \in Seq(S) /\ t \in Seq(S) /\ u \in Seq(S) /\ st \in Seq(S) /\ su \in Seq(S)
      /\ Len(s) = 1 /\ Len(t) = 1 /\ Len(u) = 2 /\ Len(st) = 2 /\ Len(su) = 3
      /\ s[1] = a /\ t[1] = b /\ u[1] = b /\ u[2] = c
      /\ st[1] = a /\ st[2] = b /\ su[1] = a /\ su[2] = b /\ su[3] = c
  OBVIOUS
<1> HIDE DEF s, t, u, st, su
<1>2. \A x, y \in Seq(S) :
        /\ x \o y \in Seq(S) /\ Len(x \o y) = Len(x) + Len(y)
        /\ \A i \in 1..Len(x) : (x \o y)[i] = x[i]
        /\ \A i \in 1..Len(y) : (x \o y)[Len(x) + i] = y[i]
  OBVIOUS
<1>3. s \o t = st
  <2>1. s \o t \in Seq(S) /\ Len(s \o t) = 2 /\ (s \o t)[1] = a /\ (s \o t)[2] = b
    <3>1. /\ 1 \in 1..Len(s) /\ 1 \in 1..Len(t) /\ Len(s) + Len(t) = 2 /\ Len(s) + 1 = 2
          /\ s \in Seq(S) /\ t \in Seq(S)
      BY <1>1
    <3>2. s \o t \in Seq(S) /\ Len(s \o t) = Len(s) + Len(t)
      BY <1>2, <3>1
    <3>3. (s \o t)[1] = s[1] /\ (s \o t)[Len(s) + 1] = t[1]
      BY <1>2, <3>1
    <3> QED
      BY <1>1, <3>1, <3>2, <3>3
  <2> QED
    BY <1>1, <2>1
<1>4. s \o u = su
  <2>1. /\ s \o u \in Seq(S) /\ Len(s \o u) = 3
        /\ (s \o u)[1] = a /\ (s \o u)[2] = b /\ (s \o u)[3] = c
    <3>1. /\ 1 \in 1..Len(s) /\ 1 \in 1..Len(u) /\ 2 \in 1..Len(u)
          /\ Len(s) + Len(u) = 3 /\ Len(s) + 1 = 2 /\ Len(s) + 2 = 3
          /\ s \in Seq(S) /\ u \in Seq(S)
      BY <1>1
    <3>2. s \o u \in Seq(S) /\ Len(s \o u) = Len(s) + Len(u)
      BY <1>2, <3>1
    <3>3. (s \o u)[1] = s[1] /\ (s \o u)[Len(s) + 1] = u[1] /\ (s \o u)[Len(s) + 2] = u[2]
      BY <1>2, <3>1
    <3> QED
      BY <1>1, <3>1, <3>2, <3>3
  <2> QED
    BY <1>1, <2>1
<1> QED
  BY <1>3, <1>4 DEF s, t, u, st, su

\* A list of two checks.
LEMMA TwoChecks ==
  ASSUME NEW a \in CheckSet, NEW b \in CheckSet
  PROVE  /\ <<a, b>> \in Seq(CheckSet)
         /\ FirstError(<<a, b>>) = IF a.fails THEN a.error
                                   ELSE IF b.fails THEN b.error ELSE "none"
<1>1. a.error # "none" /\ b.error # "none" /\ <<a, b>> \in Seq(CheckSet)
  BY DEF CheckSet, Errors
<1>2. /\ <<a>> \in Seq(CheckSet) /\ FirstError(<<a>>) = IF a.fails THEN a.error ELSE "none"
      /\ <<b>> \in Seq(CheckSet) /\ FirstError(<<b>>) = IF b.fails THEN b.error ELSE "none"
  BY OneCheck
<1>3. FirstError(<<a>> \o <<b>>) = IF FirstError(<<a>>) = "none" THEN FirstError(<<b>>)
                                   ELSE FirstError(<<a>>)
  BY <1>2, ConcatFirst
<1> QED
  BY <1>1, <1>2, <1>3, Joins

\* The limit on names and metadata, with a size that may be past every word.
LEMMA OverLimitIs ==
  ASSUME NEW n, NEW lim
  PROVE  /\ OverLimit(n, lim) \in Seq(CheckSet)
         /\ FirstError(OverLimit(n, lim)) =
              IF n > MaxWord THEN "arithmetic_overflow"
              ELSE IF n > lim.metadata_bytes THEN "limit_exceeded" ELSE "none"
<1> DEFINE p == n > MaxWord
           q == n > lim.metadata_bytes
           a == Check(p, "arithmetic_overflow")
           b == Check(q, "limit_exceeded")
<1>1. p \in BOOLEAN /\ q \in BOOLEAN
  OBVIOUS
<1>2. OverLimit(n, lim) = <<a, b>>
  BY DEF OverLimit
<1> HIDE DEF p, q
<1>3. a \in CheckSet /\ a.fails = p /\ a.error = "arithmetic_overflow"
  BY <1>1, CheckIs, Zenon DEF Errors
<1>4. b \in CheckSet /\ b.fails = q /\ b.error = "limit_exceeded"
  BY <1>1, CheckIs, Zenon DEF Errors
<1> HIDE DEF a, b
<1>5. FirstError(<<a, b>>) = IF a.fails THEN a.error ELSE IF b.fails THEN b.error ELSE "none"
  BY <1>3, <1>4, TwoChecks
<1>6. OverLimit(n, lim) \in Seq(CheckSet)
  BY <1>2, <1>3, <1>4, TwoChecks
<1> QED
  BY <1>2, <1>3, <1>4, <1>5, <1>6 DEF p, q

\* The concatenation of the first k lists answers "none" if all pass, or what one
\* of them does.
Answers(seqs, k, error) ==
  \/ error = "none" /\ \A i \in 1..k : FirstError(seqs[i]) = "none"
  \/ error # "none" /\ \E i \in 1..k : error = FirstError(seqs[i])

\* The checks of all fields together answer what the lists of the fields do.
LEMMA FlattenFirst ==
  ASSUME NEW n \in Nat, NEW seqs \in [1..n -> Seq(CheckSet)]
  PROVE  /\ FlattenSeq(seqs) \in Seq(CheckSet)
         /\ Answers(seqs, n, FirstError(FlattenSeq(seqs)))
<1> DEFINE Partial(k, f) == /\ f[1] = seqs[1]
                            /\ \A i \in 2..k : f[i] = f[i - 1] \o seqs[i]
                            /\ Answers(seqs, k, FirstError(f[k]))
           T == {k \in 1..n : ~\E f \in [1..k -> Seq(CheckSet)] : Partial(k, f)}
<1>1. CASE n = 0
  <2>1. seqs = <<>>
    BY <1>1
  <2>2. FlattenSeq(<<>>) = <<>>
    BY DEF FlattenSeq
  <2>3. FirstError(<<>>) = "none"
    <3>1. Len(<<>>) = 0 /\ 1..0 = {}
      OBVIOUS
    <3> QED
      BY <3>1, FirstErrorNone
  <2>4. <<>> \in Seq(CheckSet) /\ 1..n = {}
    BY <1>1
  <2> QED
    BY <2>1, <2>2, <2>3, <2>4 DEF Answers
<1>2. CASE n # 0 /\ T = {}
  <2>1. n \in 1..n /\ n \in Nat \ {0}
    BY <1>2
  <2>2. PICK f \in [1..n -> Seq(CheckSet)] : Partial(n, f)
    BY <1>2, <2>1
  <2>3. Len(seqs) = n
    OBVIOUS
  <2>4. /\ f[1] = seqs[1] /\ \A i \in 2..n : f[i] = f[i - 1] \o seqs[i]
        /\ Answers(seqs, n, FirstError(f[n])) /\ f[n] \in Seq(CheckSet)
    BY <2>1, <2>2
  <2>5. FlattenSeq(seqs) = f[n]
    BY <2>1, <2>2, <2>3, <2>4, FlattenUnfolds
  <2> QED
    BY <2>4, <2>5
<1>3. ASSUME T # {} PROVE FALSE
  <2>1. T \subseteq Nat
    <3>1. T \subseteq 1..n
      BY Zenon
    <3> HIDE DEF T
    <3> QED
      BY <3>1
  <2>2. PICK k \in T : \A m \in T : k <= m
    <3> HIDE DEF T
    <3> QED
      BY <1>3, <2>1, LeastExists
  <2>3. k \in 1..n /\ seqs[k] \in Seq(CheckSet)
    OBVIOUS
  <2>4. k # 1
    <3> DEFINE f == [i \in 1..1 |-> seqs[1]]
    <3> SUFFICES ASSUME k = 1 PROVE FALSE
      OBVIOUS
    <3>1. f \in [1..1 -> Seq(CheckSet)] /\ f[1] = seqs[1] /\ 2..1 = {}
      BY <2>3
    <3>2. Answers(seqs, 1, FirstError(f[1]))
      BY <3>1 DEF Answers
    <3>3. Partial(1, f)
      BY <3>1, <3>2
    <3> QED
      BY <2>2, <3>1, <3>3
  <2>5. k - 1 \in 1..n /\ k - 1 \notin T
    <3>1. k - 1 \in 1..n /\ ~(k <= k - 1)
      BY <2>3, <2>4
    <3> QED
      BY <2>2, <3>1
  <2>6. PICK f \in [1..(k - 1) -> Seq(CheckSet)] : Partial(k - 1, f)
    BY <2>5
  <2> DEFINE p == f[k - 1]
             g == [i \in 1..k |-> IF i = k THEN p \o seqs[k] ELSE f[i]]
  <2>7. p \in Seq(CheckSet) /\ Answers(seqs, k - 1, FirstError(p))
    BY <2>5, <2>6
  <2>8. p \o seqs[k] \in Seq(CheckSet)
    BY <2>3, <2>7
  <2>9. g \in [1..k -> Seq(CheckSet)]
    <3> SUFFICES ASSUME NEW i \in 1..k
                 PROVE  (IF i = k THEN p \o seqs[k] ELSE f[i]) \in Seq(CheckSet)
      OBVIOUS
    <3>1. i # k => i \in 1..(k - 1)
      BY <2>3
    <3> QED
      BY <2>8, <3>1
  <2>10. g[1] = seqs[1]
    <3>1. 1 \in 1..k /\ 1 # k /\ f[1] = seqs[1]
      BY <2>3, <2>4, <2>6
    <3> QED
      BY <3>1
  <2>11. ASSUME NEW i \in 2..k PROVE g[i] = g[i - 1] \o seqs[i]
    <3>1. i \in 1..k /\ i - 1 \in 1..k /\ i - 1 # k
      BY <2>3
    <3>2. g[i - 1] = f[i - 1]
      BY <3>1
    <3>3. CASE i = k
      BY <3>1, <3>2, <3>3
    <3>4. CASE i # k
      <4>1. i \in 2..(k - 1) /\ g[i] = f[i]
        BY <2>3, <3>1, <3>4
      <4>2. f[i] = f[i - 1] \o seqs[i]
        BY <2>6, <4>1
      <4> QED
        BY <3>2, <4>1, <4>2
    <3> QED
      BY <3>3, <3>4
  <2>12. Answers(seqs, k, FirstError(p \o seqs[k]))
    <3> HIDE DEF p, g
    <3>1. FirstError(p \o seqs[k]) = IF FirstError(p) = "none" THEN FirstError(seqs[k])
                                     ELSE FirstError(p)
      BY <2>3, <2>7, ConcatFirst
    <3>2. k \in 1..k /\ \A i \in 1..k : i # k => i \in 1..(k - 1)
      BY <2>3
    <3>3. \A i \in 1..(k - 1) : i \in 1..k
      BY <2>3
    <3> QED
      BY <2>7, <3>1, <3>2, <3>3 DEF Answers
  <2>13. g[k] = p \o seqs[k]
    <3>1. k \in 1..k
      BY <2>3
    <3> HIDE DEF p
    <3> QED
      BY <3>1
  <2>14. Partial(k, g)
    BY <2>10, <2>11, <2>12, <2>13
  <2> QED
    BY <2>2, <2>9, <2>14
<1> QED
  BY <1>1, <1>2, <1>3

-----------------------------------------------------------------------------
(* The answers of finish().                                                *)

\* The limit on metadata is a std::uint64_t.
LEMMA LimitsAreWords == \A lim \in LimitSets : lim \in Limits /\ lim.metadata_bytes <= MaxWord
BY SchemaAssumption

\* A field is refused for what it is, or for its size.
LEMMA FinishFieldIs ==
  ASSUME NEW f, NEW lim
  PROVE  FinishFieldError(f, lim) =
           IF f.id = 0 \/ f.name = <<>> \/ ~ValidUtf8(f.name) THEN "invalid_schema"
           ELSE FirstError(OverLimit(FieldSize(f), lim))
<1> DEFINE p == f.id = 0 \/ f.name = <<>> \/ ~ValidUtf8(f.name)
           c == Check(p, "invalid_schema")
<1>1. p \in BOOLEAN
  OBVIOUS
<1>2. FinishFieldError(f, lim) = FirstError(<<c>> \o OverLimit(FieldSize(f), lim))
  BY DEF FinishFieldError
<1> HIDE DEF p
<1>3. c \in CheckSet /\ c.fails = p /\ c.error = "invalid_schema"
  BY <1>1, CheckIs, Zenon DEF Errors
<1> HIDE DEF c
<1>4. <<c>> \in Seq(CheckSet) /\ FirstError(<<c>>) = IF p THEN "invalid_schema" ELSE "none"
  BY <1>3, OneCheck
<1>5. OverLimit(FieldSize(f), lim) \in Seq(CheckSet)
  BY OverLimitIs
<1>6. FirstError(<<c>> \o OverLimit(FieldSize(f), lim)) =
        IF FirstError(<<c>>) = "none" THEN FirstError(OverLimit(FieldSize(f), lim))
        ELSE FirstError(<<c>>)
  BY <1>4, <1>5, ConcatFirst
<1> QED
  BY <1>2, <1>4, <1>6 DEF p

\* What FieldBuilder's finish() lets through is sound.
LEMMA FinishedIsSound ==
  ASSUME NEW f \in MadeFields, NEW lim, FinishFieldError(f, lim) = "none"
  PROVE  f \in SoundFields
BY FinishFieldIs DEF SoundFields

\* The schema's own checks come first, then those of its fields.
OwnError(fields, metadata, lim) ==
  IF ~LimitsValid(lim) THEN "invalid_resource_limit"
  ELSE IF fields = <<>> THEN "invalid_schema"
  ELSE IF Len(fields) > lim.fields THEN "limit_exceeded"
  ELSE FirstError(OverLimit(MetadataSize(metadata), lim))

FieldsChecks(fields, metadata, lim) ==
  FlattenSeq([i \in DOMAIN fields |-> FieldChecks(fields, metadata, i, lim)])

\* finish() goes through the fields only if nothing is wrong before.
LEMMA FinishIs ==
  ASSUME NEW fields, NEW metadata, NEW lim,
         FieldsChecks(fields, metadata, lim) \in Seq(CheckSet)
  PROVE  FinishError(fields, metadata, lim) =
           IF OwnError(fields, metadata, lim) # "none" THEN OwnError(fields, metadata, lim)
           ELSE FirstError(FieldsChecks(fields, metadata, lim))
<1> DEFINE p == ~LimitsValid(lim)
           q == fields = <<>>
           r == Len(fields) > lim.fields
           a == Check(p, "invalid_resource_limit")
           b == Check(q, "invalid_schema")
           c == Check(r, "limit_exceeded")
           own == OverLimit(MetadataSize(metadata), lim)
           each == FieldsChecks(fields, metadata, lim)
<1>1. p \in BOOLEAN /\ q \in BOOLEAN /\ r \in BOOLEAN
  BY DEF LimitsValid
<1>2. FinishError(fields, metadata, lim) = FirstError(<<a, b, c>> \o own \o each)
  BY DEF FinishError, FieldsChecks
<1>3. own \in Seq(CheckSet)
  BY OverLimitIs
<1>4. OwnError(fields, metadata, lim) =
        IF p THEN "invalid_resource_limit" ELSE IF q THEN "invalid_schema"
        ELSE IF r THEN "limit_exceeded" ELSE FirstError(own)
  BY DEF OwnError
<1>0. each \in Seq(CheckSet)
  OBVIOUS
<1> HIDE DEF p, q, r, own, each
<1>5. a \in CheckSet /\ a.fails = p /\ a.error = "invalid_resource_limit"
  BY <1>1, CheckIs, Zenon DEF Errors
<1>6. b \in CheckSet /\ b.fails = q /\ b.error = "invalid_schema"
  BY <1>1, CheckIs, Zenon DEF Errors
<1>7. c \in CheckSet /\ c.fails = r /\ c.error = "limit_exceeded"
  BY <1>1, CheckIs, Zenon DEF Errors
<1> HIDE DEF a, b, c
<1>8. /\ <<a>> \in Seq(CheckSet)
      /\ FirstError(<<a>>) = IF p THEN "invalid_resource_limit" ELSE "none"
  BY <1>5, OneCheck
<1>9. /\ <<b, c>> \in Seq(CheckSet)
      /\ FirstError(<<b, c>>) = IF q THEN "invalid_schema"
                                ELSE IF r THEN "limit_exceeded" ELSE "none"
  BY <1>6, <1>7, TwoChecks
<1>10. <<a, b, c>> = <<a>> \o <<b, c>> /\ <<a, b, c>> \in Seq(CheckSet)
  BY <1>5, <1>6, <1>7, Joins
<1>11. FirstError(<<a>> \o <<b, c>>) =
         IF FirstError(<<a>>) = "none" THEN FirstError(<<b, c>>) ELSE FirstError(<<a>>)
  BY <1>8, <1>9, ConcatFirst
<1> DEFINE first == <<a, b, c>>
<1>12. FirstError(first) = IF p THEN "invalid_resource_limit" ELSE IF q THEN "invalid_schema"
                           ELSE IF r THEN "limit_exceeded" ELSE "none"
  BY <1>8, <1>9, <1>10, <1>11
<1>13. first \in Seq(CheckSet) /\ FinishError(fields, metadata, lim) = FirstError(first \o own \o each)
  BY <1>2, <1>10
<1> HIDE DEF first
<1>14. first \o own \in Seq(CheckSet)
  BY <1>3, <1>13
<1>15. FirstError(first \o own) =
         IF FirstError(first) = "none" THEN FirstError(own) ELSE FirstError(first)
  BY <1>3, <1>13, ConcatFirst
<1>16. FirstError(first \o own \o each) =
         IF FirstError(first \o own) = "none" THEN FirstError(each) ELSE FirstError(first \o own)
  BY <1>0, <1>14, ConcatFirst
<1>17. OwnError(fields, metadata, lim) = FirstError(first \o own)
  BY <1>4, <1>12, <1>15
<1> QED
  BY <1>13, <1>16, <1>17 DEF each

-----------------------------------------------------------------------------
(* Keys and sizes.                                                         *)

\* A key validate_key let through.
LEMMA KeyIsSound ==
  ASSUME NEW k, KeyError(k) = "none"
  PROVE  /\ k # <<>> /\ ValidUtf8(k)
         /\ SelectInSeq(k, LAMBDA c : c = Slash) \notin {0, 1, Len(k)}
         /\ IsPrefix(Reserved, k) => IsPrefix(Own, k)
<1> DEFINE slash == SelectInSeq(k, LAMBDA c : c = Slash)
           p == k = <<>> \/ ~ValidUtf8(k) \/ slash \in {0, 1, Len(k)}
           q == IsPrefix(Reserved, k) /\ ~IsPrefix(Own, k)
           a == Check(p, "invalid_schema")
           b == Check(q, "invalid_schema")
<1>1. FirstError(<<a, b>>) = "none"
  BY DEF KeyError
<1>2. p \in BOOLEAN /\ q \in BOOLEAN
  BY DEF IsPrefix
<1> HIDE DEF p, q, slash
<1>3. a \in CheckSet /\ a.fails = p /\ a.error = "invalid_schema"
  BY <1>2, CheckIs, Zenon DEF Errors
<1>4. b \in CheckSet /\ b.fails = q /\ b.error = "invalid_schema"
  BY <1>2, CheckIs, Zenon DEF Errors
<1> HIDE DEF a, b
<1>5. ~p /\ ~q
  BY <1>1, <1>3, <1>4, TwoChecks
<1> QED
  BY <1>5, Zenon DEF p, q, slash

\* Keys, values and names are bytes, and no key is empty.
LEMMA TextsAreBytes ==
  /\ \A k \in GoodKeys : k \in Seq(Octet) /\ k # <<>>
  /\ \A v \in Values : v \in Seq(Octet)
  /\ \A d \in Drafts : d.name \in Seq(Octet)
<1>1. \A t \in Keys \cup Values : t \in Seq(Octet)
  BY SchemaAssumption DEF Octet
<1>2. \A d \in Drafts : d.name \in Seq(Octet)
  BY SchemaAssumption DEF Octet
<1>3. \A k \in GoodKeys : k \in Keys /\ k # <<>>
  BY KeyIsSound DEF GoodKeys
<1> QED
  BY <1>1, <1>2, <1>3

\* Metadata is a finite map of good keys to values.
LEMMA MetadataIs ==
  ASSUME NEW m \in Metadata
  PROVE  /\ IsFiniteSet(DOMAIN m) /\ DOMAIN m \subseteq GoodKeys
         /\ \A k \in DOMAIN m : m[k] \in Seq(Octet)
<1>1. PICK K : K \in SUBSET GoodKeys /\ IsFiniteSet(K) /\ m \in [K -> Values]
  BY DEF Metadata
<1>2. DOMAIN m = K /\ \A k \in K : m[k] \in Values
  BY <1>1
<1> QED
  BY <1>1, <1>2, TextsAreBytes

\* A text has a length.
LEMMA LengthIsNat == \A t \in Seq(Octet) : Len(t) \in Nat
OBVIOUS

\* metadata_size counts the bytes of keys and values.
LEMMA MetadataSizeCounts ==
  ASSUME NEW m \in Metadata
  PROVE  /\ IsFiniteSet(EntryBytes(m)) /\ MetadataSize(m) \in Nat
         /\ MetadataSize(m) = Cardinality(EntryBytes(m))
<1> DEFINE f == [k \in DOMAIN m |-> Len(k) + Len(m[k])]
           B == [k \in DOMAIN m |-> 1..(Len(k) + Len(m[k]))]
<1>1. \A k \in DOMAIN m : Len(k) + Len(m[k]) \in Nat
  BY MetadataIs, TextsAreBytes, LengthIsNat
<1>2. \A k \in DOMAIN m : IsFiniteSet(B[k]) /\ Cardinality(B[k]) = f[k]
  BY <1>1, FS_Interval
<1>3. EntryBytes(m) = Owned(DOMAIN m, B)
  BY DEF EntryBytes, Owned
<1>4. MetadataSize(m) = SumFunctionOnSet(f, DOMAIN m)
  BY DEF MetadataSize, SumFunction
<1> HIDE DEF f, B
<1>5. /\ IsFiniteSet(Owned(DOMAIN m, B))
      /\ SumFunctionOnSet(f, DOMAIN m) = Cardinality(Owned(DOMAIN m, B))
  BY <1>2, MetadataIs, SumCounts
<1> QED
  BY <1>3, <1>4, <1>5, FS_CardinalityType

\* The parts of a field a program can make.
LEMMA MadeIs ==
  ASSUME NEW f \in MadeFields
  PROVE  /\ f.metadata \in Metadata /\ f.name \in Seq(Octet) /\ Len(f.name) \in Nat
         /\ CreateError(f.type.kind, f.type.parameters) = "none"
<1>1. PICK d \in Drafts, m \in Metadata :
        f = Field(d, m) /\ CreateError(d.type.kind, d.type.parameters) = "none"
  BY DEF MadeFields
<1>2. f.metadata = m /\ f.name = d.name /\ f.type = d.type
  BY <1>1 DEF Field
<1> QED
  BY <1>1, <1>2, TextsAreBytes, LengthIsNat

\* The size of a field is that of its name, its keys and its values.
LEMMA FieldSizeCounts ==
  ASSUME NEW f \in MadeFields
  PROVE  /\ IsFiniteSet(OfField(f)) /\ FieldSize(f) \in Nat
         /\ FieldSize(f) = Cardinality(OfField(f))
<1> DEFINE E == EntryBytes(f.metadata)
           one == {<<>>}
           I == 1..Len(f.name)
           N == one \X I
<1>1. /\ IsFiniteSet(E) /\ MetadataSize(f.metadata) = Cardinality(E) /\ Cardinality(E) \in Nat
  BY MadeIs, MetadataSizeCounts
<1>2. IsFiniteSet(I) /\ Cardinality(I) = Len(f.name)
  BY MadeIs, FS_Interval
<1>3. IsFiniteSet(one) /\ Cardinality(one) = 1
  BY FS_Singleton
<1>4. E \cap N = {}
  <2> SUFFICES ASSUME NEW e \in E, e \in N PROVE FALSE
    OBVIOUS
  <2>1. PICK k \in DOMAIN f.metadata :
          e \in {k} \X (1..(Len(k) + Len(f.metadata[k])))
    BY Zenon DEF EntryBytes
  <2>2. k \in GoodKeys
    BY MadeIs, MetadataIs
  <2>3. e[1] = k /\ e[1] = <<>>
    BY <2>1
  <2> QED
    BY <2>2, <2>3, TextsAreBytes
<1>5. OfField(f) = E \cup N /\ FieldSize(f) = Len(f.name) + MetadataSize(f.metadata)
  BY DEF OfField, FieldSize
<1> HIDE DEF E, I, one
<1>6. IsFiniteSet(N) /\ Cardinality(N) = 1 * Len(f.name)
  BY <1>2, <1>3, FS_Product
<1> HIDE DEF N
<1>7. /\ IsFiniteSet(E \cup N)
      /\ Cardinality(E \cup N) = Cardinality(E) + Cardinality(N) - Cardinality(E \cap N)
  BY <1>1, <1>6, FS_Union
<1>8. Cardinality(E \cap N) = 0
  BY <1>4, FS_EmptySet
<1>9. Len(f.name) \in Nat
  BY MadeIs
<1> QED
  BY <1>1, <1>5, <1>6, <1>7, <1>8, <1>9

\* The running total is never more than all that counts, and is all of it when
\* the last field has been added.
LEMMA TotalCounts ==
  ASSUME NEW fields \in Seq(MadeFields), NEW m \in Metadata
  PROVE  /\ IsFiniteSet(Counted(fields, m)) /\ Cardinality(Counted(fields, m)) \in Nat
         /\ MetadataSize(m) <= Cardinality(Counted(fields, m))
         /\ \A i \in DOMAIN fields :
              /\ RunningTotal(fields, m, i) \in Nat
              /\ RunningTotal(fields, m, i) <= Cardinality(Counted(fields, m))
         /\ fields # <<>> =>
              RunningTotal(fields, m, Len(fields)) = Cardinality(Counted(fields, m))
<1> DEFINE n == Len(fields)
           f == [j \in DOMAIN fields |-> FieldSize(fields[j])]
           B == [j \in DOMAIN fields |-> OfField(fields[j])]
           E == EntryBytes(m)
           zero == {0}
           Z == zero \X E
           All == Owned(1..n, B)
<1>1. n \in Nat /\ DOMAIN fields = 1..n /\ \A j \in 1..n : fields[j] \in MadeFields
  OBVIOUS
<1>2. \A j \in 1..n : IsFiniteSet(B[j]) /\ Cardinality(B[j]) = f[j]
  BY <1>1, FieldSizeCounts
<1>3. Counted(fields, m) = Z \cup All
  BY <1>1 DEF Counted, Owned
<1>4. \A i : RunningTotal(fields, m, i) = MetadataSize(m) + SumFunctionOnSet(f, 1..i)
  BY DEF RunningTotal
<1>5. IsFiniteSet(E) /\ MetadataSize(m) = Cardinality(E) /\ Cardinality(E) \in Nat
  BY MetadataSizeCounts
<1>6. Z \cap All = {}
  <2> SUFFICES ASSUME NEW e \in Z, e \in All PROVE FALSE
    OBVIOUS
  <2>1. PICK j \in 1..n : e \in {j} \X B[j]
    BY Zenon DEF Owned
  <2>2. e[1] = j /\ e[1] = 0
    BY <2>1
  <2> QED
    BY <1>1, <2>1, <2>2
<1> HIDE DEF f, B, E, n
<1>7. IsFiniteSet(Z) /\ Cardinality(Z) = Cardinality(E)
  <2>1. IsFiniteSet(zero) /\ Cardinality(zero) = 1
    BY FS_Singleton
  <2> HIDE DEF zero
  <2>2. IsFiniteSet(Z) /\ Cardinality(Z) = 1 * Cardinality(E)
    BY <1>5, <2>1, FS_Product
  <2> QED
    BY <1>5, <2>2
<1> HIDE DEF Z
<1>8. ASSUME NEW i \in Nat, i <= n
      PROVE  /\ IsFiniteSet(Owned(1..i, B)) /\ Cardinality(Owned(1..i, B)) \in Nat
             /\ SumFunctionOnSet(f, 1..i) = Cardinality(Owned(1..i, B))
  <2>1. IsFiniteSet(1..i) /\ \A j \in 1..i : j \in 1..n
    BY <1>1, <1>8, FS_Interval
  <2>2. \A j \in 1..i : IsFiniteSet(B[j]) /\ Cardinality(B[j]) = f[j]
    BY <1>2, <2>1
  <2> DEFINE S == 1..i
  <2>3. IsFiniteSet(S) /\ \A j \in S : IsFiniteSet(B[j]) /\ Cardinality(B[j]) = f[j]
    BY <2>1, <2>2
  <2> HIDE DEF S
  <2>4. IsFiniteSet(Owned(S, B)) /\ SumFunctionOnSet(f, S) = Cardinality(Owned(S, B))
    BY <2>3, SumCounts
  <2> QED
    BY <2>4, FS_CardinalityType DEF S
<1>9. IsFiniteSet(All) /\ Cardinality(All) \in Nat /\ SumFunctionOnSet(f, 1..n) = Cardinality(All)
  BY <1>1, <1>8
<1>10. ASSUME NEW i \in Nat, i <= n
       PROVE  Cardinality(Owned(1..i, B)) <= Cardinality(All)
  <2>1. \A j \in 1..i : j \in 1..n
    BY <1>1, <1>10
  <2>2. Owned(1..i, B) \in SUBSET All
    BY <2>1, Zenon DEF Owned
  <2> HIDE DEF All
  <2> QED
    BY <1>9, <2>2, FS_Subset
<1> DEFINE rest == Cardinality(All)
           own == Cardinality(E)
<1>11. IsFiniteSet(Counted(fields, m)) /\ Cardinality(Counted(fields, m)) = own + rest
  <2> HIDE DEF All
  <2>1. /\ IsFiniteSet(Z \cup All)
        /\ Cardinality(Z \cup All) = Cardinality(Z) + Cardinality(All) - Cardinality(Z \cap All)
    BY <1>7, <1>9, FS_Union
  <2>2. Cardinality(Z \cap All) = 0
    BY <1>6, FS_EmptySet
  <2> QED
    BY <1>3, <1>5, <1>7, <1>9, <2>1, <2>2
<1>12. own \in Nat /\ rest \in Nat /\ MetadataSize(m) = own
  BY <1>5, <1>9
<1>13. ASSUME NEW i \in DOMAIN fields
       PROVE  /\ RunningTotal(fields, m, i) \in Nat
              /\ RunningTotal(fields, m, i) <= own + rest
  <2>1. i \in Nat /\ i <= n
    BY <1>1
  <2> DEFINE c == Cardinality(Owned(1..i, B))
  <2>2. c \in Nat /\ c <= rest /\ RunningTotal(fields, m, i) = MetadataSize(m) + c
    BY <1>4, <1>8, <1>10, <2>1
  <2> HIDE DEF c, rest, own
  <2> QED
    BY <1>12, <2>2
<1>14. RunningTotal(fields, m, n) = own + rest
  BY <1>4, <1>9, <1>12
<1> HIDE DEF own, rest
<1> QED
  BY <1>11, <1>12, <1>13, <1>14 DEF n

-----------------------------------------------------------------------------
(* What is published can be written.                                       *)

\* Metadata whose bytes are no more than a word has keys, values and lengths that
\* are words.
LEMMA MetadataFits ==
  ASSUME NEW m \in Metadata, Cardinality(EntryBytes(m)) <= MaxWord
  PROVE  Sized(m)
<1> DEFINE E == EntryBytes(m)
           K == DOMAIN m
           total == Cardinality(E)
<1>1. IsFiniteSet(K) /\ \A k \in K : k \in Seq(Octet) /\ k # <<>> /\ m[k] \in Seq(Octet)
  BY MetadataIs, TextsAreBytes
<1>2. IsFiniteSet(E) /\ total \in Nat /\ total <= MaxWord /\ MaxWord \in Nat
  BY MetadataSizeCounts, FS_CardinalityType, WordAssumption
<1>3. \A k \in K : Len(k) \in Nat \ {0} /\ Len(m[k]) \in Nat
  BY <1>1
<1>4. m = [k \in K |-> m[k]]
  <2>1. PICK D : D \in SUBSET GoodKeys /\ m \in [D -> Values]
    BY DEF Metadata
  <2> QED
    BY <2>1
<1>5. \A k \in K : {k} \X (1..(Len(k) + Len(m[k]))) \in SUBSET E
  BY Zenon DEF EntryBytes
<1> HIDE DEF E, K
<1>6. ASSUME NEW k \in K
      PROVE  Text(k) /\ Text(m[k])
  <2> DEFINE L == Len(k) + Len(m[k])
             one == {k}
             I == 1..L
             P == one \X I
  <2>1. L \in Nat
    BY <1>3
  <2>2. IsFiniteSet(one) /\ Cardinality(one) = 1
    BY FS_Singleton
  <2>3. IsFiniteSet(I) /\ Cardinality(I) = L
    <3> HIDE DEF L
    <3> QED
      BY <2>1, FS_Interval
  <2>4. P \in SUBSET E
    BY <1>5
  <2> HIDE DEF one, I, L
  <2>5. Cardinality(P) = 1 * L
    BY <2>2, <2>3, FS_Product
  <2> HIDE DEF P
  <2>6. Cardinality(P) <= total
    BY <1>2, <2>4, FS_Subset
  <2>7. L <= MaxWord
    BY <1>2, <2>1, <2>5, <2>6
  <2>8. Len(k) <= MaxWord /\ Len(m[k]) <= MaxWord
    BY <1>2, <1>3, <2>7 DEF L
  <2> QED
    BY <1>1, <2>8 DEF Text
<1>7. Cardinality(K) <= MaxWord
  <2> DEFINE first == [k \in K |-> <<k, 1>>]
  <2>1. \A k \in K : <<k, 1>> \in E
    <3> SUFFICES ASSUME NEW k \in K PROVE <<k, 1>> \in E
      OBVIOUS
    <3>1. 1 \in 1..(Len(k) + Len(m[k]))
      BY <1>3
    <3> QED
      BY <1>5, <3>1
  <2>2. first \in [K -> E]
    BY <2>1
  <2>3. \A j, k \in K : first[j] = first[k] => j = k
    OBVIOUS
  <2>4. first \in Injection(K, E)
    BY <2>2, <2>3 DEF Injection, IsInjective
  <2>5. Cardinality(K) <= total
    BY <1>2, <2>4, FS_Injection
  <2>6. Cardinality(K) \in Nat
    BY <1>1, FS_CardinalityType
  <2> QED
    BY <1>2, <2>5, <2>6
<1> QED
  BY <1>1, <1>4, <1>6, <1>7 DEF Sized, K

\* A field a program can make has the parts of a field.
LEMMA FieldParts ==
  ASSUME NEW f \in MadeFields
  PROVE  /\ f = [id |-> f.id, name |-> f.name, type |-> f.type,
                 nullable |-> f.nullable, metadata |-> f.metadata]
         /\ f.id \in Word32 /\ f.nullable \in BOOLEAN /\ Typed(f.type)
<1>1. PICK d \in Drafts, m \in Metadata :
        f = Field(d, m) /\ CreateError(d.type.kind, d.type.parameters) = "none"
  BY DEF MadeFields
<1>2. LET p == d.type.parameters
      IN /\ d.id \in Word32 /\ d.nullable \in BOOLEAN
         /\ d.type = LogicalType(d.type.kind, p) /\ p = Parameters(p.alternative, p.numbers)
         /\ p.numbers \in Seq(Int) /\ Len(p.numbers) = Len(Widths[p.alternative])
         /\ p.alternative = "fixed_binary" => p.numbers[1] \in Word32
  BY SchemaAssumption, ZenonT(40) DEF Parametrized
<1>3. Typed(d.type)
  BY <1>1, <1>2, Zenon DEF Typed
<1>4. /\ f.id = d.id /\ f.type = d.type /\ f.nullable = d.nullable
      /\ f = [id |-> f.id, name |-> f.name, type |-> f.type,
              nullable |-> f.nullable, metadata |-> f.metadata]
  BY <1>1 DEF Field
<1> QED
  BY <1>2, <1>3, <1>4, Zenon

\* A field whose bytes are no more than a word can be written.
LEMMA FieldFits ==
  ASSUME NEW f \in MadeFields, Cardinality(OfField(f)) <= MaxWord
  PROVE  Writable(f)
<1> DEFINE size == Cardinality(OfField(f))
           own == MetadataSize(f.metadata)
           n == Len(f.name)
<1>1. f.metadata \in Metadata /\ f.name \in Seq(Octet) /\ n \in Nat
  BY MadeIs
<1>2. own \in Nat /\ own = Cardinality(EntryBytes(f.metadata))
  BY <1>1, MetadataSizeCounts
<1>3. size = n + own
  BY FieldSizeCounts DEF FieldSize
<1> HIDE DEF size, own, n
<1>4. own <= MaxWord /\ n <= MaxWord
  BY <1>1, <1>2, <1>3, WordAssumption DEF size
<1>5. Sized(f.metadata)
  BY <1>1, <1>2, <1>4, MetadataFits
<1>6. Text(f.name)
  BY <1>1, <1>4 DEF Text, n
<1> QED
  BY <1>5, <1>6, FieldParts, Zenon DEF Writable

\* A schema that finish() accepts can be written.
LEMMA AcceptedFits ==
  ASSUME NEW fields \in Seq(MadeFields), NEW m \in Metadata, NEW lim \in LimitSets,
         Acceptable(fields, m, lim)
  PROVE  Listed(fields) /\ Sized(m)
<1> DEFINE C == Counted(fields, m)
           total == Cardinality(C)
           n == Len(fields)
<1>1. IsFiniteSet(C) /\ total \in Nat /\ MetadataSize(m) <= total
  BY TotalCounts
<1>2. total <= MaxWord
  <2>1. total <= lim.metadata_bytes /\ lim \in Limits /\ lim.metadata_bytes <= MaxWord
    BY LimitsAreWords DEF Acceptable
  <2>2. lim.metadata_bytes \in Nat
    BY <2>1 DEF Limits
  <2> QED
    BY <1>1, <2>1, <2>2, WordAssumption
<1>3. Sized(m)
  <2>1. MetadataSize(m) \in Nat /\ MetadataSize(m) = Cardinality(EntryBytes(m))
    BY MetadataSizeCounts
  <2>2. Cardinality(EntryBytes(m)) <= MaxWord
    BY <1>1, <1>2, <2>1, WordAssumption
  <2> QED
    BY <2>2, MetadataFits
<1>4. n \in Nat /\ DOMAIN fields = 1..n /\ \A i \in 1..n : fields[i] \in MadeFields
  OBVIOUS
<1>5. n \in Word32
  <2>1. n \in 1..lim.fields /\ lim.fields \in Word32
    BY SchemaAssumption DEF Acceptable
  <2> HIDE DEF n
  <2>2. lim.fields \in 0..MaxWord /\ lim.fields \div 65536 < 65536
    BY <2>1 DEF Word32
  <2>3. n \in 0..MaxWord /\ n <= lim.fields /\ lim.fields \in Nat
    BY <1>4, <2>1, <2>2, WordAssumption
  <2>4. n \div 65536 < 65536
    BY <1>4, <2>2, <2>3
  <2> QED
    BY <2>3, <2>4 DEF Word32
<1>6. \A i \in 1..n : {i} \X OfField(fields[i]) \in SUBSET C
  BY <1>4, Zenon DEF Counted
<1> HIDE DEF C, n
<1>7. ASSUME NEW i \in 1..n
      PROVE  Writable(fields[i])
  <2> DEFINE one == {i}
             B == OfField(fields[i])
             P == one \X B
  <2>1. fields[i] \in MadeFields
    BY <1>4
  <2>2. IsFiniteSet(B) /\ Cardinality(B) \in Nat
    BY <2>1, FieldSizeCounts
  <2>3. IsFiniteSet(one) /\ Cardinality(one) = 1
    BY FS_Singleton
  <2>4. P \in SUBSET C
    BY <1>6
  <2> HIDE DEF one, B
  <2>5. Cardinality(P) = 1 * Cardinality(B)
    BY <2>2, <2>3, FS_Product
  <2> HIDE DEF P
  <2>6. Cardinality(P) <= total
    BY <1>1, <2>4, FS_Subset
  <2>7. Cardinality(B) <= MaxWord
    BY <1>1, <1>2, <2>2, <2>5, <2>6, WordAssumption
  <2> QED
    BY <2>1, <2>7, FieldFits DEF B
<1>8. fields \in [1..n -> {fields[i] : i \in DOMAIN fields}]
  BY <1>4
<1> QED
  BY <1>3, <1>5, <1>7, <1>8 DEF Listed, n

-----------------------------------------------------------------------------
(* finish() is exact.                                                      *)

\* What finish() says of the i-th field.
LEMMA FieldChecksAre ==
  ASSUME NEW fields, NEW m, NEW i, NEW lim
  PROVE  /\ FieldChecks(fields, m, i, lim) \in Seq(CheckSet)
         /\ FirstError(FieldChecks(fields, m, i, lim)) =
              IF \E j \in 1..(i - 1) : Clash(fields[j], fields[i]) THEN "invalid_schema"
              ELSE FirstError(OverLimit(RunningTotal(fields, m, i), lim))
<1> DEFINE p == \E j \in 1..(i - 1) : Clash(fields[j], fields[i])
           c == Check(p, "invalid_schema")
           over == OverLimit(RunningTotal(fields, m, i), lim)
<1>1. p \in BOOLEAN
  OBVIOUS
<1>2. FieldChecks(fields, m, i, lim) = <<c>> \o over
  BY DEF FieldChecks
<1>3. over \in Seq(CheckSet)
  BY OverLimitIs
<1> HIDE DEF p, over
<1>4. c \in CheckSet /\ c.fails = p /\ c.error = "invalid_schema"
  BY <1>1, CheckIs, Zenon DEF Errors
<1> HIDE DEF c
<1>5. <<c>> \in Seq(CheckSet) /\ FirstError(<<c>>) = IF p THEN "invalid_schema" ELSE "none"
  BY <1>4, OneCheck
<1>6. FirstError(<<c>> \o over) =
        IF FirstError(<<c>>) = "none" THEN FirstError(over) ELSE FirstError(<<c>>)
  BY <1>3, <1>5, ConcatFirst
<1> DEFINE s == <<c>>
<1>7. s \in Seq(CheckSet) /\ FieldChecks(fields, m, i, lim) = s \o over
  BY <1>2, <1>5
<1> HIDE DEF s
<1>8. FieldChecks(fields, m, i, lim) \in Seq(CheckSet)
  BY <1>3, <1>7
<1> QED
  BY <1>2, <1>5, <1>6, <1>8 DEF p, over

\* No field clashes with an earlier one exactly if IDs and names are unique.
LEMMA UniqueIs ==
  ASSUME NEW fields, NEW n \in Nat, DOMAIN fields = 1..n
  PROVE  Unique(fields) <=>
           \A i \in 1..n : ~\E j \in 1..(i - 1) : Clash(fields[j], fields[i])
<1>1. ASSUME Unique(fields), NEW i \in 1..n, NEW j \in 1..(i - 1), Clash(fields[j], fields[i])
      PROVE  FALSE
  <2>1. j \in 1..n /\ j # i
    OBVIOUS
  <2> QED
    BY <1>1, <2>1 DEF Unique, Clash
<1>2. ASSUME \A i \in 1..n : ~\E j \in 1..(i - 1) : Clash(fields[j], fields[i]),
             NEW i \in 1..n, NEW j \in 1..n,
             fields[i].id = fields[j].id \/ fields[i].name = fields[j].name, i # j
      PROVE  FALSE
  <2>1. CASE i < j
    <3>1. i \in 1..(j - 1)
      BY <2>1
    <3> QED
      BY <1>2, <3>1 DEF Clash
  <2>2. CASE j < i
    <3>1. j \in 1..(i - 1)
      BY <2>2
    <3> QED
      BY <1>2, <3>1 DEF Clash
  <2> QED
    BY <1>2, <2>1, <2>2
<1> QED
  BY <1>1, <1>2 DEF Unique

\* SchemaBuilder's finish() accepts exactly what is acceptable and tells what
\* is wrong with the rest.
LEMMA SchemaFinishIsExact ==
  ASSUME NEW fields \in Seq(MadeFields), NEW m \in Metadata, NEW lim \in LimitSets
  PROVE  LET error == FinishError(fields, m, lim)
         IN /\ (error = "none") <=> Acceptable(fields, m, lim)
            /\ error = "invalid_schema" => fields = <<>> \/ ~Unique(fields)
            /\ error = "limit_exceeded" =>
                 \/ Len(fields) > lim.fields
                 \/ Cardinality(Counted(fields, m)) > lim.metadata_bytes
<1> DEFINE n == Len(fields)
           total == Cardinality(Counted(fields, m))
           lists == [i \in DOMAIN fields |-> FieldChecks(fields, m, i, lim)]
           each == FirstError(FieldsChecks(fields, m, lim))
           own == OwnError(fields, m, lim)
           result == FinishError(fields, m, lim)
           max == lim.metadata_bytes
<1>1. n \in Nat /\ DOMAIN fields = 1..n /\ (fields = <<>> <=> n = 0)
  OBVIOUS
<1>2. lim.fields \in Nat /\ max \in Nat /\ max <= MaxWord
  BY LimitsAreWords DEF Limits
<1>3. /\ total \in Nat /\ MetadataSize(m) \in Nat /\ MetadataSize(m) <= total
      /\ \A i \in 1..n : RunningTotal(fields, m, i) \in Nat /\ RunningTotal(fields, m, i) <= total
      /\ n # 0 => RunningTotal(fields, m, n) = total
  BY <1>1, TotalCounts, MetadataSizeCounts
<1>4. lists \in [1..n -> Seq(CheckSet)]
  BY <1>1, FieldChecksAre
<1>5. FieldsChecks(fields, m, lim) \in Seq(CheckSet) /\ Answers(lists, n, each)
  <2>1. FieldsChecks(fields, m, lim) = FlattenSeq(lists)
    BY DEF FieldsChecks
  <2> HIDE DEF lists
  <2> QED
    BY <1>1, <1>4, <2>1, FlattenFirst
<1>6. result = IF own # "none" THEN own ELSE each
  BY <1>5, FinishIs
<1>7. \A i \in 1..n : FirstError(lists[i]) =
        IF \E j \in 1..(i - 1) : Clash(fields[j], fields[i]) THEN "invalid_schema"
        ELSE FirstError(OverLimit(RunningTotal(fields, m, i), lim))
  BY <1>1, FieldChecksAre
<1>8. \A k \in Nat : FirstError(OverLimit(k, lim)) =
        IF k > MaxWord THEN "arithmetic_overflow"
        ELSE IF k > max THEN "limit_exceeded" ELSE "none"
  BY OverLimitIs
<1>9. \A k \in Nat : /\ FirstError(OverLimit(k, lim)) = "none" <=> k <= max
                     /\ FirstError(OverLimit(k, lim)) = "limit_exceeded" => k > max
                     /\ FirstError(OverLimit(k, lim)) # "invalid_schema"
  BY <1>2, <1>8, WordAssumption
<1>10. Unique(fields) <=> \A i \in 1..n : ~\E j \in 1..(i - 1) : Clash(fields[j], fields[i])
  BY <1>1, UniqueIs
<1>11. Acceptable(fields, m, lim) <=>
         LimitsValid(lim) /\ n # 0 /\ n <= lim.fields /\ Unique(fields) /\ total <= max
  BY <1>1, <1>2 DEF Acceptable
<1>12. own = IF ~LimitsValid(lim) THEN "invalid_resource_limit"
             ELSE IF n = 0 THEN "invalid_schema"
             ELSE IF n > lim.fields THEN "limit_exceeded"
             ELSE FirstError(OverLimit(MetadataSize(m), lim))
  BY <1>1 DEF OwnError
<1> HIDE DEF n, total, lists, each, own, result, max
<1>13. \A i \in 1..n :
         /\ FirstError(lists[i]) = "none" <=>
              /\ ~\E j \in 1..(i - 1) : Clash(fields[j], fields[i])
              /\ RunningTotal(fields, m, i) <= max
         /\ FirstError(lists[i]) = "invalid_schema" =>
              \E j \in 1..(i - 1) : Clash(fields[j], fields[i])
         /\ FirstError(lists[i]) = "limit_exceeded" => RunningTotal(fields, m, i) > max
  BY <1>3, <1>7, <1>9
<1>14. ASSUME result = "none" PROVE Acceptable(fields, m, lim)
  <2>1. own = "none" /\ each = "none"
    BY <1>6, <1>14
  <2>2. LimitsValid(lim) /\ n # 0 /\ ~(n > lim.fields)
    BY <1>12, <2>1
  <2>3. \A i \in 1..n : FirstError(lists[i]) = "none"
    BY <1>5, <2>1 DEF Answers
  <2>4. Unique(fields)
    BY <1>10, <1>13, <2>3
  <2>5. total <= max
    <3>1. n \in 1..n
      BY <1>1, <2>2 DEF n
    <3> QED
      BY <1>3, <1>13, <2>2, <2>3, <3>1
  <2>6. n <= lim.fields
    BY <1>1, <1>2, <2>2 DEF n
  <2> QED
    BY <1>11, <2>2, <2>4, <2>5, <2>6
<1>15. ASSUME Acceptable(fields, m, lim) PROVE result = "none"
  <2>1. LimitsValid(lim) /\ n # 0 /\ n <= lim.fields /\ Unique(fields) /\ total <= max
    BY <1>11, <1>15
  <2>2. MetadataSize(m) <= max /\ \A i \in 1..n : RunningTotal(fields, m, i) <= max
    BY <1>2, <1>3, <2>1
  <2>3. own = "none"
    <3>1. ~(n > lim.fields)
      BY <1>1, <1>2, <2>1 DEF n
    <3> QED
      BY <1>3, <1>9, <1>12, <2>1, <2>2, <3>1
  <2>4. \A i \in 1..n : FirstError(lists[i]) = "none"
    BY <1>10, <1>13, <2>1, <2>2
  <2>5. each = "none"
    BY <1>5, <2>4 DEF Answers
  <2> QED
    BY <1>6, <2>3, <2>5
<1>16. ASSUME result = "invalid_schema" PROVE n = 0 \/ ~Unique(fields)
  <2>1. CASE own # "none"
    <3>1. own = "invalid_schema"
      BY <1>6, <1>16, <2>1
    <3>2. FirstError(OverLimit(MetadataSize(m), lim)) # "invalid_schema"
      BY <1>3, <1>9
    <3> QED
      BY <1>12, <3>1, <3>2
  <2>2. CASE own = "none"
    <3>1. each = "invalid_schema"
      BY <1>6, <1>16, <2>2
    <3>2. PICK i \in 1..n : FirstError(lists[i]) = "invalid_schema"
      BY <1>5, <3>1 DEF Answers
    <3> QED
      BY <1>10, <1>13, <3>2
  <2> QED
    BY <2>1, <2>2
<1>17. ASSUME result = "limit_exceeded" PROVE n > lim.fields \/ total > max
  <2>1. CASE own # "none"
    <3>1. own = "limit_exceeded"
      BY <1>6, <1>17, <2>1
    <3>2. FirstError(OverLimit(MetadataSize(m), lim)) = "limit_exceeded" => total > max
      BY <1>2, <1>3, <1>9
    <3> QED
      BY <1>12, <3>1, <3>2
  <2>2. CASE own = "none"
    <3>1. each = "limit_exceeded"
      BY <1>6, <1>17, <2>2
    <3>2. PICK i \in 1..n : FirstError(lists[i]) = "limit_exceeded"
      BY <1>5, <3>1 DEF Answers
    <3>3. RunningTotal(fields, m, i) > max
      BY <1>13, <3>2
    <3> QED
      BY <1>2, <1>3, <3>3
  <2> QED
    BY <2>1, <2>2
<1> QED
  BY <1>1, <1>14, <1>15, <1>16, <1>17 DEF n, total, result, max

\* FieldBuilder's finish() accepts exactly the fields with an ID, a name that
\* is Unicode and a size within the limit.
LEMMA FieldFinishIsExact ==
  ASSUME NEW f \in MadeFields, NEW lim \in LimitSets
  PROVE  (FinishFieldError(f, lim) = "none") <=>
           /\ f.id # 0 /\ f.name # <<>> /\ WellFormed(f.name)
           /\ Cardinality(Counted(<<f>>, <<>>)) <= lim.metadata_bytes
<1> DEFINE s == <<f>>
           total == Cardinality(Counted(s, <<>>))
<1>1. s \in Seq(MadeFields) /\ Len(s) = 1 /\ s[1] = f /\ s # <<>> /\ DOMAIN s = 1..1
  OBVIOUS
<1>2. EntryBytes(<<>>) = {} /\ MetadataSize(<<>>) = 0
  <2>1. DOMAIN <<>> = {}
    OBVIOUS
  <2>2. EntryBytes(<<>>) = {}
    BY <2>1 DEF EntryBytes
  <2> QED
    BY <2>2, EmptyMetadata, MetadataSizeCounts, FS_EmptySet
<1>3. Counted(s, <<>>) = {1} \X OfField(f)
  <2>1. UNION {{i} \X OfField(s[i]) : i \in DOMAIN s} = {1} \X OfField(f)
    <3>1. DOMAIN s = {1}
      BY <1>1
    <3> HIDE DEF s
    <3> QED
      BY <1>1, <3>1
  <2>2. {0} \X EntryBytes(<<>>) = {}
    BY <1>2
  <2> QED
    BY <2>1, <2>2 DEF Counted
<1>4. IsFiniteSet(OfField(f)) /\ FieldSize(f) \in Nat /\ FieldSize(f) = Cardinality(OfField(f))
  BY FieldSizeCounts
<1>5. total = FieldSize(f)
  <2> DEFINE one == {1}
             B == OfField(f)
  <2>1. IsFiniteSet(one) /\ Cardinality(one) = 1
    BY FS_Singleton
  <2>2. Counted(s, <<>>) = one \X B /\ IsFiniteSet(B) /\ Cardinality(B) = FieldSize(f)
    BY <1>3, <1>4
  <2> HIDE DEF one, B, s
  <2>3. Cardinality(one \X B) = 1 * Cardinality(B)
    BY <2>1, <2>2, FS_Product
  <2>4. total = Cardinality(one \X B)
    BY <2>2, Zenon
  <2>5. 1 * Cardinality(B) = FieldSize(f)
    BY <1>4, <2>2
  <2> QED
    BY <2>3, <2>4, <2>5, Zenon
<1>6. f.name \in Seq(Octet)
  BY MadeIs
<1>7. ValidUtf8(f.name) <=> WellFormed(f.name)
  BY <1>6, Utf8Exact
<1>8. lim.metadata_bytes \in Nat /\ lim.metadata_bytes <= MaxWord
  BY LimitsAreWords DEF Limits
<1>9. FirstError(OverLimit(FieldSize(f), lim)) = "none" <=> FieldSize(f) <= lim.metadata_bytes
  BY <1>4, <1>8, OverLimitIs, WordAssumption
<1> HIDE DEF total
<1> QED
  BY <1>5, <1>7, <1>9, FinishFieldIs DEF total

-----------------------------------------------------------------------------
(* Namespaces of keys.                                                     *)

\* The beginning of a sequence.
LEMMA SubSeqIs ==
  ASSUME NEW S, NEW t \in Seq(S), NEW n \in Nat, n <= Len(t)
  PROVE  /\ SubSeq(t, 1, n) \in Seq(S) /\ Len(SubSeq(t, 1, n)) = n
         /\ \A i \in 1..n : SubSeq(t, 1, n)[i] = t[i]
OBVIOUS

\* A prefix, element by element.
LEMMA PrefixIs ==
  ASSUME NEW S, NEW s \in Seq(S), NEW t \in Seq(S)
  PROVE  IsPrefix(s, t) <=> Len(s) <= Len(t) /\ \A i \in 1..Len(s) : s[i] = t[i]
<1>1. Len(s) \in Nat /\ Len(t) \in Nat /\ Len(s) <= Len(s)
  OBVIOUS
<1> SUFFICES ASSUME Len(s) <= Len(t)
             PROVE  SubSeq(s, 1, Len(s)) = SubSeq(t, 1, Len(s))
                      <=> \A i \in 1..Len(s) : s[i] = t[i]
  BY DEF IsPrefix
<1> DEFINE x == SubSeq(s, 1, Len(s))
           y == SubSeq(t, 1, Len(s))
<1>2. x \in Seq(S) /\ Len(x) = Len(s) /\ \A i \in 1..Len(s) : x[i] = s[i]
  BY <1>1, SubSeqIs
<1>3. y \in Seq(S) /\ Len(y) = Len(s) /\ \A i \in 1..Len(s) : y[i] = t[i]
  BY <1>1, SubSeqIs
<1> HIDE DEF x, y
<1>4. ASSUME \A i \in 1..Len(s) : x[i] = y[i] PROVE x = y
  BY <1>2, <1>3, <1>4
<1>5. ASSUME x = y PROVE \A i \in 1..Len(s) : x[i] = y[i]
  BY <1>5
<1> QED
  BY <1>2, <1>3, <1>4, <1>5 DEF x, y

\* A key that was let through is Unicode and has a namespace, which starts like
\* the reserved ones only if it is the engine's own.
LEMMA KeyIsQualified ==
  ASSUME NEW k \in GoodKeys
  PROVE  WellFormed(k) /\ Qualified(k)
<1> DEFINE I == {i \in 1..Len(k) : k[i] = Slash}
           slash == SelectInSeq(k, LAMBDA c : c = Slash)
<1>1. /\ k \in Seq(Octet) /\ Len(k) \in Nat
      /\ Reserved \in Seq(Octet) /\ Own \in Seq(Octet) /\ Len(Own) \in Nat
  <2>1. Reserved \in Seq(Octet) /\ Own \in Seq(Octet)
    BY SchemaAssumption DEF Octet
  <2> QED
    BY <2>1, TextsAreBytes, LengthIsNat
<1>2. KeyError(k) = "none"
  BY DEF GoodKeys
<1>3. /\ ValidUtf8(k) /\ slash \notin {0, 1, Len(k)}
      /\ IsPrefix(Reserved, k) => IsPrefix(Own, k)
  BY <1>2, KeyIsSound, Zenon
<1>4. slash = IF I # {} THEN Min(I) ELSE 0
  BY DEF SelectInSeq
<1> HIDE DEF slash
<1>5. PICK n \in 2..(Len(k) - 1) : k[n] = Slash /\ \A i \in 1..(n - 1) : k[i] # Slash
  <2>1. PICK i \in I : slash = Min(I)
    BY <1>3, <1>4
  <2>2. I \subseteq 1..Len(k)
    OBVIOUS
  <2>3. /\ Min(I) \in I /\ Min(I) \in 1..i
        /\ \A j \in 1..(Min(I) - 1) : j \in 1..Len(k) /\ j \notin I
    <3> HIDE DEF I
    <3> QED
      BY <1>1, <2>1, <2>2, LeastIndex
  <2>4. slash \in 1..Len(k) /\ k[slash] = Slash /\ \A j \in 1..(slash - 1) : k[j] # Slash
    BY <2>1, <2>3
  <2>5. slash \in 2..(Len(k) - 1)
    BY <1>1, <1>3, <2>4
  <2> QED
    BY <2>4, <2>5
<1> DEFINE namespace == SubSeq(k, 1, n - 1)
<1>6. /\ n \in Nat /\ n - 1 \in Nat /\ n - 1 <= Len(k) /\ n <= Len(k) /\ 1 <= n
      /\ n \in 1..Len(k)
  BY <1>1, <1>5
<1>7. /\ namespace \in Seq(Octet) /\ Len(namespace) = n - 1
      /\ \A i \in 1..(n - 1) : namespace[i] = k[i]
  BY <1>1, <1>6, SubSeqIs
<1> HIDE DEF namespace
<1>8. DOMAIN namespace = 1..(n - 1) /\ \A i \in DOMAIN namespace : namespace[i] # Slash
  BY <1>5, <1>7
<1>9. ASSUME IsPrefix(Reserved, namespace) PROVE namespace \o <<Slash>> = Own
  <2>1. Len(Reserved) <= n - 1 /\ \A i \in 1..Len(Reserved) : Reserved[i] = namespace[i]
    BY <1>1, <1>7, <1>9, PrefixIs
  <2>2. Len(Reserved) <= Len(k) /\ \A i \in 1..Len(Reserved) : Reserved[i] = k[i]
    <3>1. Len(Reserved) \in Nat
      BY <1>1, LengthIsNat
    <3>2. \A i \in 1..Len(Reserved) : i \in 1..(n - 1)
      BY <1>6, <2>1, <3>1
    <3> QED
      BY <1>1, <1>6, <1>7, <2>1, <3>1, <3>2
  <2>3. IsPrefix(Own, k)
    BY <1>1, <1>3, <2>2, PrefixIs
  <2>4. Len(Own) <= Len(k) /\ \A i \in 1..Len(Own) : Own[i] = k[i]
    BY <1>1, <2>3, PrefixIs
  <2>5. Len(Own) # 0 /\ \A i \in 1..Len(Own) : Own[i] = Slash <=> i = Len(Own)
    BY <1>1, SchemaAssumption
  <2>6. Len(Own) = n
    <3>1. Len(Own) \in 1..Len(Own) /\ k[Len(Own)] = Slash
      BY <1>1, <2>4, <2>5
    <3>2. ~(Len(Own) \in 1..(n - 1))
      BY <1>5, <3>1
    <3>3. n \in 1..Len(Own)
      BY <1>1, <1>6, <3>1, <3>2
    <3> QED
      BY <1>5, <2>4, <2>5, <3>3
  <2> DEFINE last == <<Slash>>
  <2>7. last \in Seq(Octet) /\ Len(last) = 1 /\ last[1] = Slash
    <3>1. k[n] \in Octet
      BY <1>1, <1>6
    <3> QED
      BY <1>5, <3>1
  <2> HIDE DEF last
  <2>8. /\ namespace \o last \in Seq(Octet) /\ Len(namespace \o last) = (n - 1) + 1
        /\ \A i \in 1..(n - 1) : (namespace \o last)[i] = namespace[i]
        /\ (namespace \o last)[(n - 1) + 1] = Slash
    <3>1. \A x, y \in Seq(Octet) :
            /\ x \o y \in Seq(Octet) /\ Len(x \o y) = Len(x) + Len(y)
            /\ \A i \in 1..Len(x) : (x \o y)[i] = x[i]
            /\ \A i \in 1..Len(y) : (x \o y)[Len(x) + i] = y[i]
      OBVIOUS
    <3>2. 1 \in 1..Len(last)
      BY <2>7
    <3>3. namespace \in Seq(Octet) /\ last \in Seq(Octet)
      BY <1>7, <2>7
    <3>4. /\ namespace \o last \in Seq(Octet)
          /\ Len(namespace \o last) = Len(namespace) + Len(last)
          /\ \A i \in 1..Len(namespace) : (namespace \o last)[i] = namespace[i]
          /\ (namespace \o last)[Len(namespace) + 1] = last[1]
      BY <3>1, <3>2, <3>3, Zenon
    <3> QED
      BY <1>7, <2>7, <3>4, Zenon
  <2>9. \A i \in 1..n : (namespace \o last)[i] = Own[i]
    <3> SUFFICES ASSUME NEW i \in 1..n PROVE (namespace \o last)[i] = Own[i]
      OBVIOUS
    <3>1. CASE i = n
      BY <1>6, <2>4, <2>5, <2>6, <2>8, <3>1
    <3>2. CASE i # n
      <4>1. i \in 1..(n - 1) /\ i \in 1..Len(Own)
        BY <1>6, <2>6, <3>2
      <4> QED
        BY <1>7, <2>4, <2>8, <4>1
    <3> QED
      BY <3>1, <3>2
  <2> DEFINE joined == namespace \o last
  <2>10. joined \in Seq(Octet) /\ Len(joined) = n /\ \A i \in 1..n : joined[i] = Own[i]
    BY <1>6, <2>8, <2>9
  <2> HIDE DEF joined
  <2>11. joined = Own
    BY <1>1, <2>6, <2>10
  <2> QED
    BY <2>11 DEF joined, last
<1>10. WellFormed(k)
  BY <1>1, <1>3, Utf8Exact
<1> QED
  BY <1>5, <1>8, <1>9, <1>10 DEF Qualified, namespace

-----------------------------------------------------------------------------
(* The invariant and the theorems.                                         *)

\* Nothing has been made yet.
LEMMA InitInv == Init => IInv
<1> SUFFICES ASSUME Init PROVE IInv
  OBVIOUS
<1>1. <<>> \in Seq(SoundFields) /\ FALSE \in BOOLEAN
  OBVIOUS
<1>2. SchemaBuilderOK
  BY <1>1, EmptyMetadata DEF Init, SchemaBuilderOK
<1> QED
  BY <1>2 DEF Init, IInv, FieldBuilderOK, FieldOK, SchemaOK

\* A field under construction
LEMMA FieldInHand ==
  ASSUME FieldBuilderOK, fb # None, ~fb.finished
  PROVE  fb.made \in MadeFields /\ fb \in [made : MadeFields, finished : {FALSE}]
BY DEF FieldBuilderOK

\* A new field builder has no metadata yet.
LEMMA NewFieldInv ==
  ASSUME IInv, NEW d \in Drafts, NewField(d)
  PROVE  IInv'
<1>1. Field(d, <<>>) \in MadeFields
  BY EmptyMetadata DEF NewField, MadeFields
<1>2. fb' \in [made : MadeFields, finished : {FALSE}]
  BY <1>1 DEF NewField
<1>3. FieldBuilderOK' /\ FieldOK'
  BY <1>2 DEF FieldBuilderOK, FieldOK, NewField
<1>4. SchemaBuilderOK' /\ SchemaOK'
  BY DEF IInv, SchemaBuilderOK, SchemaOK, NewField
<1> QED
  BY <1>3, <1>4 DEF IInv

\* Metadata is added to a field that is being made.
LEMMA FieldMetadataInv ==
  ASSUME IInv, NEW k \in Keys, NEW v \in Values, FieldMetadata(k, v)
  PROVE  IInv'
<1> DEFINE old == fb.made.metadata
           new == AddMetadata(old, k, v)
<1>1. /\ fb # None /\ ~fb.finished /\ AddMetadataError(old, k) = "none"
      /\ fb' = [fb EXCEPT !.made.metadata = new]
      /\ field' = field /\ sb' = sb /\ schema' = schema
  BY DEF FieldMetadata
<1>2. fb.made \in MadeFields /\ fb \in [made : MadeFields, finished : {FALSE}]
  BY <1>1, FieldInHand DEF IInv
<1>3. PICK d \in Drafts, m \in Metadata :
        fb.made = Field(d, m) /\ CreateError(d.type.kind, d.type.parameters) = "none"
  BY <1>2 DEF MadeFields
<1>4. old = m
  BY <1>3 DEF Field
<1>5. new \in Metadata
  BY <1>1, <1>4, MetadataGrows
<1>6. [fb.made EXCEPT !.metadata = new] = Field(d, new)
  BY <1>3 DEF Field
<1>7. Field(d, new) \in MadeFields
  BY <1>3, <1>5 DEF MadeFields
<1> HIDE DEF new, old
<1>8. fb' \in [made : MadeFields, finished : {FALSE}]
  BY <1>1, <1>2, <1>6, <1>7
<1>9. FieldBuilderOK' /\ FieldOK'
  BY <1>1, <1>8 DEF IInv, FieldBuilderOK, FieldOK
<1>10. SchemaBuilderOK' /\ SchemaOK'
  BY <1>1 DEF IInv, SchemaBuilderOK, SchemaOK
<1> QED
  BY <1>9, <1>10 DEF IInv

\* A field is published by its finish() only.
LEMMA FinishFieldInv ==
  ASSUME IInv, NEW lim \in LimitSets, FinishField(lim)
  PROVE  IInv'
<1>1. fb # None /\ ~fb.finished /\ fb' = [made |-> None, finished |-> TRUE]
  BY DEF FinishField
<1>2. FieldBuilderOK'
  BY <1>1 DEF FieldBuilderOK
<1>3. FieldOK'
  <2>1. CASE field' = field
    BY <2>1 DEF IInv, FieldOK
  <2>2. CASE FinishFieldError(fb.made, lim) = "none" /\ field' = fb.made
    <3>1. fb.made \in MadeFields
      BY <1>1, FieldInHand DEF IInv
    <3> QED
      BY <2>2, <3>1, FinishedIsSound DEF FieldOK
  <2> QED
    BY <2>1, <2>2 DEF FinishField
<1>4. SchemaBuilderOK' /\ SchemaOK'
  BY DEF IInv, SchemaBuilderOK, SchemaOK, FinishField
<1> QED
  BY <1>2, <1>3, <1>4 DEF IInv

\* Only finished fields get into a schema.
LEMMA AddFieldInv ==
  ASSUME IInv, AddField
  PROVE  IInv'
<1>1. field \in SoundFields /\ sb.fields \in Seq(SoundFields)
  BY DEF IInv, FieldOK, SchemaBuilderOK, AddField
<1>2. Append(sb.fields, field) \in Seq(SoundFields)
  BY <1>1
<1>3. SchemaBuilderOK'
  BY <1>2 DEF IInv, SchemaBuilderOK, AddField
<1>4. FieldBuilderOK' /\ FieldOK' /\ SchemaOK'
  BY DEF IInv, FieldBuilderOK, FieldOK, SchemaOK, AddField
<1> QED
  BY <1>3, <1>4 DEF IInv

\* Metadata is added to the schema.
LEMMA SchemaMetadataInv ==
  ASSUME IInv, NEW k \in Keys, NEW v \in Values, SchemaMetadata(k, v)
  PROVE  IInv'
<1>1. sb.metadata \in Metadata /\ AddMetadataError(sb.metadata, k) = "none"
  BY DEF IInv, SchemaBuilderOK, SchemaMetadata
<1>2. AddMetadata(sb.metadata, k, v) \in Metadata
  BY <1>1, MetadataGrows
<1>3. SchemaBuilderOK'
  BY <1>2 DEF IInv, SchemaBuilderOK, SchemaMetadata
<1>4. FieldBuilderOK' /\ FieldOK' /\ SchemaOK'
  BY DEF IInv, FieldBuilderOK, FieldOK, SchemaOK, SchemaMetadata
<1> QED
  BY <1>3, <1>4 DEF IInv

\* Sound fields are fields that were made.
LEMMA SoundAreMade == \A s \in Seq(SoundFields) : s \in Seq(MadeFields)
BY DEF SoundFields

\* A schema is published by finish() only, which looks at clashes.
LEMMA FinishInv ==
  ASSUME IInv, NEW lim \in LimitSets, Finish(lim)
  PROVE  IInv'
<1>1. sb.fields \in Seq(SoundFields) /\ sb.metadata \in Metadata
  BY DEF IInv, SchemaBuilderOK
<1>2. SchemaBuilderOK'
  <2>1. <<>> \in Seq(SoundFields)
    OBVIOUS
  <2> QED
    BY <2>1, EmptyMetadata DEF SchemaBuilderOK, Finish
<1>3. SchemaOK'
  <2>1. CASE schema' = schema
    BY <2>1 DEF IInv, SchemaOK
  <2>2. CASE /\ FinishError(sb.fields, sb.metadata, lim) = "none"
             /\ schema' = [content |-> [fields |-> sb.fields, metadata |-> sb.metadata],
                           canonical |-> Canonical([fields |-> sb.fields,
                                                    metadata |-> sb.metadata])]
    <3> DEFINE s == [fields |-> sb.fields, metadata |-> sb.metadata]
    <3>1. Acceptable(sb.fields, sb.metadata, lim)
      BY <1>1, <2>2, SoundAreMade, SchemaFinishIsExact
    <3>2. Unique(sb.fields)
      BY <3>1 DEF Acceptable
    <3>3. Listed(sb.fields) /\ Sized(sb.metadata)
      BY <1>1, <3>1, SoundAreMade, AcceptedFits
    <3>4. schema' = [content |-> s, canonical |-> Canonical(s)]
      BY <2>2
    <3>5. s.fields = sb.fields /\ s.metadata = sb.metadata
          /\ s \in [fields : Seq(SoundFields), metadata : Metadata]
      BY <1>1
    <3> HIDE DEF s
    <3>6. schema'.content = s /\ schema'.canonical = Canonical(s)
      BY <3>4
    <3> QED
      BY <3>2, <3>3, <3>5, <3>6 DEF SchemaOK
  <2> QED
    BY <2>1, <2>2 DEF Finish
<1>4. FieldBuilderOK' /\ FieldOK'
  BY DEF IInv, FieldBuilderOK, FieldOK, Finish
<1> QED
  BY <1>2, <1>3, <1>4 DEF IInv

\* No step of any call breaks the invariant.
LEMMA NextInv == IInv /\ [Next]_vars => IInv'
<1> SUFFICES ASSUME IInv, [Next]_vars PROVE IInv'
  OBVIOUS
<1>1. CASE \E d \in Drafts : NewField(d)
  BY <1>1, NewFieldInv
<1>2. CASE \E k \in Keys, v \in Values : FieldMetadata(k, v) \/ SchemaMetadata(k, v)
  BY <1>2, FieldMetadataInv, SchemaMetadataInv
<1>3. CASE \E lim \in LimitSets : FinishField(lim) \/ Finish(lim)
  BY <1>3, FinishFieldInv, FinishInv
<1>4. CASE AddField
  BY <1>4, AddFieldInv
<1>5. CASE UNCHANGED vars
  BY <1>5 DEF vars, IInv, FieldBuilderOK, FieldOK, SchemaBuilderOK, SchemaOK
<1> QED
  BY <1>1, <1>2, <1>3, <1>4, <1>5 DEF Next

\* What the builders hold and what they publish is made of fields and metadata
\* that passed the checks of the calls that made them.
THEOREM BuildersHold == Spec => []IInv
<1> QED
  BY InitInv, NextInv, PTL DEF Spec

\* Whatever the fields, the metadata and the limits, finish() of the field and of
\* the schema builder accepts exactly what it should, and what it says of the
\* rest is true of it.
THEOREM FinishSchemaExact == Spec => []FinishIsExact
<1>1. IInv => FinishIsExact
  <2> SUFFICES ASSUME IInv, NEW lim \in LimitSets
               PROVE  /\ ~sb.finished =>
                           LET error == FinishError(sb.fields, sb.metadata, lim)
                           IN /\ (error = "none") <=> Acceptable(sb.fields, sb.metadata, lim)
                              /\ error = "invalid_schema" => sb.fields = <<>> \/ ~Unique(sb.fields)
                              /\ error = "limit_exceeded" =>
                                   \/ Len(sb.fields) > lim.fields
                                   \/ Cardinality(Counted(sb.fields, sb.metadata))
                                        > lim.metadata_bytes
                      /\ (fb # None /\ ~fb.finished) =>
                           ((FinishFieldError(fb.made, lim) = "none") <=>
                              /\ fb.made.id # 0 /\ fb.made.name # <<>> /\ WellFormed(fb.made.name)
                              /\ Cardinality(Counted(<<fb.made>>, <<>>)) <= lim.metadata_bytes)
    BY DEF FinishIsExact
  <2>1. sb.fields \in Seq(MadeFields) /\ sb.metadata \in Metadata
    BY SoundAreMade DEF IInv, SchemaBuilderOK
  <2>2. (fb # None /\ ~fb.finished) => fb.made \in MadeFields
    BY FieldInHand DEF IInv
  <2> QED
    BY <2>1, <2>2, SchemaFinishIsExact, FieldFinishIsExact
<1> QED
  BY <1>1, BuildersHold, PTL

\* A field of a published schema is found by its ID and is fit to be served.
LEMMA FieldIsServed ==
  ASSUME NEW fields \in Seq(SoundFields), Unique(fields), NEW i \in DOMAIN fields,
         NEW s, s.fields = fields
  PROVE  LET f == fields[i]
         IN /\ f.id # 0 /\ FindField(s, f.id) = i
            /\ f.name # <<>> /\ WellFormed(f.name)
            /\ (FixedWidthBytes(f.type) = 0) <=>
                 (IsVariableWidth(f.type) \/ f.type.kind = "boolean")
<1> DEFINE f == fields[i]
           I == {j \in 1..Len(fields) : fields[j].id = f.id}
<1>1. f \in SoundFields /\ DOMAIN fields = 1..Len(fields) /\ Len(fields) \in Nat
  OBVIOUS
<1>2. f \in MadeFields /\ f.id # 0 /\ f.name # <<>> /\ ValidUtf8(f.name)
  BY <1>1 DEF SoundFields
<1>3. f.name \in Seq(Octet) /\ CreateError(f.type.kind, f.type.parameters) = "none"
  BY <1>2, MadeIs
<1>4. WellFormed(f.name)
  BY <1>2, <1>3, Utf8Exact
<1>5. FindField(s, f.id) = IF I # {} THEN Min(I) ELSE 0
  BY DEF FindField, SelectInSeq
<1>6. I = {i}
  BY <1>1 DEF Unique
<1>7. Min(I) = i
  <2>1. I \subseteq Nat /\ I # {}
    BY <1>1, <1>6
  <2> HIDE DEF I
  <2> QED
    BY <1>6, <2>1, MinIsLeast
<1>8. (FixedWidthBytes(f.type) = 0) <=> (IsVariableWidth(f.type) \/ f.type.kind = "boolean")
  BY <1>3, WidthlessTypes
<1> HIDE DEF f, I
<1>9. FindField(s, f.id) = i
  BY <1>5, <1>6, <1>7
<1> QED
  BY <1>2, <1>4, <1>8, <1>9 DEF f

\* Every published schema serves its readers: fields found by ID, types some
\* column stores, Unicode names and keys, and no key of a foreign namespace.
THEOREM SchemaServed == Spec => []FieldsServed
<1>1. IInv => FieldsServed
  <2> SUFFICES ASSUME IInv, schema # None PROVE FieldsServed
    BY DEF FieldsServed
  <2> DEFINE s == schema.content
             AllKeys == DOMAIN s.metadata \cup
                          UNION {DOMAIN s.fields[i].metadata : i \in DOMAIN s.fields}
  <2>1. s.fields \in Seq(SoundFields) /\ s.metadata \in Metadata /\ Unique(s.fields)
    BY DEF IInv, SchemaOK
  <2> HIDE DEF s
  <2>2. \A i \in DOMAIN s.fields : s.fields[i].metadata \in Metadata
    <3> SUFFICES ASSUME NEW i \in DOMAIN s.fields PROVE s.fields[i].metadata \in Metadata
      OBVIOUS
    <3>1. s.fields[i] \in MadeFields
      BY <2>1 DEF SoundFields
    <3> QED
      BY <3>1, MadeIs
  <2>3. AllKeys \subseteq GoodKeys
    BY <2>1, <2>2, MetadataIs
  <2>4. \A k \in AllKeys : WellFormed(k) /\ Qualified(k)
    <3> HIDE DEF AllKeys
    <3> QED
      BY <2>3, KeyIsQualified
  <2>5. \A i \in DOMAIN s.fields :
          LET f == s.fields[i]
          IN /\ f.id # 0 /\ FindField(s, f.id) = i
             /\ f.name # <<>> /\ WellFormed(f.name)
             /\ (FixedWidthBytes(f.type) = 0) <=>
                  (IsVariableWidth(f.type) \/ f.type.kind = "boolean")
    BY <2>1, FieldIsServed
  <2> QED
    BY <2>4, <2>5, Zenon DEF FieldsServed, s
<1> QED
  BY <1>1, BuildersHold, PTL

\* The canonical bytes of every published schema can be read back: no two schemas
\* have the same bytes, so the fingerprint made of them is a hash of the schema.
THEOREM CanonicalReadsBack == Spec => []CanonicalIdentifies
<1>1. IInv => CanonicalIdentifies
  <2> SUFFICES ASSUME IInv, schema # None
               PROVE  ReadSchema(schema.canonical) = schema.content
    BY DEF CanonicalIdentifies
  <2> DEFINE s == schema.content
             fields == s.fields
             metadata == s.metadata
  <2>1. /\ s \in [fields : Seq(SoundFields), metadata : Metadata]
        /\ Listed(fields) /\ Sized(metadata) /\ schema.canonical = Canonical(s)
    BY DEF IInv, SchemaOK
  <2>2. s = [fields |-> fields, metadata |-> metadata]
    BY <2>1
  <2> HIDE DEF s, fields, metadata
  <2>3. ReadSchema(Canonical(s)) = s
    BY <2>1, <2>2, SchemaRead, Zenon
  <2> QED
    BY <2>1, <2>3 DEF s
<1> QED
  BY <1>1, BuildersHold, PTL

\* valid_utf8 takes every text for what the Unicode standard takes it for.
THEOREM TextsUtf8 == Spec => []Utf8IsExact
<1>1. Utf8IsExact
  <2>1. \A t \in Texts : t \in Seq(Octet)
    BY SchemaAssumption DEF Octet
  <2> QED
    BY <2>1, Utf8Exact DEF Utf8IsExact
<1> QED
  BY <1>1, PTL

=============================================================================
