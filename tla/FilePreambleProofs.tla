------------------------- MODULE FilePreambleProofs -------------------------
(***************************************************************************)
(* Proofs about FilePreamble, Crc32c and Words for every width of bytes,   *)
(* checksums, versions and wide words and every polynomial.                *)
(***************************************************************************)
EXTENDS FilePreamble, CommonLemmas, SequenceTheorems

-----------------------------------------------------------------------------
(* Folds.                                                                  *)

\* Max of the community modules is the greatest member of a bounded set.
LEMMA MaxIsGreatest ==
  ASSUME NEW T, NEW n, n \in Nat, T \subseteq 0..n, T # {}
  PROVE  Max(T) \in T /\ \A m \in T : m <= Max(T)
<1> DEFINE R == {n - m : m \in T}
<1>1. R \subseteq Nat /\ R # {}
  <2>1. \A m \in T : n - m \in Nat
    OBVIOUS
  <2> QED
    BY <2>1
<1>2. PICK r \in R : \A q \in R : r <= q
  <2> HIDE DEF R
  <2> QED
    BY <1>1, LeastExists
<1>3. PICK m \in T : r = n - m
  BY <1>2
<1>4. \A k \in T : m >= k
  <2> SUFFICES ASSUME NEW k \in T PROVE m >= k
    OBVIOUS
  <2>1. n - k \in R
    OBVIOUS
  <2>2. r <= n - k
    BY <1>2, <2>1
  <2> HIDE DEF R
  <2> QED
    BY <1>3, <2>2
<1>5. \E x \in T : \A y \in T : x >= y
  BY <1>4
<1>6. Max(T) \in T /\ \A y \in T : Max(T) >= y
  BY <1>5 DEF Max
<1> QED
  BY <1>6

\* The same steps, taken on sets of indices from the greatest down, as the
\* folds of the community modules do.
Iterates(it, base, n, step) ==
  /\ it[{}] = base
  /\ \A s \in SUBSET (1..n) : s # {} => it[s] = step[Max(s)][it[s \ {Max(s)}]]

\* Such an iteration exists.
LEMMA IterExists ==
  ASSUME NEW V, NEW base, NEW n, NEW step,
         base \in V, n \in Nat, step \in [1..n -> [V -> V]]
  PROVE  \E it \in [SUBSET (1..n) -> V] : Iterates(it, base, n, step)
<1> DEFINE T == {m \in 0..n : \E it \in [SUBSET (1..m) -> V] : Iterates(it, base, m, step)}
<1>1. 0 \in T
  <2> DEFINE it == [s \in SUBSET (1..0) |-> base]
  <2>1. \A s \in SUBSET (1..0) : s = {}
    OBVIOUS
  <2>2. it \in [SUBSET (1..0) -> V] /\ it[{}] = base
    OBVIOUS
  <2>3. Iterates(it, base, 0, step)
    BY <2>1, <2>2 DEF Iterates
  <2>4. 0 \in 0..n
    OBVIOUS
  <2> HIDE DEF it
  <2> QED
    BY <2>2, <2>3, <2>4
<1>2. ASSUME NEW m \in 1..n, m - 1 \in T
      PROVE  m \in T
  <2>1. PICK it \in [SUBSET (1..(m - 1)) -> V] : Iterates(it, base, m - 1, step)
    BY <1>2
  <2>2. \A s \in SUBSET (1..m) : m \notin s => s \in SUBSET (1..(m - 1))
    OBVIOUS
  <2>3. \A s \in SUBSET (1..m) : s \ {m} \in SUBSET (1..(m - 1))
    OBVIOUS
  <2> DEFINE Taken(s) == IF m \in s THEN step[m][it[s \ {m}]] ELSE it[s]
             g == [s \in SUBSET (1..m) |-> Taken(s)]
  <2>4. step[m] \in [V -> V]
    OBVIOUS
  <2>5. \A s \in SUBSET (1..m) : Taken(s) \in V
    <3> SUFFICES ASSUME NEW s \in SUBSET (1..m) PROVE Taken(s) \in V
      OBVIOUS
    <3>1. CASE m \in s
      <4>1. it[s \ {m}] \in V
        BY <2>3
      <4> QED
        BY <2>4, <3>1, <4>1
    <3>2. CASE m \notin s
      BY <2>2, <3>2
    <3> QED
      BY <3>1, <3>2
  <2>6. g \in [SUBSET (1..m) -> V]
    BY <2>5
  <2>7. g[{}] = base
    <3>1. {} \in SUBSET (1..m) /\ m \notin {} /\ it[{}] = base
      BY <2>1 DEF Iterates
    <3> QED
      BY <3>1
  <2>8. ASSUME NEW s \in SUBSET (1..m), s # {}
        PROVE  g[s] = step[Max(s)][g[s \ {Max(s)}]]
    <3>1. Max(s) \in s /\ \A k \in s : k <= Max(s)
      <4>1. s \subseteq 0..m /\ m \in Nat
        OBVIOUS
      <4> QED
        BY <2>8, <4>1, MaxIsGreatest
    <3>2. CASE m \in s
      <4>1. Max(s) = m
        <5>1. Max(s) \in 1..m /\ m <= Max(s)
          BY <3>1, <3>2
        <5> QED
          BY <5>1
      <4>2. s \ {m} \in SUBSET (1..m) /\ m \notin s \ {m}
        OBVIOUS
      <4>3. g[s \ {m}] = it[s \ {m}] /\ g[s] = step[m][it[s \ {m}]]
        BY <3>2, <4>2
      <4> QED
        BY <4>1, <4>3
    <3>3. CASE m \notin s
      <4>1. s \in SUBSET (1..(m - 1))
        BY <2>2, <3>3
      <4>2. it[s] = step[Max(s)][it[s \ {Max(s)}]]
        BY <2>1, <2>8, <4>1 DEF Iterates
      <4>3. s \ {Max(s)} \in SUBSET (1..m) /\ m \notin s \ {Max(s)}
        BY <3>3
      <4>4. g[s] = it[s] /\ g[s \ {Max(s)}] = it[s \ {Max(s)}]
        BY <3>3, <4>3
      <4> QED
        BY <4>2, <4>4
    <3> QED
      BY <3>2, <3>3
  <2>9. Iterates(g, base, m, step)
    <3> HIDE DEF g
    <3> QED
      BY <2>7, <2>8 DEF Iterates
  <2> HIDE DEF g
  <2> QED
    BY <2>6, <2>9
<1> HIDE DEF T
<1>3. 0..n \subseteq T
  BY <1>1, <1>2, AllOfThem
<1>4. n \in T
  BY <1>3
<1> QED
  BY <1>4 DEF T

\* The greatest of the first i numbers, and the others.
LEMMA Initial ==
  ASSUME NEW n, NEW i, n \in Nat, i \in 1..n
  PROVE  /\ 1..i \in SUBSET (1..n) /\ 1..i # {}
         /\ Max(1..i) = i /\ (1..i) \ {i} = 1..(i - 1)
<1> DEFINE s == 1..i
<1>1. s \in SUBSET (1..n) /\ s # {} /\ s \subseteq 0..i /\ i \in s /\ i \in Nat
  OBVIOUS
<1>2. Max(s) \in s /\ \A k \in s : k <= Max(s)
  <2> HIDE DEF s
  <2> QED
    BY <1>1, MaxIsGreatest
<1>3. Max(s) = i
  <2>1. Max(s) \in 1..i /\ i <= Max(s)
    BY <1>1, <1>2
  <2> QED
    BY <2>1
<1>4. s \ {i} = 1..(i - 1)
  OBVIOUS
<1> QED
  BY <1>1, <1>3, <1>4

\* What such an iteration does on the first i indices
Climbs(it, V, base, n, step) ==
  /\ it[{}] = base
  /\ \A i \in 1..n : it[1..(i - 1)] \in V => it[1..i] = step[i][it[1..(i - 1)]]

\* An iteration that climbs the initial sets of indices ends where the path of
\* its steps does.
LEMMA IterIsPath ==
  ASSUME NEW V, NEW base, NEW n, NEW step, NEW it, NEW f,
         n \in Nat, f \in [0..n -> V], Path(f, base, n, step), Climbs(it, V, base, n, step)
  PROVE  it[1..n] = f[n]
<1> DEFINE T == {i \in 0..n : it[1..i] = f[i]}
<1>1. 0 \in T
  <2>1. 1..0 = {} /\ 0 \in 0..n
    OBVIOUS
  <2> QED
    BY <2>1 DEF Path, Climbs
<1>2. ASSUME NEW i \in 1..n, i - 1 \in T
      PROVE  i \in T
  <2>1. it[1..(i - 1)] = f[i - 1] /\ f[i - 1] \in V
    BY <1>2
  <2>2. it[1..i] = step[i][it[1..(i - 1)]]
    BY <2>1 DEF Climbs
  <2> QED
    BY <2>1, <2>2 DEF Path
<1> HIDE DEF T
<1>3. 0..n \subseteq T
  BY <1>1, <1>2, AllOfThem
<1>4. n \in T
  BY <1>3
<1> QED
  BY <1>4 DEF T

-----------------------------------------------------------------------------
(* Division.                                                               *)

\* Numbers of any width, as the sets of their one bits
Numbers == SUBSET Nat

\* Dividing one bit leaves a number.
LEMMA DivideBitType ==
  ASSUME NEW r \in Numbers
  PROVE  DivideBit(r) \in Numbers
<1>1. Polynomial \subseteq Nat
  BY CrcAssumption DEF Ones
<1>2. ShiftRight(r, 1) \subseteq Nat
  BY DEF ShiftRight, Numbers
<1> QED
  BY <1>1, <1>2 DEF DivideBit, Xor, SymDiff, Numbers

\* Divide takes one step of DivideBit per bit.
LEMMA DividePath ==
  ASSUME NEW w \in Numbers, NEW n \in Nat
  PROVE  \E f \in [0..n -> Numbers] :
           /\ f[0] = w /\ f[n] = Divide(w, n)
           /\ \A i \in 1..n : f[i] = DivideBit(f[i - 1])
<1> DEFINE seq == [i \in 1..n |-> i]
           step == [i \in 1..n |-> [r \in Numbers |-> DivideBit(r)]]
           iter[s \in SUBSET DOMAIN seq] ==
             IF s = {} THEN w ELSE DivideBit(iter[s \ {Max(s)}])
<1>1. Divide(w, n) = iter[DOMAIN seq]
  BY DEF Divide, FoldLeft, MapThenFoldSet
<1>2. iter = CHOOSE it : it = [s \in SUBSET DOMAIN seq |->
                                IF s = {} THEN w ELSE DivideBit(it[s \ {Max(s)}])]
  OBVIOUS
<1>3. DOMAIN seq = 1..n
  OBVIOUS
<1> HIDE DEF iter, seq
<1>4. step \in [1..n -> [Numbers -> Numbers]]
  BY DivideBitType
<1>5. \A i \in 1..n, r \in Numbers : step[i][r] = DivideBit(r)
  OBVIOUS
<1> HIDE DEF step
<1>6. PICK f \in [0..n -> Numbers] : Path(f, w, n, step)
  BY <1>4, PathExists
<1>7. PICK it \in [SUBSET (1..n) -> Numbers] : Iterates(it, w, n, step)
  BY <1>4, IterExists
<1>8. \A s \in SUBSET (1..n) : s # {} => Max(s) \in 1..n /\ s \ {Max(s)} \in SUBSET (1..n)
  <2> SUFFICES ASSUME NEW s \in SUBSET (1..n), s # {} PROVE Max(s) \in s
    OBVIOUS
  <2>1. s \subseteq 0..n
    OBVIOUS
  <2> QED
    BY <2>1, MaxIsGreatest
<1>9. it = [s \in SUBSET DOMAIN seq |-> IF s = {} THEN w ELSE DivideBit(it[s \ {Max(s)}])]
  <2>1. \A s \in SUBSET (1..n) : it[s] = IF s = {} THEN w ELSE DivideBit(it[s \ {Max(s)}])
    BY <1>5, <1>7, <1>8 DEF Iterates
  <2> QED
    BY <1>3, <2>1
<1>10. PICK it2 : /\ it2 = [s \in SUBSET DOMAIN seq |->
                              IF s = {} THEN w ELSE DivideBit(it2[s \ {Max(s)}])]
                  /\ Divide(w, n) = it2[DOMAIN seq]
  BY <1>1, <1>2, <1>9
<1>11. \A s \in SUBSET (1..n) :
         it2[s] = IF s = {} THEN w ELSE DivideBit(it2[s \ {Max(s)}])
  BY <1>3, <1>10
<1>12. it2[{}] = w
  BY <1>11
<1>13. \A i \in 1..n : it2[1..(i - 1)] \in Numbers => it2[1..i] = step[i][it2[1..(i - 1)]]
  <2> SUFFICES ASSUME NEW i \in 1..n, it2[1..(i - 1)] \in Numbers
               PROVE  it2[1..i] = step[i][it2[1..(i - 1)]]
    OBVIOUS
  <2>1. it2[1..i] = DivideBit(it2[(1..i) \ {Max(1..i)}])
    BY <1>11, Initial
  <2>2. it2[1..i] = DivideBit(it2[1..(i - 1)])
    BY <2>1, Initial
  <2> QED
    BY <1>5, <2>2
<1>14. it2[1..n] = f[n]
  <2>1. n \in Nat /\ f \in [0..n -> Numbers] /\ Path(f, w, n, step)
    BY <1>6
  <2>2. Climbs(it2, Numbers, w, n, step)
    BY <1>12, <1>13 DEF Climbs
  <2> QED
    BY <2>1, <2>2, IterIsPath
<1>15. f[n] = Divide(w, n) /\ f[0] = w
  BY <1>3, <1>6, <1>10, <1>14 DEF Path
<1>16. ASSUME NEW i \in 1..n
       PROVE  f[i] = DivideBit(f[i - 1])
  <2>1. f[i - 1] \in Numbers
    OBVIOUS
  <2> QED
    BY <1>5, <1>6, <2>1 DEF Path
<1> QED
  BY <1>15, <1>16

\* Dividing no bit changes nothing.
LEMMA DivideZero ==
  ASSUME NEW w \in Numbers
  PROVE  Divide(w, 0) = w
BY DividePath

\* The recurrence of Divide.
LEMMA DivideNext ==
  ASSUME NEW w \in Numbers, NEW n \in Nat
  PROVE  Divide(w, n + 1) = DivideBit(Divide(w, n))
<1>1. PICK f \in [0..(n + 1) -> Numbers] :
        /\ f[0] = w /\ f[n + 1] = Divide(w, n + 1)
        /\ \A i \in 1..(n + 1) : f[i] = DivideBit(f[i - 1])
  <2>1. n + 1 \in Nat
    OBVIOUS
  <2> QED
    BY <2>1, DividePath
<1>2. PICK g \in [0..n -> Numbers] :
        /\ g[0] = w /\ g[n] = Divide(w, n)
        /\ \A i \in 1..n : g[i] = DivideBit(g[i - 1])
  BY DividePath
<1> DEFINE T == {i \in 0..n : f[i] = g[i]}
<1>3. 0 \in T
  BY <1>1, <1>2
<1>4. \A i \in 1..n : i - 1 \in T => i \in T
  <2> SUFFICES ASSUME NEW i \in 1..n, i - 1 \in T PROVE i \in T
    OBVIOUS
  <2>1. i \in 1..(n + 1)
    OBVIOUS
  <2> QED
    BY <1>1, <1>2, <2>1
<1> HIDE DEF T
<1>5. n \in T
  <2>1. 0..n \subseteq T
    BY <1>3, <1>4, AllOfThem
  <2> QED
    BY <2>1
<1>6. f[n + 1] = DivideBit(f[n])
  <2>1. n + 1 \in 1..(n + 1) /\ (n + 1) - 1 = n
    OBVIOUS
  <2> QED
    BY <1>1, <2>1
<1> QED
  BY <1>1, <1>2, <1>5, <1>6 DEF T

\* What is left of a number is a number.
LEMMA DivideType ==
  ASSUME NEW w \in Numbers, NEW n \in Nat
  PROVE  Divide(w, n) \in Numbers
BY DividePath

\* Shifting right is linear.
LEMMA ShiftRightXor ==
  ASSUME NEW a \in Numbers, NEW b \in Numbers, NEW n \in Nat
  PROVE  ShiftRight(Xor(a, b), n) = Xor(ShiftRight(a, n), ShiftRight(b, n))
<1> DEFINE A == ShiftRight(a, n)
           B == ShiftRight(b, n)
           C == ShiftRight(Xor(a, b), n)
<1>1. \A x \in Nat : x \in A <=> x + n \in a
  BY DEF ShiftRight, Numbers
<1>2. \A x \in Nat : x \in B <=> x + n \in b
  BY DEF ShiftRight, Numbers
<1>3. \A x \in Nat : x \in C <=> x + n \in Xor(a, b)
  BY DEF ShiftRight, Numbers, Xor, SymDiff
<1>4. A \subseteq Nat /\ B \subseteq Nat /\ C \subseteq Nat
  BY DEF ShiftRight, Numbers, Xor, SymDiff
<1> HIDE DEF A, B, C
<1>5. C = Xor(A, B)
  BY <1>1, <1>2, <1>3, <1>4 DEF Xor, SymDiff
<1> QED
  BY <1>5 DEF A, B, C

\* XOR of numbers is a number.
LEMMA XorType ==
  ASSUME NEW a \in Numbers, NEW b \in Numbers
  PROVE  Xor(a, b) \in Numbers
BY DEF Xor, SymDiff, Numbers

\* Dividing one bit is linear.
LEMMA DivideBitXor ==
  ASSUME NEW a \in Numbers, NEW b \in Numbers
  PROVE  DivideBit(Xor(a, b)) = Xor(DivideBit(a), DivideBit(b))
<1>1. ShiftRight(Xor(a, b), 1) = Xor(ShiftRight(a, 1), ShiftRight(b, 1))
  BY ShiftRightXor
<1>2. 0 \in Xor(a, b) <=> ~(0 \in a <=> 0 \in b)
  BY DEF Xor, SymDiff
<1>3. \A x, y, p : /\ Xor(Xor(x, p), Xor(y, p)) = Xor(x, y)
                   /\ Xor(Xor(x, p), y) = Xor(Xor(x, y), p)
                   /\ Xor(x, Xor(y, p)) = Xor(Xor(x, y), p)
  BY DEF Xor, SymDiff
<1> QED
  BY <1>1, <1>2, <1>3 DEF DivideBit

\* Division is linear: what is left of an XOR is the XOR of what is left.
LEMMA DivideXor ==
  ASSUME NEW a \in Numbers, NEW b \in Numbers, NEW n \in Nat
  PROVE  Divide(Xor(a, b), n) = Xor(Divide(a, n), Divide(b, n))
<1> DEFINE T == {i \in 0..n : Divide(Xor(a, b), i) = Xor(Divide(a, i), Divide(b, i))}
<1>1. 0 \in T
  BY DivideZero, XorType
<1>2. \A i \in 1..n : i - 1 \in T => i \in T
  <2> SUFFICES ASSUME NEW i \in 1..n, i - 1 \in T PROVE i \in T
    OBVIOUS
  <2>1. i - 1 \in Nat /\ (i - 1) + 1 = i
    OBVIOUS
  <2>2. /\ Divide(a, i) = DivideBit(Divide(a, i - 1)) /\ Divide(a, i - 1) \in Numbers
        /\ Divide(b, i) = DivideBit(Divide(b, i - 1)) /\ Divide(b, i - 1) \in Numbers
        /\ Divide(Xor(a, b), i) = DivideBit(Divide(Xor(a, b), i - 1))
    BY <2>1, DivideNext, DivideType, XorType
  <2>3. Divide(Xor(a, b), i - 1) = Xor(Divide(a, i - 1), Divide(b, i - 1))
    OBVIOUS
  <2> QED
    BY <2>2, <2>3, DivideBitXor
<1> HIDE DEF T
<1>3. 0..n \subseteq T
  BY <1>1, <1>2, AllOfThem
<1>4. n \in T
  BY <1>3
<1> QED
  BY <1>4 DEF T

\* Bits may be divided in two goes.
LEMMA DivideAdd ==
  ASSUME NEW w \in Numbers, NEW a \in Nat, NEW b \in Nat
  PROVE  Divide(Divide(w, a), b) = Divide(w, a + b)
<1> DEFINE T == {i \in 0..b : Divide(Divide(w, a), i) = Divide(w, a + i)}
<1>1. 0 \in T
  <2>1. a + 0 = a /\ 0 \in 0..b
    OBVIOUS
  <2> QED
    BY <2>1, DivideZero, DivideType
<1>2. \A i \in 1..b : i - 1 \in T => i \in T
  <2> SUFFICES ASSUME NEW i \in 1..b, i - 1 \in T PROVE i \in T
    OBVIOUS
  <2>1. /\ i - 1 \in Nat /\ (i - 1) + 1 = i
        /\ a + (i - 1) \in Nat /\ (a + (i - 1)) + 1 = a + i
    OBVIOUS
  <2>2. /\ Divide(Divide(w, a), i) = DivideBit(Divide(Divide(w, a), i - 1))
        /\ Divide(w, a + i) = DivideBit(Divide(w, a + (i - 1)))
    BY <2>1, DivideNext, DivideType
  <2> QED
    BY <2>2
<1> HIDE DEF T
<1>3. 0..b \subseteq T
  BY <1>1, <1>2, AllOfThem
<1>4. b \in T
  BY <1>3
<1> QED
  BY <1>4 DEF T

\* Nothing is subtracted while the low bits are zero.
LEMMA DivideShifted ==
  ASSUME NEW w \in Numbers, NEW n \in Nat
  PROVE  Divide(ShiftLeft(w, n), n) = w
<1> DEFINE T == {i \in 0..n : Divide(ShiftLeft(w, n), i) = ShiftLeft(w, n - i)}
<1>1. ShiftLeft(w, n) \in Numbers
  BY DEF ShiftLeft, Numbers
<1>2. 0 \in T
  <2>1. n - 0 = n /\ 0 \in 0..n
    OBVIOUS
  <2> QED
    BY <1>1, <2>1, DivideZero
<1>3. \A i \in 1..n : i - 1 \in T => i \in T
  <2> SUFFICES ASSUME NEW i \in 1..n, i - 1 \in T PROVE i \in T
    OBVIOUS
  <2>1. i - 1 \in Nat /\ (i - 1) + 1 = i /\ n - (i - 1) \in Nat /\ n - i \in Nat
    OBVIOUS
  <2>2. Divide(ShiftLeft(w, n), i) = DivideBit(ShiftLeft(w, n - (i - 1)))
    BY <1>1, <2>1, DivideNext
  <2>3. 0 \notin ShiftLeft(w, n - (i - 1))
    BY DEF ShiftLeft, Numbers
  <2>4. ShiftRight(ShiftLeft(w, n - (i - 1)), 1) = ShiftLeft(w, n - i)
    <3> DEFINE L == ShiftLeft(w, n - (i - 1))
               M == ShiftLeft(w, n - i)
               R == ShiftRight(L, 1)
    <3>1. L \subseteq Nat /\ M \subseteq Nat /\ R \subseteq Nat
      BY <2>1 DEF ShiftLeft, ShiftRight, Numbers
    <3>2. \A x \in Nat : x \in L <=> x - (n - (i - 1)) \in w
      BY <2>1 DEF ShiftLeft, Numbers
    <3>3. \A x \in Nat : x \in M <=> x - (n - i) \in w
      BY <2>1 DEF ShiftLeft, Numbers
    <3> HIDE DEF L, M
    <3>4. \A x \in Nat : x \in R <=> x + 1 \in L
      BY <3>1 DEF ShiftRight
    <3>5. \A x \in Nat : x + 1 \in Nat /\ (x + 1) - (n - (i - 1)) = x - (n - i)
      OBVIOUS
    <3> HIDE DEF R
    <3>6. \A x \in Nat : x \in R <=> x \in M
      BY <3>2, <3>3, <3>4, <3>5
    <3>7. R = M
      BY <3>1, <3>6
    <3> QED
      BY <3>7 DEF R, L, M
  <2> QED
    BY <2>2, <2>3, <2>4 DEF DivideBit
<1> HIDE DEF T
<1>4. n \in T
  <2>1. 0..n \subseteq T
    BY <1>2, <1>3, AllOfThem
  <2> QED
    BY <2>1
<1>5. ShiftLeft(w, n - n) = w
  <2>1. n - n = 0 /\ w \subseteq Nat
    BY DEF Numbers
  <2>2. {bit + 0 : bit \in w} = w
    <3>1. \A bit \in w : bit + 0 = bit
      BY <2>1
    <3>2. \A x : x \in {bit + 0 : bit \in w} <=> x \in w
      BY <3>1
    <3> QED
      BY <3>2
  <2> QED
    BY <2>1, <2>2 DEF ShiftLeft
<1> QED
  BY <1>4, <1>5 DEF T

\* A number put in after some bits were divided could have been put in at
\* first, shifted by as many bits.
LEMMA Absorb ==
  ASSUME NEW w \in Numbers, NEW v \in Numbers, NEW a \in Nat, NEW b \in Nat
  PROVE  Divide(Xor(Divide(w, a), v), b) = Divide(Xor(w, ShiftLeft(v, a)), a + b)
<1>1. ShiftLeft(v, a) \in Numbers
  BY DEF ShiftLeft, Numbers
<1>2. Divide(Xor(w, ShiftLeft(v, a)), a) = Xor(Divide(w, a), v)
  BY <1>1, DivideXor, DivideShifted
<1> QED
  BY <1>1, <1>2, DivideAdd, XorType

-----------------------------------------------------------------------------
(* Bytes as one number.                                                    *)

\* Every bit has a place in a byte.
LEMMA Places ==
  ASSUME NEW x \in Nat
  PROVE  \E q \in Nat, r \in 0..(ByteBits - 1) : x = ByteBits * q + r
<1>1. ByteBits \in Nat \ {0}
  BY ByteAssumption
<1>2. /\ x \div ByteBits \in Nat /\ x % ByteBits \in 0..(ByteBits - 1)
      /\ x = ByteBits * (x \div ByteBits) + (x % ByteBits)
  BY <1>1
<1> QED
  BY <1>2

\* Multiples of the width of a byte.
LEMMA TimesByte ==
  ASSUME NEW a \in Nat, NEW b \in Nat
  PROVE  /\ ByteBits * a \in Nat
         /\ ByteBits * (a + b) = ByteBits * a + ByteBits * b
         /\ a < b => ByteBits * a + ByteBits <= ByteBits * b
<1>1. ByteBits \in Nat /\ ByteBits >= 1
  BY ByteAssumption
<1>2. ByteBits * a \in Nat /\ ByteBits * (a + b) = ByteBits * a + ByteBits * b
  BY <1>1
<1>3. ASSUME a < b
      PROVE  ByteBits * a + ByteBits <= ByteBits * b
  <2>1. PICK d \in Nat : b = a + 1 + d
    <3>1. b - a - 1 \in Nat /\ b = a + 1 + (b - a - 1)
      BY <1>3
    <3> QED
      BY <3>1
  <2>2. ByteBits * b = ByteBits * a + ByteBits + ByteBits * d
    BY <1>1, <2>1
  <2>3. ByteBits * d \in Nat
    BY <1>1
  <2> QED
    BY <1>1, <1>2, <2>2, <2>3
<1> QED
  BY <1>2, <1>3

\* Two numbers with the same bits are the same.
LEMMA SamePlaces ==
  ASSUME NEW v \in Numbers, NEW w \in Numbers,
         \A q \in Nat, r \in 0..(ByteBits - 1) :
           ByteBits * q + r \in v <=> ByteBits * q + r \in w
  PROVE  v = w
<1>1. ASSUME NEW x \in Nat
      PROVE  x \in v <=> x \in w
  <2>1. PICK q \in Nat, r \in 0..(ByteBits - 1) : x = ByteBits * q + r
    BY Places
  <2> QED
    BY <2>1
<1> QED
  BY <1>1 DEF Numbers

\* A bit has one place only.
LEMMA UniquePlace ==
  ASSUME NEW q \in Nat, NEW k \in Nat,
         NEW r \in 0..(ByteBits - 1), NEW t \in 0..(ByteBits - 1),
         ByteBits * q + r = ByteBits * k + t
  PROVE  q = k /\ r = t
<1>1. ByteBits \in Nat /\ ByteBits * q \in Nat /\ ByteBits * k \in Nat
  BY ByteAssumption, TimesByte
<1>2. ~(q < k)
  <2> SUFFICES ASSUME q < k PROVE FALSE
    OBVIOUS
  <2>1. ByteBits * q + ByteBits <= ByteBits * k
    BY TimesByte
  <2> QED
    BY <1>1, <2>1
<1>3. ~(k < q)
  <2> SUFFICES ASSUME k < q PROVE FALSE
    OBVIOUS
  <2>1. ByteBits * k + ByteBits <= ByteBits * q
    BY TimesByte
  <2> QED
    BY <1>1, <2>1
<1>4. q = k
  BY <1>2, <1>3
<1> QED
  BY <1>1, <1>4

\* The bits of a number that bytes encode are those of the bytes, each at its
\* place.
LEMMA PlaceOfByte ==
  ASSUME NEW bytes \in Seq(Byte), NEW q \in Nat, NEW r \in 0..(ByteBits - 1)
  PROVE  (ByteBits * q + r \in FromLittleEndian(bytes)) <=>
           (q + 1 \in 1..Len(bytes) /\ r \in bytes[q + 1])
<1>1. DOMAIN bytes = 1..Len(bytes) /\ Len(bytes) \in Nat
  OBVIOUS
<1>2. \A k \in 1..Len(bytes) : bytes[k] \subseteq 0..(ByteBits - 1)
  BY DEF Byte
<1>3. ASSUME ByteBits * q + r \in FromLittleEndian(bytes)
      PROVE  q + 1 \in 1..Len(bytes) /\ r \in bytes[q + 1]
  <2>1. PICK k \in 1..Len(bytes) : \E bit \in bytes[k] :
          ByteBits * q + r = bit + ByteBits * (k - 1)
    BY <1>1, <1>3 DEF FromLittleEndian, ShiftLeft
  <2>2. PICK bit \in bytes[k] : ByteBits * q + r = bit + ByteBits * (k - 1)
    BY <2>1
  <2>3. bit \in 0..(ByteBits - 1) /\ k - 1 \in Nat /\ ByteBits * (k - 1) \in Nat
    <3>1. k - 1 \in Nat
      OBVIOUS
    <3> QED
      BY <1>2, <3>1, TimesByte
  <2>4. ByteBits * q + r = ByteBits * (k - 1) + bit
    BY <2>2, <2>3, ByteAssumption
  <2>5. q = k - 1 /\ r = bit
    BY <2>3, <2>4, UniquePlace
  <2> QED
    BY <2>5
<1>4. ASSUME q + 1 \in 1..Len(bytes), r \in bytes[q + 1]
      PROVE  ByteBits * q + r \in FromLittleEndian(bytes)
  <2>1. (q + 1) - 1 = q /\ ByteBits * q \in Nat /\ ByteBits * q + r = r + ByteBits * q
    BY TimesByte, ByteAssumption
  <2>2. ByteBits * q + r \in ShiftLeft(bytes[q + 1], ByteBits * ((q + 1) - 1))
    BY <1>4, <2>1 DEF ShiftLeft
  <2> QED
    BY <1>1, <1>4, <2>2 DEF FromLittleEndian
<1> QED
  BY <1>3, <1>4

\* Bytes encode a number.
LEMMA FromLittleEndianType ==
  ASSUME NEW bytes \in Seq(Byte)
  PROVE  FromLittleEndian(bytes) \in Numbers
<1>1. \A k \in DOMAIN bytes : k - 1 \in Nat /\ bytes[k] \subseteq Nat
  BY DEF Byte
<1>2. \A k \in DOMAIN bytes : ShiftLeft(bytes[k], ByteBits * (k - 1)) \subseteq Nat
  <2> SUFFICES ASSUME NEW k \in DOMAIN bytes
               PROVE  ShiftLeft(bytes[k], ByteBits * (k - 1)) \subseteq Nat
    OBVIOUS
  <2>1. ByteBits * (k - 1) \in Nat
    BY <1>1, TimesByte
  <2> QED
    BY <1>1, <2>1 DEF ShiftLeft
<1> QED
  BY <1>2 DEF FromLittleEndian, Numbers

\* The number two strings of bytes encode together.
LEMMA FromLittleEndianConcat ==
  ASSUME NEW a \in Seq(Byte), NEW b \in Seq(Byte)
  PROVE  FromLittleEndian(a \o b) =
           Xor(FromLittleEndian(a), ShiftLeft(FromLittleEndian(b), ByteBits * Len(a)))
<1> DEFINE A == FromLittleEndian(a)
           B == FromLittleEndian(b)
           L == ShiftLeft(B, ByteBits * Len(a))
           C == FromLittleEndian(a \o b)
<1>1. /\ Len(a) \in Nat /\ Len(b) \in Nat /\ a \o b \in Seq(Byte)
      /\ Len(a \o b) = Len(a) + Len(b)
      /\ \A k \in 1..(Len(a) + Len(b)) :
           (a \o b)[k] = IF k <= Len(a) THEN a[k] ELSE b[k - Len(a)]
  OBVIOUS
<1>2. A \in Numbers /\ B \in Numbers /\ C \in Numbers /\ ByteBits * Len(a) \in Nat
  BY <1>1, FromLittleEndianType, TimesByte
<1>3. L \in Numbers /\ \A x \in Nat : x \in L <=> (x - ByteBits * Len(a) \in B)
  <2> HIDE DEF B
  <2> QED
    BY <1>2 DEF ShiftLeft, Numbers
<1>4. Xor(A, L) \in Numbers
  BY <1>2, <1>3, XorType
<1>5. ASSUME NEW q \in Nat, NEW r \in 0..(ByteBits - 1)
      PROVE  ByteBits * q + r \in C <=> ByteBits * q + r \in Xor(A, L)
  <2>1. r \in Nat /\ ByteBits * q + r \in Nat
    BY TimesByte, ByteAssumption
  <2>2. CASE q < Len(a)
    <3>1. ByteBits * q + r \notin L
      <4>1. ByteBits * q + ByteBits <= ByteBits * Len(a)
        BY <1>1, <2>2, TimesByte
      <4>2. ByteBits * q + r < ByteBits * Len(a)
        BY <1>2, <2>1, <4>1, ByteAssumption, TimesByte
      <4>3. B \subseteq Nat
        BY <1>2 DEF Numbers
      <4> HIDE DEF B, L
      <4>4. PICK x \in Nat : x = ByteBits * q + r
        BY <2>1
      <4>5. x \in L => (x - ByteBits * Len(a) \in B)
        BY <1>3
      <4>6. x - ByteBits * Len(a) \notin Nat
        <5>1. x < ByteBits * Len(a)
          BY <4>2, <4>4
        <5> QED
          BY <1>2, <5>1
      <4> QED
        BY <4>3, <4>4, <4>5, <4>6
    <3>2. ByteBits * q + r \in C <=> r \in a[q + 1]
      <4>1. q + 1 \in 1..(Len(a) + Len(b)) /\ q + 1 <= Len(a)
        BY <1>1, <2>2
      <4> QED
        BY <1>1, <4>1, PlaceOfByte
    <3>3. ByteBits * q + r \in A <=> r \in a[q + 1]
      BY <2>2, <1>1, PlaceOfByte
    <3> QED
      BY <3>1, <3>2, <3>3 DEF Xor, SymDiff
  <2>3. CASE ~(q < Len(a))
    <3>1. PICK p \in Nat : q = Len(a) + p
      <4>1. q - Len(a) \in Nat /\ q = Len(a) + (q - Len(a))
        BY <1>1, <2>3
      <4> QED
        BY <4>1
    <3>2. ByteBits * q + r \notin A
      BY <1>1, <2>3, PlaceOfByte
    <3>3. (ByteBits * q + r) - ByteBits * Len(a) = ByteBits * p + r
      <4>1. ByteBits * q = ByteBits * Len(a) + ByteBits * p /\ ByteBits * p \in Nat
        BY <1>1, <3>1, TimesByte
      <4> QED
        BY <1>2, <2>1, <4>1
    <3>4. ByteBits * q + r \in L <=> (p + 1 \in 1..Len(b) /\ r \in b[p + 1])
      BY <1>3, <2>1, <3>3, PlaceOfByte
    <3>5. ByteBits * q + r \in C <=> (q + 1 \in 1..(Len(a) + Len(b)) /\ r \in (a \o b)[q + 1])
      BY <1>1, PlaceOfByte
    <3>6. (q + 1 \in 1..(Len(a) + Len(b))) <=> (p + 1 \in 1..Len(b))
      BY <1>1, <3>1
    <3>7. q + 1 \in 1..(Len(a) + Len(b)) => (a \o b)[q + 1] = b[p + 1]
      <4>1. ~(q + 1 <= Len(a)) /\ (q + 1) - Len(a) = p + 1
        BY <1>1, <3>1
      <4> QED
        BY <1>1, <4>1
    <3> QED
      BY <3>2, <3>4, <3>5, <3>6, <3>7 DEF Xor, SymDiff
  <2> QED
    BY <2>2, <2>3
<1> HIDE DEF A, L, C
<1>6. C = Xor(A, L)
  BY <1>2, <1>4, <1>5, SamePlaces
<1> QED
  BY <1>6 DEF A, L, C

\* Encoding makes the bytes it should.
LEMMA LittleEndianType ==
  ASSUME NEW w \in Numbers, NEW n \in Nat
  PROVE  LittleEndian(w, n) \in Seq(Byte) /\ Len(LittleEndian(w, n)) = n
<1>1. \A k \in 1..n : LowBits(ShiftRight(w, ByteBits * (k - 1)), ByteBits) \in Byte
  BY DEF LowBits, Byte
<1>2. LittleEndian(w, n) =
        [k \in 1..n |-> LowBits(ShiftRight(w, ByteBits * (k - 1)), ByteBits)]
  BY DEF LittleEndian
<1> HIDE DEF Byte
<1> QED
  BY <1>1, <1>2

\* Decoding gives back what was encoded, if its width is enough.
LEMMA LittleEndianRoundTrip ==
  ASSUME NEW n \in Nat, NEW w, w \subseteq 0..(ByteBits * n - 1)
  PROVE  FromLittleEndian(LittleEndian(w, n)) = w
<1> DEFINE bytes == LittleEndian(w, n)
<1>1. ByteBits * n \in Nat /\ w \in Numbers
  BY TimesByte DEF Numbers
<1>2. bytes \in Seq(Byte) /\ Len(bytes) = n
  BY <1>1, LittleEndianType
<1>3. FromLittleEndian(bytes) \in Numbers
  BY <1>2, FromLittleEndianType
<1>4. ASSUME NEW q \in Nat, NEW r \in 0..(ByteBits - 1)
      PROVE  ByteBits * q + r \in FromLittleEndian(bytes) <=> ByteBits * q + r \in w
  <2>1. r \in Nat /\ ByteBits * q \in Nat /\ ByteBits * q + r \in Nat
    BY TimesByte, ByteAssumption
  <2>2. CASE q < n
    <3>1. q + 1 \in 1..n /\ (q + 1) - 1 = q
      BY <2>2
    <3>2. bytes[q + 1] = LowBits(ShiftRight(w, ByteBits * q), ByteBits)
      BY <3>1 DEF LittleEndian
    <3>3. r \in ShiftRight(w, ByteBits * q) <=> ByteBits * q + r \in w
      BY <1>1, <2>1 DEF ShiftRight, Numbers
    <3>4. r \in bytes[q + 1] <=> ByteBits * q + r \in w
      BY <3>2, <3>3 DEF LowBits
    <3> HIDE DEF bytes
    <3> QED
      BY <1>2, <3>1, <3>4, PlaceOfByte
  <2>3. CASE ~(q < n)
    <3>1. ByteBits * n <= ByteBits * q
      <4>1. n < q => ByteBits * n + ByteBits <= ByteBits * q
        BY TimesByte
      <4>2. ByteBits \in Nat
        BY ByteAssumption
      <4>3. n = q \/ n < q
        BY <2>3
      <4> QED
        BY <1>1, <2>1, <4>1, <4>2, <4>3
    <3>2. ByteBits * q + r \notin w
      BY <1>1, <2>1, <3>1
    <3>3. ByteBits * q + r \notin FromLittleEndian(bytes)
      BY <1>2, <2>3, PlaceOfByte
    <3> QED
      BY <3>2, <3>3
  <2> QED
    BY <2>2, <2>3
<1> HIDE DEF bytes
<1>5. FromLittleEndian(bytes) = w
  BY <1>1, <1>3, <1>4, SamePlaces
<1> QED
  BY <1>5 DEF bytes

-----------------------------------------------------------------------------
(* Absorbing bytes.                                                        *)

\* What becomes of a state when all the bits of some bytes are divided at once
Absorbs(state, bytes) ==
  Divide(Xor(state, FromLittleEndian(bytes)), ByteBits * Len(bytes))

\* Absorbing bytes leaves a number.
LEMMA AbsorbsType ==
  ASSUME NEW state \in Numbers, NEW bytes \in Seq(Byte)
  PROVE  Absorbs(state, bytes) \in Numbers
<1>1. ByteBits * Len(bytes) \in Nat
  BY TimesByte
<1> QED
  BY <1>1, FromLittleEndianType, XorType, DivideType DEF Absorbs

\* Absorbing nothing changes nothing.
LEMMA AbsorbsNothing ==
  ASSUME NEW state \in Numbers
  PROVE  Absorbs(state, <<>>) = state
<1>1. FromLittleEndian(<<>>) = {} /\ Len(<<>>) = 0
  BY DEF FromLittleEndian
<1>2. ByteBits * 0 = 0 /\ Xor(state, {}) = state
  BY ByteAssumption DEF Xor, SymDiff
<1> QED
  BY <1>1, <1>2, DivideZero DEF Absorbs

\* Bytes may be absorbed in two goes: where fragments are cut does not matter.
LEMMA AbsorbsConcat ==
  ASSUME NEW state \in Numbers, NEW a \in Seq(Byte), NEW b \in Seq(Byte)
  PROVE  Absorbs(Absorbs(state, a), b) = Absorbs(state, a \o b)
<1> DEFINE A == FromLittleEndian(a)
           B == FromLittleEndian(b)
           la == ByteBits * Len(a)
           lb == ByteBits * Len(b)
<1>1. A \in Numbers /\ B \in Numbers
  BY FromLittleEndianType
<1>2. la \in Nat /\ lb \in Nat /\ Len(a) \in Nat /\ Len(b) \in Nat /\ a \o b \in Seq(Byte)
  <2>1. Len(a) \in Nat /\ Len(b) \in Nat /\ a \o b \in Seq(Byte)
    OBVIOUS
  <2> QED
    BY <2>1, TimesByte
<1>3. ByteBits * Len(a \o b) = la + lb
  <2>1. Len(a \o b) = Len(a) + Len(b)
    OBVIOUS
  <2> QED
    BY <1>2, <2>1, TimesByte
<1>4. FromLittleEndian(a \o b) = Xor(A, ShiftLeft(B, la))
  BY FromLittleEndianConcat
<1>5. Xor(state, Xor(A, ShiftLeft(B, la))) = Xor(Xor(state, A), ShiftLeft(B, la))
  BY DEF Xor, SymDiff
<1> HIDE DEF A, B, la, lb
<1>6. Divide(Xor(Divide(Xor(state, A), la), B), lb) =
        Divide(Xor(Xor(state, A), ShiftLeft(B, la)), la + lb)
  <2>1. PICK w \in Numbers : w = Xor(state, A)
    BY <1>1, XorType
  <2>2. Divide(Xor(Divide(w, la), B), lb) = Divide(Xor(w, ShiftLeft(B, la)), la + lb)
    <3>1. B \in Numbers /\ la \in Nat /\ lb \in Nat
      BY <1>1, <1>2
    <3> QED
      BY <3>1, Absorb
  <2> QED
    BY <2>1, <2>2
<1>7. Divide(Xor(Divide(Xor(state, A), la), B), lb) =
        Divide(Xor(state, FromLittleEndian(a \o b)), ByteBits * Len(a \o b))
  BY <1>3, <1>4, <1>5, <1>6
<1> QED
  BY <1>7 DEF Absorbs, A, B, la, lb

\* A byte encodes itself.
LEMMA FromLittleEndianByte ==
  ASSUME NEW byte \in Byte
  PROVE  FromLittleEndian(<<byte>>) = byte
<1>1. <<byte>> \in Seq(Byte) /\ Len(<<byte>>) = 1 /\ <<byte>>[1] = byte
  OBVIOUS
<1>2. FromLittleEndian(<<byte>>) \in Numbers /\ byte \in Numbers
  <2>1. byte \in Numbers
    BY DEF Byte, Numbers
  <2> QED
    BY <1>1, <2>1, FromLittleEndianType
<1>3. ASSUME NEW q \in Nat, NEW r \in 0..(ByteBits - 1)
      PROVE  ByteBits * q + r \in FromLittleEndian(<<byte>>) <=> ByteBits * q + r \in byte
  <2>1. (ByteBits * q + r \in FromLittleEndian(<<byte>>)) <=>
          (q + 1 \in 1..1 /\ r \in <<byte>>[q + 1])
    BY <1>1, PlaceOfByte
  <2>2. CASE q = 0
    <3>1. ByteBits * q + r = r /\ q + 1 = 1
      BY <2>2, ByteAssumption
    <3> QED
      BY <1>1, <2>1, <3>1
  <2>3. CASE q # 0
    <3>1. ByteBits * 0 + ByteBits <= ByteBits * q /\ ByteBits * 0 = 0
      BY <2>3, TimesByte, ByteAssumption
    <3>2. ByteBits * q + r \notin byte
      BY <3>1, TimesByte, ByteAssumption DEF Byte
    <3>3. q + 1 \notin 1..1
      BY <2>3
    <3> QED
      BY <2>1, <3>2, <3>3
  <2> QED
    BY <2>2, <2>3
<1> QED
  BY <1>2, <1>3, SamePlaces

\* The processor's instruction for a byte absorbs it.
LEMMA ByteInstruction ==
  ASSUME NEW state \in Numbers, NEW byte \in Byte
  PROVE  Instruction(state, byte, 1) = Absorbs(state, <<byte>>)
<1>1. Len(<<byte>>) = 1 /\ ByteBits * 1 = 1 * ByteBits
  BY ByteAssumption
<1> QED
  BY <1>1, FromLittleEndianByte DEF Instruction, Absorbs

\* So does a step with the table of make_crc32c_table.
LEMMA TableStep ==
  ASSUME NEW state \in Numbers, NEW byte \in Byte
  PROVE  Xor(Table[LowBits(Xor(state, byte), ByteBits)], ShiftRight(state, ByteBits)) =
           Absorbs(state, <<byte>>)
<1> DEFINE x == Xor(state, byte)
           low == LowBits(x, ByteBits)
           high == ShiftRight(state, ByteBits)
<1>1. byte \in Numbers /\ ByteBits \in Nat
  BY ByteAssumption DEF Byte, Numbers
<1>2. x \in Numbers /\ low \in Byte /\ low \in Numbers
  BY <1>1, XorType DEF LowBits, Byte, Numbers
<1>3. high \in Numbers
  BY <1>1 DEF ShiftRight, Numbers
<1>4. x = Xor(low, ShiftLeft(high, ByteBits))
  <2>1. ShiftLeft(high, ByteBits) \in Numbers
    BY <1>1, <1>3 DEF ShiftLeft, Numbers
  <2>2. \A y \in Nat : y \in ShiftLeft(high, ByteBits) <=> (y >= ByteBits /\ y \in state)
    <3>1. \A y \in Nat : y \in ShiftLeft(high, ByteBits) <=> y - ByteBits \in high
      <4> HIDE DEF high
      <4> QED
        BY <1>1, <1>3 DEF ShiftLeft, Numbers
    <3>2. \A y \in Nat : y \in high <=> y + ByteBits \in state
      BY <1>1 DEF ShiftRight, Numbers
    <3>3. high \subseteq Nat
      BY <1>3 DEF Numbers
    <3> HIDE DEF high
    <3>4. \A y \in Nat : y - ByteBits \in high <=> (y >= ByteBits /\ y \in state)
      <4> SUFFICES ASSUME NEW y \in Nat
                   PROVE  y - ByteBits \in high <=> (y >= ByteBits /\ y \in state)
        OBVIOUS
      <4>1. CASE y >= ByteBits
        <5>1. y - ByteBits \in Nat /\ (y - ByteBits) + ByteBits = y
          BY <1>1, <4>1
        <5> QED
          BY <3>2, <4>1, <5>1
      <4>2. CASE ~(y >= ByteBits)
        <5>1. y - ByteBits \notin Nat
          BY <1>1, <4>2
        <5> QED
          BY <3>3, <4>2, <5>1
      <4> QED
        BY <4>1, <4>2
    <3> QED
      BY <3>1, <3>4
  <2>3. \A y \in Nat : y \in low <=> (y < ByteBits /\ ~(y \in state <=> y \in byte))
    BY <1>1 DEF LowBits, Xor, SymDiff
  <2>4. \A y \in Nat : y \in byte => y < ByteBits
    BY <1>1 DEF Byte
  <2>5. \A y \in Nat : y \in x <=> ~(y \in state <=> y \in byte)
    BY DEF Xor, SymDiff
  <2> HIDE DEF x, low, high
  <2>6. \A y \in Nat : y \in Xor(low, ShiftLeft(high, ByteBits)) <=>
                         ~(y \in low <=> y \in ShiftLeft(high, ByteBits))
    BY DEF Xor, SymDiff
  <2>7. \A y \in Nat : y < ByteBits <=> ~(y >= ByteBits)
    BY <1>1
  <2>8. \A y \in Nat : y \in x <=> y \in Xor(low, ShiftLeft(high, ByteBits))
    BY <2>2, <2>3, <2>4, <2>5, <2>6, <2>7
  <2>9. Xor(low, ShiftLeft(high, ByteBits)) \in Numbers
    BY <1>2, <2>1, XorType
  <2> QED
    BY <1>2, <2>8, <2>9 DEF Numbers
<1>5. Table[low] = Divide(low, ByteBits)
  BY <1>2 DEF Table
<1> HIDE DEF x, low, high
<1>6. Divide(x, ByteBits) = Xor(Divide(low, ByteBits), high)
  <2>1. ShiftLeft(high, ByteBits) \in Numbers
    BY <1>1, <1>3 DEF ShiftLeft, Numbers
  <2> QED
    BY <1>1, <1>2, <1>3, <1>4, <2>1, DivideXor, DivideShifted
<1>7. Instruction(state, byte, 1) = Divide(x, ByteBits)
  BY <1>1 DEF Instruction, x
<1> QED
  BY <1>5, <1>6, <1>7, ByteInstruction DEF x, low, high

\* f absorbs n chunks, one after the other, into a state; prefix[i] is what
\* the first i of them are together.
Absorption(f, state, prefix, chunk, n) ==
  /\ f[0] = state /\ prefix[0] = <<>>
  /\ \A i \in 1..n : /\ prefix[i - 1] \in Seq(Byte) /\ chunk[i] \in Seq(Byte)
                     /\ prefix[i] = prefix[i - 1] \o chunk[i]
                     /\ f[i] = Absorbs(f[i - 1], chunk[i])

\* Chunks absorbed one after the other are absorbed as a whole.
LEMMA ChunksAbsorbed ==
  ASSUME NEW n, NEW state, NEW f, NEW prefix, NEW chunk,
         n \in Nat, state \in Numbers, Absorption(f, state, prefix, chunk, n)
  PROVE  f[n] = Absorbs(state, prefix[n])
<1> DEFINE T == {i \in 0..n : f[i] = Absorbs(state, prefix[i])}
<1>1. 0 \in T
  BY AbsorbsNothing DEF Absorption
<1>2. \A i \in 1..n : i - 1 \in T => i \in T
  <2> SUFFICES ASSUME NEW i \in 1..n, i - 1 \in T PROVE i \in T
    OBVIOUS
  <2>1. /\ prefix[i - 1] \in Seq(Byte) /\ chunk[i] \in Seq(Byte)
        /\ prefix[i] = prefix[i - 1] \o chunk[i]
        /\ f[i] = Absorbs(f[i - 1], chunk[i])
    BY DEF Absorption
  <2>2. f[i - 1] = Absorbs(state, prefix[i - 1])
    OBVIOUS
  <2>3. f[i] = Absorbs(Absorbs(state, prefix[i - 1]), chunk[i])
    BY <2>1, <2>2
  <2>4. f[i] = Absorbs(state, prefix[i - 1] \o chunk[i])
    BY <2>1, <2>3, AbsorbsConcat
  <2>5. f[i] = Absorbs(state, prefix[i])
    BY <2>1, <2>4
  <2> QED
    BY <2>5
<1> HIDE DEF T
<1>3. 0..n \subseteq T
  BY <1>1, <1>2, AllOfThem
<1>4. n \in T
  BY <1>3
<1> QED
  BY <1>4 DEF T

\* f absorbs bytes one at a time.
ByteByByte(f, state, bytes) ==
  f[0] = state /\ \A i \in 1..Len(bytes) : f[i] = Absorbs(f[i - 1], <<bytes[i]>>)

\* Bytes absorbed one at a time are absorbed as a whole.
LEMMA BytesAbsorbed ==
  ASSUME NEW state, NEW bytes, NEW f,
         state \in Numbers, bytes \in Seq(Byte), ByteByByte(f, state, bytes)
  PROVE  f[Len(bytes)] = Absorbs(state, bytes)
<1> DEFINE n == Len(bytes)
           prefix == [i \in 0..n |-> SubSeq(bytes, 1, i)]
           chunk == [i \in 1..n |-> <<bytes[i]>>]
<1>1. n \in Nat
  OBVIOUS
<1>2. prefix[0] = <<>> /\ prefix[n] = bytes
  <2>1. 0 \in 0..n /\ n \in 0..n
    BY <1>1
  <2>2. SubSeq(bytes, 1, 0) = <<>> /\ SubSeq(bytes, 1, n) = bytes
    BY SubSeqFull, SubSeqEmpty
  <2> QED
    BY <2>1, <2>2
<1>3. \A i \in 1..n : /\ prefix[i - 1] \in Seq(Byte) /\ chunk[i] \in Seq(Byte)
                      /\ prefix[i] = prefix[i - 1] \o chunk[i]
                      /\ f[i] = Absorbs(f[i - 1], chunk[i])
  <2> SUFFICES ASSUME NEW i \in 1..n
               PROVE  /\ prefix[i - 1] \in Seq(Byte) /\ chunk[i] \in Seq(Byte)
                      /\ prefix[i] = prefix[i - 1] \o chunk[i]
                      /\ f[i] = Absorbs(f[i - 1], chunk[i])
    OBVIOUS
  <2>1. i - 1 \in 0..n /\ i \in 0..n /\ i \in 1..Len(bytes) /\ 1 \in 1..Len(bytes)
    OBVIOUS
  <2>2. SubSeq(bytes, 1, i) = SubSeq(bytes, 1, i - 1) \o <<bytes[i]>>
    BY <2>1, SubSeqRecursiveSecond
  <2>3. SubSeq(bytes, 1, i - 1) \in Seq(Byte) /\ <<bytes[i]>> \in Seq(Byte)
    BY <2>1
  <2>4. f[i] = Absorbs(f[i - 1], <<bytes[i]>>)
    BY DEF ByteByByte
  <2> QED
    BY <2>1, <2>2, <2>3, <2>4
<1> HIDE DEF prefix, chunk
<1>4. f[n] = Absorbs(state, prefix[n])
  <2>1. Absorption(f, state, prefix, chunk, n)
    BY <1>2, <1>3 DEF Absorption, ByteByByte
  <2> QED
    BY <1>1, <2>1, ChunksAbsorbed
<1> QED
  BY <1>2, <1>4

\* The greatest of some indices, and the others.
LEMMA MaxOfPart ==
  ASSUME NEW n \in Nat, NEW s \in SUBSET (1..n), s # {}
  PROVE  Max(s) \in 1..n /\ s \ {Max(s)} \in SUBSET (1..n)
<1>1. s \subseteq 0..n
  OBVIOUS
<1>2. Max(s) \in s
  BY <1>1, MaxIsGreatest
<1> QED
  BY <1>2

\* portable_crc32c_update absorbs its bytes.
LEMMA PortableIsAbsorbs ==
  ASSUME NEW state \in Numbers, NEW bytes \in Seq(Byte)
  PROVE  PortableUpdate(state, bytes) = Absorbs(state, bytes)
<1> DEFINE seq == bytes
           n == Len(seq)
           Op(r, c) == Xor(Table[LowBits(Xor(r, c), ByteBits)], ShiftRight(r, ByteBits))
           step == [i \in 1..n |-> [r \in Numbers |-> Op(r, seq[i])]]
           iter[s \in SUBSET DOMAIN seq] ==
             IF s = {} THEN state ELSE Op(iter[s \ {Max(s)}], seq[Max(s)])
<1>1. PortableUpdate(state, bytes) = iter[DOMAIN seq]
  BY DEF PortableUpdate, FoldLeft, MapThenFoldSet
<1>2. iter = CHOOSE it : it = [s \in SUBSET DOMAIN seq |->
                                IF s = {} THEN state ELSE Op(it[s \ {Max(s)}], seq[Max(s)])]
  OBVIOUS
<1> HIDE DEF iter
<1>3. DOMAIN seq = 1..n /\ n \in Nat /\ state \in Numbers
  OBVIOUS
<1>4. \A r \in Numbers, i \in 1..n : Op(r, seq[i]) = Absorbs(r, <<seq[i]>>)
  BY TableStep
<1>5. \A r \in Numbers, i \in 1..n : Op(r, seq[i]) \in Numbers
  <2>1. \A i \in 1..n : <<seq[i]>> \in Seq(Byte)
    OBVIOUS
  <2> QED
    BY <1>4, <2>1, AbsorbsType
<1> HIDE DEF Op, seq
<1>6. step \in [1..n -> [Numbers -> Numbers]]
  BY <1>5
<1>7. \A i \in 1..n, r \in Numbers : step[i][r] = Op(r, seq[i])
  OBVIOUS
<1> HIDE DEF step, n
<1>8. PICK f \in [0..n -> Numbers] : Path(f, state, n, step)
  BY <1>3, <1>6, PathExists
<1>9. PICK it \in [SUBSET (1..n) -> Numbers] : Iterates(it, state, n, step)
  BY <1>3, <1>6, IterExists
<1>10. it = [s \in SUBSET DOMAIN seq |->
              IF s = {} THEN state ELSE Op(it[s \ {Max(s)}], seq[Max(s)])]
  <2>1. \A s \in SUBSET (1..n) :
          it[s] = IF s = {} THEN state ELSE Op(it[s \ {Max(s)}], seq[Max(s)])
    BY <1>3, <1>7, <1>9, MaxOfPart DEF Iterates
  <2> QED
    BY <1>3, <2>1
<1>11. PICK it2 : /\ it2 = [s \in SUBSET DOMAIN seq |->
                     IF s = {} THEN state ELSE Op(it2[s \ {Max(s)}], seq[Max(s)])]
                  /\ PortableUpdate(state, bytes) = it2[DOMAIN seq]
  BY <1>1, <1>2, <1>10
<1>12. Climbs(it2, Numbers, state, n, step)
  <2>1. \A s \in SUBSET (1..n) :
          it2[s] = IF s = {} THEN state ELSE Op(it2[s \ {Max(s)}], seq[Max(s)])
    BY <1>3, <1>11
  <2>2. ASSUME NEW i \in 1..n, it2[1..(i - 1)] \in Numbers
        PROVE  it2[1..i] = step[i][it2[1..(i - 1)]]
    <3>1. it2[1..i] = Op(it2[1..(i - 1)], seq[i])
      BY <1>3, <2>1, Initial
    <3> QED
      BY <1>7, <2>2, <3>1
  <2> QED
    BY <2>1, <2>2 DEF Climbs
<1>13. it2[1..n] = f[n]
  BY <1>3, <1>8, <1>12, IterIsPath
<1>14. f[0] = state /\ f[n] = PortableUpdate(state, bytes)
  BY <1>3, <1>8, <1>11, <1>13 DEF Path
<1>15. \A i \in 1..n : f[i] = Op(f[i - 1], seq[i])
  <2> SUFFICES ASSUME NEW i \in 1..n PROVE f[i] = Op(f[i - 1], seq[i])
    OBVIOUS
  <2>1. f[i - 1] \in Numbers
    BY <1>3
  <2> QED
    BY <1>7, <1>8, <2>1 DEF Path
<1>16. \A i \in 1..n : f[i] = Absorbs(f[i - 1], <<bytes[i]>>)
  <2> SUFFICES ASSUME NEW i \in 1..n PROVE f[i] = Absorbs(f[i - 1], <<bytes[i]>>)
    OBVIOUS
  <2>1. f[i - 1] \in Numbers
    BY <1>3
  <2> QED
    BY <1>15, <1>4, <2>1 DEF seq
<1>17. ByteByByte(f, state, bytes)
  BY <1>14, <1>16 DEF ByteByByte, n, seq
<1>18. n = Len(bytes)
  BY DEF n, seq
<1> QED
  BY <1>14, <1>17, <1>18, BytesAbsorbed

\* The two loops of x86_crc32c_update
WidePart(state, bytes) ==
  FoldLeft(LAMBDA s, w : Instruction(s, w, WideBytes), state, WideWords(bytes))
BytePart(state, bytes) == FoldLeft(LAMBDA s, byte : Instruction(s, byte, 1), state, bytes)

\* How many wide words there are, and where they are.
LEMMA WideWordsAre ==
  ASSUME NEW bytes \in Seq(Byte)
  PROVE  LET n == Len(bytes) \div WideBytes
             Word(k) == SubSeq(bytes, WideBytes * (k - 1) + 1, WideBytes * k)
         IN /\ n \in Nat /\ Len(WideWords(bytes)) = n /\ DOMAIN WideWords(bytes) = 1..n
            /\ WideBytes * n \in 0..Len(bytes)
            /\ \A k \in 1..n : /\ WideBytes * (k - 1) \in 0..Len(bytes)
                               /\ WideBytes * k \in 0..Len(bytes)
                               /\ WideBytes * k = WideBytes * (k - 1) + WideBytes
                               /\ Word(k) \in Seq(Byte) /\ Len(Word(k)) = WideBytes
                               /\ WideWords(bytes)[k] = FromLittleEndian(Word(k))
<1> DEFINE n == Len(bytes) \div WideBytes
<1>1. WideBytes \in Nat \ {0} /\ Len(bytes) \in Nat
  BY CrcAssumption
<1>2. n \in Nat /\ WideBytes * n \in 0..Len(bytes)
  BY <1>1
<1>3. Len(WideWords(bytes)) = n /\ DOMAIN WideWords(bytes) = 1..n
  BY <1>2 DEF WideWords
<1>4. ASSUME NEW k \in 1..n
      PROVE  /\ WideBytes * (k - 1) \in 0..Len(bytes)
             /\ WideBytes * k \in 0..Len(bytes)
             /\ WideBytes * k = WideBytes * (k - 1) + WideBytes
  <2>1. WideBytes * k = WideBytes * (k - 1) + WideBytes /\ WideBytes * (k - 1) \in Nat
    BY <1>1, <1>2
  <2>2. WideBytes * n = WideBytes * k + WideBytes * (n - k) /\ WideBytes * (n - k) \in Nat
    <3>1. n - k \in Nat
      BY <1>2
    <3> HIDE DEF n
    <3> QED
      BY <1>1, <1>2, <3>1
  <2> QED
    BY <1>1, <1>2, <2>1, <2>2
<1>5. ASSUME NEW k \in 1..n
      PROVE  LET w == SubSeq(bytes, WideBytes * (k - 1) + 1, WideBytes * k)
             IN w \in Seq(Byte) /\ Len(w) = WideBytes
  <2>1. PICK a \in 0..Len(bytes) : a = WideBytes * (k - 1) /\ a + WideBytes = WideBytes * k
    BY <1>4
  <2>2. a + WideBytes <= Len(bytes)
    BY <1>4, <2>1
  <2>3. \A i \in (a + 1)..(a + WideBytes) : bytes[i] \in Byte
    BY <1>1, <2>2
  <2>4. /\ a + 1 \in Int /\ a + WideBytes \in Int /\ a + 1 <= a + WideBytes
        /\ (a + WideBytes) - (a + 1) + 1 = WideBytes
    BY <1>1
  <2>5. /\ SubSeq(bytes, a + 1, a + WideBytes) \in Seq(Byte)
        /\ Len(SubSeq(bytes, a + 1, a + WideBytes)) = WideBytes
    BY <2>3, <2>4, SubSeqProperties
  <2> QED
    BY <2>1, <2>5
<1>6. \A k \in 1..n : WideWords(bytes)[k] =
        FromLittleEndian(SubSeq(bytes, WideBytes * (k - 1) + 1, WideBytes * k))
  BY DEF WideWords
<1> QED
  BY <1>2, <1>3, <1>4, <1>5, <1>6

\* The wide words are absorbed as the bytes they were read from.
LEMMA WidePartIsAbsorbs ==
  ASSUME NEW state \in Numbers, NEW bytes \in Seq(Byte)
  PROVE  WidePart(state, bytes) =
           Absorbs(state, SubSeq(bytes, 1, WideBytes * (Len(bytes) \div WideBytes)))
<1> DEFINE seq == WideWords(bytes)
           n == Len(seq)
           Op(r, c) == Instruction(r, c, WideBytes)
           step == [i \in 1..n |-> [r \in Numbers |-> Op(r, seq[i])]]
           iter[s \in SUBSET DOMAIN seq] ==
             IF s = {} THEN state ELSE Op(iter[s \ {Max(s)}], seq[Max(s)])
<1>1. WidePart(state, bytes) = iter[DOMAIN seq]
  BY DEF WidePart, FoldLeft, MapThenFoldSet
<1>2. iter = CHOOSE it : it = [s \in SUBSET DOMAIN seq |->
                                IF s = {} THEN state ELSE Op(it[s \ {Max(s)}], seq[Max(s)])]
  OBVIOUS
<1> HIDE DEF iter
<1> DEFINE Word(k) == SubSeq(bytes, WideBytes * (k - 1) + 1, WideBytes * k)
<1>3. DOMAIN seq = 1..n /\ n \in Nat /\ state \in Numbers
  BY WideWordsAre
<1>4. \A r \in Numbers, i \in 1..n : Op(r, seq[i]) = Absorbs(r, Word(i)) /\ Word(i) \in Seq(Byte)
  <2> SUFFICES ASSUME NEW r \in Numbers, NEW i \in 1..n
               PROVE  Op(r, seq[i]) = Absorbs(r, Word(i)) /\ Word(i) \in Seq(Byte)
    OBVIOUS
  <2>1. /\ Word(i) \in Seq(Byte) /\ Len(Word(i)) = WideBytes
        /\ WideWords(bytes)[i] = FromLittleEndian(Word(i))
    BY WideWordsAre
  <2>2. ByteBits * WideBytes = WideBytes * ByteBits
    BY ByteAssumption, CrcAssumption
  <2> QED
    BY <2>1, <2>2 DEF Instruction, Absorbs
<1> HIDE DEF Word
<1>5. \A r \in Numbers, i \in 1..n : Op(r, seq[i]) \in Numbers
  BY <1>4, AbsorbsType
<1> HIDE DEF Op, seq
<1>6. step \in [1..n -> [Numbers -> Numbers]]
  BY <1>5
<1>7. \A i \in 1..n, r \in Numbers : step[i][r] = Op(r, seq[i])
  OBVIOUS
<1> HIDE DEF step, n
<1>8. PICK f \in [0..n -> Numbers] : Path(f, state, n, step)
  BY <1>3, <1>6, PathExists
<1>9. PICK it \in [SUBSET (1..n) -> Numbers] : Iterates(it, state, n, step)
  BY <1>3, <1>6, IterExists
<1>10. it = [s \in SUBSET DOMAIN seq |->
              IF s = {} THEN state ELSE Op(it[s \ {Max(s)}], seq[Max(s)])]
  <2>1. \A s \in SUBSET (1..n) :
          it[s] = IF s = {} THEN state ELSE Op(it[s \ {Max(s)}], seq[Max(s)])
    BY <1>3, <1>7, <1>9, MaxOfPart DEF Iterates
  <2> QED
    BY <1>3, <2>1
<1>11. PICK it2 : /\ it2 = [s \in SUBSET DOMAIN seq |->
                     IF s = {} THEN state ELSE Op(it2[s \ {Max(s)}], seq[Max(s)])]
                  /\ WidePart(state, bytes) = it2[DOMAIN seq]
  BY <1>1, <1>2, <1>10
<1>12. Climbs(it2, Numbers, state, n, step)
  <2>1. \A s \in SUBSET (1..n) :
          it2[s] = IF s = {} THEN state ELSE Op(it2[s \ {Max(s)}], seq[Max(s)])
    BY <1>3, <1>11
  <2>2. ASSUME NEW i \in 1..n, it2[1..(i - 1)] \in Numbers
        PROVE  it2[1..i] = step[i][it2[1..(i - 1)]]
    <3>1. it2[1..i] = Op(it2[1..(i - 1)], seq[i])
      BY <1>3, <2>1, Initial
    <3> QED
      BY <1>7, <2>2, <3>1
  <2> QED
    BY <2>1, <2>2 DEF Climbs
<1>13. it2[1..n] = f[n]
  BY <1>3, <1>8, <1>12, IterIsPath
<1>14. f[0] = state /\ f[n] = WidePart(state, bytes)
  BY <1>3, <1>8, <1>11, <1>13 DEF Path
<1>15. \A i \in 1..n : f[i] = Op(f[i - 1], seq[i])
  <2> SUFFICES ASSUME NEW i \in 1..n PROVE f[i] = Op(f[i - 1], seq[i])
    OBVIOUS
  <2>1. f[i - 1] \in Numbers
    BY <1>3
  <2> QED
    BY <1>7, <1>8, <2>1 DEF Path
<1>16. \A i \in 1..n : f[i] = Absorbs(f[i - 1], Word(i))
  <2> SUFFICES ASSUME NEW i \in 1..n PROVE f[i] = Absorbs(f[i - 1], Word(i))
    OBVIOUS
  <2>1. f[i - 1] \in Numbers
    BY <1>3
  <2> QED
    BY <1>15, <1>4, <2>1
<1> DEFINE prefix == [i \in 0..n |-> SubSeq(bytes, 1, WideBytes * i)]
           chunk == [i \in 1..n |-> Word(i)]
<1>17. n = Len(bytes) \div WideBytes
  BY WideWordsAre DEF n, seq
<1>18. prefix[0] = <<>> /\ prefix[n] = SubSeq(bytes, 1, WideBytes * n)
  <2>1. WideBytes * 0 = 0 /\ 0 \in 0..n /\ n \in 0..n
    BY <1>3, CrcAssumption
  <2>2. SubSeq(bytes, 1, 0) = <<>>
    BY SubSeqEmpty
  <2> QED
    BY <2>1, <2>2
<1>19. chunk \in [1..n -> Seq(Byte)]
  BY <1>14, <1>4, <1>3
<1>20. \A i \in 1..n : /\ prefix[i - 1] \in Seq(Byte)
                       /\ prefix[i] = prefix[i - 1] \o chunk[i]
                       /\ f[i] = Absorbs(f[i - 1], chunk[i])
  <2> SUFFICES ASSUME NEW i \in 1..n
               PROVE  /\ prefix[i - 1] \in Seq(Byte)
                      /\ prefix[i] = prefix[i - 1] \o chunk[i]
                      /\ f[i] = Absorbs(f[i - 1], chunk[i])
    OBVIOUS
  <2>1. /\ WideBytes * (i - 1) \in 0..Len(bytes) /\ WideBytes * i \in 0..Len(bytes)
        /\ WideBytes * i = WideBytes * (i - 1) + WideBytes
    BY <1>17, WideWordsAre
  <2>2. PICK a \in 0..Len(bytes), b \in 0..Len(bytes) :
          a = WideBytes * (i - 1) /\ b = WideBytes * i /\ a <= b
    BY <2>1, CrcAssumption
  <2>3. SubSeq(bytes, 1, b) = SubSeq(bytes, 1, a) \o SubSeq(bytes, a + 1, b)
    <3>1. 1 \in 1..(Len(bytes) + 1) /\ a \in (1 - 1)..Len(bytes) /\ b \in a..Len(bytes)
      BY <2>2
    <3> QED
      BY <3>1, ConcatAdjacentSubSeq
  <2>4. SubSeq(bytes, 1, a) \in Seq(Byte)
    OBVIOUS
  <2>5. i - 1 \in 0..n /\ i \in 0..n
    BY <1>3
  <2>6. chunk[i] = SubSeq(bytes, a + 1, b)
    BY <2>2 DEF Word
  <2>7. prefix[i - 1] = SubSeq(bytes, 1, a) /\ prefix[i] = SubSeq(bytes, 1, b)
    BY <2>2, <2>5
  <2> QED
    BY <1>16, <2>3, <2>4, <2>6, <2>7
<1> HIDE DEF prefix, chunk
<1>21. f[n] = Absorbs(state, prefix[n])
  <2>1. Absorption(f, state, prefix, chunk, n)
    BY <1>14, <1>18, <1>19, <1>20 DEF Absorption
  <2> QED
    BY <1>3, <2>1, ChunksAbsorbed
<1> QED
  BY <1>14, <1>17, <1>18, <1>21

\* The bytes after the last wide word are absorbed by the instruction for one.
LEMMA BytePartIsAbsorbs ==
  ASSUME NEW state \in Numbers, NEW bytes \in Seq(Byte)
  PROVE  BytePart(state, bytes) = Absorbs(state, bytes)
<1> DEFINE seq == bytes
           n == Len(seq)
           Op(r, c) == Instruction(r, c, 1)
           step == [i \in 1..n |-> [r \in Numbers |-> Op(r, seq[i])]]
           iter[s \in SUBSET DOMAIN seq] ==
             IF s = {} THEN state ELSE Op(iter[s \ {Max(s)}], seq[Max(s)])
<1>1. BytePart(state, bytes) = iter[DOMAIN seq]
  BY DEF BytePart, FoldLeft, MapThenFoldSet
<1>2. iter = CHOOSE it : it = [s \in SUBSET DOMAIN seq |->
                                IF s = {} THEN state ELSE Op(it[s \ {Max(s)}], seq[Max(s)])]
  OBVIOUS
<1> HIDE DEF iter
<1>3. DOMAIN seq = 1..n /\ n \in Nat /\ state \in Numbers
  OBVIOUS
<1>4. \A r \in Numbers, i \in 1..n : Op(r, seq[i]) = Absorbs(r, <<seq[i]>>)
  BY ByteInstruction
<1>5. \A r \in Numbers, i \in 1..n : Op(r, seq[i]) \in Numbers
  <2>1. \A i \in 1..n : <<seq[i]>> \in Seq(Byte)
    OBVIOUS
  <2> QED
    BY <1>4, <2>1, AbsorbsType
<1> HIDE DEF Op, seq
<1>6. step \in [1..n -> [Numbers -> Numbers]]
  BY <1>5
<1>7. \A i \in 1..n, r \in Numbers : step[i][r] = Op(r, seq[i])
  OBVIOUS
<1> HIDE DEF step, n
<1>8. PICK f \in [0..n -> Numbers] : Path(f, state, n, step)
  BY <1>3, <1>6, PathExists
<1>9. PICK it \in [SUBSET (1..n) -> Numbers] : Iterates(it, state, n, step)
  BY <1>3, <1>6, IterExists
<1>10. it = [s \in SUBSET DOMAIN seq |->
              IF s = {} THEN state ELSE Op(it[s \ {Max(s)}], seq[Max(s)])]
  <2>1. \A s \in SUBSET (1..n) :
          it[s] = IF s = {} THEN state ELSE Op(it[s \ {Max(s)}], seq[Max(s)])
    BY <1>3, <1>7, <1>9, MaxOfPart DEF Iterates
  <2> QED
    BY <1>3, <2>1
<1>11. PICK it2 : /\ it2 = [s \in SUBSET DOMAIN seq |->
                     IF s = {} THEN state ELSE Op(it2[s \ {Max(s)}], seq[Max(s)])]
                  /\ BytePart(state, bytes) = it2[DOMAIN seq]
  BY <1>1, <1>2, <1>10
<1>12. Climbs(it2, Numbers, state, n, step)
  <2>1. \A s \in SUBSET (1..n) :
          it2[s] = IF s = {} THEN state ELSE Op(it2[s \ {Max(s)}], seq[Max(s)])
    BY <1>3, <1>11
  <2>2. ASSUME NEW i \in 1..n, it2[1..(i - 1)] \in Numbers
        PROVE  it2[1..i] = step[i][it2[1..(i - 1)]]
    <3>1. it2[1..i] = Op(it2[1..(i - 1)], seq[i])
      BY <1>3, <2>1, Initial
    <3> QED
      BY <1>7, <2>2, <3>1
  <2> QED
    BY <2>1, <2>2 DEF Climbs
<1>13. it2[1..n] = f[n]
  BY <1>3, <1>8, <1>12, IterIsPath
<1>14. f[0] = state /\ f[n] = BytePart(state, bytes)
  BY <1>3, <1>8, <1>11, <1>13 DEF Path
<1>15. \A i \in 1..n : f[i] = Op(f[i - 1], seq[i])
  <2> SUFFICES ASSUME NEW i \in 1..n PROVE f[i] = Op(f[i - 1], seq[i])
    OBVIOUS
  <2>1. f[i - 1] \in Numbers
    BY <1>3
  <2> QED
    BY <1>7, <1>8, <2>1 DEF Path
<1>16. \A i \in 1..n : f[i] = Absorbs(f[i - 1], <<bytes[i]>>)
  <2> SUFFICES ASSUME NEW i \in 1..n PROVE f[i] = Absorbs(f[i - 1], <<bytes[i]>>)
    OBVIOUS
  <2>1. f[i - 1] \in Numbers
    BY <1>3
  <2> QED
    BY <1>15, <1>4, <2>1 DEF seq
<1>17. ByteByByte(f, state, bytes)
  BY <1>14, <1>16 DEF ByteByByte, n, seq
<1>18. n = Len(bytes)
  BY DEF n, seq
<1> QED
  BY <1>14, <1>17, <1>18, BytesAbsorbed

\* x86_crc32c_update absorbs its bytes, as portable_crc32c_update does.
LEMMA HardwareIsAbsorbs ==
  ASSUME NEW state \in Numbers, NEW bytes \in Seq(Byte)
  PROVE  HardwareUpdate(state, bytes) = Absorbs(state, bytes)
<1> DEFINE a == WideBytes * (Len(bytes) \div WideBytes)
           front == SubSeq(bytes, 1, a)
<1>1. HardwareUpdate(state, bytes) = BytePart(WidePart(state, bytes), Rest(bytes))
  BY DEF HardwareUpdate, BytePart, WidePart
<1>2. a \in 0..Len(bytes) /\ Len(bytes) \in Nat
  BY WideWordsAre
<1> HIDE DEF a
<1>3. Rest(bytes) = SubSeq(bytes, a + 1, Len(bytes))
  BY DEF Rest, a
<1>4. front \in Seq(Byte) /\ Rest(bytes) \in Seq(Byte)
  BY <1>2, <1>3
<1>5. front \o Rest(bytes) = bytes
  <2>1. 1 \in 1..(Len(bytes) + 1) /\ a \in (1 - 1)..Len(bytes) /\ Len(bytes) \in a..Len(bytes)
    BY <1>2
  <2> QED
    BY <1>3, <2>1, ConcatAdjacentSubSeq, SubSeqFull
<1>6. WidePart(state, bytes) = Absorbs(state, front)
  BY WidePartIsAbsorbs DEF a
<1> HIDE DEF front
<1>7. BytePart(Absorbs(state, front), Rest(bytes)) =
        Absorbs(Absorbs(state, front), Rest(bytes))
  BY <1>4, AbsorbsType, BytePartIsAbsorbs
<1>8. Absorbs(Absorbs(state, front), Rest(bytes)) = Absorbs(state, bytes)
  <2>1. PICK rest \in Seq(Byte) : rest = Rest(bytes)
    BY <1>4
  <2>2. Absorbs(Absorbs(state, front), rest) = Absorbs(state, front \o rest)
    BY <1>4, AbsorbsConcat, Zenon
  <2> QED
    BY <1>5, <2>1, <2>2
<1> QED
  BY <1>1, <1>6, <1>7, <1>8

-----------------------------------------------------------------------------
(* Checksums.                                                              *)

\* A checksum has at least one bit.
LEMMA OnesType == Ones \in Numbers /\ CrcBits \in Nat /\ CrcBits >= 1
<1>1. CrcBytes \in Nat /\ CrcBytes >= 1 /\ ByteBits \in Nat /\ ByteBits >= 1
  BY CrcAssumption, ByteAssumption
<1>2. CrcBits \in Nat /\ CrcBits >= 1
  BY <1>1 DEF CrcBits
<1> QED
  BY <1>2 DEF Ones, Numbers

\* What is left of a number with bits up to n + CrcBits has the bits of a
\* checksum when n of them are divided.
LEMMA RemainderFits ==
  ASSUME NEW n \in Nat, NEW w, w \subseteq 0..(n + CrcBits - 1)
  PROVE  Divide(w, n) \subseteq Ones
<1> DEFINE Up(i) == 0..(n - i + CrcBits - 1)
           T == {i \in 0..n : Divide(w, i) \subseteq Up(i)}
<1>1. w \in Numbers
  BY DEF Numbers
<1>2. 0 \in T
  <2>1. 0 \in 0..n /\ n - 0 + CrcBits - 1 = n + CrcBits - 1
    BY OnesType
  <2> QED
    BY <1>1, <2>1, DivideZero
<1>3. \A i \in 1..n : i - 1 \in T => i \in T
  <2> SUFFICES ASSUME NEW i \in 1..n, i - 1 \in T PROVE i \in T
    OBVIOUS
  <2> DEFINE r == Divide(w, i - 1)
  <2>1. i - 1 \in Nat /\ (i - 1) + 1 = i /\ n - (i - 1) \in Nat /\ n - i \in Nat
    OBVIOUS
  <2>2. Divide(w, i) = DivideBit(r) /\ r \in Numbers
    BY <1>1, <2>1, DivideNext, DivideType
  <2>3. r \subseteq 0..(n - (i - 1) + CrcBits - 1)
    OBVIOUS
  <2> HIDE DEF r
  <2>4. ShiftRight(r, 1) \subseteq 0..(n - i + CrcBits - 1)
    BY <2>1, <2>2, <2>3, OnesType DEF ShiftRight
  <2>5. Polynomial \subseteq 0..(n - i + CrcBits - 1)
    BY <2>1, CrcAssumption, OnesType DEF Ones
  <2>6. DivideBit(r) \subseteq Up(i)
    BY <2>4, <2>5 DEF DivideBit, Xor, SymDiff
  <2> QED
    BY <2>2, <2>6
<1> HIDE DEF T
<1>4. n \in T
  <2>1. 0..n \subseteq T
    BY <1>2, <1>3, AllOfThem
  <2> QED
    BY <2>1
<1>5. Up(n) = Ones
  BY OnesType DEF Ones
<1> QED
  BY <1>4, <1>5 DEF T

\* A number with bits no further apart than a checksum is long is not divisible.
LEMMA BurstRemains ==
  ASSUME NEW n \in Nat, NEW i \in Nat, NEW w, w # {}, w \subseteq i..(i + CrcBits - 1)
  PROVE  Divide(w, n) # {}
<1> DEFINE Low(k) == IF k <= i THEN i - k ELSE 0
           T == {k \in 0..n : /\ Divide(w, k) # {}
                              /\ Divide(w, k) \subseteq Low(k)..(Low(k) + CrcBits - 1)}
<1>1. w \in Numbers
  BY OnesType DEF Numbers
<1>2. 0 \in T
  <2>1. 0 \in 0..n /\ Low(0) = i
    OBVIOUS
  <2> HIDE DEF Low
  <2> QED
    BY <1>1, <2>1, DivideZero
<1>3. \A k \in 1..n : k - 1 \in T => k \in T
  <2> SUFFICES ASSUME NEW k \in 1..n, k - 1 \in T PROVE k \in T
    OBVIOUS
  <2> DEFINE r == Divide(w, k - 1)
             a == Low(k - 1)
             b == Low(k)
  <2>1. k - 1 \in Nat /\ (k - 1) + 1 = k
    OBVIOUS
  <2>2. Divide(w, k) = DivideBit(r) /\ r \in Numbers
    BY <1>1, <2>1, DivideNext, DivideType
  <2>3. r # {} /\ r \subseteq a..(a + CrcBits - 1)
    OBVIOUS
  <2>4. a \in Nat /\ b \in Nat /\ (a > 0 => b = a - 1) /\ (a = 0 => b = 0)
    BY <2>1
  <2> HIDE DEF r, a, b, Low
  <2>5. CASE a > 0
    <3>1. 0 \notin r
      BY <2>3, <2>4, <2>5, OnesType
    <3>2. ShiftRight(r, 1) # {}
      BY <2>2, <2>3, <3>1 DEF ShiftRight, Numbers
    <3>3. ShiftRight(r, 1) \subseteq b..(b + CrcBits - 1)
      BY <2>3, <2>4, <2>5, OnesType DEF ShiftRight
    <3> QED
      BY <2>2, <3>1, <3>2, <3>3 DEF DivideBit, b
  <2>6. CASE a = 0
    <3>1. r \subseteq Ones /\ b = 0
      BY <2>3, <2>4, <2>6, OnesType DEF Ones
    <3>2. ShiftRight(r, 1) \subseteq 0..(CrcBits - 2)
      BY <3>1, OnesType DEF ShiftRight, Ones
    <3>3. /\ CrcBits - 1 \in Polynomial /\ Polynomial \subseteq 0..(CrcBits - 1)
          /\ CrcBits - 1 \notin ShiftRight(r, 1)
      BY <3>2, CrcAssumption, OnesType DEF Ones
    <3>4. DivideBit(r) # {}
      <4>1. CASE 0 \in r
        <5>1. CrcBits - 1 \in Xor(ShiftRight(r, 1), Polynomial)
          BY <3>3 DEF Xor, SymDiff
        <5> QED
          BY <4>1, <5>1 DEF DivideBit
      <4>2. CASE 0 \notin r
        <5>1. ShiftRight(r, 1) # {}
          BY <2>2, <2>3, <4>2 DEF ShiftRight, Numbers
        <5> QED
          BY <4>2, <5>1 DEF DivideBit
      <4> QED
        BY <4>1, <4>2
    <3>5. DivideBit(r) \subseteq 0..(CrcBits - 1)
      <4>1. ShiftRight(r, 1) \subseteq 0..(CrcBits - 1)
        BY <3>2, OnesType
      <4> QED
        BY <3>3, <4>1 DEF DivideBit, Xor, SymDiff
    <3>6. b..(b + CrcBits - 1) = 0..(CrcBits - 1)
      BY <3>1, OnesType
    <3>7. Divide(w, k) # {} /\ Divide(w, k) \subseteq b..(b + CrcBits - 1)
      BY <2>2, <3>4, <3>5, <3>6
    <3> QED
      BY <3>7 DEF b
  <2> QED
    BY <2>4, <2>5, <2>6
<1> HIDE DEF T
<1>4. n \in T
  <2>1. 0..n \subseteq T
    BY <1>2, <1>3, AllOfThem
  <2> QED
    BY <2>1
<1> QED
  BY <1>4 DEF T

\* Bytes encode no bit beyond them.
LEMMA FromLittleEndianFits ==
  ASSUME NEW bytes \in Seq(Byte)
  PROVE  FromLittleEndian(bytes) \subseteq 0..(ByteBits * Len(bytes) - 1)
<1>1. FromLittleEndian(bytes) \subseteq Nat
  BY FromLittleEndianType DEF Numbers
<1>2. Len(bytes) \in Nat /\ ByteBits * Len(bytes) \in Nat
  <2>1. Len(bytes) \in Nat
    OBVIOUS
  <2> QED
    BY <2>1, TimesByte
<1>3. ASSUME NEW x \in FromLittleEndian(bytes)
      PROVE  x < ByteBits * Len(bytes)
  <2>1. PICK q \in Nat, r \in 0..(ByteBits - 1) : x = ByteBits * q + r
    BY <1>1, Places
  <2>2. q + 1 \in 1..Len(bytes)
    BY <2>1, PlaceOfByte
  <2>3. q < Len(bytes)
    BY <1>2, <2>2
  <2>4. ByteBits * q + ByteBits <= ByteBits * Len(bytes) /\ ByteBits * q \in Nat
    BY <1>2, <2>3, TimesByte
  <2> QED
    BY <1>2, <2>1, <2>4, ByteAssumption
<1> QED
  BY <1>1, <1>2, <1>3

\* A checksum is what is left of its bytes, and fits the bytes it is stored in.
LEMMA ChecksumFitsWord ==
  ASSUME NEW bytes \in Seq(Byte)
  PROVE  /\ ChecksumOf(bytes) = Xor(Ones, Absorbs(Ones, bytes))
         /\ ChecksumOf(bytes) \subseteq Ones
         /\ ChecksumOf(bytes) \subseteq 0..(ByteBits * CrcBytes - 1)
<1> DEFINE n == ByteBits * Len(bytes)
           h == Hasher("portable", FALSE)
<1>1. h.state = Ones /\ h.implementation = "portable"
  BY DEF Hasher
<1>2. Updated(h, bytes).state = PortableUpdate(Ones, bytes)
  BY DEF Hasher, Updated
<1>3. ChecksumOf(bytes) = Xor(Absorbs(Ones, bytes), Ones)
  BY <1>2, OnesType, PortableIsAbsorbs DEF ChecksumOf, Finalize
<1>4. n \in Nat
  BY TimesByte
<1>5. FromLittleEndian(bytes) \subseteq 0..(n - 1)
  BY FromLittleEndianFits
<1> HIDE DEF n
<1>6. Xor(Ones, FromLittleEndian(bytes)) \subseteq 0..(n + CrcBits - 1)
  BY <1>4, <1>5, OnesType DEF Xor, SymDiff, Ones
<1>7. Absorbs(Ones, bytes) \subseteq Ones
  BY <1>4, <1>6, RemainderFits DEF Absorbs, n
<1>8. ChecksumOf(bytes) \subseteq Ones
  BY <1>3, <1>7 DEF Xor, SymDiff
<1>9. CrcBits = ByteBits * CrcBytes
  BY CrcAssumption, ByteAssumption DEF CrcBits
<1> QED
  BY <1>3, <1>8, <1>9 DEF Xor, SymDiff, Ones

-----------------------------------------------------------------------------
(* Preambles.                                                              *)

\* What the checksum of a preamble and its last bytes are both part of
Framing == Xor(Ones, ShiftLeft(Ones, ByteBits * Covered))

\* The sizes of a preamble and its parts.
LEMMA Sizes ==
  /\ Len(Magic) \in Nat /\ VersionBytes \in Nat /\ CrcBytes \in Nat
  /\ Covered \in Nat /\ PreambleSize \in Nat
  /\ Covered = Len(Magic) + VersionBytes + VersionBytes
  /\ PreambleSize = Covered + CrcBytes
BY PreambleAssumption, CrcAssumption DEF Covered, PreambleSize

\* A preamble is what its checksum covers and the checksum.
LEMMA Split ==
  ASSUME NEW bytes \in Seq(Byte), PreambleSize <= Len(bytes)
  PROVE  /\ SubSeq(bytes, 1, Covered) \in Seq(Byte)
         /\ Len(SubSeq(bytes, 1, Covered)) = Covered
         /\ SubSeq(bytes, Covered + 1, Covered + CrcBytes) \in Seq(Byte)
         /\ Len(SubSeq(bytes, Covered + 1, Covered + CrcBytes)) = CrcBytes
         /\ SubSeq(bytes, 1, PreambleSize) =
              SubSeq(bytes, 1, Covered) \o SubSeq(bytes, Covered + 1, Covered + CrcBytes)
<1>1. /\ Covered \in Nat /\ CrcBytes \in Nat /\ Len(bytes) \in Nat
      /\ PreambleSize = Covered + CrcBytes
  BY Sizes
<1>2. \A i \in 1..(Covered + CrcBytes) : bytes[i] \in Byte
  BY <1>1
<1>3. SubSeq(bytes, 1, Covered) \in Seq(Byte) /\ Len(SubSeq(bytes, 1, Covered)) = Covered
  BY <1>1, <1>2, SubSeqProperties
<1>4. /\ SubSeq(bytes, Covered + 1, Covered + CrcBytes) \in Seq(Byte)
      /\ Len(SubSeq(bytes, Covered + 1, Covered + CrcBytes)) = CrcBytes
  <2>1. \A i \in (Covered + 1)..(Covered + CrcBytes) : bytes[i] \in Byte
    BY <1>1, <1>2
  <2> QED
    BY <1>1, <2>1, SubSeqProperties
<1>5. SubSeq(bytes, 1, PreambleSize) =
        SubSeq(bytes, 1, Covered) \o SubSeq(bytes, Covered + 1, Covered + CrcBytes)
  <2>1. /\ 1 \in 1..(Len(bytes) + 1) /\ Covered \in (1 - 1)..Len(bytes)
        /\ PreambleSize \in Covered..Len(bytes)
    BY <1>1
  <2> QED
    BY <1>1, <2>1, ConcatAdjacentSubSeq
<1> QED
  BY <1>3, <1>4, <1>5

\* A checksum fits exactly if the preamble, as one number, leaves no remainder
\* but the one all preambles leave.
LEMMA FitsIff ==
  ASSUME NEW bytes \in Seq(Byte), PreambleSize <= Len(bytes)
  PROVE  ChecksumFits(bytes) <=>
           Divide(Xor(FromLittleEndian(SubSeq(bytes, 1, PreambleSize)), Framing),
                  ByteBits * Covered) = {}
<1> DEFINE head == SubSeq(bytes, 1, Covered)
           tail == SubSeq(bytes, Covered + 1, Covered + CrcBytes)
           m == ByteBits * Covered
           H == FromLittleEndian(head)
           C == FromLittleEndian(tail)
           K == Xor(C, Ones)
<1>1. /\ head \in Seq(Byte) /\ Len(head) = Covered /\ tail \in Seq(Byte)
      /\ SubSeq(bytes, 1, PreambleSize) = head \o tail
  BY Split
<1>2. H \in Numbers /\ C \in Numbers /\ m \in Nat /\ Ones \in Numbers
  BY <1>1, FromLittleEndianType, OnesType, TimesByte, Sizes
<1>3. ChecksumFits(bytes) <=> ChecksumOf(head) = C
  BY DEF ChecksumFits, Parsed, Number
<1>4. ChecksumOf(head) = Xor(Ones, Divide(Xor(Ones, H), m))
  BY <1>1, ChecksumFitsWord DEF Absorbs
<1>5. FromLittleEndian(head \o tail) = Xor(H, ShiftLeft(C, m))
  BY <1>1, FromLittleEndianConcat
<1> HIDE DEF head, tail, H, C, m
<1> DEFINE D == Divide(Xor(Ones, H), m)
<1>6. Xor(Xor(H, ShiftLeft(C, m)), Xor(Ones, ShiftLeft(Ones, m))) =
        Xor(Xor(Ones, H), ShiftLeft(K, m))
  <2>1. ShiftLeft(K, m) = Xor(ShiftLeft(C, m), ShiftLeft(Ones, m))
    <3> DEFINE A == ShiftLeft(C, m)
               B == ShiftLeft(Ones, m)
               E == ShiftLeft(K, m)
    <3>1. K \in Numbers
      BY <1>2, XorType
    <3>2. /\ A \subseteq Nat /\ \A x \in Nat : x \in A <=> (x - m \in C)
          /\ B \subseteq Nat /\ \A x \in Nat : x \in B <=> (x - m \in Ones)
          /\ E \subseteq Nat /\ \A x \in Nat : x \in E <=> (x - m \in K)
      <4>1. \A w \in Numbers : /\ ShiftLeft(w, m) \subseteq Nat
                               /\ \A x \in Nat : x \in ShiftLeft(w, m) <=> (x - m \in w)
        BY <1>2 DEF ShiftLeft, Numbers
      <4> HIDE DEF K
      <4> QED
        BY <1>2, <3>1, <4>1
    <3>3. \A x : x \in K <=> ~(x \in C <=> x \in Ones)
      BY DEF Xor, SymDiff
    <3> HIDE DEF A, B, E, K
    <3>4. E = Xor(A, B)
      BY <3>2, <3>3 DEF Xor, SymDiff
    <3> QED
      BY <3>4 DEF A, B, E
  <2>2. \A a, b, c, d : Xor(Xor(a, b), Xor(c, d)) = Xor(Xor(c, a), Xor(b, d))
    BY DEF Xor, SymDiff
  <2> QED
    BY <2>1, <2>2
<1>7. Divide(Xor(Xor(Ones, H), ShiftLeft(K, m)), m) = Xor(D, K)
  <2>1. Xor(Ones, H) \in Numbers /\ K \in Numbers
    BY <1>2, XorType
  <2>2. D \in Numbers
    BY <1>2, <2>1, DivideType
  <2>3. ShiftLeft(K, m) \in Numbers
    BY <1>2, <2>1 DEF ShiftLeft, Numbers
  <2> HIDE DEF K
  <2> QED
    BY <1>2, <2>1, <2>3, DivideXor, DivideShifted
<1>8. Xor(D, K) = {} <=> Xor(Ones, D) = C
  BY DEF Xor, SymDiff
<1>9. Framing = Xor(Ones, ShiftLeft(Ones, m))
  BY DEF Framing, m
<1> QED
  BY <1>1, <1>3, <1>4, <1>5, <1>6, <1>7, <1>8, <1>9 DEF m

\* A preamble that was encoded has its size, magic, versions and a checksum that
\* fits.
LEMMA Encoded ==
  ASSUME NEW v \in Versions
  PROVE  /\ Encode(v) \in Seq(Byte) /\ Len(Encode(v)) = PreambleSize
         /\ SubSeq(Encode(v), 1, Len(Magic)) = Magic
         /\ Parsed(Encode(v)).major = v.major
         /\ Parsed(Encode(v)).minor = v.minor
         /\ ChecksumFits(Encode(v))
<1> DEFINE a == LittleEndian(v.major, VersionBytes)
           b == LittleEndian(v.minor, VersionBytes)
           head == Magic \o a \o b
           c == LittleEndian(ChecksumOf(head), CrcBytes)
           e == Encode(v)
<1>1. v.major \in Numbers /\ v.minor \in Numbers
  <2>1. VersionBytes \in Nat /\ ByteBits * VersionBytes \in Nat
    BY Sizes, TimesByte
  <2> QED
    BY <2>1, PreambleAssumption DEF Numbers
<1>2. /\ a \in Seq(Byte) /\ Len(a) = VersionBytes /\ b \in Seq(Byte) /\ Len(b) = VersionBytes
      /\ Magic \in Seq(Byte)
  BY <1>1, Sizes, LittleEndianType, PreambleAssumption
<1>3. e = head \o c
  BY DEF Encode
<1>4. /\ FromLittleEndian(a) = v.major /\ FromLittleEndian(b) = v.minor
  BY Sizes, LittleEndianRoundTrip, PreambleAssumption
<1> HIDE DEF a, b
<1>5. head \in Seq(Byte) /\ Len(head) = Covered
  BY <1>2, Sizes
<1>6. /\ c \in Seq(Byte) /\ Len(c) = CrcBytes /\ FromLittleEndian(c) = ChecksumOf(head)
  <2>1. ChecksumOf(head) \subseteq 0..(ByteBits * CrcBytes - 1) /\ ChecksumOf(head) \in Numbers
    BY <1>5, ChecksumFitsWord, OnesType DEF Numbers
  <2> HIDE DEF head
  <2> QED
    BY <2>1, Sizes, LittleEndianType, LittleEndianRoundTrip
<1> HIDE DEF c
<1>7. e \in Seq(Byte) /\ Len(e) = PreambleSize
  BY <1>3, <1>5, <1>6, Sizes
<1>8. SubSeq(e, 1, Len(Magic)) = Magic
  BY <1>2, <1>3, <1>5, <1>6, Sizes
<1>9. SubSeq(e, Len(Magic) + 1, Len(Magic) + VersionBytes) = a
  BY <1>2, <1>3, <1>5, <1>6, Sizes
<1>10. SubSeq(e, Len(Magic) + VersionBytes + 1, Len(Magic) + VersionBytes + VersionBytes) = b
  BY <1>2, <1>3, <1>5, <1>6, Sizes
<1>11. SubSeq(e, 1, Covered) = head /\ SubSeq(e, Covered + 1, Covered + CrcBytes) = c
  <2> HIDE DEF head, e
  <2> QED
    BY <1>3, <1>5, <1>6, Sizes, SMTT(30)
<1> QED
  BY <1>4, <1>6, <1>7, <1>8, <1>9, <1>10, <1>11 DEF Parsed, Number, ChecksumFits

-----------------------------------------------------------------------------
(* The inductive invariant.                                                *)

\* A file that does not begin with what was written was cut off or hit by a
\* burst.
FaultKnown ==
  ~IsIntact =>
    \/ Len(file) < PreambleSize
    \/ \E burst \in Bursts :
         file = LittleEndian(Xor(FromLittleEndian(written), burst), PreambleSize)

Hashers == [state : Numbers, implementation : {"hardware", "portable"}]

\* A hasher's state is what is left of the bytes it was fed.
StateOfFed ==
  hasher # None => /\ hasher \in Hashers
                   /\ fed \in Seq(Byte)
                   /\ hasher.state = Absorbs(Ones, fed)

IInv == /\ version \in Versions
        /\ written = Encode(version)
        /\ file \in Seq(Byte)
        /\ FaultKnown
        /\ StateOfFed

\* A new hasher.
LEMMA HasherType ==
  ASSUME NEW mode, NEW flag
  PROVE  Hasher(mode, flag) \in Hashers /\ Hasher(mode, flag).state = Ones
BY OnesType DEF Hasher, Hashers

\* A hasher absorbs what it is given, with whatever implementation.
LEMMA UpdateAbsorbs ==
  ASSUME NEW h \in Hashers, NEW bytes \in Seq(Byte)
  PROVE  /\ Updated(h, bytes) \in Hashers
         /\ Updated(h, bytes).state = Absorbs(h.state, bytes)
<1>1. h.state \in Numbers /\ h.implementation \in {"hardware", "portable"}
  BY DEF Hashers
<1>2. /\ HardwareUpdate(h.state, bytes) = Absorbs(h.state, bytes)
      /\ PortableUpdate(h.state, bytes) = Absorbs(h.state, bytes)
  BY <1>1, HardwareIsAbsorbs, PortableIsAbsorbs
<1>3. Absorbs(h.state, bytes) \in Numbers
  BY <1>1, AbsorbsType
<1>4. Updated(h, bytes) = [h EXCEPT !.state = Absorbs(h.state, bytes)]
  BY <1>2 DEF Updated
<1> QED
  BY <1>1, <1>3, <1>4 DEF Hashers

\* A file just written satisfies the invariant.
LEMMA InitIInv == Init => IInv
<1> SUFFICES ASSUME Init PROVE IInv
  OBVIOUS
<1>1. /\ version \in Versions /\ written = Encode(version) /\ file = written
      /\ hasher = None
  BY DEF Init
<1>2. file \in Seq(Byte) /\ IsIntact
  <2>1. file \in Seq(Byte)
    BY <1>1, Encoded
  <2> QED
    BY <1>1, <2>1, SubSeqFull DEF IsIntact, IsPrefix
<1> QED
  BY <1>1, <1>2 DEF IInv, FaultKnown, StateOfFed

\* A burst makes a file damaged by a burst.
LEMMA DamageIInv ==
  ASSUME IInv, NEW burst \in Bursts, Damage(burst)
  PROVE  IInv'
<1>1. /\ file' = LittleEndian(Xor(FromLittleEndian(written), burst), PreambleSize)
      /\ UNCHANGED <<version, written, hasher, fed>> /\ version \in Versions
      /\ written = Encode(version)
  BY DEF Damage, IInv
<1>2. burst \in Numbers
  <2>1. burst \subseteq 0..(PreambleSize * ByteBits - 1)
    BY DEF Bursts
  <2> QED
    BY <2>1 DEF Numbers
<1>3. file' \in Seq(Byte)
  <2>1. Xor(FromLittleEndian(written), burst) \in Numbers
    BY <1>1, <1>2, Encoded, FromLittleEndianType, XorType
  <2> QED
    BY <1>1, <2>1, LittleEndianType, Sizes
<1>4. FaultKnown'
  BY <1>1 DEF FaultKnown
<1> QED
  BY <1>1, <1>3, <1>4 DEF IInv, StateOfFed

\* A file cut off is shorter than a preamble.
LEMMA TruncateIInv ==
  ASSUME IInv, NEW length \in 0..Len(file), Truncate(length)
  PROVE  IInv'
<1>1. /\ file = written /\ length < Len(file) /\ file' = SubSeq(file, 1, length)
      /\ UNCHANGED <<version, written, hasher, fed>>
      /\ file \in Seq(Byte) /\ written = Encode(version) /\ version \in Versions
  BY DEF Truncate, IInv
<1>2. Len(file) = PreambleSize
  BY <1>1, Encoded
<1>3. file' \in Seq(Byte) /\ Len(file') = length
  <2>1. \A i \in 1..length : file[i] \in Byte
    BY <1>1
  <2>2. length \in Nat
    BY <1>1
  <2> QED
    BY <1>1, <2>1, <2>2, SubSeqProperties
<1>4. FaultKnown'
  BY <1>1, <1>2, <1>3, Sizes DEF FaultKnown
<1> QED
  BY <1>1, <1>3, <1>4 DEF IInv, StateOfFed

\* A file with more bytes behind it still begins with what was written.
LEMMA AppendIInv ==
  ASSUME IInv, NEW bytes \in Following, AppendTo(bytes)
  PROVE  IInv'
<1>1. /\ file = written /\ file' = file \o bytes /\ UNCHANGED <<version, written, hasher, fed>>
      /\ file \in Seq(Byte) /\ bytes \in Seq(Byte)
  BY PreambleAssumption DEF AppendTo, IInv
<1>2. file' \in Seq(Byte) /\ Len(file') = Len(file) + Len(bytes)
  BY <1>1
<1>3. SubSeq(file', 1, Len(file)) = file
  BY <1>1, <1>2
<1>4. IsIntact'
  <2>1. SubSeq(written, 1, Len(written)) = written
    BY <1>1, SubSeqFull
  <2> QED
    BY <1>1, <1>2, <1>3, <2>1 DEF IsIntact, IsPrefix
<1> QED
  BY <1>1, <1>2, <1>4 DEF IInv, FaultKnown, StateOfFed

\* The next bytes are absorbed after those fed before.
LEMMA FeedIInv ==
  ASSUME IInv, NEW n \in 0..Len(file), Feed(n)
  PROVE  IInv'
<1> DEFINE fragment == SubSeq(file, Len(fed) + 1, Len(fed) + n)
<1>1. /\ hasher' = Updated(hasher, fragment) /\ fed' = fed \o fragment
      /\ UNCHANGED <<version, written, file>>
      /\ Len(fed) + n <= Len(file) /\ file \in Seq(Byte)
      /\ hasher \in Hashers /\ fed \in Seq(Byte) /\ hasher.state = Absorbs(Ones, fed)
  BY DEF Feed, IInv, StateOfFed
<1>2. fragment \in Seq(Byte)
  <2>1. n \in Nat /\ Len(fed) \in Nat /\ Len(file) \in Nat
    BY <1>1
  <2>2. \A i \in (Len(fed) + 1)..(Len(fed) + n) : file[i] \in Byte
    BY <1>1, <2>1
  <2> QED
    BY <2>1, <2>2, SubSeqProperties
<1> HIDE DEF fragment
<1>3. /\ hasher' \in Hashers /\ fed' \in Seq(Byte)
      /\ hasher'.state = Absorbs(hasher.state, fragment)
  BY <1>1, <1>2, UpdateAbsorbs
<1>4. hasher'.state = Absorbs(Ones, fed')
  BY <1>1, <1>2, <1>3, AbsorbsConcat, OnesType
<1>5. StateOfFed'
  BY <1>3, <1>4 DEF StateOfFed
<1>6. FaultKnown'
  BY <1>1 DEF FaultKnown, IsIntact, IInv
<1> QED
  BY <1>1, <1>5, <1>6 DEF IInv

\* A new or reset hasher has absorbed nothing.
LEMMA FreshIInv ==
  ASSUME IInv, \/ \E mode \in {"automatic", "portable"} : NewHasher(mode)
               \/ Reset
  PROVE  IInv'
<1>1. /\ UNCHANGED <<version, written, file>> /\ fed' = <<>>
      /\ hasher' \in Hashers /\ hasher'.state = Ones
  <2>1. ASSUME NEW mode, NewHasher(mode)
        PROVE  /\ UNCHANGED <<version, written, file>> /\ fed' = <<>>
               /\ hasher' \in Hashers /\ hasher'.state = Ones
    BY <2>1, HasherType DEF NewHasher
  <2>2. CASE Reset
    <3>1. hasher \in Hashers /\ hasher' = [hasher EXCEPT !.state = Ones]
      BY <2>2 DEF Reset, IInv, StateOfFed
    <3> QED
      BY <2>2, <3>1, OnesType DEF Reset, Hashers
  <2> QED
    BY <2>1, <2>2
<1>2. Absorbs(Ones, <<>>) = Ones
  BY AbsorbsNothing, OnesType
<1>3. StateOfFed'
  BY <1>1, <1>2 DEF StateOfFed
<1>4. FaultKnown'
  BY <1>1 DEF FaultKnown, IsIntact, IInv
<1> QED
  BY <1>1, <1>3, <1>4 DEF IInv

\* Every step keeps the invariant.
LEMMA NextIInv == IInv /\ [Next]_vars => IInv'
<1> SUFFICES ASSUME IInv, [Next]_vars PROVE IInv'
  OBVIOUS
<1>1. ASSUME NEW burst \in Bursts, Damage(burst) PROVE IInv'
  BY <1>1, DamageIInv
<1>2. ASSUME NEW length \in 0..Len(file), Truncate(length) PROVE IInv'
  BY <1>2, TruncateIInv
<1>3. ASSUME NEW bytes \in Following, AppendTo(bytes) PROVE IInv'
  BY <1>3, AppendIInv
<1>4. ASSUME NEW n \in 0..Len(file), Feed(n) PROVE IInv'
  BY <1>4, FeedIInv
<1>5. CASE (\E mode \in {"automatic", "portable"} : NewHasher(mode)) \/ Reset
  BY <1>5, FreshIInv
<1>6. CASE UNCHANGED vars
  BY <1>6 DEF vars, IInv, FaultKnown, IsIntact, StateOfFed
<1> QED
  BY <1>1, <1>2, <1>3, <1>4, <1>5, <1>6 DEF Next

\* The invariant holds of every reachable state.
LEMMA InvariantHolds == Spec => []IInv
BY InitIInv, NextIInv, PTL DEF Spec

-----------------------------------------------------------------------------
(* Theorems.                                                               *)

\* However its bytes were cut up, on whatever machine and after whatever
\* resets, the checksum of a hasher is that of the bytes as one number.
THEOREM ChecksumAlwaysOfWhole == Spec => []ChecksumOfWhole
<1>1. IInv => ChecksumOfWhole
  <2> SUFFICES ASSUME IInv, hasher # None
               PROVE  Finalize(hasher) = LongDivision(fed)
    BY DEF ChecksumOfWhole
  <2>1. hasher.state = Absorbs(Ones, fed) /\ fed \in Seq(Byte)
    BY DEF IInv, StateOfFed
  <2>2. ByteBits * Len(fed) = Len(fed) * ByteBits
    <3>1. Len(fed) \in Nat
      BY <2>1
    <3> QED
      BY <3>1, ByteAssumption
  <2>3. Xor(hasher.state, Ones) = Xor(Ones, hasher.state)
    BY DEF Xor, SymDiff
  <2> QED
    BY <2>1, <2>2, <2>3 DEF Finalize, LongDivision, Absorbs
<1> QED
  BY <1>1, InvariantHolds, PTL

\* What parse_file_preamble finds depends on nothing behind the preamble.
LEMMA SameParse ==
  ASSUME NEW a \in Seq(Byte), NEW b \in Seq(Byte),
         Len(a) = PreambleSize, PreambleSize <= Len(b), SubSeq(b, 1, PreambleSize) = a
  PROVE  /\ Parsed(a) = Parsed(b)
         /\ ChecksumFits(a) <=> ChecksumFits(b)
         /\ SubSeq(a, 1, Len(Magic)) = SubSeq(b, 1, Len(Magic))
<1>1. \A i \in Nat, j \in Nat :
        (1 <= i /\ j <= PreambleSize) => SubSeq(a, i, j) = SubSeq(b, i, j)
  <2> SUFFICES ASSUME NEW i \in Nat, NEW j \in Nat, 1 <= i, j <= PreambleSize
               PROVE  SubSeq(a, i, j) = SubSeq(b, i, j)
    OBVIOUS
  <2>1. \A k \in 1..PreambleSize : a[k] = b[k]
    BY Sizes
  <2>2. \A k \in 1..(j - i + 1) : a[i + k - 1] = b[i + k - 1]
    BY <2>1, Sizes
  <2> QED
    BY <2>2
<1>2. /\ Len(Magic) + 1 \in Nat /\ Len(Magic) + VersionBytes \in Nat
      /\ Len(Magic) + VersionBytes + 1 \in Nat
      /\ Len(Magic) + VersionBytes + VersionBytes \in Nat /\ 1 \in Nat
      /\ Covered + 1 \in Nat /\ Covered + CrcBytes \in Nat
      /\ Len(Magic) + VersionBytes <= PreambleSize
      /\ Len(Magic) + VersionBytes + VersionBytes <= PreambleSize
      /\ Covered <= PreambleSize /\ Covered + CrcBytes <= PreambleSize
      /\ Len(Magic) <= PreambleSize
      /\ 1 <= Len(Magic) + 1 /\ 1 <= Len(Magic) + VersionBytes + 1 /\ 1 <= Covered + 1
  BY Sizes
<1> HIDE DEF Covered, PreambleSize
<1>3. Parsed(a) = Parsed(b)
  BY <1>1, <1>2 DEF Parsed, Number
<1>4. SubSeq(a, 1, Covered) = SubSeq(b, 1, Covered)
  BY <1>1, <1>2, Sizes
<1>5. SubSeq(a, 1, Len(Magic)) = SubSeq(b, 1, Len(Magic))
  BY <1>1, <1>2, Sizes
<1> QED
  BY <1>3, <1>4, <1>5 DEF ChecksumFits

\* What parse_file_preamble answers for enough bytes.
LEMMA ParseErrorIs ==
  ASSUME NEW bytes, Len(bytes) \in Nat
  PROVE  ParseError(bytes) =
           IF Len(bytes) < PreambleSize THEN "unexpected_end"
           ELSE IF ~IsPrefix(Magic, bytes) THEN "invalid_magic"
           ELSE IF ~ChecksumFits(bytes) THEN "checksum_mismatch"
           ELSE IF ~IsCurrent(Parsed(bytes)) THEN "unsupported_format_version"
           ELSE "none"
<1> DEFINE checks ==
             <<Check(~IsPrefix(Magic, bytes),   "invalid_magic"),
               Check(~ChecksumFits(bytes),      "checksum_mismatch"),
               Check(~IsCurrent(Parsed(bytes)), "unsupported_format_version")>>
           short == <<Check(TRUE, "unexpected_end")>>
<1>1. ParseError(bytes) = IF Len(bytes) < PreambleSize THEN FirstError(short)
                          ELSE FirstError(checks)
  BY DEF ParseError, Truncated
<1>2. /\ Len(checks) = 3 /\ checks[1].error = "invalid_magic"
      /\ checks[2].error = "checksum_mismatch"
      /\ checks[3].error = "unsupported_format_version"
  BY DEF Check
<1>3. /\ checks[1].fails <=> ~IsPrefix(Magic, bytes)
      /\ checks[2].fails <=> ~ChecksumFits(bytes)
      /\ checks[3].fails <=> ~IsCurrent(Parsed(bytes))
  BY DEF Check
<1>4. FirstError(short) = "unexpected_end"
  <2>1. Len(short) = 1 /\ short[1].fails /\ short[1].error = "unexpected_end"
    BY DEF Check
  <2> HIDE DEF short
  <2>3. 1 \in 1..Len(short) /\ short[1].fails
    BY <2>1
  <2>2. PICK j \in 1..1 : FirstError(short) = short[j].error
    BY <2>1, <2>3, FirstErrorFails, SMTT(30)
  <2> QED
    BY <2>1, <2>2
<1> HIDE DEF checks
<1>5. CASE checks[1].fails
  <2>1. PICK j \in 1..1 : FirstError(checks) = checks[j].error
    BY <1>2, <1>5, FirstErrorFails
  <2>2. FirstError(checks) = "invalid_magic"
    BY <1>2, <2>1
  <2> QED
    BY <1>1, <1>3, <1>4, <1>5, <2>2
<1>6. CASE ~checks[1].fails /\ checks[2].fails
  <2>1. PICK j \in 1..2 : FirstError(checks) = checks[j].error /\ checks[j].fails
    BY <1>2, <1>6, FirstErrorFails
  <2>2. j = 2
    BY <1>6, <2>1
  <2>3. FirstError(checks) = "checksum_mismatch"
    BY <1>2, <2>1, <2>2
  <2> QED
    BY <1>1, <1>3, <1>4, <1>6, <2>3
<1>7. CASE ~checks[1].fails /\ ~checks[2].fails /\ checks[3].fails
  <2>1. PICK j \in 1..3 : FirstError(checks) = checks[j].error /\ checks[j].fails
    BY <1>2, <1>7, FirstErrorFails
  <2>2. j = 3
    BY <1>7, <2>1
  <2>3. FirstError(checks) = "unsupported_format_version"
    BY <1>2, <2>1, <2>2
  <2> QED
    BY <1>1, <1>3, <1>4, <1>7, <2>3
<1>8. CASE ~checks[1].fails /\ ~checks[2].fails /\ ~checks[3].fails
  <2>1. \A k \in 1..Len(checks) : ~checks[k].fails /\ checks[k].error # "none"
    <3>1. \A k \in 1..3 : k = 1 \/ k = 2 \/ k = 3
      OBVIOUS
    <3> QED
      BY <1>2, <1>8, <3>1
  <2>2. FirstError(checks) = "none"
    BY <1>2, <2>1, FirstErrorNone
  <2> QED
    BY <1>1, <1>3, <1>4, <1>8, <2>2
<1> QED
  BY <1>5, <1>6, <1>7, <1>8

\* A file that begins with a preamble an engine wrote parses, or has a version
\* the reader does not know.
THEOREM VersionsAlwaysReadBack == Spec => []VersionsReadBack
<1>1. IInv => VersionsReadBack
  <2> SUFFICES ASSUME IInv, IsIntact
               PROVE  /\ ParseError(file) = IF version.major = CurrentMajor THEN "none"
                                            ELSE "unsupported_format_version"
                      /\ Parsed(file).major = version.major
                      /\ Parsed(file).minor = version.minor
    BY DEF VersionsReadBack
  <2>1. /\ written \in Seq(Byte) /\ Len(written) = PreambleSize /\ file \in Seq(Byte)
        /\ SubSeq(written, 1, Len(Magic)) = Magic
        /\ Parsed(written).major = version.major /\ Parsed(written).minor = version.minor
        /\ ChecksumFits(written)
    BY Encoded DEF IInv
  <2>2. PreambleSize <= Len(file) /\ SubSeq(file, 1, PreambleSize) = written
    <3>1. SubSeq(written, 1, Len(written)) = written
      BY <2>1, SubSeqFull
    <3> QED
      BY <2>1, <3>1 DEF IsIntact, IsPrefix
  <2>3. /\ Parsed(written) = Parsed(file) /\ ChecksumFits(file)
        /\ SubSeq(file, 1, Len(Magic)) = Magic
    BY <2>1, <2>2, SameParse
  <2>4. IsPrefix(Magic, file)
    <3>1. SubSeq(Magic, 1, Len(Magic)) = Magic /\ Len(Magic) <= PreambleSize
      BY Sizes, PreambleAssumption, SubSeqFull
    <3>2. Len(file) \in Nat
      BY <2>1
    <3> QED
      BY <2>2, <2>3, <3>1, <3>2, Sizes DEF IsPrefix
  <2>5. Len(file) \in Nat /\ ~(Len(file) < PreambleSize)
    BY <2>1, <2>2, Sizes
  <2> QED
    BY <2>1, <2>3, <2>4, <2>5, ParseErrorIs DEF IsCurrent
<1> QED
  BY <1>1, InvariantHolds, PTL

\* A preamble hit by a burst has a checksum that does not fit.
LEMMA BurstIsSeen ==
  ASSUME NEW v \in Versions, NEW burst \in Bursts, NEW bytes,
         bytes = LittleEndian(Xor(FromLittleEndian(Encode(v)), burst), PreambleSize)
  PROVE  ~ChecksumFits(bytes)
<1> DEFINE W == FromLittleEndian(Encode(v))
           F == Xor(W, burst)
           m == ByteBits * Covered
<1>1. /\ Encode(v) \in Seq(Byte) /\ Len(Encode(v)) = PreambleSize /\ ChecksumFits(Encode(v))
  BY Encoded
<1>2. /\ burst # {} /\ burst \subseteq 0..(PreambleSize * ByteBits - 1)
      /\ \E i \in 0..(PreambleSize * ByteBits - 1) : burst \subseteq i..(i + CrcBits - 1)
  BY DEF Bursts
<1>3. /\ PreambleSize \in Nat /\ PreambleSize * ByteBits = ByteBits * PreambleSize
      /\ ByteBits * PreambleSize \in Nat
  BY Sizes, ByteAssumption, TimesByte
<1>4. W \in Numbers /\ W \subseteq 0..(ByteBits * PreambleSize - 1)
  BY <1>1, FromLittleEndianType, FromLittleEndianFits
<1>5. burst \in Numbers
  BY <1>2 DEF Numbers
<1> HIDE DEF W
<1>6. F \subseteq 0..(ByteBits * PreambleSize - 1) /\ F \in Numbers
  <2>1. F \subseteq 0..(ByteBits * PreambleSize - 1)
    BY <1>2, <1>3, <1>4 DEF Xor, SymDiff
  <2> QED
    BY <1>4, <1>5, XorType, <2>1
<1>7. bytes = LittleEndian(F, PreambleSize)
  BY DEF W
<1> HIDE DEF F
<1>8. bytes \in Seq(Byte) /\ Len(bytes) = PreambleSize /\ FromLittleEndian(bytes) = F
  <2>1. bytes \in Seq(Byte) /\ Len(bytes) = PreambleSize
    BY <1>3, <1>6, <1>7, LittleEndianType
  <2>2. FromLittleEndian(LittleEndian(F, PreambleSize)) = F
    BY <1>3, <1>6, LittleEndianRoundTrip
  <2> QED
    BY <1>7, <2>1, <2>2
<1>9. /\ SubSeq(bytes, 1, PreambleSize) = bytes
      /\ SubSeq(Encode(v), 1, PreambleSize) = Encode(v)
  BY <1>1, <1>8, SubSeqFull
<1>10. m \in Nat /\ Framing \in Numbers
  <2>1. m \in Nat
    BY Sizes, TimesByte
  <2>2. ShiftLeft(Ones, m) \in Numbers
    <3> HIDE DEF m
    <3> QED
      BY <2>1, OnesType DEF ShiftLeft, Numbers
  <2> QED
    BY <2>1, <2>2, OnesType, XorType DEF Framing
<1>11. Divide(Xor(W, Framing), m) = {}
  <2>1. PreambleSize <= Len(Encode(v))
    BY <1>1, <1>3
  <2>2. ChecksumFits(Encode(v)) <=>
          Divide(Xor(FromLittleEndian(SubSeq(Encode(v), 1, PreambleSize)), Framing), m) = {}
    BY <1>1, <2>1, FitsIff
  <2> QED
    BY <1>1, <1>9, <2>2 DEF W
<1>12. Xor(F, Framing) = Xor(Xor(W, Framing), burst)
  BY DEF Xor, SymDiff, F
<1>13. Divide(Xor(F, Framing), m) = Divide(burst, m)
  <2>1. Divide(Xor(F, Framing), m) = Xor(Divide(Xor(W, Framing), m), Divide(burst, m))
    BY <1>4, <1>5, <1>10, <1>12, XorType, DivideXor
  <2> QED
    BY <1>11, <2>1 DEF Xor, SymDiff
<1>14. Divide(burst, m) # {}
  <2>1. PICK i \in Nat : burst \subseteq i..(i + CrcBits - 1)
    BY <1>2
  <2> HIDE DEF m
  <2> QED
    BY <1>2, <1>10, <2>1, BurstRemains
<1>15. PreambleSize <= Len(bytes)
  BY <1>3, <1>8
<1>16. ChecksumFits(bytes) <=>
         Divide(Xor(FromLittleEndian(SubSeq(bytes, 1, PreambleSize)), Framing), m) = {}
  BY <1>8, <1>15, FitsIff
<1> QED
  BY <1>8, <1>9, <1>13, <1>14, <1>16

\* A preamble that was cut off or hit by a burst of bits no longer than a
\* checksum is named as such by parse_file_preamble.
THEOREM DamageAlwaysNamed == Spec => []DamageIsNamed
<1>1. IInv => DamageIsNamed
  <2> SUFFICES ASSUME IInv, ~IsIntact
               PROVE  IF Len(file) < PreambleSize THEN ParseError(file) = "unexpected_end"
                      ELSE ParseError(file) \in {"invalid_magic", "checksum_mismatch"}
    BY DEF DamageIsNamed
  <2>1. Len(file) \in Nat /\ version \in Versions /\ written = Encode(version)
    BY DEF IInv
  <2>2. Len(file) < PreambleSize => ParseError(file) = "unexpected_end"
    BY <2>1, ParseErrorIs
  <2>3. ASSUME ~(Len(file) < PreambleSize)
        PROVE  ParseError(file) \in {"invalid_magic", "checksum_mismatch"}
    <3>1. PICK burst \in Bursts :
            file = LittleEndian(Xor(FromLittleEndian(written), burst), PreambleSize)
      BY <2>3 DEF IInv, FaultKnown
    <3>2. ~ChecksumFits(file)
      BY <2>1, <3>1, BurstIsSeen
    <3> QED
      BY <2>1, <2>3, <3>2, ParseErrorIs
  <2> QED
    BY <2>2, <2>3
<1> QED
  BY <1>1, InvariantHolds, PTL

=============================================================================
