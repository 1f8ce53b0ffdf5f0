---------------------------- MODULE CommonLemmas ----------------------------
(***************************************************************************)
(* Lemmas the proofs about several modules share: least members of sets of *)
(* natural numbers and steps taken one after the other, what a list of     *)
(* checks answers (Checks), what a logical type is (LogicalTypes), and     *)
(* that valid_utf8 accepts exactly the texts the Unicode standard does     *)
(* (Utf8).                                                                 *)
(***************************************************************************)
EXTENDS LogicalTypes, Utf8, SequenceTheorems, WellFoundedInduction, TLAPS

\* Every set of natural numbers that is not empty has a least member.
LEMMA LeastExists ==
  ASSUME NEW T, T \subseteq Nat, T # {}
  PROVE  \E n \in T : \A m \in T : n <= m
<1> DEFINE R == {ss \in Nat \X Nat : ss[1] < ss[2]}
<1>1. IsWellFoundedOn(R, Nat)
  BY NatLessThanWellFounded, Zenon DEF OpToRel
<1>2. \A m, n \in T : <<m, n>> \notin R => n <= m
  OBVIOUS
<1> HIDE DEF R
<1>3. \E n \in T : \A m \in T : <<m, n>> \notin R
  BY <1>1, WFMin
<1> QED
  BY <1>2, <1>3

\* Min of the community modules is that least member.
LEMMA MinIsLeast ==
  ASSUME NEW T, T \subseteq Nat, T # {}
  PROVE  Min(T) \in T /\ \A m \in T : Min(T) <= m
<1>1. \E n \in T : \A m \in T : n =< m
  BY LeastExists
<1> QED
  BY <1>1 DEF Min

\* Induction over a number, for a set of numbers given beforehand.
LEMMA AllOfThem ==
  ASSUME NEW T, NEW n, n \in Nat, 0 \in T, \A i \in 1..n : i - 1 \in T => i \in T
  PROVE  0..n \subseteq T
<1> DEFINE U == (0..n) \ T
<1> SUFFICES ASSUME U # {} PROVE FALSE
  OBVIOUS
<1>1. U \subseteq Nat
  OBVIOUS
<1>2. PICK i \in U : \A j \in U : i <= j
  <2> HIDE DEF U
  <2> QED
    BY <1>1, LeastExists
<1>3. i \in 1..n /\ i - 1 \in 0..n /\ ~(i <= i - 1)
  BY <1>2
<1>4. i - 1 \in T
  BY <1>2, <1>3
<1> QED
  BY <1>2, <1>3, <1>4

\* n steps from a base, one after the other
Path(f, base, n, step) == f[0] = base /\ \A i \in 1..n : f[i] = step[i][f[i - 1]]

\* A sequence of steps can be taken one after the other.
LEMMA PathExists ==
  ASSUME NEW V, NEW base, NEW n, NEW step,
         base \in V, n \in Nat, step \in [1..n -> [V -> V]]
  PROVE  \E f \in [0..n -> V] : Path(f, base, n, step)
<1> DEFINE T == {m \in 0..n : \E f \in [0..m -> V] : Path(f, base, m, step)}
<1>1. 0 \in T
  <2> DEFINE f == [i \in 0..0 |-> base]
  <2>1. f \in [0..0 -> V] /\ Path(f, base, 0, step)
    BY DEF Path
  <2>2. 0 \in 0..n
    OBVIOUS
  <2> QED
    BY <2>1, <2>2
<1>2. ASSUME NEW m \in 1..n, m - 1 \in T
      PROVE  m \in T
  <2>1. PICK f \in [0..(m - 1) -> V] : Path(f, base, m - 1, step)
    BY <1>2
  <2> DEFINE g == [i \in 0..m |-> IF i = m THEN step[m][f[m - 1]] ELSE f[i]]
  <2>2. f[m - 1] \in V /\ step[m] \in [V -> V]
    OBVIOUS
  <2>3. g \in [0..m -> V]
    <3>1. ASSUME NEW i \in 0..m
          PROVE  (IF i = m THEN step[m][f[m - 1]] ELSE f[i]) \in V
      <4>1. CASE i = m
        BY <2>2, <4>1
      <4>2. CASE i # m
        <5>1. i \in 0..(m - 1)
          BY <4>2
        <5> QED
          BY <4>2, <5>1
      <4> QED
        BY <4>1, <4>2
    <3> QED
      BY <3>1
  <2>4. g[0] = base
    BY <2>1 DEF Path
  <2>5. ASSUME NEW i \in 1..m
        PROVE  g[i] = step[i][g[i - 1]]
    <3>1. CASE i = m
      <4>1. g[i - 1] = f[m - 1] /\ g[i] = step[m][f[m - 1]]
        BY <3>1
      <4> QED
        BY <3>1, <4>1
    <3>2. CASE i # m
      <4>1. i \in 1..(m - 1) /\ i \in 0..m /\ i - 1 \in 0..m /\ i - 1 # m
        BY <3>2
      <4>2. g[i - 1] = f[i - 1] /\ g[i] = f[i]
        BY <3>2, <4>1
      <4> QED
        BY <2>1, <4>1, <4>2 DEF Path
    <3> QED
      BY <3>1, <3>2
  <2>6. Path(g, base, m, step)
    <3> HIDE DEF g
    <3> QED
      BY <2>4, <2>5 DEF Path
  <2> HIDE DEF g
  <2> QED
    BY <2>3, <2>6
<1> HIDE DEF T
<1>3. 0..n \subseteq T
  BY <1>1, <1>2, AllOfThem
<1>4. n \in T
  BY <1>3
<1> QED
  BY <1>4 DEF T

\* A list of checks passes exactly if none of them fails.
LEMMA FirstErrorNone ==
  ASSUME NEW checks, Len(checks) \in Nat,
         \A i \in 1..Len(checks) : checks[i].fails => checks[i].error # "none"
  PROVE  (FirstError(checks) = "none") <=> \A i \in 1..Len(checks) : ~checks[i].fails
<1> DEFINE I == {i \in 1..Len(checks) : checks[i].fails}
<1>1. SelectInSeq(checks, LAMBDA c : c.fails) = IF I # {} THEN Min(I) ELSE 0
  BY DEF SelectInSeq
<1>2. I \subseteq Nat /\ 0 \notin I
  OBVIOUS
<1>3. I # {} => Min(I) \in I
  BY <1>2, MinIsLeast
<1>4. CASE I = {}
  BY <1>1, <1>4 DEF FirstError
<1>5. CASE I # {}
  BY <1>1, <1>2, <1>3, <1>5 DEF FirstError
<1> QED
  BY <1>4, <1>5

\* checked_add on numbers of a word: a sum overflows exactly if it does not fit.
LEMMA SumFits ==
  ASSUME NEW a \in Nat, NEW b \in Nat
  PROVE  AddOverflows(a, b) <=> a + b > MaxWord
BY WordAssumption DEF AddOverflows

\* Every index before the least of a set of indices is outside the set.
LEMMA LeastIndex ==
  ASSUME NEW I, NEW L \in Nat, I \subseteq 1..L, NEW i \in I
  PROVE  /\ Min(I) \in I /\ Min(I) \in 1..i
         /\ \A k \in 1..(Min(I) - 1) : k \in 1..L /\ k \notin I
<1>1. I \subseteq Nat
  OBVIOUS
<1>2. PICK m \in I : m = Min(I) /\ \A k \in I : m <= k
  BY <1>1, MinIsLeast
<1>3. m \in 1..i /\ \A k \in 1..(m - 1) : k \in 1..L /\ k \notin I
  BY <1>2
<1> QED
  BY <1>2, <1>3

\* If a check fails, the error of the list is that of a failing check with none
\* failing before it, as the early returns of the code have it.
LEMMA FirstErrorFails ==
  ASSUME NEW checks, Len(checks) \in Nat,
         NEW i \in 1..Len(checks), checks[i].fails
  PROVE  \E j \in 1..i : /\ checks[j].fails
                         /\ FirstError(checks) = checks[j].error
                         /\ \A k \in 1..(j - 1) : ~checks[k].fails
<1> DEFINE I == {k \in 1..Len(checks) : checks[k].fails}
<1>1. i \in I /\ I \subseteq 1..Len(checks)
  OBVIOUS
<1>2. SelectInSeq(checks, LAMBDA c : c.fails) = Min(I)
  BY <1>1 DEF SelectInSeq
<1>3. /\ Min(I) \in I /\ Min(I) \in 1..i
      /\ \A k \in 1..(Min(I) - 1) : k \in 1..Len(checks) /\ k \notin I
  BY <1>1, LeastIndex
<1>4. FirstError(checks) = checks[Min(I)].error
  BY <1>2, <1>3 DEF FirstError
<1> QED
  BY <1>3, <1>4

\* If two lists of checks pass one after the other, each passes.
LEMMA BothPass ==
  ASSUME NEW S, NEW a \in Seq(S), NEW b \in Seq(S), \A c \in S : c.error # "none",
         FirstError(a \o b) = "none"
  PROVE  /\ \A i \in 1..Len(a) : ~a[i].fails
         /\ \A i \in 1..Len(b) : ~b[i].fails
<1>1. /\ a \o b \in Seq(S) /\ Len(a \o b) = Len(a) + Len(b)
      /\ Len(a) \in Nat /\ Len(b) \in Nat
      /\ \A i \in 1..Len(a) : (a \o b)[i] = a[i]
      /\ \A i \in 1..Len(b) : (a \o b)[Len(a) + i] = b[i]
  OBVIOUS
<1>2. \A i \in 1..Len(a \o b) : (a \o b)[i].error # "none"
  BY <1>1
<1>3. \A i \in 1..Len(a \o b) : ~(a \o b)[i].fails
  <2>1. Len(a \o b) \in Nat
    BY <1>1
  <2> QED
    BY <1>2, <2>1, FirstErrorNone
<1>4. \A i \in 1..Len(a) : i \in 1..Len(a \o b)
  BY <1>1
<1>5. \A i \in 1..Len(b) : Len(a) + i \in 1..Len(a \o b)
  BY <1>1
<1> QED
  BY <1>1, <1>3, <1>4, <1>5

\* A concatenation of lists of checks passes exactly if all of them pass.
LEMMA ConcatPasses ==
  ASSUME NEW S, NEW a \in Seq(S), NEW b \in Seq(S), \A c \in S : c.error # "none"
  PROVE  FirstError(a \o b) = "none" <=> FirstError(a) = "none" /\ FirstError(b) = "none"
<1>1. /\ a \o b \in Seq(S) /\ Len(a \o b) = Len(a) + Len(b)
      /\ Len(a) \in Nat /\ Len(b) \in Nat
      /\ \A i \in 1..Len(a) : (a \o b)[i] = a[i]
      /\ \A i \in 1..Len(b) : (a \o b)[Len(a) + i] = b[i]
  OBVIOUS
<1>2. \A s \in Seq(S) : Len(s) \in Nat /\ \A i \in 1..Len(s) : s[i].error # "none"
  OBVIOUS
<1>3. \A s \in Seq(S) : FirstError(s) = "none" <=> \A i \in 1..Len(s) : ~s[i].fails
  BY <1>2, FirstErrorNone
<1>4. ASSUME FirstError(a \o b) = "none"
      PROVE  FirstError(a) = "none" /\ FirstError(b) = "none"
  BY <1>3, <1>4, BothPass
<1>5. ASSUME FirstError(a) = "none", FirstError(b) = "none"
      PROVE  FirstError(a \o b) = "none"
  <2> SUFFICES ASSUME NEW i \in 1..Len(a \o b) PROVE ~(a \o b)[i].fails
    BY <1>1, <1>3
  <2>1. CASE i \in 1..Len(a)
    BY <1>1, <1>3, <1>5, <2>1
  <2>2. CASE i \notin 1..Len(a)
    <3>1. i - Len(a) \in 1..Len(b) /\ Len(a) + (i - Len(a)) = i
      BY <1>1, <2>2
    <3>2. (a \o b)[i] = b[i - Len(a)]
      BY <1>1, <3>1
    <3> QED
      BY <1>3, <1>5, <3>1, <3>2
  <2> QED
    BY <2>1, <2>2
<1> QED
  BY <1>4, <1>5

\* A list of two, of four and of six checks passes exactly if none of them fails.
LEMMA TwoPass ==
  ASSUME NEW a, NEW b, a.fails => a.error # "none", b.fails => b.error # "none"
  PROVE  FirstError(<<a, b>>) = "none" <=> ~a.fails /\ ~b.fails
<1> DEFINE s == <<a, b>>
<1>1. Len(s) = 2 /\ s[1] = a /\ s[2] = b
  OBVIOUS
<1> HIDE DEF s
<1>2. Len(s) \in Nat /\ \A i \in 1..Len(s) : s[i].fails => s[i].error # "none"
  BY <1>1
<1>3. (FirstError(s) = "none") <=> \A i \in 1..Len(s) : ~s[i].fails
  BY <1>2, FirstErrorNone
<1>4. (\A i \in 1..Len(s) : ~s[i].fails) <=> ~a.fails /\ ~b.fails
  BY <1>1
<1> QED
  BY <1>3, <1>4 DEF s

\* Four checks pass together exactly if each does.
LEMMA FourPass ==
  ASSUME NEW a, NEW b, NEW c, NEW d,
         a.fails => a.error # "none", b.fails => b.error # "none",
         c.fails => c.error # "none", d.fails => d.error # "none"
  PROVE  FirstError(<<a, b, c, d>>) = "none" <=> ~a.fails /\ ~b.fails /\ ~c.fails /\ ~d.fails
<1> DEFINE s == <<a, b, c, d>>
<1>1. Len(s) = 4 /\ s[1] = a /\ s[2] = b /\ s[3] = c /\ s[4] = d
  OBVIOUS
<1> HIDE DEF s
<1>2. Len(s) \in Nat /\ \A i \in 1..Len(s) : s[i].fails => s[i].error # "none"
  BY <1>1
<1>3. (FirstError(s) = "none") <=> \A i \in 1..Len(s) : ~s[i].fails
  BY <1>2, FirstErrorNone
<1>4. (\A i \in 1..Len(s) : ~s[i].fails) <=> ~a.fails /\ ~b.fails /\ ~c.fails /\ ~d.fails
  BY <1>1
<1> QED
  BY <1>3, <1>4 DEF s

\* Six checks pass together exactly if each does.
LEMMA SixPass ==
  ASSUME NEW a, NEW b, NEW c, NEW d, NEW e, NEW f,
         \A x \in {a, b, c, d, e, f} : x.error # "none"
  PROVE  FirstError(<<a, b, c, d, e, f>>) = "none"
           <=> ~a.fails /\ ~b.fails /\ ~c.fails /\ ~d.fails /\ ~e.fails /\ ~f.fails
<1> DEFINE s == <<a, b, c, d, e, f>>
<1>1. Len(s) = 6 /\ s[1] = a /\ s[2] = b /\ s[3] = c /\ s[4] = d /\ s[5] = e /\ s[6] = f
  OBVIOUS
<1> HIDE DEF s
<1>2. Len(s) \in Nat /\ \A i \in 1..Len(s) : s[i].fails => s[i].error # "none"
  BY <1>1
<1>3. (FirstError(s) = "none") <=> \A i \in 1..Len(s) : ~s[i].fails
  BY <1>2, FirstErrorNone
<1>4. (\A i \in 1..Len(s) : ~s[i].fails)
        <=> ~a.fails /\ ~b.fails /\ ~c.fails /\ ~d.fails /\ ~e.fails /\ ~f.fails
  BY <1>1
<1> QED
  BY <1>3, <1>4 DEF s

\* Division of natural numbers with a remainder.
LEMMA DivMod ==
  ASSUME NEW a \in Nat, NEW b \in Nat \ {0}
  PROVE  /\ a \div b \in Nat /\ a % b \in 0..(b - 1)
         /\ (a \div b) * b + (a % b) = a
OBVIOUS

\* Between a multiple of b and the next there is no other.
LEMMA MultiplesApart ==
  ASSUME NEW b \in Nat \ {0}, NEW p \in Nat, NEW q \in Nat, p < q
  PROVE  p * b + b <= q * b
<1>1. PICK d \in Nat : q = p + 1 + d
  <2>1. q - (p + 1) \in Nat /\ q = p + 1 + (q - (p + 1))
    OBVIOUS
  <2> QED
    BY <2>1
<1>2. q * b = p * b + b + d * b /\ d * b \in Nat /\ p * b \in Nat
  BY <1>1
<1> QED
  BY <1>2

\* checked_multiply on numbers of a word: a product overflows exactly if it
\* does not fit.
LEMMA ProductFits ==
  ASSUME NEW a \in Nat, NEW b \in Nat
  PROVE  MultiplyOverflows(a, b) <=> a * b > MaxWord
<1>1. CASE a = 0
  BY <1>1, WordAssumption DEF MultiplyOverflows
<1>2. CASE a # 0
  <2>1. PICK q \in Nat, r \in 0..(a - 1) : q = MaxWord \div a /\ q * a + r = MaxWord
    BY <1>2, WordAssumption, DivMod
  <2>2. b > q => a * b > MaxWord
    <3> SUFFICES ASSUME q < b PROVE a * b > MaxWord
      OBVIOUS
    <3>1. q * a + a <= b * a
      BY <1>2, MultiplesApart
    <3>2. b * a = a * b /\ q * a \in Nat /\ a * b \in Nat
      OBVIOUS
    <3> QED
      BY <2>1, <3>1, <3>2
  <2>3. b <= q => a * b <= MaxWord
    <3> SUFFICES ASSUME b <= q PROVE a * b <= MaxWord
      OBVIOUS
    <3>1. b = q \/ b * a + a <= q * a
      BY <1>2, MultiplesApart
    <3>2. b * a = a * b /\ q * a \in Nat /\ a * b \in Nat
      OBVIOUS
    <3> QED
      BY <2>1, <3>1, <3>2
  <2>4. MultiplyOverflows(a, b) <=> b > q
    BY <1>2, <2>1 DEF MultiplyOverflows
  <2>5. b > q \/ b <= q
    OBVIOUS
  <2>6. a * b \in Nat
    OBVIOUS
  <2> QED
    BY <2>2, <2>3, <2>4, <2>5, <2>6, WordAssumption
<1> QED
  BY <1>1, <1>2

\* FlattenSeq of a sequence that is not empty is the last of its partial
\* concatenations.
LEMMA FlattenUnfolds ==
  ASSUME NEW n, NEW seqs, NEW S, NEW f0,
         n \in Nat \ {0}, Len(seqs) = n, f0 \in [1..n -> S],
         f0[1] = seqs[1], \A i \in 2..n : f0[i] = f0[i - 1] \o seqs[i]
  PROVE  FlattenSeq(seqs) = f0[n]
<1> DEFINE flatten[i \in 1..n] == IF i = 1 THEN seqs[i] ELSE flatten[i - 1] \o seqs[i]
<1>1. FlattenSeq(seqs) = flatten[n]
  BY DEF FlattenSeq
<1> DEFINE e == [i \in 1..n |-> IF i = 1 THEN seqs[i] ELSE f0[i - 1] \o seqs[i]]
<1>7. \A i \in 1..n : f0[i] = IF i = 1 THEN seqs[i] ELSE f0[i - 1] \o seqs[i]
  <2> SUFFICES ASSUME NEW i \in 1..n
               PROVE  f0[i] = IF i = 1 THEN seqs[i] ELSE f0[i - 1] \o seqs[i]
    OBVIOUS
  <2>1. CASE i = 1
    BY <2>1
  <2>2. CASE i \in 2..n
    BY <2>2
  <2> QED
    BY <2>1, <2>2
<1>6. f0 = e
  <2>1. f0 = [i \in 1..n |-> f0[i]]
    OBVIOUS
  <2>2. [i \in 1..n |-> f0[i]] = e
    BY <1>7
  <2> QED
    BY <2>1, <2>2, Zenon
<1>2. flatten = CHOOSE f : f = [i \in 1..n |-> IF i = 1 THEN seqs[i] ELSE f[i - 1] \o seqs[i]]
  OBVIOUS
<1>3. PICK f : /\ f = [i \in 1..n |-> IF i = 1 THEN seqs[i] ELSE f[i - 1] \o seqs[i]]
               /\ FlattenSeq(seqs) = f[n]
  BY <1>1, <1>2, <1>6
<1> HIDE DEF flatten, e
<1> DEFINE T == {i \in 1..n : f[i] # f0[i]}
<1>4. T = {}
  <2> SUFFICES ASSUME T # {} PROVE FALSE
    OBVIOUS
  <2>1. PICK i \in T : \A j \in T : i <= j
    <3>1. T \subseteq Nat
      OBVIOUS
    <3> HIDE DEF T
    <3> QED
      BY <3>1, LeastExists
  <2>2. i \in 1..n /\ f[i] # f0[i]
    BY <2>1
  <2>3. i # 1 => i - 1 \in 1..n /\ f[i - 1] = f0[i - 1]
    <3> SUFFICES ASSUME i # 1 PROVE i - 1 \in 1..n /\ f[i - 1] = f0[i - 1]
      OBVIOUS
    <3>1. i - 1 \in 1..n /\ ~(i <= i - 1)
      BY <2>2
    <3>2. i - 1 \notin T
      BY <2>1, <3>1
    <3> QED
      BY <3>1, <3>2
  <2>4. f[i] = IF i = 1 THEN seqs[i] ELSE f[i - 1] \o seqs[i]
    BY <1>3, <2>2
  <2>5. f0[i] = IF i = 1 THEN seqs[i] ELSE f0[i - 1] \o seqs[i]
    BY <1>7, <2>2
  <2> QED
    BY <2>2, <2>3, <2>4, <2>5
<1>5. n \in 1..n
  OBVIOUS
<1> QED
  BY <1>3, <1>4, <1>5

-----------------------------------------------------------------------------
(* Logical types.                                                          *)

\* A type create() let through has a kind of the list and the parameters of
\* that kind.
LEMMA CreatedIsValid ==
  ASSUME NEW kind, NEW p, CreateError(kind, p) = "none"
  PROVE  kind \in ToSet(Kinds) /\ ValidParameters(kind, p)
<1> DEFINE checks == <<Check(kind \notin ToSet(Kinds),   "invalid_schema"),
                       Check(~ValidParameters(kind, p),  "invalid_schema")>>
<1>1. FirstError(checks) = "none"
  BY DEF CreateError
<1>2. Len(checks) \in Nat /\ Len(checks) = 2
  OBVIOUS
<1>3. /\ checks[1].fails <=> kind \notin ToSet(Kinds)
      /\ checks[2].fails <=> ~ValidParameters(kind, p)
  BY DEF Check
<1>4. \A i \in 1..Len(checks) : checks[i].error # "none"
  BY DEF Check
<1> HIDE DEF checks
<1>5. \A i \in 1..Len(checks) : ~checks[i].fails
  BY <1>1, <1>2, <1>4, FirstErrorNone
<1>6. ~checks[1].fails /\ ~checks[2].fails
  BY <1>2, <1>5
<1> QED
  BY <1>3, <1>6

\* The kinds of logical types, as a set.
LEMMA KindsListed ==
  ToSet(Kinds) =
    {"boolean", "int8", "int16", "int32", "int64", "uint8", "uint16", "uint32",
     "uint64", "float32", "float64", "decimal", "date", "time", "timestamp",
     "duration", "string", "binary", "fixed_binary", "uuid"}
<1>1. Len(Kinds) = 20 /\ DOMAIN Kinds = 1..20
  BY DEF Kinds
<1>2. 1..20 = {1, 2, 3, 4, 5, 6, 7, 8, 9, 10, 11, 12, 13, 14, 15, 16, 17, 18, 19, 20}
  OBVIOUS
<1> QED
  BY <1>1, <1>2 DEF ToSet, Kinds

\* The values of a type have no width exactly if they are bits or spans.
LEMMA WidthlessTypes ==
  ASSUME NEW type, CreateError(type.kind, type.parameters) = "none"
  PROVE  (FixedWidthBytes(type) = 0) <=> (IsVariableWidth(type) \/ type.kind = "boolean")
<1>1. type.kind \in ToSet(Kinds) /\ ValidParameters(type.kind, type.parameters)
  BY CreatedIsValid
<1>2. CASE type.kind = "fixed_binary"
  <2>1. type.parameters.alternative = "fixed_binary"
    BY <1>1, <1>2 DEF ValidParameters, AlternativeOf
  <2>2. type.parameters.numbers[1] # 0
    BY <1>1, <2>1 DEF ValidParameters
  <2> QED
    BY <1>2, <2>2 DEF IsVariableWidth, FixedWidthBytes
<1>3. CASE type.kind \in {"boolean", "string", "binary"}
  BY <1>3 DEF IsVariableWidth, FixedWidthBytes
<1>4. CASE type.kind \in {"int8", "int16", "int32", "int64", "uint8", "uint16", "uint32",
                          "uint64", "float32", "float64", "decimal", "date", "time",
                          "timestamp", "duration", "uuid"}
  BY <1>4 DEF IsVariableWidth, FixedWidthBytes
<1> QED
  BY <1>1, <1>2, <1>3, <1>4, KindsListed

-----------------------------------------------------------------------------
(* UTF-8.                                                                  *)

\* A byte of a form lies in its range.
LEMMA FormsOfOne ==
  ASSUME NEW s, NEW A
  PROVE  (Len(<<A>>) = Len(s) /\ \A k \in DOMAIN <<A>> : s[k] \in <<A>>[k])
           <=> (Len(s) = 1 /\ s[1] \in A)
OBVIOUS

\* The same of two bytes,
LEMMA FormsOfTwo ==
  ASSUME NEW s, NEW A, NEW B
  PROVE  (Len(<<A, B>>) = Len(s) /\ \A k \in DOMAIN <<A, B>> : s[k] \in <<A, B>>[k])
           <=> (Len(s) = 2 /\ s[1] \in A /\ s[2] \in B)
OBVIOUS

\* of three,
LEMMA FormsOfThree ==
  ASSUME NEW s, NEW A, NEW B, NEW C
  PROVE  (Len(<<A, B, C>>) = Len(s) /\ \A k \in DOMAIN <<A, B, C>> : s[k] \in <<A, B, C>>[k])
           <=> (Len(s) = 3 /\ s[1] \in A /\ s[2] \in B /\ s[3] \in C)
OBVIOUS

\* and of four.
LEMMA FormsOfFour ==
  ASSUME NEW s, NEW A, NEW B, NEW C, NEW D
  PROVE  (Len(<<A, B, C, D>>) = Len(s)
            /\ \A k \in DOMAIN <<A, B, C, D>> : s[k] \in <<A, B, C, D>>[k])
           <=> (Len(s) = 4 /\ s[1] \in A /\ s[2] \in B /\ s[3] \in C /\ s[4] \in D)
OBVIOUS

Legal(c) == c <= 1114111 /\ c \notin 55296..57343

\* The code points of one byte are legal.
LEMMA OneByte ==
  ASSUME NEW a \in 0..127
  PROVE  Legal(a)
BY SMTT(30) DEF Legal

Fits(form, s) == Len(form) = Len(s) /\ \A k \in DOMAIN form : s[k] \in form[k]

\* What a character of the standard is, form by form.
LEMMA OneCharacter ==
  ASSUME NEW s
  PROVE  IsOneCharacter(s) <=>
           \/ Len(s) = 1 /\ s[1] \in 0..127
           \/ Len(s) = 2 /\ s[1] \in 194..223 /\ s[2] \in Trail
           \/ /\ Len(s) = 3 /\ s[3] \in Trail
              /\ \/ s[1] \in {224} /\ s[2] \in 160..191
                 \/ s[1] \in 225..236 /\ s[2] \in Trail
                 \/ s[1] \in {237} /\ s[2] \in 128..159
                 \/ s[1] \in 238..239 /\ s[2] \in Trail
           \/ /\ Len(s) = 4 /\ s[3] \in Trail /\ s[4] \in Trail
              /\ \/ s[1] \in {240} /\ s[2] \in 144..191
                 \/ s[1] \in 241..243 /\ s[2] \in Trail
                 \/ s[1] \in {244} /\ s[2] \in 128..143
<1>1. IsOneCharacter(s) <=> \E form \in WellFormedSequences : Fits(form, s)
  BY DEF IsOneCharacter, Fits
<1>2. (\E form \in WellFormedSequences : Fits(form, s)) <=>
        \/ Fits(<<0..127>>, s)
        \/ Fits(<<194..223, Trail>>, s)
        \/ Fits(<<{224}, 160..191, Trail>>, s)
        \/ Fits(<<225..236, Trail, Trail>>, s)
        \/ Fits(<<{237}, 128..159, Trail>>, s)
        \/ Fits(<<238..239, Trail, Trail>>, s)
        \/ Fits(<<{240}, 144..191, Trail, Trail>>, s)
        \/ Fits(<<241..243, Trail, Trail, Trail>>, s)
        \/ Fits(<<{244}, 128..143, Trail, Trail>>, s)
  <2> DEFINE a == <<0..127>>
             b == <<194..223, Trail>>
             c == <<{224}, 160..191, Trail>>
             d == <<225..236, Trail, Trail>>
             e == <<{237}, 128..159, Trail>>
             f == <<238..239, Trail, Trail>>
             g == <<{240}, 144..191, Trail, Trail>>
             h == <<241..243, Trail, Trail, Trail>>
             i == <<{244}, 128..143, Trail, Trail>>
  <2>1. WellFormedSequences = {a, b, c, d, e, f, g, h, i}
    BY SMT DEF WellFormedSequences
  <2> HIDE DEF a, b, c, d, e, f, g, h, i
  <2>2. (\E form \in WellFormedSequences : Fits(form, s)) <=>
           \/ Fits(a, s) \/ Fits(b, s) \/ Fits(c, s) \/ Fits(d, s) \/ Fits(e, s)
           \/ Fits(f, s) \/ Fits(g, s) \/ Fits(h, s) \/ Fits(i, s)
    BY <2>1
  <2> QED
    BY <2>2, SMT DEF a, b, c, d, e, f, g, h, i
<1>3. \A A : Fits(<<A>>, s) <=> Len(s) = 1 /\ s[1] \in A
  BY FormsOfOne, Zenon DEF Fits
<1>6. \A A, B : Fits(<<A, B>>, s) <=> Len(s) = 2 /\ s[1] \in A /\ s[2] \in B
  BY FormsOfTwo, Zenon DEF Fits
<1>4. \A A, B : Fits(<<A, B, Trail>>, s) <=>
                 Len(s) = 3 /\ s[1] \in A /\ s[2] \in B /\ s[3] \in Trail
  BY FormsOfThree, Zenon DEF Fits
<1>5. \A A, B : Fits(<<A, B, Trail, Trail>>, s) <=>
                 Len(s) = 4 /\ s[1] \in A /\ s[2] \in B /\ s[3] \in Trail /\ s[4] \in Trail
  BY FormsOfFour, ZenonT(40) DEF Fits
<1> QED
  BY <1>1, <1>2, <1>3, <1>4, <1>5, <1>6, SMTT(30)

\* s holds the bytes i to e of t.
Slice(t, i, e, s) == Len(s) = e - i + 1 /\ \A k \in 1..(e - i + 1) : s[k] = t[i + k - 1]

\* A part of a text is a slice of it.
LEMMA SliceOf ==
  ASSUME NEW S, NEW t \in Seq(S), NEW i \in 1..Len(t), NEW e \in i..Len(t)
  PROVE  Slice(t, i, e, SubSeq(t, i, e))
<1>1. \A k \in i..e : t[k] \in S
  OBVIOUS
<1> QED
  BY <1>1, SubSeqProperties DEF Slice

Octet == 0..255

\* The bytes by how many of a sequence they start, and those that start none
LeadOne   == 0..127
LeadTwo   == 192..223
LeadThree == 224..239
LeadFour  == 240..247
NoLead    == (128..191) \cup (248..255)

\* The first byte tells how many there are.
LEMMA FirstByte ==
  ASSUME NEW x \in Octet
  PROVE  /\ x \in LeadOne   => SequenceBytes(x) = 1
         /\ x \in LeadTwo => SequenceBytes(x) = 2
         /\ x \in LeadThree => SequenceBytes(x) = 3
         /\ x \in LeadFour => SequenceBytes(x) = 4
         /\ x \in NoLead   => SequenceBytes(x) = 0
BY SMTT(30) DEF SequenceBytes, Octet, LeadOne, LeadTwo, LeadThree, LeadFour, NoLead

\* That number is one.
LEMMA FirstByteCounts ==
  ASSUME NEW x \in Octet
  PROVE  SequenceBytes(x) \in Nat
BY SMT DEF SequenceBytes, Octet

\* The first byte of two, and the first two bytes of three and of four, that a
\* character may have
StartsTwo(a) == a \in 194..223

StartsThree(a, b) ==
  \/ a = 224 /\ b \in 160..191
  \/ a \in 225..236
  \/ a = 237 /\ b \in 128..159
  \/ a \in 238..239

StartsFour(a, b) ==
  \/ a = 240 /\ b \in 144..191
  \/ a \in 241..243
  \/ a = 244 /\ b \in 128..143

\* What the bytes of a sequence spell, and whether they may
OfTwo(a, b)         == (a - 192) * 64 + (b - 128)
OfThree(a, b, c)    == (a - 224) * 4096 + (b - 128) * 64 + (c - 128)
OfFour(a, b, c, d)  == (a - 240) * 262144 + (b - 128) * 4096 + (c - 128) * 64 + (d - 128)

Spells(codepoint, least) == ~(codepoint < least) /\ Legal(codepoint)

\* The number two bytes spell is neither overlong nor illegal exactly if the
\* first byte is in the range the standard gives it,
LEMMA TwoBytes ==
  ASSUME NEW a \in LeadTwo, NEW b \in Trail
  PROVE  Spells(OfTwo(a, b), 128) <=> StartsTwo(a)
BY SMT DEF Legal, Spells, OfTwo, Trail, LeadTwo, StartsTwo

\* that of three bytes exactly if the first two are in theirs,
LEMMA ThreeBytes ==
  ASSUME NEW a \in LeadThree, NEW b \in Trail, NEW c \in Trail
  PROVE  Spells(OfThree(a, b, c), 2048) <=> StartsThree(a, b)
BY SMT DEF Legal, Spells, OfThree, Trail, LeadThree, StartsThree

\* and so is that of four.
LEMMA FourBytes ==
  ASSUME NEW a \in LeadFour, NEW b \in Trail, NEW c \in Trail, NEW d \in Trail
  PROVE  Spells(OfFour(a, b, c, d), 65536) <=> StartsFour(a, b)
BY SMT DEF Legal, Spells, OfFour, Trail, LeadFour, StartsFour

\* The number the validator reads, for each number of bytes.
LEMMA CodepointOf ==
  ASSUME NEW t, NEW i
  PROVE  /\ Codepoint(t, i, 1) = t[i]
         /\ Codepoint(t, i, 2) = OfTwo(t[i], t[i + 1])
         /\ Codepoint(t, i, 3) = OfThree(t[i], t[i + 1], t[i + 2])
         /\ Codepoint(t, i, 4) = OfFour(t[i], t[i + 1], t[i + 2], t[i + 3])
BY SMT DEF Codepoint, OfTwo, OfThree, OfFour

\* A byte that leads nothing is refused.
LEMMA NoSequence ==
  ASSUME NEW t, NEW i
  PROVE  ~ValidSequence(t, i, 0)
BY SMT DEF ValidSequence

\* One byte is a sequence of its own.
LEMMA SequenceOfOne ==
  ASSUME NEW t, NEW i \in Nat, Len(t) \in Nat, i <= Len(t), t[i] \in LeadOne
  PROVE  ValidSequence(t, i, 1)
<1>1. Codepoint(t, i, 1) = t[i]
  BY CodepointOf
<1>2. ValidSequence(t, i, 1) <=> Legal(Codepoint(t, i, 1))
  BY SMT DEF ValidSequence, Legal, Overlong
<1> QED
  BY <1>1, <1>2, OneByte DEF LeadOne

\* What valid_utf8 asks of two bytes,
LEMMA SequenceOfTwo ==
  ASSUME NEW t, NEW i \in Nat, Len(t) \in Nat, t[i] \in LeadTwo
  PROVE  ValidSequence(t, i, 2) <=>
           i + 1 <= Len(t) /\ t[i + 1] \in Trail /\ StartsTwo(t[i])
<1>1. ValidSequence(t, i, 2) <=>
        i + 1 <= Len(t) /\ t[i + 1] \in Trail /\ Spells(Codepoint(t, i, 2), 128)
  BY SMT DEF ValidSequence, Legal, Overlong, IsContinuation, Spells, Trail
<1>2. ASSUME t[i + 1] \in Trail
      PROVE  Spells(Codepoint(t, i, 2), 128) <=> StartsTwo(t[i])
  <2>1. Codepoint(t, i, 2) = OfTwo(t[i], t[i + 1])
    BY CodepointOf, SMT
  <2>2. Spells(OfTwo(t[i], t[i + 1]), 128) <=> StartsTwo(t[i])
    BY <1>2, TwoBytes, Zenon
  <2> QED
    BY <2>1, <2>2
<1> QED
  BY <1>1, <1>2

\* of three,
LEMMA SequenceOfThree ==
  ASSUME NEW t, NEW i \in Nat, Len(t) \in Nat, t[i] \in LeadThree
  PROVE  ValidSequence(t, i, 3) <=>
           /\ i + 2 <= Len(t) /\ t[i + 1] \in Trail /\ t[i + 2] \in Trail
           /\ StartsThree(t[i], t[i + 1])
<1>1. ValidSequence(t, i, 3) <=>
        /\ i + 2 <= Len(t) /\ t[i + 1] \in Trail /\ t[i + 2] \in Trail
        /\ Spells(Codepoint(t, i, 3), 2048)
  BY SMT DEF ValidSequence, Legal, Overlong, IsContinuation, Spells, Trail
<1>2. ASSUME t[i + 1] \in Trail, t[i + 2] \in Trail
      PROVE  Spells(Codepoint(t, i, 3), 2048) <=> StartsThree(t[i], t[i + 1])
  <2>1. Codepoint(t, i, 3) = OfThree(t[i], t[i + 1], t[i + 2])
    BY CodepointOf, SMT
  <2>2. Spells(OfThree(t[i], t[i + 1], t[i + 2]), 2048) <=> StartsThree(t[i], t[i + 1])
    BY <1>2, ThreeBytes, SMT
  <2> QED
    BY <2>1, <2>2
<1> QED
  BY <1>1, <1>2

\* and of four.
LEMMA SequenceOfFour ==
  ASSUME NEW t, NEW i \in Nat, Len(t) \in Nat, t[i] \in LeadFour
  PROVE  ValidSequence(t, i, 4) <=>
           /\ i + 3 <= Len(t)
           /\ t[i + 1] \in Trail /\ t[i + 2] \in Trail /\ t[i + 3] \in Trail
           /\ StartsFour(t[i], t[i + 1])
<1>1. ValidSequence(t, i, 4) <=>
        /\ i + 3 <= Len(t)
        /\ t[i + 1] \in Trail /\ t[i + 2] \in Trail /\ t[i + 3] \in Trail
        /\ Spells(Codepoint(t, i, 4), 65536)
  BY SMT DEF ValidSequence, Legal, Overlong, IsContinuation, Spells, Trail
<1>2. ASSUME t[i + 1] \in Trail, t[i + 2] \in Trail, t[i + 3] \in Trail
      PROVE  Spells(Codepoint(t, i, 4), 65536) <=> StartsFour(t[i], t[i + 1])
  <2>1. Codepoint(t, i, 4) = OfFour(t[i], t[i + 1], t[i + 2], t[i + 3])
    BY CodepointOf, SMT
  <2>2. Spells(OfFour(t[i], t[i + 1], t[i + 2], t[i + 3]), 65536) <=> StartsFour(t[i], t[i + 1])
    BY <1>2, FourBytes, SMT
  <2> QED
    BY <2>1, <2>2
<1> QED
  BY <1>1, <1>2

\* What IsOneCharacter asks of the bytes a, b, c and d from i on, if the
\* character ends at e.
CharacterAt(i, e, a, b, c, d) ==
  \/ e = i /\ a \in LeadOne
  \/ e = i + 1 /\ StartsTwo(a) /\ b \in Trail
  \/ e = i + 2 /\ b \in Trail /\ c \in Trail /\ StartsThree(a, b)
  \/ e = i + 3 /\ b \in Trail /\ c \in Trail /\ d \in Trail /\ StartsFour(a, b)

\* Whether a slice is a character depends on its length and at most four bytes.
LEMMA CharacterFrom ==
  ASSUME NEW t, NEW i \in Nat, NEW e \in Nat, i <= e, NEW s, Slice(t, i, e, s)
  PROVE  IsOneCharacter(s) <=> CharacterAt(i, e, t[i], t[i + 1], t[i + 2], t[i + 3])
<1>1. /\ Len(s) = 1 <=> e = i
      /\ Len(s) = 2 <=> e = i + 1
      /\ Len(s) = 3 <=> e = i + 2
      /\ Len(s) = 4 <=> e = i + 3
  BY DEF Slice
<1>2. /\ s[1] = t[i]
      /\ e = i + 1 => s[2] = t[i + 1]
      /\ e = i + 2 => s[2] = t[i + 1] /\ s[3] = t[i + 2]
      /\ e = i + 3 => s[2] = t[i + 1] /\ s[3] = t[i + 2] /\ s[4] = t[i + 3]
  BY DEF Slice
<1>3. PICK a, b, c, d : a = t[i] /\ b = t[i + 1] /\ c = t[i + 2] /\ d = t[i + 3]
  OBVIOUS
<1>4. IsOneCharacter(s) <=>
           \/ e = i /\ a \in 0..127
           \/ e = i + 1 /\ a \in 194..223 /\ b \in Trail
           \/ /\ e = i + 2 /\ c \in Trail
              /\ \/ a \in {224} /\ b \in 160..191
                 \/ a \in 225..236 /\ b \in Trail
                 \/ a \in {237} /\ b \in 128..159
                 \/ a \in 238..239 /\ b \in Trail
           \/ /\ e = i + 3 /\ c \in Trail /\ d \in Trail
              /\ \/ a \in {240} /\ b \in 144..191
                 \/ a \in 241..243 /\ b \in Trail
                 \/ a \in {244} /\ b \in 128..143
  <2> USE <1>3
  <2>1. CASE e = i
    BY <1>1, <1>2, <2>1, OneCharacter
  <2>2. CASE e = i + 1
    BY <1>1, <1>2, <2>2, OneCharacter
  <2>3. CASE e = i + 2
    BY <1>1, <1>2, <2>3, OneCharacter
  <2>4. CASE e = i + 3
    BY <1>1, <1>2, <2>4, OneCharacter
  <2>5. CASE e # i /\ e # i + 1 /\ e # i + 2 /\ e # i + 3
    BY <1>1, <2>5, OneCharacter
  <2> QED
    BY <2>1, <2>2, <2>3, <2>4, <2>5
<1>5. /\ a \in {224} /\ b \in 160..191 <=> b \in Trail /\ a = 224 /\ b \in 160..191
      /\ a \in {237} /\ b \in 128..159 <=> b \in Trail /\ a = 237 /\ b \in 128..159
      /\ a \in {240} /\ b \in 144..191 <=> b \in Trail /\ a = 240 /\ b \in 144..191
      /\ a \in {244} /\ b \in 128..143 <=> b \in Trail /\ a = 244 /\ b \in 128..143
  BY DEF Trail
<1>6. IsOneCharacter(s) <=>
           \/ e = i /\ a \in 0..127
           \/ e = i + 1 /\ a \in 194..223 /\ b \in Trail
           \/ /\ e = i + 2 /\ b \in Trail /\ c \in Trail
              /\ \/ a = 224 /\ b \in 160..191
                 \/ a \in 225..236
                 \/ a = 237 /\ b \in 128..159
                 \/ a \in 238..239
           \/ /\ e = i + 3 /\ b \in Trail /\ c \in Trail /\ d \in Trail
              /\ \/ a = 240 /\ b \in 144..191
                 \/ a \in 241..243
                 \/ a = 244 /\ b \in 128..143
  <2> HIDE <1>3
  <2> QED
    BY <1>4, <1>5
<1>7. IsOneCharacter(s) <=> CharacterAt(i, e, a, b, c, d)
  <2> HIDE <1>3
  <2> QED
    BY <1>6 DEF CharacterAt, LeadOne, StartsTwo, StartsThree, StartsFour
<1> QED
  BY <1>3, <1>7

\* The characters that begin with a byte of one kind: those of one byte,
LEMMA LeadsOne ==
  ASSUME NEW i, NEW e, NEW a, a \in LeadOne, NEW b, NEW c, NEW d
  PROVE  CharacterAt(i, e, a, b, c, d) <=> e = i
<1>1. ~StartsTwo(a)
  BY SMT DEF LeadOne, LeadTwo, LeadThree, LeadFour, NoLead, StartsTwo
<1>2. ~StartsThree(a, b)
  BY SMT DEF StartsThree, LeadOne, LeadTwo, LeadThree, LeadFour, NoLead, StartsTwo
<1>3. ~StartsFour(a, b)
  BY SMT DEF StartsFour, LeadOne, LeadTwo, LeadThree, LeadFour, NoLead, StartsTwo
<1> QED
  BY <1>1, <1>2, <1>3, Zenon DEF CharacterAt

\* of two,
LEMMA LeadsTwo ==
  ASSUME NEW i, NEW e, NEW a, a \in LeadTwo, NEW b, NEW c, NEW d
  PROVE  CharacterAt(i, e, a, b, c, d) <=> e = i + 1 /\ StartsTwo(a) /\ b \in Trail
<1>1. a \notin LeadOne
  BY SMT DEF LeadOne, LeadTwo, LeadThree, LeadFour, NoLead, StartsTwo
<1>2. ~StartsThree(a, b)
  BY SMT DEF StartsThree, LeadOne, LeadTwo, LeadThree, LeadFour, NoLead, StartsTwo
<1>3. ~StartsFour(a, b)
  BY SMT DEF StartsFour, LeadOne, LeadTwo, LeadThree, LeadFour, NoLead, StartsTwo
<1> QED
  BY <1>1, <1>2, <1>3, Zenon DEF CharacterAt

\* of three,
LEMMA LeadsThree ==
  ASSUME NEW i, NEW e, NEW a, a \in LeadThree, NEW b, NEW c, NEW d
  PROVE  CharacterAt(i, e, a, b, c, d) <=>
           e = i + 2 /\ b \in Trail /\ c \in Trail /\ StartsThree(a, b)
<1>1. a \notin LeadOne
  BY SMT DEF LeadOne, LeadTwo, LeadThree, LeadFour, NoLead, StartsTwo
<1>2. ~StartsTwo(a)
  BY SMT DEF LeadOne, LeadTwo, LeadThree, LeadFour, NoLead, StartsTwo
<1>3. ~StartsFour(a, b)
  BY SMT DEF StartsFour, LeadOne, LeadTwo, LeadThree, LeadFour, NoLead, StartsTwo
<1> QED
  BY <1>1, <1>2, <1>3, Zenon DEF CharacterAt

\* of four,
LEMMA LeadsFour ==
  ASSUME NEW i, NEW e, NEW a, a \in LeadFour, NEW b, NEW c, NEW d
  PROVE  CharacterAt(i, e, a, b, c, d) <=>
           e = i + 3 /\ b \in Trail /\ c \in Trail /\ d \in Trail /\ StartsFour(a, b)
<1>1. a \notin LeadOne
  BY SMT DEF LeadOne, LeadTwo, LeadThree, LeadFour, NoLead, StartsTwo
<1>2. ~StartsTwo(a)
  BY SMT DEF LeadOne, LeadTwo, LeadThree, LeadFour, NoLead, StartsTwo
<1>3. ~StartsThree(a, b)
  BY SMT DEF StartsThree, LeadOne, LeadTwo, LeadThree, LeadFour, NoLead, StartsTwo
<1> QED
  BY <1>1, <1>2, <1>3, Zenon DEF CharacterAt

\* and none.
LEMMA LeadsNone ==
  ASSUME NEW i, NEW e, NEW a, a \in NoLead, NEW b, NEW c, NEW d
  PROVE  ~CharacterAt(i, e, a, b, c, d)
<1>1. a \notin LeadOne
  BY SMT DEF LeadOne, LeadTwo, LeadThree, LeadFour, NoLead, StartsTwo
<1>2. ~StartsTwo(a)
  BY SMT DEF LeadOne, LeadTwo, LeadThree, LeadFour, NoLead, StartsTwo
<1>3. ~StartsThree(a, b)
  BY SMT DEF StartsThree, LeadOne, LeadTwo, LeadThree, LeadFour, NoLead, StartsTwo
<1>4. ~StartsFour(a, b)
  BY SMT DEF StartsFour, LeadOne, LeadTwo, LeadThree, LeadFour, NoLead, StartsTwo
<1> QED
  BY <1>1, <1>2, <1>3, <1>4, Zenon DEF CharacterAt

\* A character is what validFrom takes from the text in one step.
LEMMA OneSequence ==
  ASSUME NEW t, NEW i \in Nat, NEW e \in Nat, Len(t) \in Nat, 1 <= i, i <= e, e <= Len(t),
         t[i] \in Octet
  PROVE  CharacterAt(i, e, t[i], t[i + 1], t[i + 2], t[i + 3]) <=>
           /\ e = i + SequenceBytes(t[i]) - 1
           /\ ValidSequence(t, i, SequenceBytes(t[i]))
<1> DEFINE n == SequenceBytes(t[i])
           Character == CharacterAt(i, e, t[i], t[i + 1], t[i + 2], t[i + 3])
<1> HIDE DEF n, Character
<1> SUFFICES Character <=> e = i + n - 1 /\ ValidSequence(t, i, n)
  BY DEF n, Character
<1>4. CASE t[i] \in LeadOne
  <2>1. n = 1
    BY <1>4, FirstByte DEF n
  <2>2. Character <=> e = i
    BY <1>4, LeadsOne, SMT DEF Character
  <2>3. ValidSequence(t, i, 1)
    BY <1>4, SequenceOfOne
  <2> QED
    BY <2>1, <2>2, <2>3
<1>5. CASE t[i] \in LeadTwo
  <2>1. n = 2
    BY <1>5, FirstByte DEF n
  <2>2. Character <=> e = i + 1 /\ StartsTwo(t[i]) /\ t[i + 1] \in Trail
    BY <1>5, LeadsTwo, Zenon DEF Character
  <2>3. ValidSequence(t, i, 2) <=>
          i + 1 <= Len(t) /\ t[i + 1] \in Trail /\ StartsTwo(t[i])
    BY <1>5, SequenceOfTwo, Zenon
  <2> QED
    BY <2>1, <2>2, <2>3
<1>6. CASE t[i] \in LeadThree
  <2>1. n = 3
    BY <1>6, FirstByte DEF n
  <2>2. Character <=>
          /\ e = i + 2 /\ t[i + 1] \in Trail /\ t[i + 2] \in Trail
          /\ StartsThree(t[i], t[i + 1])
    BY <1>6, LeadsThree, Zenon DEF Character
  <2>3. ValidSequence(t, i, 3) <=>
          /\ i + 2 <= Len(t) /\ t[i + 1] \in Trail /\ t[i + 2] \in Trail
          /\ StartsThree(t[i], t[i + 1])
    BY <1>6, SequenceOfThree, Zenon
  <2> QED
    BY <2>1, <2>2, <2>3
<1>7. CASE t[i] \in LeadFour
  <2>1. n = 4
    BY <1>7, FirstByte DEF n
  <2>2. Character <=>
          /\ e = i + 3
          /\ t[i + 1] \in Trail /\ t[i + 2] \in Trail /\ t[i + 3] \in Trail
          /\ StartsFour(t[i], t[i + 1])
    BY <1>7, LeadsFour, Zenon DEF Character
  <2>3. ValidSequence(t, i, 4) <=>
          /\ i + 3 <= Len(t)
          /\ t[i + 1] \in Trail /\ t[i + 2] \in Trail /\ t[i + 3] \in Trail
          /\ StartsFour(t[i], t[i + 1])
    BY <1>7, SequenceOfFour, Zenon
  <2> QED
    BY <2>1, <2>2, <2>3
<1>8. CASE t[i] \in NoLead
  <2>1. n = 0
    BY <1>8, FirstByte DEF n
  <2>2. ~Character
    BY <1>8, LeadsNone, Zenon DEF Character
  <2> QED
    BY <2>1, <2>2, NoSequence
<1> QED
  BY <1>4, <1>5, <1>6, <1>7, <1>8 DEF Octet, LeadOne, LeadTwo, LeadThree, LeadFour, NoLead

\* The bytes from i to e of a text are one character exactly if validFrom steps
\* from i to e + 1.
LEMMA CharacterStep ==
  ASSUME NEW t \in Seq(Octet), NEW i \in 1..Len(t), NEW e \in i..Len(t)
  PROVE  IsOneCharacter(SubSeq(t, i, e)) <=>
           e + 1 = i + SequenceBytes(t[i]) /\ ValidSequence(t, i, SequenceBytes(t[i]))
<1>1. t[i] \in Octet /\ Len(t) \in Nat /\ i \in Nat /\ e \in Nat /\ 1 <= i /\ i <= e /\ e <= Len(t)
  OBVIOUS
<1>2. PICK s : s = SubSeq(t, i, e) /\ Slice(t, i, e, s)
  BY SliceOf
<1>3. SequenceBytes(t[i]) \in Nat
  BY <1>1, FirstByteCounts
<1>4. IsOneCharacter(s) <=> CharacterAt(i, e, t[i], t[i + 1], t[i + 2], t[i + 3])
  BY <1>1, <1>2, CharacterFrom, Zenon
<1>5. CharacterAt(i, e, t[i], t[i + 1], t[i + 2], t[i + 3]) <=>
           e = i + SequenceBytes(t[i]) - 1 /\ ValidSequence(t, i, SequenceBytes(t[i]))
  BY ONLY <1>1, OneSequence
<1>6. e = i + SequenceBytes(t[i]) - 1 <=> e + 1 = i + SequenceBytes(t[i])
  <2>1. PICK n \in Nat : n = SequenceBytes(t[i])
    BY <1>3
  <2>2. e = i + n - 1 <=> e + 1 = i + n
    OBVIOUS
  <2> QED
    BY <2>1, <2>2
<1> QED
  BY <1>2, <1>4, <1>5, <1>6, Zenon

\* d is the cut before the cut e, where the cuts start at i.
Follows(ends, i, d, e) ==
  /\ d \in ends \cup {i - 1} /\ d < e
  /\ \A b \in ends : b < e => b <= d

\* The cuts split what a text has from i on into characters.
Splits(t, i, ends) ==
  /\ i <= Len(t) => Len(t) \in ends
  /\ \A e \in ends, d \in Nat : Follows(ends, i, d, e) => IsOneCharacter(SubSeq(t, d + 1, e))

Splittable(t, i) == \E ends \in SUBSET (i..Len(t)) : Splits(t, i, ends)

\* Cuts of a text lose their first character by losing their least cut.
LEMMA DropCharacter ==
  ASSUME NEW t, Len(t) \in Nat, NEW i \in 1..Len(t),
         NEW ends \in SUBSET (i..Len(t)), Splits(t, i, ends)
  PROVE  \E m \in i..Len(t) : IsOneCharacter(SubSeq(t, i, m)) /\ Splittable(t, m + 1)
<1>1. ends \subseteq Nat /\ ends # {} /\ Len(t) \in ends
  BY DEF Splits
<1>2. PICK m \in ends : \A e \in ends : m <= e
  BY <1>1, LeastExists
<1>3. m \in i..Len(t) /\ m \in Nat
  BY <1>2
<1>4. IsOneCharacter(SubSeq(t, i, m))
  <2>1. i - 1 \in Nat /\ i - 1 + 1 = i
    OBVIOUS
  <2>2. Follows(ends, i, i - 1, m)
    BY <1>2, <1>3 DEF Follows
  <2> QED
    BY <2>1, <2>2, <1>2 DEF Splits
<1> DEFINE rest == ends \ {m}
<1>5. rest \in SUBSET ((m + 1)..Len(t))
  BY <1>2, <1>3
<1>6. m + 1 <= Len(t) => Len(t) \in rest
  BY <1>1, <1>3
<1>7. ASSUME NEW e \in rest, NEW d \in Nat, Follows(rest, m + 1, d, e)
      PROVE  Follows(ends, i, d, e)
  <2>1. d \in ends /\ d < e /\ m <= d
    BY <1>2, <1>3, <1>5, <1>7 DEF Follows
  <2>2. ASSUME NEW b \in ends, b < e  PROVE  b <= d
    BY <2>1, <2>2, <1>7 DEF Follows
  <2> QED
    BY <2>1, <2>2 DEF Follows
<1>8. Splits(t, m + 1, rest)
  <2>1. \A e \in rest, d \in Nat :
          Follows(rest, m + 1, d, e) => IsOneCharacter(SubSeq(t, d + 1, e))
    BY <1>7, Zenon DEF Splits
  <2> QED
    BY <1>6, <2>1, Zenon DEF Splits
<1> QED
  BY <1>3, <1>4, <1>5, <1>8, Zenon DEF Splittable

\* A character before what can be split can be split off.
LEMMA AddCharacter ==
  ASSUME NEW t, Len(t) \in Nat, NEW i \in 1..Len(t), NEW m \in i..Len(t),
         IsOneCharacter(SubSeq(t, i, m)), Splittable(t, m + 1)
  PROVE  Splittable(t, i)
<1>1. PICK rest \in SUBSET ((m + 1)..Len(t)) : Splits(t, m + 1, rest)
  BY DEF Splittable
<1> DEFINE ends == rest \cup {m}
<1>2. ends \in SUBSET (i..Len(t)) /\ i - 1 \notin rest /\ m \notin rest
  OBVIOUS
<1>3. Len(t) \in ends
  BY <1>1 DEF Splits
<1>4. ASSUME NEW e \in ends, NEW d \in Nat, Follows(ends, i, d, e)
      PROVE  IsOneCharacter(SubSeq(t, d + 1, e))
  <2>1. CASE e = m
    <3>1. d = i - 1
      BY <1>2, <1>4, <2>1 DEF Follows
    <3> QED
      BY <2>1, <3>1
  <2>2. CASE e \in rest
    <3>1. m < e
      BY <2>2
    <3>2. m <= d
      BY <1>4, <3>1 DEF Follows
    <3>3. d \in rest \cup {m}
      BY <1>4, <3>2 DEF Follows
    <3>4. Follows(rest, m + 1, d, e)
      <4>1. m + 1 - 1 = m
        OBVIOUS
      <4>2. d < e /\ \A b \in ends : b < e => b <= d
        BY <1>4, Zenon DEF Follows
      <4>3. \A b \in rest : b < e => b <= d
        BY <4>2
      <4>4. d \in rest \cup {m + 1 - 1}
        BY <3>3, <4>1
      <4> QED
        BY <4>2, <4>3, <4>4 DEF Follows
    <3> QED
      BY <1>1, <2>2, <3>4, Zenon DEF Splits
  <2> QED
    BY <1>4, <2>1, <2>2
<1>5. Splits(t, i, ends)
  BY <1>3, <1>4, Zenon DEF Splits
<1> QED
  BY <1>2, <1>5, Zenon DEF Splittable

\* Splittable is the solution of the equation of validFrom.
LEMMA SplittableUnfolds ==
  ASSUME NEW t \in Seq(Octet), NEW i \in 1..Len(t)
  PROVE  Splittable(t, i) <=>
           /\ ValidSequence(t, i, SequenceBytes(t[i]))
           /\ i + SequenceBytes(t[i]) \in (i + 1)..(Len(t) + 1)
           /\ Splittable(t, i + SequenceBytes(t[i]))
<1> DEFINE n == SequenceBytes(t[i])
<1>1. Len(t) \in Nat /\ i \in Nat
  OBVIOUS
<1>2. ASSUME Splittable(t, i)
      PROVE  ValidSequence(t, i, n) /\ i + n \in (i + 1)..(Len(t) + 1) /\ Splittable(t, i + n)
  <2>1. PICK ends \in SUBSET (i..Len(t)) : Splits(t, i, ends)
    BY <1>2 DEF Splittable
  <2>2. PICK m \in i..Len(t) : IsOneCharacter(SubSeq(t, i, m)) /\ Splittable(t, m + 1)
    BY <1>1, <2>1, DropCharacter
  <2>3. m + 1 = i + n /\ ValidSequence(t, i, n)
    BY <2>2, CharacterStep
  <2>4. m + 1 \in (i + 1)..(Len(t) + 1)
    BY <1>1
  <2> QED
    BY <2>2, <2>3, <2>4, Zenon
<1>3. ASSUME ValidSequence(t, i, n), i + n \in (i + 1)..(Len(t) + 1), Splittable(t, i + n)
      PROVE  Splittable(t, i)
  <2> DEFINE j == i + n
             m == j - 1
  <2> HIDE DEF j, n
  <2>1. m \in i..Len(t) /\ m + 1 = j
    BY <1>1, <1>3 DEF j
  <2>2. IsOneCharacter(SubSeq(t, i, m))
    BY <1>3, <2>1, CharacterStep DEF j, n
  <2>3. Splittable(t, m + 1)
    BY <1>3, <2>1, Zenon DEF j
  <2> QED
    BY <1>1, <2>1, <2>2, <2>3, AddCharacter
<1> QED
  BY <1>2, <1>3, Zenon

\* The cut WellFormed takes as the one before e
CutBefore(ends, e) ==
  CHOOSE d \in {c \in ends : c < e} \cup {0} : \A b \in {c \in ends : c < e} \cup {0} : b <= d

\* There is a last cut before a cut, if only the beginning of the text.
LEMMA GreatestCut ==
  ASSUME NEW L \in Nat, NEW ends \in SUBSET (1..L), NEW e \in ends
  PROVE  \E d \in {c \in ends : c < e} \cup {0} : \A b \in {c \in ends : c < e} \cup {0} : b <= d
<1> DEFINE B == {c \in ends : c < e} \cup {0}
           T == {e - c : c \in B}
<1>1. e \in Nat /\ B \subseteq Nat /\ 0 \in B /\ \A c \in B : c < e
  <2>1. e \in Nat /\ 0 < e
    OBVIOUS
  <2>2. ASSUME NEW c \in B  PROVE  c \in Nat /\ c < e
    <3>1. CASE c = 0
      BY <2>1, <3>1
    <3>2. CASE c \in ends /\ c < e
      BY <3>2
    <3> QED
      BY <3>1, <3>2
  <2>3. 0 \in B
    OBVIOUS
  <2> HIDE DEF B
  <2> QED
    BY <2>1, <2>2, <2>3
<1> SUFFICES \E d \in B : \A b \in B : b <= d
  OBVIOUS
<1> HIDE DEF B
<1>2. T \subseteq Nat /\ T # {}
  BY <1>1
<1>3. PICK n \in T : \A m \in T : n <= m
  BY <1>2, LeastExists
<1>4. PICK c \in B : n = e - c
  BY <1>3
<1>5. ASSUME NEW b \in B PROVE b <= c
  <2>1. e - b \in T
    OBVIOUS
  <2>2. n <= e - b
    BY <1>3, <2>1
  <2> HIDE DEF T
  <2> QED
    BY <1>1, <1>4, <2>2
<1> QED
  BY <1>5

\* The cut that a cut follows is the last one before it.
LEMMA CutBeforeFollows ==
  ASSUME NEW L \in Nat, NEW ends \in SUBSET (1..L), NEW e \in ends, NEW d \in Nat
  PROVE  Follows(ends, 1, d, e) <=> d = CutBefore(ends, e)
<1> DEFINE B == {c \in ends : c < e} \cup {0}
<1>1. e \in Nat /\ B \subseteq Nat /\ 0 \in B /\ \A c \in B : c < e
  <2>1. e \in Nat /\ 0 < e
    OBVIOUS
  <2>2. ASSUME NEW c \in B  PROVE  c \in Nat /\ c < e
    <3>1. CASE c = 0
      BY <2>1, <3>1
    <3>2. CASE c \in ends /\ c < e
      BY <3>2
    <3> QED
      BY <3>1, <3>2
  <2>3. 0 \in B
    OBVIOUS
  <2> HIDE DEF B
  <2> QED
    BY <2>1, <2>2, <2>3
<1>2. Follows(ends, 1, d, e) <=> d \in B /\ \A b \in B : b <= d
  BY DEF Follows
<1>3. \E g \in B : \A b \in B : b <= g
  BY GreatestCut
<1>4. CutBefore(ends, e) \in B /\ \A b \in B : b <= CutBefore(ends, e)
  BY <1>3 DEF CutBefore
<1> HIDE DEF B
<1>5. CutBefore(ends, e) \in Nat
  BY <1>1, <1>4
<1>6. d \in B /\ (\A b \in B : b <= d) => d = CutBefore(ends, e)
  BY <1>1, <1>4, <1>5
<1> QED
  BY <1>2, <1>4, <1>6, Zenon

\* It is a number.
LEMMA CutBeforeNat ==
  ASSUME NEW L \in Nat, NEW ends \in SUBSET (1..L), NEW e \in ends
  PROVE  CutBefore(ends, e) \in Nat
<1>1. CutBefore(ends, e) \in {c \in ends : c < e} \cup {0}
  BY GreatestCut, Zenon DEF CutBefore
<1>2. {c \in ends : c < e} \cup {0} \subseteq Nat
  <2>1. \A c \in ends : c \in Nat
    OBVIOUS
  <2>2. 0 \in Nat
    OBVIOUS
  <2> QED
    BY ONLY <2>1, <2>2, Zenon
<1> QED
  BY <1>1, <1>2, Zenon

\* The standard's definition is that a text can be cut from its beginning.
LEMMA WellFormedSplits ==
  ASSUME NEW t \in Seq(Octet)
  PROVE  WellFormed(t) <=> Splittable(t, 1)
<1>1. Len(t) \in Nat /\ (t # <<>> <=> 1 <= Len(t))
  OBVIOUS
<1>2. WellFormed(t) <=>
        \E ends \in SUBSET (1..Len(t)) :
          /\ t # <<>> => Len(t) \in ends
          /\ \A e \in ends : IsOneCharacter(SubSeq(t, CutBefore(ends, e) + 1, e))
  BY Zenon DEF WellFormed, CutBefore
<1>3. ASSUME NEW ends \in SUBSET (1..Len(t)), NEW e \in ends
      PROVE  CutBefore(ends, e) \in Nat
  BY <1>1, CutBeforeNat, Zenon
<1>4. ASSUME NEW ends \in SUBSET (1..Len(t)), NEW e \in ends
      PROVE  IsOneCharacter(SubSeq(t, CutBefore(ends, e) + 1, e)) <=>
               \A d \in Nat : Follows(ends, 1, d, e) => IsOneCharacter(SubSeq(t, d + 1, e))
  BY <1>1, <1>3, CutBeforeFollows, Zenon
<1>5. ASSUME NEW ends \in SUBSET (1..Len(t))
      PROVE  Splits(t, 1, ends) <=>
               /\ t # <<>> => Len(t) \in ends
               /\ \A e \in ends : IsOneCharacter(SubSeq(t, CutBefore(ends, e) + 1, e))
  BY <1>1, <1>4, Zenon DEF Splits
<1> QED
  BY <1>2, <1>5, Zenon DEF Splittable

\* A valid sequence ends within the text.
LEMMA SequenceFits ==
  ASSUME NEW t, NEW i \in Nat, Len(t) \in Nat, NEW n \in Nat, ValidSequence(t, i, n)
  PROVE  i + n \in (i + 1)..(Len(t) + 1)
<1>1. n # 0 /\ i + n - 1 <= Len(t)
  BY SMT DEF ValidSequence
<1> QED
  BY <1>1

\* valid_utf8 takes exactly the sequences of bytes that the Unicode standard
\* calls well formed, whatever their length.
THEOREM Utf8Exact == \A t \in Seq(Octet) : ValidUtf8(t) <=> WellFormed(t)
<1> SUFFICES ASSUME NEW t \in Seq(Octet) PROVE ValidUtf8(t) <=> Splittable(t, 1)
  BY WellFormedSplits, Zenon
<1> DEFINE n(i)    == SequenceBytes(t[i])
           Step(f) == [i \in 1..(Len(t) + 1) |->
                         i = Len(t) + 1 \/ (ValidSequence(t, i, n(i)) /\ f[i + n(i)])]
           W       == [i \in 1..(Len(t) + 1) |-> Splittable(t, i)]
           valid   == CHOOSE f : f = Step(f)
<1>1. ValidUtf8(t) = valid[1]
  BY DEF ValidUtf8
<1>2. Len(t) \in Nat
  OBVIOUS
<1>3. Splittable(t, Len(t) + 1)
  <2>1. Splits(t, Len(t) + 1, {})
    BY <1>2 DEF Splits
  <2> QED
    BY <2>1 DEF Splittable
<1>4. ASSUME NEW i \in 1..Len(t)
      PROVE  /\ ValidSequence(t, i, n(i)) => i + n(i) \in (i + 1)..(Len(t) + 1)
             /\ Splittable(t, i) <=> ValidSequence(t, i, n(i)) /\ Splittable(t, i + n(i))
  <2>1. t[i] \in Octet
    OBVIOUS
  <2>2. n(i) \in Nat
    BY <2>1, FirstByteCounts
  <2>3. ValidSequence(t, i, n(i)) => i + n(i) \in (i + 1)..(Len(t) + 1)
    BY <1>2, <2>2, SequenceFits
  <2> QED
    BY <2>3, SplittableUnfolds, Zenon
<1>5. \A i \in 1..(Len(t) + 1) : i = Len(t) + 1 \/ i \in 1..Len(t)
  BY <1>2
<1>6. W = Step(W)
  <2> SUFFICES ASSUME NEW i \in 1..(Len(t) + 1)
               PROVE  Splittable(t, i) =
                        (i = Len(t) + 1 \/ (ValidSequence(t, i, n(i)) /\ W[i + n(i)]))
    BY Zenon
  <2>1. CASE i = Len(t) + 1
    BY <1>3, <2>1
  <2>2. CASE i \in 1..Len(t)
    <3>1. i # Len(t) + 1
      BY <1>2, <2>2
    <3>2. ValidSequence(t, i, n(i)) => W[i + n(i)] = Splittable(t, i + n(i))
      <4>1. ASSUME NEW j \in (i + 1)..(Len(t) + 1)  PROVE  W[j] = Splittable(t, j)
        BY <1>2, <2>2
      <4> QED
        BY <1>4, <2>2, <4>1, Zenon
    <3> HIDE DEF W, n
    <3>3. Splittable(t, i) <=> (ValidSequence(t, i, n(i)) /\ W[i + n(i)])
      BY <1>4, <2>2, <3>2, Zenon
    <3>4. Splittable(t, i) \in BOOLEAN
      BY Zenon DEF Splittable
    <3> QED
      BY <3>1, <3>3, <3>4, Zenon
  <2> QED
    BY <1>5, <2>1, <2>2
<1>7. valid = Step(valid)
  <2> HIDE DEF Step, W
  <2> QED
    BY <1>6, Zenon
<1> HIDE DEF valid, n
<1>8. \A i \in 1..(Len(t) + 1) :
        valid[i] = (i = Len(t) + 1 \/ (ValidSequence(t, i, n(i)) /\ valid[i + n(i)]))
  BY <1>7, Zenon
<1>9. valid[1] <=> Splittable(t, 1)
  <2> DEFINE Agree(i) == valid[i] <=> Splittable(t, i)
             T == {k \in Nat : k <= Len(t) /\ ~Agree(Len(t) + 1 - k)}
  <2>1. CASE T = {}
    <3>1. Len(t) \in Nat /\ Len(t) <= Len(t) /\ Len(t) + 1 - Len(t) = 1
      BY <1>2
    <3> QED
      BY <2>1, <3>1
  <2>2. CASE T # {}
    <3> HIDE DEF Agree
    <3>1. PICK k \in T : \A m \in T : k <= m
      <4>1. T \subseteq Nat
        OBVIOUS
      <4> HIDE DEF T
      <4> QED
        BY <2>2, <4>1, LeastExists
    <3>2. PICK i : i = Len(t) + 1 - k
      OBVIOUS
    <3>3. i \in 1..(Len(t) + 1) /\ ~Agree(i) /\ i \in Nat
      BY <1>2, <3>1, <3>2
    <3>4. \A j \in (i + 1)..(Len(t) + 1) : Agree(j)
      <4> SUFFICES ASSUME NEW j \in (i + 1)..(Len(t) + 1), ~Agree(j) PROVE FALSE
        OBVIOUS
      <4>1. Len(t) + 1 - j \in Nat /\ Len(t) + 1 - j <= Len(t) /\ Len(t) + 1 - j < k
        BY <1>2, <3>1, <3>2, <3>3
      <4>2. Len(t) + 1 - (Len(t) + 1 - j) = j
        BY <1>2, <3>3
      <4>3. Len(t) + 1 - j \in T
        BY <4>1, <4>2
      <4> QED
        BY <3>1, <4>1, <4>3
    <3>5. CASE i = Len(t) + 1
      BY <1>3, <1>8, <3>3, <3>5, Zenon DEF Agree
    <3>6. CASE i \in 1..Len(t)
      <4>1. i # Len(t) + 1
        BY <1>2, <3>6
      <4>2. valid[i] <=> ValidSequence(t, i, n(i)) /\ valid[i + n(i)]
        BY <1>8, <3>3, <4>1, Zenon
      <4>3. ValidSequence(t, i, n(i)) => (valid[i + n(i)] <=> Splittable(t, i + n(i)))
        BY <1>4, <3>4, <3>6, Zenon DEF Agree
      <4> QED
        BY <1>4, <3>3, <3>6, <4>2, <4>3, Zenon DEF Agree
    <3> QED
      BY <1>5, <3>3, <3>5, <3>6
  <2> QED
    BY <2>1, <2>2
<1> QED
  BY <1>1, <1>9

=============================================================================
