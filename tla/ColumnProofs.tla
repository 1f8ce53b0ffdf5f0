---------------------------- MODULE ColumnProofs ----------------------------
(***************************************************************************)
(* Proofs about columns, for every set of row counts, types, bitmaps,      *)
(* offsets, values, schemas and limits: of the builders that make them     *)
(* (ColumnBuilders), and of the blocks made of them (BlockBuilder).  What  *)
(* BlockAssumption asks of a block's columns beyond their buffers is what  *)
(* ColumnsWellFormed proves of every column a builder publishes.           *)
(***************************************************************************)
EXTENDS ColumnBuilders, BlockBuilder, CommonLemmas, FiniteSetTheorems

\* A Validity counts the rows its bitmap leaves out.
CountsNulls(v) == v.nulls = v.rows - Cardinality(v.bitmap.ones)

\* The bits a ValidityBuilder has set are those of the rows said to be valid.
BitsSaid == vb.ones = {r \in 0..(Len(vb.said) - 1) : vb.said[r + 1]}

\* What a ValidityBuilder gave away was built of every row, and it takes no
\* other.
OutBuilt ==
  vb.out # None => /\ vb.finished
                   /\ Len(vb.said) = vb.rows
                   /\ vb.out = FromBitmap(vb.rows, BuiltBitmap)

\* Only the components a storage calls for are ever set.
OnlyRequired ==
  \A c \in {"values", "offsets", "payload"} :
    cb.set[c] # None => c \in Required(cb.kind)

\* A validity set in a column builder counts its nulls.
SetCounted == cb.set.validity # None => CountsNulls(cb.set.validity)

BuildersIInv == /\ BuildersTypeOK
                /\ held # None => CountsNulls(held)
                /\ BitsSaid
                /\ OutBuilt
                /\ OnlyRequired
                /\ SetCounted
                /\ ColumnWellFormed

\* A set of row numbers below n has at most n members, and all of them are n.
LEMMA RowNumbers ==
  ASSUME NEW n \in Nat, NEW T, T \subseteq 0..(n - 1)
  PROVE  /\ IsFiniteSet(0..(n - 1)) /\ Cardinality(0..(n - 1)) = n
         /\ IsFiniteSet(T) /\ Cardinality(T) \in 0..n
<1> DEFINE m == n - 1
<1>1. 0 \in Int /\ m \in Int /\ (IF 0 > m THEN 0 ELSE m - 0 + 1) = n
  OBVIOUS
<1> HIDE DEF m
<1>2. IsFiniteSet(0..m) /\ Cardinality(0..m) = n
  BY <1>1, FS_Interval
<1>3. T \subseteq 0..m
  BY DEF m
<1>4. IsFiniteSet(T) /\ Cardinality(T) <= n
  BY <1>2, <1>3, FS_Subset
<1>5. Cardinality(T) \in Nat
  BY <1>4, FS_CardinalityType
<1>6. Cardinality(T) \in 0..n
  BY <1>4, <1>5
<1> QED
  BY <1>2, <1>4, <1>6 DEF m

\* Bit row % 8 of byte row / 8 is bit number row of the bitmap as a whole.
LEMMA BitOfRow == \A row \in Nat : BitOf(row) = row
BY StorageAssumption, DivMod DEF BitOf

\* from_bitmap succeeds exactly for a bitmap of the right size without a bit
\* past its rows.
LEMMA BitmapAccepted ==
  ASSUME NEW n, NEW bitmap, FromBitmapError(n, bitmap) = "none"
  PROVE  ~TooManyBits(n) /\ bitmap.size = BytesFor(n) /\ ~Padded(n, bitmap)
<1> DEFINE checks == <<
             Check(TooManyBits(n),             "arithmetic_overflow"),
             Check(bitmap.size # BytesFor(n),  "invalid_block"),
             Check(Padded(n, bitmap),          "invalid_block")>>
<1>1. FirstError(checks) = "none"
  BY DEF FromBitmapError
<1>2. Len(checks) \in Nat /\ Len(checks) = 3
  OBVIOUS
<1>3. /\ checks[1].fails <=> TooManyBits(n)
      /\ checks[2].fails <=> bitmap.size # BytesFor(n)
      /\ checks[3].fails <=> Padded(n, bitmap)
  BY DEF Check
<1>4. \A i \in 1..Len(checks) : checks[i].error # "none"
  BY DEF Check
<1> HIDE DEF checks
<1>5. \A i \in 1..Len(checks) : ~checks[i].fails
  BY <1>1, <1>2, <1>4, FirstErrorNone
<1>6. ~checks[1].fails /\ ~checks[2].fails /\ ~checks[3].fails
  BY <1>2, <1>5
<1> QED
  BY <1>3, <1>6

\* What from_bitmap makes of such a bitmap is a Validity whose count of
\* nulls is right.
LEMMA FromBitmapSound ==
  ASSUME NEW n \in Rows, NEW size, NEW ones, ones \subseteq Nat,
         FromBitmapError(n, [size |-> size, ones |-> ones]) = "none"
  PROVE  /\ FromBitmap(n, [size |-> size, ones |-> ones]) \in Validities
         /\ CountsNulls(FromBitmap(n, [size |-> size, ones |-> ones]))
<1> DEFINE bitmap == [size |-> size, ones |-> ones]
           v == FromBitmap(n, bitmap)
<1>1. n \in Nat
  BY ColumnAssumption
<1>2. size = BytesFor(n) /\ ones \subseteq 0..(n - 1)
  <2>1. bitmap.size = BytesFor(n) /\ ~Padded(n, bitmap)
    BY BitmapAccepted
  <2> QED
    BY <1>1, <2>1 DEF Padded
<1>4. Cardinality(ones) \in 0..n
  BY <1>1, <1>2, RowNumbers
<1>5. v = [rows |-> n, nulls |-> n - Cardinality(ones), bitmap |-> bitmap]
  BY DEF FromBitmap
<1>6. n - Cardinality(ones) \in 0..n
  BY <1>1, <1>4
<1>7. v \in [rows : {n}, nulls : 0..n,
             bitmap : [size : {BytesFor(n)}, ones : SUBSET (0..(n - 1))]]
  <2> DEFINE c == n - Cardinality(ones)
             B == 0..(n - 1)
             s == BytesFor(n)
  <2>1. c \in 0..n /\ size = s /\ ones \in SUBSET B
    BY <1>2, <1>6
  <2>2. v = [rows |-> n, nulls |-> c, bitmap |-> [size |-> size, ones |-> ones]]
    BY <1>5
  <2> HIDE DEF v, c, B, s
  <2>3. v \in [rows : {n}, nulls : 0..n, bitmap : [size : {s}, ones : SUBSET B]]
    BY <2>1, <2>2
  <2> QED
    BY <2>3 DEF B, s
<1>8. v \in Validities
  BY <1>7 DEF Validities
<1> QED
  BY <1>5, <1>8 DEF CountsNulls

\* The fields of a Validity in use.
LEMMA ValidityFields ==
  ASSUME NEW v \in Validities
  PROVE  /\ v.rows \in Rows /\ v.rows \in Nat
         /\ v.bitmap.ones \subseteq 0..(v.rows - 1)
BY ColumnAssumption DEF Validities

\* Such a Validity is one a column may publish.
LEMMA ValidityPublishable ==
  ASSUME NEW v \in Validities, CountsNulls(v)
  PROVE  PublishedValidity(v, v.rows)
<1>1. PICK r \in Rows :
        v \in [rows : {r}, nulls : 0..r,
               bitmap : [size : {BytesFor(r)}, ones : SUBSET (0..(r - 1))]]
  BY DEF Validities
<1>2. BytesFor(r) \in Nat
  <2>1. r + ByteBits - 1 \in Nat /\ ByteBits \in Nat \ {0}
    BY ColumnAssumption, StorageAssumption
  <2> QED
    BY <2>1, DivMod DEF BytesFor
<1>3. v.rows = r /\ v.bitmap.size = BytesFor(r) /\ v.bitmap.ones \subseteq 0..(r - 1)
  BY <1>1
<1> QED
  BY <1>2, <1>3 DEF PublishedValidity, CountsNulls

\* What the count of nulls counts is what is_valid() denies.
LEMMA CountIsExact ==
  ASSUME NEW v \in Validities, CountsNulls(v)
  PROVE  v.nulls = Cardinality({r \in 0..(v.rows - 1) : ~IsValid(v, r)})
<1> DEFINE all == 0..(v.rows - 1)
           ones == v.bitmap.ones
<1>1. v.rows \in Nat /\ ones \subseteq all
  BY ValidityFields
<1>2. IsFiniteSet(all) /\ Cardinality(all) = v.rows
  BY <1>1, RowNumbers
<1>3. {r \in all : ~IsValid(v, r)} = all \ ones
  BY <1>1 DEF IsValid
<1>4. Cardinality(all \ ones) = Cardinality(all) - Cardinality(all \cap ones)
  BY <1>2, FS_Difference
<1>5. all \cap ones = ones
  BY <1>1
<1> QED
  BY <1>2, <1>3, <1>4, <1>5 DEF CountsNulls

-----------------------------------------------------------------------------

\* New builders satisfy the invariant.
LEMMA BuildersInitIInv == BuildersInit => BuildersIInv
<1> SUFFICES ASSUME BuildersInit PROVE BuildersIInv
  OBVIOUS
<1>1. PICK r \in Rows : vb = ValidityBuilder(r)
  BY DEF BuildersInit
<1>2. PICK k \in StorageKinds, t \in Types, n \in Rows : cb = ColumnBuilder(k, t, n)
  BY DEF BuildersInit
<1>3. r \in Nat
  BY ColumnAssumption
<1>4. /\ vb.rows \in Rows /\ vb.said = <<>> /\ vb.ones = {}
      /\ vb.finished = FALSE /\ vb.out = None
  BY <1>1 DEF ValidityBuilder
<1>5. /\ cb.kind = k /\ cb.type = t /\ cb.rows = n
      /\ cb.finished = FALSE /\ cb.out = None
      /\ \A c \in Components : cb.set[c] = None
  BY <1>2 DEF ColumnBuilder
<1>6. /\ cb.set.validity = None /\ cb.set.values = None
      /\ cb.set.offsets = None /\ cb.set.payload = None
  BY <1>5 DEF Components
<1>7. vb.rows \in Nat /\ Len(vb.said) = 0 /\ vb.said \in Seq(BOOLEAN)
  <2>1. vb.rows \in Nat
    BY <1>4, ColumnAssumption
  <2>2. Len(<<>>) = 0 /\ <<>> \in Seq(BOOLEAN)
    OBVIOUS
  <2> QED
    BY <1>4, <2>1, <2>2
<1>8. BuildersTypeOK
  <2>1. vb \in [rows : Rows, said : Seq(BOOLEAN), ones : SUBSET Nat, finished : BOOLEAN,
                out : Optional(Validities)]
    BY <1>1, <1>7 DEF ValidityBuilder, Optional
  <2>2. cb.set = [validity |-> None, values |-> None, offsets |-> None, payload |-> None]
    BY <1>2 DEF ColumnBuilder, Components
  <2>3. cb = [kind |-> k, type |-> t, rows |-> n, set |-> cb.set, finished |-> FALSE,
              out |-> None]
    BY <1>2 DEF ColumnBuilder
  <2>4. cb.set \in [validity : Optional(Validities), values : Optional(Values),
                    offsets : Optional(Offsets), payload : Optional(Values)]
    BY <2>2 DEF Optional
  <2>5. vb.ones \subseteq 0..(vb.rows - 1) /\ Len(vb.said) <= vb.rows
    BY <1>4, <1>7
  <2>6. held \in Optional(Validities)
    BY DEF BuildersInit, Optional
  <2>7. cb \in [kind : StorageKinds, type : Types, rows : Rows, set : {cb.set},
                finished : BOOLEAN, out : Optional({cb.out})]
    BY <2>3, <1>5 DEF Optional
  <2> QED
    BY <2>1, <2>4, <2>5, <2>6, <2>7 DEF BuildersTypeOK
<1>9. BitsSaid
  <2>1. 0..(Len(vb.said) - 1) = {}
    BY <1>7
  <2> QED
    BY <2>1, <1>4 DEF BitsSaid
<1>10. OnlyRequired /\ SetCounted
  BY <1>6 DEF OnlyRequired, SetCounted
<1>11. held = None
  BY DEF BuildersInit
<1>12. OutBuilt /\ ColumnWellFormed
  BY <1>4, <1>5 DEF OutBuilt, ColumnWellFormed
<1> QED
  BY <1>8, <1>9, <1>10, <1>11, <1>12 DEF BuildersIInv

\* A ValidityBuilder that takes a row sets the bit of just that row.
LEMMA AppendRowIInv ==
  ASSUME BuildersIInv, NEW valid \in BOOLEAN, AppendRow(valid)
  PROVE  BuildersIInv'
<1> DEFINE n == Len(vb.said)
           ones == IF valid THEN vb.ones \cup {BitOf(n)} ELSE vb.ones
<1>1. /\ vb.rows \in Rows /\ vb.said \in Seq(BOOLEAN) /\ n \in Nat
      /\ n <= vb.rows /\ vb.ones \subseteq 0..(vb.rows - 1)
      /\ ~vb.finished /\ ~(n >= vb.rows)
      /\ vb.rows \in Nat
      /\ vb = [rows |-> vb.rows, said |-> vb.said, ones |-> vb.ones,
               finished |-> vb.finished, out |-> vb.out]
  BY ColumnAssumption DEF BuildersIInv, BuildersTypeOK, AppendRow, Full
<1>2. /\ vb' = [vb EXCEPT !.said = Append(@, valid), !.ones = ones]
      /\ held' = held /\ cb' = cb
  BY DEF AppendRow
<1>3. /\ vb'.rows = vb.rows /\ vb'.said = Append(vb.said, valid) /\ vb'.ones = ones
      /\ vb'.finished = vb.finished /\ vb'.out = vb.out
  BY <1>1, <1>2
<1>4. /\ vb'.said \in Seq(BOOLEAN) /\ Len(vb'.said) = n + 1
      /\ \A r \in 0..(n - 1) : vb'.said[r + 1] = vb.said[r + 1]
      /\ vb'.said[n + 1] = valid
  BY <1>1, <1>3
<1>5. ones = IF valid THEN vb.ones \cup {n} ELSE vb.ones
  BY <1>1, BitOfRow
<1>6. vb'.ones \subseteq 0..(vb'.rows - 1)
  BY <1>1, <1>3, <1>5
<1>7. BuildersTypeOK'
  <2>1. vb'.ones \in SUBSET Nat
    BY <1>1, <1>3, <1>6
  <2>2. vb' \in [rows : Rows, said : Seq(BOOLEAN), ones : SUBSET Nat, finished : BOOLEAN,
                 out : Optional(Validities)]
    BY <1>1, <1>2, <1>3, <1>4, <2>1 DEF BuildersIInv, BuildersTypeOK
  <2>3. Len(vb'.said) <= vb'.rows
    BY <1>1, <1>3, <1>4
  <2> QED
    BY <1>2, <1>6, <2>2, <2>3 DEF BuildersIInv, BuildersTypeOK
<1>8. BitsSaid'
  <2>1. {r \in 0..n : vb'.said[r + 1]} =
          {r \in 0..(n - 1) : vb.said[r + 1]} \cup (IF valid THEN {n} ELSE {})
    BY <1>1, <1>4
  <2> QED
    <3>1. Len(vb'.said) - 1 = n
      BY <1>1, <1>4
    <3>2. vb.ones = {r \in 0..(n - 1) : vb.said[r + 1]}
      BY DEF BuildersIInv, BitsSaid
    <3>3. vb'.ones = {r \in 0..n : vb'.said[r + 1]}
      BY <1>3, <1>5, <2>1, <3>2
    <3> QED
      BY <3>1, <3>3 DEF BitsSaid
<1>9. OutBuilt'
  BY <1>1, <1>2, <1>3 DEF BuildersIInv, OutBuilt
<1> QED
  BY <1>2, <1>7, <1>8, <1>9 DEF BuildersIInv, OnlyRequired, SetCounted,
                                  ColumnWellFormed, Built

\* ValidityBuilder::finish gives away a Validity of the rows said, or keeps the
\* state as it is.
LEMMA FinishValidityIInv ==
  ASSUME BuildersIInv, FinishValidity
  PROVE  BuildersIInv'
<1> DEFINE v == FromBitmap(vb.rows, BuiltBitmap)
<1>1. /\ vb.rows \in Rows /\ vb.ones \subseteq Nat
      /\ Len(vb.said) = vb.rows
      /\ vb = [rows |-> vb.rows, said |-> vb.said, ones |-> vb.ones,
               finished |-> vb.finished, out |-> vb.out]
  BY DEF BuildersIInv, BuildersTypeOK, FinishValidity
<1>2. CASE /\ FromBitmapError(vb.rows, BuiltBitmap) = "none"
           /\ vb' = [vb EXCEPT !.finished = TRUE, !.out = v]
           /\ held' = v
           /\ cb' = cb
  <2>1. v \in Validities /\ CountsNulls(v)
    BY <1>1, <1>2, FromBitmapSound DEF BuiltBitmap
  <2> HIDE DEF v
  <2>2. /\ vb'.rows = vb.rows /\ vb'.said = vb.said /\ vb'.ones = vb.ones
        /\ vb'.finished = TRUE /\ vb'.out = v
    BY <1>1, <1>2
  <2>3. vb' = [rows |-> vb.rows, said |-> vb.said, ones |-> vb.ones,
               finished |-> TRUE, out |-> v]
    BY <1>1, <1>2
  <2>4. BuildersTypeOK'
    <3>1. vb' \in [rows : Rows, said : Seq(BOOLEAN), ones : SUBSET Nat, finished : BOOLEAN,
                   out : Optional(Validities)]
      BY <2>1, <2>3 DEF BuildersIInv, BuildersTypeOK, Optional
    <3>2. held' \in Optional(Validities)
      BY <1>2, <2>1 DEF Optional
    <3> QED
      BY <1>2, <2>2, <3>1, <3>2 DEF BuildersIInv, BuildersTypeOK
  <2>5. OutBuilt'
    BY <1>1, <2>2 DEF OutBuilt, BuiltBitmap, v
  <2> QED
    BY <1>2, <2>1, <2>2, <2>4, <2>5 DEF BuildersIInv, BitsSaid, OnlyRequired, SetCounted,
                              ColumnWellFormed, Built
<1>3. CASE vb' = [vb EXCEPT !.finished = TRUE] /\ held' = held /\ cb' = cb
  <2>1. /\ vb'.rows = vb.rows /\ vb'.said = vb.said /\ vb'.ones = vb.ones
        /\ vb'.finished = TRUE /\ vb'.out = vb.out
    BY <1>1, <1>3
  <2>2. vb' = [rows |-> vb.rows, said |-> vb.said, ones |-> vb.ones,
               finished |-> TRUE, out |-> vb.out]
    BY <1>1, <1>3
  <2>3. vb' \in [rows : Rows, said : Seq(BOOLEAN), ones : SUBSET Nat, finished : BOOLEAN,
                 out : Optional(Validities)]
    BY <2>2 DEF BuildersIInv, BuildersTypeOK
  <2>4. BuildersTypeOK'
    BY <1>3, <2>1, <2>3 DEF BuildersIInv, BuildersTypeOK
  <2>5. OutBuilt'
    BY <2>1 DEF BuildersIInv, OutBuilt, BuiltBitmap
  <2> QED
    BY <1>3, <2>1, <2>4, <2>5 DEF BuildersIInv, BitsSaid, OnlyRequired, SetCounted,
                              ColumnWellFormed, Built
<1> QED
  BY <1>2, <1>3 DEF FinishValidity

\* Validity::from_bitmap makes a Validity whose count of nulls is right.
LEMMA TakeBitmapIInv ==
  ASSUME BuildersIInv, NEW n \in Rows, NEW bitmap \in Bitmaps(MaxBytes), TakeBitmap(n, bitmap)
  PROVE  BuildersIInv'
<1>1. PICK k \in 0..MaxBytes : bitmap \in [size : {k}, ones : SUBSET (0..(k * ByteBits - 1))]
  BY DEF Bitmaps
<1>2. bitmap = [size |-> bitmap.size, ones |-> bitmap.ones] /\ bitmap.ones \subseteq Nat
  BY <1>1
<1>3. held' \in Validities /\ CountsNulls(held') /\ vb' = vb /\ cb' = cb
  BY <1>2, FromBitmapSound DEF TakeBitmap
<1>4. BuildersTypeOK'
  BY <1>3 DEF BuildersIInv, BuildersTypeOK, Optional
<1>5. OutBuilt'
  BY <1>3 DEF BuildersIInv, OutBuilt, BuiltBitmap
<1> QED
  BY <1>3, <1>4, <1>5 DEF BuildersIInv, BitsSaid, OnlyRequired, SetCounted,
                              ColumnWellFormed, Built

\* The parts that only speak of the validities are kept by every call on the
\* column builder.
LEMMA ValidityUntouched ==
  ASSUME BuildersIInv, UNCHANGED <<vb, held>>, BuildersTypeOK', OnlyRequired', SetCounted',
         ColumnWellFormed'
  PROVE  BuildersIInv'
<1>1. OutBuilt' /\ BitsSaid'
  BY DEF BuildersIInv, OutBuilt, BitsSaid, BuiltBitmap
<1> QED
  BY <1>1 DEF BuildersIInv

\* A component set is one the storage calls for, of the right type.
LEMMA SetIInv ==
  ASSUME BuildersIInv, NEW component \in Components, NEW value, Set(component, value),
         component = "validity" => value \in Validities /\ CountsNulls(value),
         component \in {"values", "payload"} => value \in Values,
         component = "offsets" => value \in Offsets
  PROVE  BuildersIInv'
<1>1. /\ cb' = [cb EXCEPT !.set[component] = value]
      /\ component \in Required(cb.kind) \cup {"validity"}
      /\ vb' = vb /\ held' = held
  BY DEF Set
<1>2. /\ cb = [kind |-> cb.kind, type |-> cb.type, rows |-> cb.rows, set |-> cb.set,
               finished |-> cb.finished, out |-> cb.out]
      /\ cb.set \in [validity : Optional(Validities), values : Optional(Values),
                     offsets : Optional(Offsets), payload : Optional(Values)]
      /\ cb.kind \in StorageKinds /\ cb.type \in Types /\ cb.rows \in Rows
      /\ cb.finished \in BOOLEAN
  BY DEF BuildersIInv, BuildersTypeOK
<1>3. cb' = [kind |-> cb.kind, type |-> cb.type, rows |-> cb.rows,
             set |-> [cb.set EXCEPT ![component] = value],
             finished |-> cb.finished, out |-> cb.out]
  BY <1>1, <1>2
<1>4. /\ cb'.kind = cb.kind /\ cb'.out = cb.out
      /\ cb'.set = [cb.set EXCEPT ![component] = value]
  BY <1>3
<1>5. cb'.set \in [validity : Optional(Validities), values : Optional(Values),
                   offsets : Optional(Offsets), payload : Optional(Values)]
  BY <1>2, <1>4 DEF Components, Optional
<1>6. BuildersTypeOK'
  <2>1. cb' \in [kind : StorageKinds, type : Types, rows : Rows, set : {cb'.set},
                 finished : BOOLEAN, out : Optional({cb'.out})]
    BY <1>2, <1>3 DEF Optional
  <2> QED
    BY <1>1, <1>5, <2>1 DEF BuildersIInv, BuildersTypeOK
<1>7. OnlyRequired'
  <2> SUFFICES ASSUME NEW c \in {"values", "offsets", "payload"}, cb'.set[c] # None
               PROVE  c \in Required(cb.kind)
    BY <1>4 DEF OnlyRequired
  <2>1. CASE c = component
    BY <1>1, <2>1
  <2>2. CASE c # component
    BY <1>2, <1>4, <2>2 DEF BuildersIInv, OnlyRequired
  <2> QED
    BY <2>1, <2>2
<1>8. ColumnWellFormed'
  <2>1. ~cb'.finished /\ cb'.out = None
    <3>1. ~cb.finished
      BY DEF Set
    <3> QED
      BY <1>3, <3>1 DEF BuildersIInv, ColumnWellFormed
  <2> QED
    BY <2>1 DEF ColumnWellFormed
<1>9. SetCounted'
  <2>1. CASE component = "validity"
    <3>1. cb'.set.validity = value
      BY <1>2, <1>4, <2>1
    <3> QED
      BY <2>1, <3>1 DEF SetCounted
  <2>2. CASE component # "validity"
    <3>1. cb'.set.validity = cb.set.validity
      BY <1>2, <1>4, <2>2
    <3> QED
      BY <3>1 DEF BuildersIInv, SetCounted
  <2> QED
    BY <2>1, <2>2
<1> QED
  BY <1>1, <1>6, <1>7, <1>8, <1>9, ValidityUntouched

-----------------------------------------------------------------------------
(* Types and their storage.                                                *)

\* A type is stored in values of a width, as bits or as spans of a payload,
\* and it is the width of its values that tells.
LEMMA WidthTellsStorage ==
  ASSUME NEW type \in Types
  PROVE  /\ StorageOf(type) \in StorageKinds
         /\ (StorageOf(type) = "fixed_width") <=> (FixedWidthBytes(type) > 0)
         /\ (StorageOf(type) = "boolean") <=> (type.kind = "boolean")
         /\ FixedWidthBytes(type) \in Nat
<1>1. /\ type.kind \in ToSet(Kinds) /\ ValidParameters(type.kind, type.parameters)
      /\ type.kind = "fixed_binary" => type.parameters.numbers[1] \in Nat
  BY ColumnAssumption, CreatedIsValid
<1>2. type.kind = "fixed_binary" => type.parameters.numbers[1] > 0
  <2> SUFFICES ASSUME type.kind = "fixed_binary" PROVE type.parameters.numbers[1] > 0
    OBVIOUS
  <2>1. type.parameters.alternative = "fixed_binary"
    BY <1>1 DEF ValidParameters, AlternativeOf
  <2>2. type.parameters.numbers[1] # 0
    BY <1>1, <2>1 DEF ValidParameters
  <2> QED
    BY <1>1, <2>2
<1>3. CASE type.kind = "fixed_binary"
  <2>1. FixedWidthBytes(type) = type.parameters.numbers[1]
    BY <1>3 DEF FixedWidthBytes
  <2>2. FixedWidthBytes(type) \in Nat /\ FixedWidthBytes(type) > 0
    BY <1>1, <1>2, <1>3, <2>1
  <2> QED
    BY <1>3, <2>2 DEF StorageOf, StorageKinds, IsVariableWidth
<1>4. CASE type.kind \in {"boolean", "string", "binary"}
  BY <1>4 DEF StorageOf, StorageKinds, IsVariableWidth, FixedWidthBytes
<1>5. CASE type.kind \in {"int8", "int16", "int32", "int64", "uint8", "uint16", "uint32",
                          "uint64", "float32", "float64", "decimal", "date", "time",
                          "timestamp", "duration", "uuid"}
  BY <1>5 DEF StorageOf, StorageKinds, IsVariableWidth, FixedWidthBytes
<1> QED
  BY <1>1, <1>3, <1>4, <1>5, KindsListed

-----------------------------------------------------------------------------
(* finish() of a column builder, and the theorems.                         *)

\* A column published by finish() is well formed, and the one that was
\* published before stays so.
LEMMA FinishColumnIInv ==
  ASSUME BuildersIInv, FinishColumn
  PROVE  BuildersIInv'
<1>1. /\ cb = [kind |-> cb.kind, type |-> cb.type, rows |-> cb.rows, set |-> cb.set,
               finished |-> cb.finished, out |-> cb.out]
      /\ cb.set \in [validity : Optional(Validities), values : Optional(Values),
                     offsets : Optional(Offsets), payload : Optional(Values)]
      /\ cb.kind \in StorageKinds /\ cb.type \in Types /\ cb.rows \in Rows
  BY DEF BuildersIInv, BuildersTypeOK
<1>2. PICK out : /\ cb' = [cb EXCEPT !.finished = TRUE, !.out = out]
                 /\ \/ out = Built /\ ValidityFits
                    \/ out = cb.out
  <2>1. CASE cb' = [cb EXCEPT !.finished = TRUE]
    <3>1. cb' = [cb EXCEPT !.finished = TRUE, !.out = cb.out]
      BY <1>1, <2>1
    <3> QED
      BY <3>1
  <2>2. CASE ValidityFits /\ cb' = [cb EXCEPT !.finished = TRUE, !.out = Built]
    BY <2>2
  <2> QED
    BY <2>1, <2>2 DEF FinishColumn
<1>3. /\ cb' = [kind |-> cb.kind, type |-> cb.type, rows |-> cb.rows, set |-> cb.set,
                finished |-> TRUE, out |-> out]
      /\ vb' = vb /\ held' = held
  BY <1>1, <1>2 DEF FinishColumn
<1>4. cb'.kind = cb.kind /\ cb'.set = cb.set /\ cb'.out = out
  BY <1>3
<1>5. BuildersTypeOK'
  <2>1. cb' \in [kind : StorageKinds, type : Types, rows : Rows, set : {cb'.set},
                 finished : BOOLEAN, out : Optional({cb'.out})]
    BY <1>1, <1>3 DEF Optional
  <2> QED
    BY <1>1, <1>3, <1>4, <2>1 DEF BuildersIInv, BuildersTypeOK
<1>6. OnlyRequired'
  BY <1>4 DEF BuildersIInv, OnlyRequired
<1>7. ColumnWellFormed'
  <2>0. /\ StorageOf(cb'.type) = cb'.kind /\ cb'.finished /\ Built' = Built
        /\ \A c \in Required(cb'.kind) : cb'.set[c] # None
    BY <1>3, <1>4 DEF FinishColumn, Incomplete, Built
  <2>1. CASE out = cb.out
    <3>1. cb.out = None
      BY DEF FinishColumn, Incomplete, BuildersIInv, ColumnWellFormed
    <3> QED
      BY <1>4, <2>0, <2>1, <3>1 DEF ColumnWellFormed
  <2>2. CASE out = Built /\ ValidityFits
    <3>1. /\ out.kind = cb.kind /\ out.type = cb.type /\ out.rows = cb.rows
          /\ out.validity = cb.set.validity /\ out.values = cb.set.values
          /\ out.offsets = cb.set.offsets /\ out.payload = cb.set.payload
      BY <2>2 DEF Built
    <3>2. /\ \A c \in Required(cb.kind) : cb.set[c] # None
          /\ StorageOf(cb.type) = cb.kind
      BY DEF FinishColumn, Incomplete
    <3>3. \A c \in {"values", "offsets", "payload"} : out[c] = cb.set[c]
      BY <3>1
    <3>4. \A c \in {"values", "offsets", "payload"} :
            (out[c] # None) <=> (c \in Required(out.kind))
      BY <3>1, <3>2, <3>3 DEF BuildersIInv, OnlyRequired
    <3>5. /\ (out.kind = "fixed_width") <=> (FixedWidthBytes(out.type) > 0)
          /\ (out.kind = "boolean") <=> (out.type.kind = "boolean")
          /\ out.kind = StorageOf(out.type) /\ FixedWidthBytes(out.type) \in Nat
      BY <1>1, <3>1, <3>2, WidthTellsStorage
    <3>6. out.rows \in Nat
      BY <1>1, <3>1, ColumnAssumption
    <3>7. \A c \in Required(out.kind) : out[c] # None
      <4>1. Required(out.kind) \subseteq {"values", "offsets", "payload"}
        BY DEF Required
      <4> QED
        BY <3>4, <4>1
    <3>8. ASSUME out.validity # None PROVE PublishedValidity(out.validity, out.rows)
      <4>1. out.validity \in Validities /\ CountsNulls(out.validity)
        BY <1>1, <3>1, <3>8 DEF BuildersIInv, SetCounted, Optional
      <4>2. out.validity.rows = out.rows
        BY <2>2, <3>1, <3>8 DEF ValidityFits
      <4> QED
        BY <4>1, <4>2, ValidityPublishable
    <3>9. PublishedColumn(out)
      BY <3>5, <3>6, <3>7, <3>8 DEF PublishedColumn
    <3> QED
      BY <1>4, <2>0, <2>2, <3>4, <3>5, <3>9 DEF ColumnWellFormed
  <2> QED
    BY <1>2, <2>1, <2>2
<1>8. SetCounted'
  BY <1>4 DEF BuildersIInv, SetCounted
<1> QED
  BY <1>3, <1>5, <1>6, <1>7, <1>8, ValidityUntouched

\* Every step keeps the invariant.
LEMMA BuildersNextIInv == BuildersIInv /\ [BuildersNext]_buildersVars => BuildersIInv'
<1> SUFFICES ASSUME BuildersIInv, [BuildersNext]_buildersVars PROVE BuildersIInv'
  OBVIOUS
<1>1. ASSUME NEW valid \in BOOLEAN, AppendRow(valid) PROVE BuildersIInv'
  BY <1>1, AppendRowIInv
<1>2. CASE FinishValidity
  BY <1>2, FinishValidityIInv
<1>3. ASSUME NEW r \in Rows, NEW b \in Bitmaps(MaxBytes), TakeBitmap(r, b) PROVE BuildersIInv'
  BY <1>3, TakeBitmapIInv
<1>4. CASE held # None /\ Set("validity", held)
  <2>1. held \in Validities /\ CountsNulls(held)
    BY <1>4 DEF BuildersIInv, BuildersTypeOK, Optional
  <2> QED
    BY <1>4, <2>1, SetIInv DEF Components
<1>5. ASSUME NEW b \in Values, Set("values", b) \/ Set("payload", b) PROVE BuildersIInv'
  BY <1>5, SetIInv DEF Components
<1>6. ASSUME NEW o \in Offsets, Set("offsets", o) PROVE BuildersIInv'
  BY <1>6, SetIInv DEF Components
<1>7. CASE FinishColumn
  BY <1>7, FinishColumnIInv
<1>8. CASE UNCHANGED buildersVars
  BY <1>8 DEF buildersVars, BuildersIInv, BuildersTypeOK, BitsSaid, OutBuilt, BuiltBitmap,
              OnlyRequired, SetCounted, ColumnWellFormed, Built
<1> QED
  BY <1>1, <1>2, <1>3, <1>4, <1>5, <1>6, <1>7, <1>8 DEF BuildersNext

\* The invariant holds of every reachable state.
THEOREM BuildersInvariantHolds == BuildersSpec => []BuildersIInv
BY BuildersInitIInv, BuildersNextIInv, PTL DEF BuildersSpec

\* Every validity in use, given away or set in a builder has a bitmap of just
\* the bytes its rows need and no bit past its last row.
THEOREM BuildersTypeCorrect == BuildersSpec => []BuildersTypeOK
<1>1. BuildersIInv => BuildersTypeOK
  BY DEF BuildersIInv
<1> QED
  BY <1>1, BuildersInvariantHolds, PTL

\* null_count() of a Validity, however it was made, is the number of rows
\* is_valid() denies.
THEOREM NullsCounted == BuildersSpec => []NullCountExact
<1>1. BuildersIInv => NullCountExact
  BY CountIsExact DEF BuildersIInv, BuildersTypeOK, Optional, NullCountExact
<1> QED
  BY <1>1, BuildersInvariantHolds, PTL

\* A ValidityBuilder's bitmap says of every row what was appended for it,
\* wherever in a byte its bit is.
THEOREM BitmapAlwaysFaithful == BuildersSpec => []BitmapFaithful
<1>1. BuildersIInv => BitmapFaithful
  <2> SUFFICES ASSUME BuildersIInv, vb.out # None
               PROVE  /\ vb.out.rows = Len(vb.said)
                      /\ \A r \in 0..(vb.out.rows - 1) : IsValid(vb.out, r) = vb.said[r + 1]
    BY DEF BitmapFaithful
  <2>1. /\ vb.out.rows = Len(vb.said) /\ vb.out.bitmap.ones = vb.ones
        /\ vb.said \in Seq(BOOLEAN)
    BY DEF BuildersIInv, BuildersTypeOK, OutBuilt, FromBitmap, BuiltBitmap
  <2>2. ASSUME NEW r \in 0..(vb.out.rows - 1)
        PROVE  IsValid(vb.out, r) = vb.said[r + 1]
    <3>1. vb.said[r + 1] \in BOOLEAN /\ r < vb.out.rows
      BY <2>1, <2>2
    <3>2. (r \in vb.ones) <=> vb.said[r + 1]
      BY <2>1, <2>2 DEF BuildersIInv, BitsSaid
    <3> QED
      BY <2>1, <3>1, <3>2 DEF IsValid
  <2> QED
    BY <2>1, <2>2
<1> QED
  BY <1>1, BuildersInvariantHolds, PTL

\* A published column is one BlockAssumption lets a block be made of, whatever
\* calls on the builders made it: of its type's storage, with all its components
\* and no others, and with a null count that is right.
THEOREM ColumnsWellFormed == BuildersSpec => []ColumnWellFormed
<1>1. BuildersIInv => ColumnWellFormed
  BY DEF BuildersIInv
<1> QED
  BY <1>1, BuildersInvariantHolds, PTL

-----------------------------------------------------------------------------
(* Blocks.                                                                 *)

-----------------------------------------------------------------------------
(* The inductive invariant.                                                *)

\* The offsets of a column begin at 0, never descend, end with the payload,
\* and are one more than the rows that hold a value.
LaidOut(column) ==
  LET o == column.offsets
      n == Cardinality(Present(column))
  IN /\ Len(o) = n + 1
     /\ o[1] = 0
     /\ o[n + 1] = Len(column.payload)
     /\ \A k \in 2..Len(o) : o[k - 1] <= o[k]

\* Every column of spans in a published block is laid out that way.
BlockLaidOut ==
  block # None =>
    \A i \in DOMAIN schema : block[i].kind = "variable_width" => LaidOut(block[i])

\* A block holds the columns set for the fields of its schema, in schema order,
\* and no other can be set any more.
BlockInOrder ==
  block # None => /\ finished
                  /\ block = [i \in DOMAIN schema |-> columns[schema[i].id]]

IInv == TypeOK /\ BlockLaidOut /\ BlockInOrder

-----------------------------------------------------------------------------
(* Spans of a payload.                                                     *)

\* Offsets that never descend and end at n never pass n.
LEMMA OffsetsWithin ==
  ASSUME NEW o, NEW k, o \in Seq(Nat), k \in 1..Len(o), o # <<>>,
         \A j \in 2..Len(o) : o[j - 1] <= o[j]
  PROVE  o[k] <= o[Len(o)]
<1> DEFINE T == {j \in Nat : j \in k..Len(o) /\ o[k] > o[Len(o)] /\ o[j] < o[k]}
<1> SUFFICES ASSUME o[k] > o[Len(o)] PROVE FALSE
  <2>1. o[k] \in Nat /\ o[Len(o)] \in Nat
    OBVIOUS
  <2> QED
    BY <2>1
<1>1. Len(o) \in T
  OBVIOUS
<1>2. PICK j \in T : \A m \in T : j <= m
  <2> HIDE DEF T
  <2>1. T \subseteq Nat /\ T # {}
    BY <1>1 DEF T
  <2> QED
    BY <2>1, LeastExists
<1>3. j \in 2..Len(o) /\ j - 1 \in k..Len(o)
  BY <1>2
<1>4. o[j - 1] < o[k]
  <2>1. o[j - 1] \in Nat /\ o[j] \in Nat /\ o[k] \in Nat
    <3>1. j - 1 \in 1..Len(o) /\ j \in 1..Len(o)
      BY <1>3
    <3> QED
      BY <3>1, ElementOfSeq
  <2> QED
    BY <1>2, <1>3, <2>1
<1>5. j - 1 \in T
  BY <1>3, <1>4
<1> QED
  BY <1>2, <1>5

\* The spans of a payload p between n + 1 offsets o.
Spans(p, o, n) == [k \in 1..n |-> SubSeq(p, o[k] + 1, o[k + 1])]

\* n + 1 offsets o into a payload p that begin at 0 and never descend.
Spanning(B, p, o, n) ==
  /\ p \in Seq(B) /\ n \in Nat /\ o \in Seq(Nat) /\ Len(o) = n + 1
  /\ o[1] = 0 /\ o[n + 1] <= Len(p) /\ \A k \in 2..Len(o) : o[k - 1] <= o[k]

\* Spans that begin at 0, where each begins where the last has ended, are the
\* payload up to where the last ends.
LEMMA SpansAreAPrefix ==
  ASSUME NEW B, NEW p, NEW n, NEW o, Spanning(B, p, o, n)
  PROVE  FlattenSeq(Spans(p, o, n)) = SubSeq(p, 1, o[n + 1])
<1>0. /\ p \in Seq(B) /\ n \in Nat /\ o \in Seq(Nat) /\ Len(o) = n + 1
      /\ o[1] = 0 /\ o[n + 1] <= Len(p) /\ \A k \in 2..Len(o) : o[k - 1] <= o[k]
  BY DEF Spanning
<1> USE <1>0
<1> DEFINE seqs == [k \in 1..n |-> SubSeq(p, o[k] + 1, o[k + 1])]
<1>1. \A k \in 1..(n + 1) : o[k] \in Nat /\ o[k] <= Len(p)
  <2>1. o # <<>>
    BY EmptySeq
  <2>2. \A k \in 2..Len(o) : o[k - 1] <= o[k]
    OBVIOUS
  <2>4. \A k \in 1..(n + 1) : o[k] \in Nat
    OBVIOUS
  <2>3. \A k \in 1..Len(o) : o[k] <= o[n + 1]
    <3> HIDE DEF seqs
    <3> QED
      BY <2>1, <2>2, OffsetsWithin
  <2>5. n + 1 \in 1..(n + 1) /\ Len(p) \in Nat
    OBVIOUS
  <2> HIDE DEF seqs
  <2> QED
    BY <2>3, <2>4, <2>5
<1>2. Len(seqs) = n
  <2>1. \A k \in 1..n : seqs[k] \in Seq(B)
    <3> SUFFICES ASSUME NEW k \in 1..n PROVE SubSeq(p, o[k] + 1, o[k + 1]) \in Seq(B)
      OBVIOUS
    <3>1. k + 1 \in 1..(n + 1) /\ k \in 1..(n + 1)
      OBVIOUS
    <3>3. /\ o[k] \in Nat /\ o[k + 1] \in Nat /\ o[k + 1] <= Len(p)
      BY <1>1, <3>1
    <3> HIDE DEF seqs
    <3>2. ASSUME NEW i \in (o[k] + 1)..o[k + 1]
          PROVE  p[i] \in B
      <4>1. i \in 1..Len(p)
        BY <3>3
      <4> QED
        BY <4>1
    <3> QED
      BY <3>2, <3>3, SubSeqProperties
  <2>2. seqs \in [1..n -> Seq(B)]
    BY <2>1
  <2> HIDE DEF seqs
  <2> QED
    BY <2>2
<1>3. CASE n = 0
  <2>2. SubSeq(p, 1, o[n + 1]) = <<>>
    <3>1. o[n + 1] = 0
      BY <1>3
    <3> QED
      BY <3>1, SubSeqEmpty
  <2>3. seqs = <<>>
    BY <1>3
  <2> QED
    BY <2>2, <2>3, <1>2, <1>3 DEF FlattenSeq, Spans
<1>4. CASE n # 0
  <2> DEFINE f0 == [i \in 1..n |-> SubSeq(p, 1, o[i + 1])]
  <2>1. ASSUME NEW i \in 2..n
        PROVE  f0[i] = f0[i - 1] \o seqs[i]
    <3>0. i \in 1..n
      OBVIOUS
    <3>1. /\ i - 1 \in 1..n /\ i \in 1..(n + 1) /\ i + 1 \in 1..(n + 1)
          /\ i \in 2..Len(o) /\ i + 1 \in 2..Len(o)
      OBVIOUS
    <3>2. o[i] \in 0..Len(p) /\ o[i + 1] \in o[i]..Len(p)
      BY <1>1, <3>1
    <3>3. SubSeq(p, 1, o[i]) \o SubSeq(p, o[i] + 1, o[i + 1]) = SubSeq(p, 1, o[i + 1])
      <4>1. 1 \in 1..(Len(p) + 1) /\ o[i] \in (1 - 1)..Len(p)
        BY <3>2
      <4> QED
        BY <3>2, <4>1, ConcatAdjacentSubSeq
    <3>4. f0[i - 1] = SubSeq(p, 1, o[i])
      <4>1. (i - 1) + 1 = i
        OBVIOUS
      <4>2. f0[i - 1] = SubSeq(p, 1, o[(i - 1) + 1])
        BY <3>1
      <4> QED
        BY <4>1, <4>2
    <3>5. f0[i] = SubSeq(p, 1, o[i + 1]) /\ seqs[i] = SubSeq(p, o[i] + 1, o[i + 1])
      BY <3>0
    <3> HIDE DEF f0, seqs
    <3> QED
      BY <3>3, <3>4, <3>5
  <2>5. f0[1] = seqs[1]
    BY <1>4
  <2>2. f0 \in [1..n -> Seq(B)]
    <3> SUFFICES ASSUME NEW i \in 1..n PROVE SubSeq(p, 1, o[i + 1]) \in Seq(B)
      OBVIOUS
    <3>1. o[i + 1] \in Nat /\ o[i + 1] <= Len(p)
      BY <1>1
    <3>2. \A k \in 1..o[i + 1] : p[k] \in B
      BY <3>1
    <3> QED
      BY <3>1, <3>2, SubSeqProperties
  <2>3. f0[n] = SubSeq(p, 1, o[n + 1])
    <3>1. n \in 1..n
      BY <1>4
    <3> QED
      BY <3>1
  <2> HIDE DEF f0, seqs
  <2>4. FlattenSeq(seqs) = f0[n]
    <3>1. n \in Nat \ {0}
      BY <1>4
    <3>2. f0[1] = seqs[1] /\ \A i \in 2..n : f0[i] = f0[i - 1] \o seqs[i]
      BY <2>1, <2>5
    <3> HIDE <1>4
    <3> QED
      BY <1>2, <2>2, <3>1, <3>2, FlattenUnfolds, ZenonT(40)
  <2> QED
    BY <2>3, <2>4 DEF seqs, Spans
<1> QED
  BY <1>3, <1>4

\* If the last ends with the payload, they are the payload.
LEMMA SpansAreThePayload ==
  ASSUME NEW B, NEW p, NEW n, NEW o,
         p \in Seq(B), n \in Nat, o \in Seq(Nat), Len(o) = n + 1,
         o[1] = 0, o[n + 1] = Len(p), \A k \in 2..Len(o) : o[k - 1] <= o[k]
  PROVE  FlattenSeq(Spans(p, o, n)) = p
<1>1. SubSeq(p, 1, o[n + 1]) = p
  BY SubSeqFull
<1>2. Spanning(B, p, o, n)
  BY DEF Spanning
<1>3. FlattenSeq(Spans(p, o, n)) = SubSeq(p, 1, o[n + 1])
  BY <1>2, SpansAreAPrefix, Zenon
<1> QED
  BY <1>1, <1>3

-----------------------------------------------------------------------------
(* What a block's columns pass.                                            *)

\* BytesFor(n) is the number of bytes that n bits take and no fewer hold.
LEMMA BytesForExact ==
  ASSUME NEW n \in Nat, NEW size \in Nat
  PROVE  /\ BytesFor(n) \in Nat
         /\ size = BytesFor(n) <=> size * ByteBits \in n..(n + ByteBits - 1)
<1>0. ByteBits \in Nat \ {0}
  BY StorageAssumption
<1>1. PICK a \in Nat : a = n + ByteBits - 1
  BY <1>0
<1>2. PICK q \in Nat, r \in 0..(ByteBits - 1) : q = BytesFor(n) /\ q * ByteBits + r = a
  BY <1>0, <1>1, DivMod DEF BytesFor
<1>3. q * ByteBits \in Nat /\ size * ByteBits \in Nat
  BY <1>0
<1>4. q * ByteBits \in n..(n + ByteBits - 1)
  BY <1>0, <1>1, <1>2, <1>3
<1>5. size < q => size * ByteBits + ByteBits <= q * ByteBits
  BY <1>0, MultiplesApart
<1>6. q < size => q * ByteBits + ByteBits <= size * ByteBits
  BY <1>0, MultiplesApart
<1>7. size * ByteBits \in n..(n + ByteBits - 1) => size = q
  BY <1>0, <1>3, <1>4, <1>5, <1>6
<1> QED
  BY <1>2, <1>4, <1>7

\* A limit on decoded bytes is a number of a word.
LEMMA LimitOnBytes ==
  ASSUME NEW lim \in LimitSets
  PROVE  lim.decoded_bytes \in 0..MaxWord /\ lim.record_bytes \in Nat
BY BlockAssumption, WordAssumption DEF Limits

\* add_decoded_bytes passes exactly if the sum is within the limit.
LEMMA AddDecodedExact ==
  ASSUME NEW base \in Nat, NEW amount \in Nat, NEW lim \in LimitSets
  PROVE  FirstError(AddDecoded(base, amount, lim)) = "none"
           <=> base + amount <= lim.decoded_bytes
<1> DEFINE a == Check(AddOverflows(base, amount),        "arithmetic_overflow")
           b == Check(base + amount > lim.decoded_bytes, "limit_exceeded")
<1>1. /\ a.fails <=> base + amount > MaxWord
      /\ b.fails <=> base + amount > lim.decoded_bytes
      /\ a.error # "none" /\ b.error # "none"
  BY SumFits DEF Check
<1> HIDE DEF a, b
<1>2. FirstError(<<a, b>>) = "none" <=> ~a.fails /\ ~b.fails
  BY <1>1, TwoPass
<1>3. lim.decoded_bytes \in 0..MaxWord /\ base + amount \in Nat
  BY LimitOnBytes
<1>4. ~a.fails /\ ~b.fails <=> base + amount <= lim.decoded_bytes
  BY <1>1, <1>3, WordAssumption
<1>5. AddDecoded(base, amount, lim) = <<a, b>>
  BY DEF AddDecoded, a, b
<1> QED
  BY <1>2, <1>4, <1>5

\* Checks that add_decoded_bytes makes
LEMMA AddDecodedErrors ==
  ASSUME NEW base, NEW amount, NEW lim
  PROVE  \E S : AddDecoded(base, amount, lim) \in Seq(S) /\ \A c \in S : c.error # "none"
<1> DEFINE a == Check(AddOverflows(base, amount),        "arithmetic_overflow")
           b == Check(base + amount > lim.decoded_bytes, "limit_exceeded")
<1>1. \A c \in {a, b} : c.error # "none"
  BY DEF Check
<1>2. AddDecoded(base, amount, lim) = <<a, b>>
  BY DEF AddDecoded
<1> HIDE DEF a, b
<1>3. <<a, b>> \in Seq({a, b})
  OBVIOUS
<1>4. AddDecoded(base, amount, lim) \in Seq({a, b})
  BY <1>2, <1>3
<1> QED
  BY <1>1, <1>4

\* Checks followed by those of add_decoded_bytes
LEMMA ThenDecoded ==
  ASSUME NEW S, NEW a \in Seq(S), \A c \in S : c.error # "none",
         NEW base \in Nat, NEW amount \in Nat, NEW lim \in LimitSets
  PROVE  FirstError(a \o AddDecoded(base, amount, lim)) = "none"
           <=> FirstError(a) = "none" /\ base + amount <= lim.decoded_bytes
<1>1. PICK T : AddDecoded(base, amount, lim) \in Seq(T) /\ \A c \in T : c.error # "none"
  BY AddDecodedErrors
<1>2. PICK b \in Seq(T) : b = AddDecoded(base, amount, lim)
  BY <1>1
<1>3. a \in Seq(S \cup T) /\ b \in Seq(S \cup T)
  OBVIOUS
<1>4. \A c \in S \cup T : c.error # "none"
  BY <1>1
<1>5. FirstError(a \o b) = "none" <=> FirstError(a) = "none" /\ FirstError(b) = "none"
  BY <1>3, <1>4, ConcatPasses
<1> QED
  BY <1>2, <1>5, AddDecodedExact

\* validate_fixed passes exactly for as many bytes as the values take.
LEMMA FixedExact ==
  ASSUME NEW field, NEW column, NEW dense \in Nat, NEW lim \in LimitSets, NEW base \in Nat,
         column.values # None, FixedWidthBytes(column.type) \in Nat
  PROVE  FirstError(FixedChecks(field, column, dense, lim, base)) = "none"
           <=> /\ column.values.size = dense * FixedWidthBytes(column.type)
               /\ base + dense * FixedWidthBytes(column.type) <= lim.decoded_bytes
<1>1. PICK w \in Nat : w = FixedWidthBytes(column.type)
  OBVIOUS
<1> DEFINE e == dense * w
           a == Check(MultiplyOverflows(dense, w),                       "arithmetic_overflow")
           b == Check(column.values = None \/ column.values.size # e,    "invalid_block")
<1>2. e \in Nat
  OBVIOUS
<1>3. FixedChecks(field, column, dense, lim, base) = <<a, b>> \o AddDecoded(base, e, lim)
  BY <1>1 DEF FixedChecks
<1>4. /\ a.fails <=> e > MaxWord
      /\ b.fails <=> column.values.size # e
      /\ a.error # "none" /\ b.error # "none"
  BY ProductFits DEF Check
<1> HIDE DEF a, b, e
<1>5. <<a, b>> \in Seq({a, b}) /\ \A c \in {a, b} : c.error # "none"
  BY <1>4
<1>6. FirstError(<<a, b>> \o AddDecoded(base, e, lim)) = "none"
        <=> FirstError(<<a, b>>) = "none" /\ base + e <= lim.decoded_bytes
  <2> DEFINE s == <<a, b>>
             S == {a, b}
  <2> HIDE DEF s, S
  <2>1. s \in Seq(S) /\ \A c \in S : c.error # "none"
    BY <1>5, Zenon DEF s, S
  <2>2. FirstError(s \o AddDecoded(base, e, lim)) = "none"
          <=> FirstError(s) = "none" /\ base + e <= lim.decoded_bytes
    BY <1>2, <2>1, ThenDecoded
  <2> QED
    BY <2>2, Zenon DEF s
<1>7. FirstError(<<a, b>>) = "none" <=> ~a.fails /\ ~b.fails
  BY <1>4, TwoPass
<1>8. base + e <= lim.decoded_bytes => ~(e > MaxWord)
  BY <1>2, LimitOnBytes, WordAssumption
<1>9. FirstError(FixedChecks(field, column, dense, lim, base)) = "none"
        <=> column.values.size = e /\ base + e <= lim.decoded_bytes
  BY <1>3, <1>4, <1>6, <1>7, <1>8
<1> QED
  BY <1>1, <1>9 DEF e

\* validate_boolean passes exactly for a bitmap of the right size without a bit
\* past its values.
LEMMA BooleanExact ==
  ASSUME NEW field, NEW column, NEW dense \in Nat, NEW lim \in LimitSets, NEW base \in Nat,
         column.values # None, InMemory(column.values), field.type.kind = "boolean"
  PROVE  FirstError(BooleanChecks(field, column, dense, lim, base)) = "none"
           <=> /\ column.values.ones \subseteq 0..(dense - 1)
               /\ column.values.size * ByteBits \in dense..(dense + ByteBits - 1)
               /\ base + column.values.size <= lim.decoded_bytes
<1> DEFINE size == column.values.size
           ones == column.values.ones
           e == BytesFor(dense)
           a == Check(field.type.kind # "boolean",                      "invalid_block")
           b == Check(TooManyBits(dense),                               "invalid_block")
           c == Check(column.values = None \/ size # e,                 "invalid_block")
           d == Check(Padded(dense, column.values),                     "invalid_block")
           s == <<a, b, c, d>>
<1>1. BooleanChecks(field, column, dense, lim, base) = s \o AddDecoded(base, e, lim)
  BY DEF BooleanChecks
<1>2. size \in Nat /\ ones \subseteq 0..(size * ByteBits - 1) /\ ~TooManyBits(size * ByteBits)
  BY DEF InMemory
<1>3. e \in Nat /\ (size = e <=> size * ByteBits \in dense..(dense + ByteBits - 1))
  BY <1>2, BytesForExact
<1>4. /\ ~a.fails
      /\ b.fails <=> TooManyBits(dense)
      /\ c.fails <=> size # e
      /\ d.fails <=> Padded(dense, column.values)
      /\ a.error # "none" /\ b.error # "none" /\ c.error # "none" /\ d.error # "none"
  BY DEF Check
<1>5. Padded(dense, column.values) <=> ~(ones \subseteq 0..(dense - 1))
  <2>1. \A i \in ones : i \in Nat
    BY <1>2
  <2> HIDE DEF size
  <2> QED
    BY <2>1 DEF Padded
<1>6. size = e => ~TooManyBits(dense)
  <2> SUFFICES ASSUME size * ByteBits \in dense..(dense + ByteBits - 1) PROVE ~TooManyBits(dense)
    BY <1>3
  <2>1. PICK n : n = size * ByteBits
    OBVIOUS
  <2>2. ~TooManyBits(n) /\ n \in dense..(dense + ByteBits - 1)
    BY <1>2, <2>1
  <2> QED
    BY <2>2, WordAssumption, StorageAssumption DEF TooManyBits
<1> HIDE DEF a, b, c, d, e
<1>7. s \in Seq({a, b, c, d}) /\ \A x \in {a, b, c, d} : x.error # "none"
  BY <1>4
<1>8. FirstError(s) = "none" <=> ~a.fails /\ ~b.fails /\ ~c.fails /\ ~d.fails
  BY <1>4, FourPass
<1> HIDE DEF s
<1>9. FirstError(s \o AddDecoded(base, e, lim)) = "none"
        <=> FirstError(s) = "none" /\ base + e <= lim.decoded_bytes
  BY <1>3, <1>7, ThenDecoded
<1>10. FirstError(BooleanChecks(field, column, dense, lim, base)) = "none"
         <=> ones \subseteq 0..(dense - 1) /\ size = e /\ base + e <= lim.decoded_bytes
  BY <1>1, <1>4, <1>5, <1>6, <1>8, <1>9
<1> QED
  BY <1>3, <1>10

\* The offsets pass exactly if they begin at 0, no value passes the limit of
\* a record, and they end with the payload, within the limit.
LEMMA OffsetsExact ==
  ASSUME NEW column, NEW dense \in Nat, NEW lim \in LimitSets, NEW base \in Nat,
         column.offsets \in Seq(Nat), NEW B, column.payload \in Seq(B)
  PROVE  LET o == column.offsets
         IN FirstError(OffsetChecks(column, dense, lim, base)) = "none"
              <=> /\ Len(o) = dense + 1
                  /\ o[1] = 0
                  /\ \A k \in 2..Len(o) : ~BadStep(o, k, lim)
                  /\ o[dense + 1] = Len(column.payload)
                  /\ base + OffsetBytes * (dense + 1) + Len(column.payload)
                       <= lim.decoded_bytes
<1>0. PICK o \in Seq(Nat), p \in Seq(B) : o = column.offsets /\ p = column.payload
  OBVIOUS
<1> DEFINE size == OffsetBytes * (dense + 1)
           a == Check(dense = MaxWord,                            "invalid_block")
           b == Check(Len(o) # dense + 1,                         "invalid_block")
           c == Check(o = <<>> \/ Head(o) # 0,                    "invalid_block")
           d == Check(\E k \in 2..Len(o) : BadStep(o, k, lim),    "invalid_block")
           e == Check(EndsElsewhere(o, p),                        "invalid_block")
           f == Check(MultiplyOverflows(dense + 1, OffsetBytes),  "arithmetic_overflow")
           s == <<a, b, c, d, e, f>>
           S == {a, b, c, d, e, f}
           lists == s \o AddDecoded(base, size, lim)
<1>1. OffsetChecks(column, dense, lim, base) = lists \o AddDecoded(base + size, Len(p), lim)
  BY <1>0 DEF OffsetChecks
<1>2. size \in Nat /\ size >= dense + 1 /\ Len(p) \in Nat /\ base + size \in Nat
  <2>1. OffsetBytes \in Nat \ {0}
    BY BlockAssumption
  <2>2. PICK m \in Nat : OffsetBytes = m + 1
    <3>1. OffsetBytes - 1 \in Nat /\ OffsetBytes = (OffsetBytes - 1) + 1
      BY <2>1
    <3> QED
      BY <3>1
  <2>3. PICK x \in Nat : x = m * (dense + 1)
    OBVIOUS
  <2>4. size = x + (dense + 1)
    BY <2>2, <2>3
  <2> HIDE DEF size
  <2>7. dense \in Nat
    OBVIOUS
  <2>5. size \in Nat /\ size >= dense + 1
    BY ONLY <2>3, <2>4, <2>7, SMT
  <2>6. Len(p) \in Nat
    OBVIOUS
  <2> QED
    BY <2>5, <2>6
<1>3. /\ a.fails <=> dense = MaxWord
      /\ b.fails <=> Len(o) # dense + 1
      /\ c.fails <=> o = <<>> \/ Head(o) # 0
      /\ d.fails <=> \E k \in 2..Len(o) : BadStep(o, k, lim)
      /\ e.fails <=> EndsElsewhere(o, p)
      /\ f.fails <=> MultiplyOverflows(dense + 1, OffsetBytes)
  BY DEF Check
<1>4. \A x \in S : x.error # "none"
  BY DEF Check
<1>5. MultiplyOverflows(dense + 1, OffsetBytes) <=> size > MaxWord
  <2>1. dense + 1 \in Nat /\ OffsetBytes \in Nat /\ (dense + 1) * OffsetBytes = size
    BY BlockAssumption
  <2> QED
    BY <2>1, ProductFits
<1> HIDE DEF a, b, c, d, e, f, size
<1>6. s \in Seq(S) /\ (FirstError(s) = "none" <=>
         ~a.fails /\ ~b.fails /\ ~c.fails /\ ~d.fails /\ ~e.fails /\ ~f.fails)
  <2> HIDE DEF s, S
  <2>1. s = <<a, b, c, d, e, f>> /\ S = {a, b, c, d, e, f}
    BY DEF s, S
  <2>2. /\ a.error # "none" /\ b.error # "none" /\ c.error # "none"
        /\ d.error # "none" /\ e.error # "none" /\ f.error # "none"
    BY <1>4, <2>1
  <2> QED
    BY ONLY <2>1, <2>2, SixPass
<1> HIDE DEF s, S
<1>7. PICK T : AddDecoded(base, size, lim) \in Seq(T) /\ \A x \in T : x.error # "none"
  BY AddDecodedErrors
<1>8. lists \in Seq(S \cup T) /\ \A x \in S \cup T : x.error # "none"
  <2>1. s \in Seq(S \cup T) /\ AddDecoded(base, size, lim) \in Seq(S \cup T)
    BY <1>6, <1>7
  <2>2. lists \in Seq(S \cup T)
    BY <2>1, ConcatProperties
  <2> QED
    BY <1>4, <1>7, <2>2
<1>9. FirstError(lists) = "none"
        <=> FirstError(s) = "none" /\ base + size <= lim.decoded_bytes
  BY <1>2, <1>4, <1>6, ThenDecoded
<1> HIDE DEF lists
<1>10. FirstError(lists \o AddDecoded(base + size, Len(p), lim)) = "none"
         <=> FirstError(lists) = "none" /\ base + size + Len(p) <= lim.decoded_bytes
  BY <1>2, <1>8, ThenDecoded
<1>11. lim.decoded_bytes \in 0..MaxWord /\ MaxWord \in Nat
  BY LimitOnBytes, WordAssumption
<1>12. base + size + Len(p) <= lim.decoded_bytes =>
         base + size <= lim.decoded_bytes /\ dense # MaxWord /\ ~(size > MaxWord)
  BY <1>2, <1>11
<1>13. Len(o) = dense + 1 =>
         /\ o # <<>> /\ Head(o) = o[1]
         /\ EndsElsewhere(o, p) <=> o[dense + 1] # Len(p)
  BY DEF EndsElsewhere, Last
<1>14. FirstError(OffsetChecks(column, dense, lim, base)) = "none"
              <=> /\ Len(o) = dense + 1
                  /\ o[1] = 0
                  /\ \A k \in 2..Len(o) : ~BadStep(o, k, lim)
                  /\ o[dense + 1] = Len(p)
                  /\ base + size + Len(p) <= lim.decoded_bytes
  BY <1>1, <1>3, <1>5, <1>6, <1>9, <1>10, <1>12, <1>13
<1> QED
  BY <1>0, <1>14 DEF size

\* A span between such offsets is of the payload.
LEMMA SpanInside ==
  ASSUME NEW S, NEW p \in Seq(S), NEW n \in Nat, NEW o \in Seq(Nat), Len(o) = n + 1,
         o[n + 1] <= Len(p), \A k \in 2..Len(o) : o[k - 1] <= o[k], NEW k \in 1..n
  PROVE  SubSeq(p, o[k] + 1, o[k + 1]) \in Seq(S)
<1>1. k + 1 \in 1..Len(o) /\ k \in 1..Len(o) /\ n + 1 \in 1..Len(o) /\ o # <<>>
  OBVIOUS
<1>2. o[k + 1] <= o[Len(o)]
  BY <1>1, OffsetsWithin
<1>3. o[k] \in Nat /\ o[k + 1] \in Nat /\ o[n + 1] \in Nat
  BY <1>1, ElementOfSeq
<1>4. PICK b \in Nat \ {0}, e \in Nat : b = o[k] + 1 /\ e = o[k + 1]
  <2>1. PICK first \in Nat : first = o[k]
    BY <1>3
  <2>2. first + 1 \in Nat \ {0}
    BY ONLY first \in Nat
  <2> QED
    BY <1>3, <2>1, <2>2
<1>5. e <= Len(p) /\ Len(p) \in Nat
  <2>1. e <= o[n + 1] /\ Len(p) \in Nat
    BY <1>2, <1>4
  <2>2. \A x, y, z \in Nat : x <= y /\ y <= z => x <= z
    OBVIOUS
  <2> QED
    BY ONLY <1>3, <1>4, <2>1, <2>2, o[n + 1] <= Len(p)
<1>6. \A i \in b..e : p[i] \in S
  <2> SUFFICES ASSUME NEW i \in b..e PROVE p[i] \in S
    OBVIOUS
  <2>1. i \in 1..Len(p)
    BY ONLY <1>5, b \in Nat \ {0}, e \in Nat, i \in b..e
  <2> QED
    BY <2>1, ElementOfSeq
<1> QED
  BY <1>4, <1>6, SubSeqProperties

\* Values between offsets that begin at 0 and never descend are bytes, and make
\* up the payload as far as the last offset.
LEMMA ValuesOf ==
  ASSUME NEW column, NEW n \in Nat, NEW S, NEW o \in Seq(Nat), NEW p \in Seq(S),
         o = column.offsets, p = column.payload,
         Len(o) = n + 1, o[1] = 0, o[n + 1] <= Len(p),
         \A k \in 2..Len(o) : o[k - 1] <= o[k]
  PROVE  /\ \A k \in 1..n : Value(column, k) \in Seq(S)
         /\ FlattenSeq([k \in 1..n |-> Value(column, k)]) = SubSeq(p, 1, o[n + 1])
<1>0. Spanning(S, p, o, n)
  BY DEF Spanning
<1>1. FlattenSeq(Spans(p, o, n)) = SubSeq(p, 1, o[n + 1])
  BY ONLY <1>0, SpansAreAPrefix
<1>2. Spans(p, o, n) = [k \in 1..n |-> Value(column, k)]
  BY DEF Spans, Value
<1>3. ASSUME NEW k \in 1..n  PROVE  Value(column, k) \in Seq(S)
  <2>1. SubSeq(p, o[k] + 1, o[k + 1]) \in Seq(S)
    BY SpanInside
  <2> QED
    BY <2>1, Zenon DEF Value
<1> QED
  BY <1>1, <1>2, <1>3

\* What Sound asks of the offsets and the payload of n values.
SoundSpans(column, n, lim) ==
  LET o == column.offsets
      values == [k \in 1..n |-> Value(column, k)]
  IN /\ Len(o) = n + 1
     /\ o[1] = 0
     /\ \A k \in 1..n : o[k + 1] \in o[k]..(o[k] + lim.record_bytes)
     /\ o[n + 1] <= Len(column.payload)
     /\ FlattenSeq(values) = column.payload
     /\ IsStrict(column.type) => \A k \in 1..n : WellFormed(values[k])

\* A step of the offsets is bad exactly if its value is too long or negative.
LEMMA StepsExact ==
  ASSUME NEW o \in Seq(Nat), NEW n \in Nat, Len(o) = n + 1, NEW lim \in LimitSets
  PROVE  /\ (\A k \in 2..Len(o) : ~BadStep(o, k, lim))
              <=> (\A k \in 1..n : o[k + 1] \in o[k]..(o[k] + lim.record_bytes))
         /\ (\A k \in 2..Len(o) : ~BadStep(o, k, lim)) => \A k \in 2..Len(o) : o[k - 1] <= o[k]
<1>1. PICK r \in Nat : r = lim.record_bytes
  BY LimitOnBytes
<1>2. \A k \in 1..(n + 1) : o[k] \in Nat
  OBVIOUS
<1>3. ASSUME NEW k \in 1..n
      PROVE  ~BadStep(o, k + 1, lim) <=> o[k + 1] \in o[k]..(o[k] + lim.record_bytes)
  <2>1. PICK x \in Nat, y \in Nat : x = o[k] /\ y = o[k + 1]
    BY <1>2
  <2>2. (k + 1) - 1 = k
    OBVIOUS
  <2>3. BadStep(o, k + 1, lim) <=> y < x \/ y - x > r
    BY <1>1, <2>1, <2>2 DEF BadStep
  <2>4. ~(y < x \/ y - x > r) <=> y \in x..(x + r)
    OBVIOUS
  <2> QED
    BY <1>1, <2>1, <2>3, <2>4
<1>4. \A k \in 2..Len(o) : k - 1 \in 1..n /\ (k - 1) + 1 = k
  OBVIOUS
<1>5. \A k \in 1..n : k + 1 \in 2..Len(o)
  OBVIOUS
<1>6. (\A k \in 2..Len(o) : ~BadStep(o, k, lim))
        <=> (\A k \in 1..n : o[k + 1] \in o[k]..(o[k] + lim.record_bytes))
  <2>1. ASSUME \A k \in 2..Len(o) : ~BadStep(o, k, lim), NEW k \in 1..n
        PROVE  o[k + 1] \in o[k]..(o[k] + lim.record_bytes)
    BY <1>3, <1>5, <2>1, Zenon
  <2>2. ASSUME \A k \in 1..n : o[k + 1] \in o[k]..(o[k] + lim.record_bytes), NEW k \in 2..Len(o)
        PROVE  ~BadStep(o, k, lim)
    <3>1. ~BadStep(o, (k - 1) + 1, lim)
      BY <1>3, <1>4, <2>2, Zenon
    <3> QED
      BY <1>4, <3>1, Zenon
  <2> QED
    BY <2>1, <2>2, Zenon
<1>7. ASSUME \A k \in 2..Len(o) : ~BadStep(o, k, lim), NEW k \in 2..Len(o)
      PROVE  o[k - 1] <= o[k]
  <2>1. k - 1 \in 1..(n + 1) /\ k \in 1..(n + 1)
    OBVIOUS
  <2>2. o[k] \in Nat /\ o[k - 1] \in Nat /\ ~(o[k] < o[k - 1])
    BY <1>2, <1>7, <2>1 DEF BadStep
  <2> QED
    BY <2>2
<1> QED
  BY <1>6, <1>7

\* Sound spans end with the payload, and no step between them is bad.
LEMMA SpansLaid ==
  ASSUME NEW column, NEW n \in Nat, NEW lim \in LimitSets,
         column.offsets \in Seq(Nat), column.payload \in Seq(Octet),
         SoundSpans(column, n, lim)
  PROVE  LET o == column.offsets
         IN /\ Len(o) = n + 1 /\ o[1] = 0 /\ o[n + 1] = Len(column.payload)
            /\ \A k \in 2..Len(o) : o[k - 1] <= o[k] /\ ~BadStep(o, k, lim)
<1>0. PICK o \in Seq(Nat), p \in Seq(Octet) : o = column.offsets /\ p = column.payload
  OBVIOUS
<1>1. /\ Len(o) = n + 1 /\ o[1] = 0 /\ o[n + 1] <= Len(p)
      /\ \A k \in 1..n : o[k + 1] \in o[k]..(o[k] + lim.record_bytes)
      /\ FlattenSeq([k \in 1..n |-> Value(column, k)]) = p
  BY <1>0 DEF SoundSpans
<1>2. \A k \in 2..Len(o) : o[k - 1] <= o[k] /\ ~BadStep(o, k, lim)
  BY <1>1, StepsExact
<1>3. FlattenSeq([k \in 1..n |-> Value(column, k)]) = SubSeq(p, 1, o[n + 1])
  <2>1. /\ Len(o) = n + 1 /\ o[1] = 0 /\ o[n + 1] <= Len(p)
        /\ \A k \in 2..Len(o) : o[k - 1] <= o[k]
    BY <1>1, <1>2
  <2>2. o \in Seq(Nat) /\ p \in Seq(Octet) /\ n \in Nat
    OBVIOUS
  <2> QED
    BY <1>0, <2>1, <2>2, ValuesOf, ZenonT(30)
<1>4. o[n + 1] = Len(p)
  <2>1. o[n + 1] \in Nat /\ Len(p) \in Nat
    BY <1>1
  <2>2. PICK m \in Nat : m = o[n + 1] /\ m <= Len(p)
    BY <1>1, <2>1
  <2>3. Len(SubSeq(p, 1, m)) = m
    BY <2>2, SubSeqProperties
  <2> QED
    BY <1>1, <1>3, <2>2, <2>3
<1> QED
  BY <1>0, <1>1, <1>2, <1>4

\* validate_variable passes exactly for sound spans, within the limit.
LEMMA VariableExact ==
  ASSUME NEW field, NEW column, NEW n \in Nat, NEW lim \in LimitSets, NEW base \in Nat,
         column.offsets \in Seq(Nat), column.payload \in Seq(Octet)
  PROVE  FirstError(VariableChecks(field, column, n, lim, base)) = "none"
           <=> /\ SoundSpans(column, n, lim)
               /\ base + OffsetBytes * Len(column.offsets) + Len(column.payload)
                    <= lim.decoded_bytes
<1>0. PICK o \in Seq(Nat), p \in Seq(Octet) : o = column.offsets /\ p = column.payload
  OBVIOUS
<1> DEFINE layout == FirstError(OffsetChecks(column, n, lim, base))
           valid == IsStrict(column.type) => \A k \in 1..n : ValidUtf8(Value(column, k))
           a == Check(layout # "none", layout)
           b == Check(/\ layout = "none"
                      /\ IsStrict(column.type)
                      /\ \E k \in 1..n : ~ValidUtf8(Value(column, k)), "invalid_block")
           Laid == /\ Len(o) = n + 1
                   /\ o[1] = 0
                   /\ \A k \in 2..Len(o) : ~BadStep(o, k, lim)
                   /\ o[n + 1] = Len(p)
           Within == base + OffsetBytes * (n + 1) + Len(p) <= lim.decoded_bytes
<1>1. VariableChecks(field, column, n, lim, base) = <<a, b>>
  BY DEF VariableChecks
<1>2. /\ a.fails <=> layout # "none"
      /\ a.fails => a.error # "none"
      /\ b.fails <=> layout = "none" /\ ~valid
      /\ b.error # "none"
  <2> HIDE DEF layout
  <2> QED
    BY DEF Check
<1>3. layout = "none" <=> Laid /\ Within
  BY <1>0, OffsetsExact
<1> HIDE DEF a, b, layout
<1>4. FirstError(<<a, b>>) = "none" <=> ~a.fails /\ ~b.fails
  BY <1>2, TwoPass
<1>5. FirstError(<<a, b>>) = "none" <=> Laid /\ Within /\ valid
  BY <1>2, <1>3, <1>4
<1>6. ASSUME Laid
      PROVE  /\ FlattenSeq([k \in 1..n |-> Value(column, k)]) = p
             /\ \A k \in 1..n : ValidUtf8(Value(column, k)) <=> WellFormed(Value(column, k))
             /\ \A k \in 1..n : o[k + 1] \in o[k]..(o[k] + lim.record_bytes)
  <2>1. /\ \A k \in 2..Len(o) : o[k - 1] <= o[k]
        /\ \A k \in 1..n : o[k + 1] \in o[k]..(o[k] + lim.record_bytes)
    BY <1>6, StepsExact
  <2>2. o[n + 1] <= Len(p)
    BY <1>6
  <2>3. /\ \A k \in 1..n : Value(column, k) \in Seq(Octet)
        /\ FlattenSeq([k \in 1..n |-> Value(column, k)]) = SubSeq(p, 1, o[n + 1])
    BY <1>0, <1>6, <2>1, <2>2, ValuesOf, ZenonT(30)
  <2>4. SubSeq(p, 1, o[n + 1]) = p
    BY <1>6, SubSeqFull
  <2> HIDE DEF Laid
  <2> QED
    BY <2>1, <2>3, <2>4, Utf8Exact
<1>7. ASSUME Laid, valid
      PROVE  SoundSpans(column, n, lim)
  <2>1. o[n + 1] <= Len(p)
    BY <1>7
  <2> QED
    BY <1>0, <1>6, <1>7, <2>1 DEF SoundSpans
<1>8. ASSUME SoundSpans(column, n, lim)
      PROVE  Laid /\ valid
  <2>1. /\ Len(o) = n + 1 /\ o[1] = 0 /\ o[n + 1] = Len(p)
        /\ \A k \in 2..Len(o) : o[k - 1] <= o[k] /\ ~BadStep(o, k, lim)
    BY <1>0, <1>8, SpansLaid
  <2>2. Laid
    BY <2>1
  <2>3. IsStrict(column.type) => \A k \in 1..n : WellFormed(Value(column, k))
    BY <1>8 DEF SoundSpans
  <2> QED
    BY <1>6, <2>2, <2>3
<1>9. Laid => (Within <=> base + OffsetBytes * Len(o) + Len(p) <= lim.decoded_bytes)
  OBVIOUS
<1> HIDE DEF Laid, Within, valid
<1>10. SoundSpans(column, n, lim) <=> Laid /\ valid
  BY <1>7, <1>8
<1> QED
  BY <1>0, <1>1, <1>5, <1>9, <1>10

-----------------------------------------------------------------------------
(* Validation of one column.                                               *)

\* What the builders give a block of every column (ColumnsWellFormed).
LEMMA ColumnGiven ==
  ASSUME NEW column \in Columns
  PROVE  /\ column.rows \in Nat
         /\ column.kind = StorageOf(column.type) /\ FixedWidthBytes(column.type) \in Nat
         /\ \A x \in Required(column.kind) : column[x] # None
         /\ column.validity # None => PublishedValidity(column.validity, column.rows)
         /\ IF column.kind = "variable_width"
            THEN column.offsets \in Seq(Nat) /\ column.payload \in Seq(0..255)
            ELSE InMemory(column.values)
BY BlockAssumption DEF PublishedColumn

\* The null count of a published column, and the rows that hold a value.
LEMMA PresentCounted ==
  ASSUME NEW column \in Columns
  PROVE  /\ column.rows \in Nat
         /\ NullCount(column) \in 0..column.rows
         /\ Cardinality(Present(column)) = column.rows - NullCount(column)
<1> DEFINE n == column.rows
           m == n - 1
<1>1. n \in Nat
  BY ColumnGiven
<1>2. IsFiniteSet(0..m) /\ Cardinality(0..m) = n
  <2>1. 0 \in Int /\ m \in Int /\ (IF 0 > m THEN 0 ELSE m - 0 + 1) = n
    BY <1>1
  <2> HIDE DEF m
  <2> QED
    BY <2>1, FS_Interval
<1>3. CASE column.validity = None
  <2>1. Present(column) = 0..m /\ NullCount(column) = 0
    BY <1>3 DEF Present, NullCount
  <2> QED
    BY <1>1, <1>2, <2>1
<1>4. CASE column.validity # None
  <2> DEFINE v == column.validity
             ones == v.bitmap.ones
  <2>1. v.rows = n /\ ones \subseteq 0..m /\ v.nulls = n - Cardinality(ones)
    BY <1>4, ColumnGiven DEF PublishedValidity
  <2>2. Present(column) = ones
    BY <1>1, <1>4, <2>1 DEF Present, IsValid
  <2>3. NullCount(column) = n - Cardinality(ones)
    BY <1>4, <2>1 DEF NullCount
  <2>4. Cardinality(ones) \in Nat /\ Cardinality(ones) <= n
    <3> HIDE DEF m, n
    <3> QED
      BY <1>2, <2>1, FS_Subset, FS_CardinalityType
  <2> HIDE DEF ones
  <2> QED
    BY <1>1, <2>2, <2>3, <2>4
<1> QED
  BY <1>3, <1>4

\* What Sound asks of the storage of n values.
SoundStorage(column, n, lim) ==
  CASE column.kind = "fixed_width" -> column.values.size = n * FixedWidthBytes(column.type)
    [] column.kind = "boolean" ->
         /\ column.values.ones \subseteq 0..(n - 1)
         /\ column.values.size * ByteBits \in n..(n + ByteBits - 1)
    [] column.kind = "variable_width" -> SoundSpans(column, n, lim)

\* The bytes a column keeps besides its bitmap.
KeptBytes(column) ==
  IF column.kind = "variable_width"
  THEN OffsetBytes * Len(column.offsets) + Len(column.payload)
  ELSE column.values.size

\* What is known of a published column's parts.
LEMMA ColumnParts ==
  ASSUME NEW column \in Columns
  PROVE  /\ column.kind \in {"fixed_width", "boolean", "variable_width"}
         /\ column.kind = "boolean" => column.type.kind = "boolean"
         /\ FixedWidthBytes(column.type) \in Nat
         /\ column.kind = "variable_width" => /\ column.offsets \in Seq(Nat)
                                              /\ column.payload \in Seq(Octet)
         /\ column.kind # "variable_width" => column.values # None /\ InMemory(column.values)
<1>1. column.kind = StorageOf(column.type)
  BY ColumnGiven
<1>2. /\ column.kind \in {"fixed_width", "boolean", "variable_width"}
      /\ column.kind = "boolean" => column.type.kind = "boolean"
  BY <1>1 DEF StorageOf
<1>3. FixedWidthBytes(column.type) \in Nat
  BY ColumnGiven
<1>4. IF column.kind = "variable_width"
      THEN column.offsets \in Seq(Nat) /\ column.payload \in Seq(0..255)
      ELSE column.values # None /\ InMemory(column.values)
  BY <1>2, ColumnGiven DEF Required
<1> QED
  BY <1>2, <1>3, <1>4, Zenon DEF Octet

\* The bytes of a column are its bitmap's and the others.
LEMMA BytesKept ==
  ASSUME NEW column \in Columns
  PROVE  /\ BitmapBytes(column) \in Nat /\ KeptBytes(column) \in Nat
         /\ Bytes(column) = BitmapBytes(column) + KeptBytes(column)
         /\ Bytes(column) \in Nat
<1>1. BitmapBytes(column) \in Nat
  BY ColumnGiven DEF BitmapBytes, PublishedValidity
<1>2. CASE column.kind = "variable_width"
  <2>1. Len(column.offsets) \in Nat /\ Len(column.payload) \in Nat /\ OffsetBytes \in Nat
    BY <1>2, ColumnParts, BlockAssumption
  <2>2. KeptBytes(column) = OffsetBytes * Len(column.offsets) + Len(column.payload)
    BY <1>2 DEF KeptBytes
  <2>3. KeptBytes(column) \in Nat
    <3>1. \A x, y, z \in Nat : x * y + z \in Nat
      OBVIOUS
    <3> QED
      BY <2>1, <2>2, <3>1, Zenon
  <2>4. Bytes(column) = BitmapBytes(column) + KeptBytes(column)
    BY <1>2, <2>2, Zenon DEF Bytes, BitmapBytes
  <2> QED
    BY <1>1, <2>3, <2>4
<1>3. CASE column.kind # "variable_width"
  <2>1. column.values.size \in Nat
    BY <1>3, ColumnParts DEF InMemory
  <2> QED
    BY <1>1, <1>3, <2>1 DEF KeptBytes, Bytes, BitmapBytes
<1> QED
  BY <1>2, <1>3

\* Sound asks for the block's rows, the field's type and sound storage.
LEMMA SoundParts ==
  ASSUME NEW field, NEW column \in Columns, NEW lim
  PROVE  Sound(field, column, lim)
           <=> /\ column.rows = rows
               /\ column.type = field.type
               /\ ~NullsForbidden(field, column)
               /\ SoundStorage(column, Cardinality(Present(column)), lim)
<1>1. column.kind \in {"fixed_width", "boolean", "variable_width"}
  BY ColumnParts
<1> DEFINE n == Cardinality(Present(column))
<1>2. CASE column.kind = "fixed_width"
  BY <1>2 DEF Sound, SoundStorage, NullsForbidden
<1>3. CASE column.kind = "boolean"
  BY <1>3 DEF Sound, SoundStorage, NullsForbidden
<1>4. CASE column.kind = "variable_width"
  BY <1>4 DEF Sound, SoundStorage, SoundSpans, NullsForbidden
<1> QED
  BY <1>1, <1>2, <1>3, <1>4

\* The storage checks pass exactly for sound storage within the limit.
LEMMA StorageExact ==
  ASSUME NEW field, NEW column \in Columns, NEW lim \in LimitSets, NEW base \in Nat,
         NEW n, column.rows = n, column.type = field.type
  PROVE  FirstError(StorageChecks(field, column, n, lim, base)) = "none"
           <=> /\ SoundStorage(column, Cardinality(Present(column)), lim)
               /\ base + KeptBytes(column) <= lim.decoded_bytes
<1>1. PICK dense \in Nat : dense = n - NullCount(column)
                           /\ dense = Cardinality(Present(column))
  BY PresentCounted
<1>2. dense = Dense(column, n)
  BY <1>1 DEF Dense
<1>3. CASE column.kind = "fixed_width"
  <2>1. StorageChecks(field, column, n, lim, base) = FixedChecks(field, column, dense, lim, base)
    BY <1>2, <1>3 DEF StorageChecks
  <2>2. SoundStorage(column, dense, lim)
          <=> column.values.size = dense * FixedWidthBytes(column.type)
    BY <1>3 DEF SoundStorage
  <2>3. column.values # None /\ FixedWidthBytes(column.type) \in Nat
        /\ KeptBytes(column) = column.values.size
    BY <1>3, ColumnParts DEF KeptBytes
  <2>4. FirstError(FixedChecks(field, column, dense, lim, base)) = "none"
           <=> /\ column.values.size = dense * FixedWidthBytes(column.type)
               /\ base + dense * FixedWidthBytes(column.type) <= lim.decoded_bytes
    BY <2>3, FixedExact
  <2> QED
    BY <1>1, <2>1, <2>2, <2>3, <2>4
<1>4. CASE column.kind = "boolean"
  <2>1. StorageChecks(field, column, n, lim, base) = BooleanChecks(field, column, dense, lim, base)
    BY <1>2, <1>4 DEF StorageChecks
  <2>2. SoundStorage(column, dense, lim)
          <=> /\ column.values.ones \subseteq 0..(dense - 1)
              /\ column.values.size * ByteBits \in dense..(dense + ByteBits - 1)
    BY <1>4 DEF SoundStorage
  <2>3. column.values # None /\ InMemory(column.values) /\ field.type.kind = "boolean"
        /\ KeptBytes(column) = column.values.size
    BY <1>4, ColumnParts DEF KeptBytes
  <2>4. FirstError(BooleanChecks(field, column, dense, lim, base)) = "none"
           <=> /\ column.values.ones \subseteq 0..(dense - 1)
               /\ column.values.size * ByteBits \in dense..(dense + ByteBits - 1)
               /\ base + column.values.size <= lim.decoded_bytes
    BY <2>3, BooleanExact
  <2> QED
    BY <1>1, <2>1, <2>2, <2>3, <2>4
<1>5. CASE column.kind = "variable_width"
  <2>1. StorageChecks(field, column, n, lim, base) = VariableChecks(field, column, dense, lim, base)
    BY <1>2, <1>5 DEF StorageChecks
  <2>2. SoundStorage(column, dense, lim) <=> SoundSpans(column, dense, lim)
    BY <1>5 DEF SoundStorage
  <2>3. /\ column.offsets \in Seq(Nat) /\ column.payload \in Seq(Octet)
        /\ KeptBytes(column) = OffsetBytes * Len(column.offsets) + Len(column.payload)
    BY <1>5, ColumnParts DEF KeptBytes
  <2>4. FirstError(VariableChecks(field, column, dense, lim, base)) = "none"
           <=> /\ SoundSpans(column, dense, lim)
               /\ base + OffsetBytes * Len(column.offsets) + Len(column.payload)
                    <= lim.decoded_bytes
    BY <2>3, VariableExact
  <2>5. PICK x \in Nat, y \in Nat : x = OffsetBytes * Len(column.offsets) /\ y = Len(column.payload)
    BY <2>3, BlockAssumption
  <2>6. base + OffsetBytes * Len(column.offsets) + Len(column.payload)
          = base + KeptBytes(column)
    BY <2>3, <2>5
  <2> QED
    BY <1>1, <2>1, <2>2, <2>4, <2>6
<1> QED
  BY <1>3, <1>4, <1>5, ColumnParts

\* validate_column passes exactly for a sound column within the limit.
LEMMA ColumnExact ==
  ASSUME NEW field, NEW column \in Columns, NEW lim \in LimitSets, NEW base \in Nat
  PROVE  ColumnError(field, column, rows, lim, base) = "none"
           <=> Sound(field, column, lim) /\ base + Bytes(column) <= lim.decoded_bytes
<1> DEFINE a == Check(column.rows # rows,              "invalid_block")
           b == Check(column.type # field.type,        "invalid_block")
           c == Check(NullsForbidden(field, column),   "invalid_block")
           d == Check(NullCount(column) > rows,        "invalid_block")
           s == <<a, b, c, d>>
           bits == IF column.validity = None THEN <<>>
                   ELSE AddDecoded(base, BitmapBytes(column), lim)
           shape == FirstError(s \o bits)
           next == base + BitmapBytes(column)
           storage == FirstError(StorageChecks(field, column, rows, lim, next))
<1>1. ColumnError(field, column, rows, lim, base) = IF shape # "none" THEN shape ELSE storage
  BY DEF ColumnError
<1>2. /\ a.fails <=> column.rows # rows
      /\ b.fails <=> column.type # field.type
      /\ c.fails <=> NullsForbidden(field, column)
      /\ d.fails <=> NullCount(column) > rows
      /\ a.error # "none" /\ b.error # "none" /\ c.error # "none" /\ d.error # "none"
  BY DEF Check
<1> HIDE DEF a, b, c, d
<1>3. FirstError(s) = "none" <=> ~a.fails /\ ~b.fails /\ ~c.fails /\ ~d.fails
  BY <1>2, FourPass
<1>4. s \in Seq({a, b, c, d}) /\ \A x \in {a, b, c, d} : x.error # "none"
  BY <1>2
<1> HIDE DEF s
<1>5. column.rows = rows => ~(NullCount(column) > rows)
  BY PresentCounted
<1>6. BitmapBytes(column) \in Nat /\ KeptBytes(column) \in Nat
      /\ Bytes(column) = BitmapBytes(column) + KeptBytes(column)
  BY BytesKept
<1>7. shape = "none" <=> /\ FirstError(s) = "none"
                         /\ column.validity # None => next <= lim.decoded_bytes
  <2>1. CASE column.validity = None
    <3>1. bits = <<>> /\ s \o <<>> = s
      BY <1>4, <2>1
    <3> HIDE DEF bits
    <3> QED
      BY <2>1, <3>1
  <2>2. CASE column.validity # None
    <3>1. bits = AddDecoded(base, BitmapBytes(column), lim)
      BY <2>2
    <3>2. FirstError(s \o AddDecoded(base, BitmapBytes(column), lim)) = "none"
           <=> FirstError(s) = "none" /\ base + BitmapBytes(column) <= lim.decoded_bytes
      BY <1>4, <1>6, ThenDecoded
    <3> HIDE DEF bits
    <3> QED
      BY <2>2, <3>1, <3>2
  <2> QED
    BY <2>1, <2>2
<1> HIDE DEF bits, shape
<1> DEFINE fits == next <= lim.decoded_bytes
           shaped == /\ column.rows = rows /\ column.type = field.type
                     /\ ~NullsForbidden(field, column)
           sound == SoundStorage(column, Cardinality(Present(column)), lim)
<1>8. shape = "none" <=> shaped /\ (column.validity # None => fits)
  BY <1>2, <1>3, <1>5, <1>7
<1>9. shaped => (storage = "none" <=> sound /\ next + KeptBytes(column) <= lim.decoded_bytes)
  <2> SUFFICES ASSUME shaped
               PROVE  storage = "none" <=> sound /\ next + KeptBytes(column) <= lim.decoded_bytes
    OBVIOUS
  <2>1. column.rows = rows /\ column.type = field.type
    OBVIOUS
  <2>2. next \in Nat
    BY <1>6
  <2> HIDE DEF next, sound
  <2>3. storage = "none" <=> SoundStorage(column, Cardinality(Present(column)), lim)
                             /\ next + KeptBytes(column) <= lim.decoded_bytes
    BY <2>1, <2>2, StorageExact
  <2> QED
    BY <2>3 DEF sound
<1>10. /\ next + KeptBytes(column) = base + Bytes(column)
       /\ next + KeptBytes(column) <= lim.decoded_bytes => fits
  BY <1>6, LimitOnBytes
<1>11. Sound(field, column, lim) <=> shaped /\ sound
  BY SoundParts
<1> HIDE DEF shaped, sound, fits, storage, next
<1> QED
  BY <1>1, <1>8, <1>9, <1>10, <1>11

\* A sound column of spans is laid out.
LEMMA SoundLaidOut ==
  ASSUME NEW field, NEW column \in Columns, NEW lim \in LimitSets,
         Sound(field, column, lim), column.kind = "variable_width"
  PROVE  LaidOut(column)
<1>1. column.offsets \in Seq(Nat) /\ column.payload \in Seq(Octet)
  BY ColumnParts
<1>2. PICK n \in Nat : n = Cardinality(Present(column))
  BY PresentCounted
<1>3. SoundSpans(column, n, lim)
  BY <1>2, SoundParts DEF SoundStorage
<1>4. LET o == column.offsets
      IN /\ Len(o) = n + 1 /\ o[1] = 0 /\ o[n + 1] = Len(column.payload)
         /\ \A k \in 2..Len(o) : o[k - 1] <= o[k] /\ ~BadStep(o, k, lim)
  BY <1>1, <1>3, SpansLaid
<1> QED
  BY <1>2, <1>4 DEF LaidOut

-----------------------------------------------------------------------------
(* Decoded bytes of all columns.                                           *)

\* The running sums of a sequence of integers exist.
LEMMA RunningSumExists ==
  ASSUME NEW L \in Nat, NEW a \in [1..L -> Int]
  PROVE  \E f \in [1..(L + 1) -> Int] :
           f[1] = 0 /\ \A i \in 2..(L + 1) : f[i] = f[i - 1] + a[i - 1]
<1> DEFINE Sums(k, f) == f[1] = 0 /\ \A i \in 2..k : f[i] = f[i - 1] + a[i - 1]
           T == {k \in 1..(L + 1) : ~\E f \in [1..k -> Int] : Sums(k, f)}
<1>1. CASE T = {}
  <2>1. L + 1 \in 1..(L + 1)
    OBVIOUS
  <2> QED
    BY <1>1, <2>1
<1>2. CASE T # {}
  <2>0. T \subseteq Nat
    OBVIOUS
  <2>1. PICK k \in T : \A m \in T : k <= m
    <3> HIDE DEF T
    <3> QED
      BY <1>2, <2>0, LeastExists
  <2>2. k # 1
    <3>1. Sums(1, [i \in 1..1 |-> 0]) /\ [i \in 1..1 |-> 0] \in [1..1 -> Int]
      OBVIOUS
    <3> QED
      BY <3>1
  <2>3. k - 1 \in 1..(L + 1) /\ k \in 1..(L + 1) /\ ~(k <= k - 1) /\ k - 1 \in 1..L
    BY <2>2
  <2>4. PICK f \in [1..(k - 1) -> Int] : Sums(k - 1, f)
    BY <2>1, <2>3
  <2> DEFINE g == [i \in 1..k |-> IF i = k THEN f[k - 1] + a[k - 1] ELSE f[i]]
  <2>5. g \in [1..k -> Int]
    <3> SUFFICES ASSUME NEW i \in 1..k
                 PROVE  (IF i = k THEN f[k - 1] + a[k - 1] ELSE f[i]) \in Int
      OBVIOUS
    <3>1. i # k => i \in 1..(k - 1)
      BY <2>3
    <3> QED
      BY <2>3, <3>1
  <2>6. g[1] = 0
    <3>1. 1 \in 1..k /\ 1 # k
      BY <2>2, <2>3
    <3> QED
      BY <2>4, <3>1
  <2>7. ASSUME NEW i \in 2..k PROVE g[i] = g[i - 1] + a[i - 1]
    <3>1. i \in 1..k /\ i - 1 \in 1..k /\ i - 1 # k /\ i - 1 \in 1..(k - 1)
      BY <2>3
    <3>2. g[i - 1] = f[i - 1]
      BY <3>1
    <3>3. CASE i = k
      BY <3>1, <3>2, <3>3
    <3>4. CASE i # k
      <4>1. i \in 2..(k - 1)
        BY <3>1, <3>4, <2>3
      <4>2. f[i] = f[i - 1] + a[i - 1]
        BY <2>4, <4>1
      <4>3. g[i] = f[i]
        BY <3>1, <3>4
      <4> QED
        BY <3>2, <4>2, <4>3
    <3> QED
      BY <3>3, <3>4
  <2> HIDE DEF g
  <2>8. Sums(k, g)
    BY <2>6, <2>7
  <2> QED
    BY <2>1, <2>5, <2>8
<1> QED
  BY <1>1, <1>2

\* The bytes validation counts for a column are integers, whatever its rows.
LEMMA StorageBytesInt ==
  ASSUME NEW column \in Columns, NEW n \in Nat
  PROVE  StorageBytes(column, n) \in Int /\ BitmapBytes(column) \in Int
<1>1. PICK dense \in Int : dense = Dense(column, n)
  <2>1. NullCount(column) \in Int
    BY PresentCounted
  <2> QED
    BY <2>1 DEF Dense
<1>2. BitmapBytes(column) \in Int
  BY BytesKept
<1>3. CASE column.kind = "fixed_width"
  <2>1. PICK w \in Nat : w = FixedWidthBytes(column.type)
    BY ColumnParts
  <2>2. StorageBytes(column, n) = dense * w
    BY <1>1, <1>3, <2>1 DEF StorageBytes
  <2> QED
    BY <1>2, <2>2
<1>4. CASE column.kind = "boolean"
  <2>1. StorageBytes(column, n) = BytesFor(dense)
    BY <1>1, <1>4 DEF StorageBytes
  <2>2. PICK b \in Nat \ {0} : b = ByteBits
    BY StorageAssumption
  <2>3. BytesFor(dense) = (dense + b - 1) \div b
    BY <2>2 DEF BytesFor
  <2>4. (dense + b - 1) \div b \in Int
    OBVIOUS
  <2> QED
    BY <1>2, <2>1, <2>3, <2>4
<1>5. CASE column.kind = "variable_width"
  <2>1. PICK w \in Nat, l \in Nat : w = OffsetBytes /\ l = Len(column.payload)
    <3>1. OffsetBytes \in Nat /\ column.payload \in Seq(Octet)
      BY <1>5, ColumnParts, BlockAssumption
    <3> QED
      BY <3>1
  <2>2. StorageBytes(column, n) = w * (dense + 1) + l
    BY <1>1, <1>5, <2>1 DEF StorageBytes
  <2>3. w * (dense + 1) + l \in Int
    OBVIOUS
  <2> QED
    BY <1>2, <2>2, <2>3
<1> QED
  BY <1>3, <1>4, <1>5, ColumnParts

\* For a sound column they are the bytes it keeps.
LEMMA StorageBytesExact ==
  ASSUME NEW field, NEW column \in Columns, NEW lim, Sound(field, column, lim)
  PROVE  StorageBytes(column, rows) = KeptBytes(column)
<1>1. /\ column.rows = rows
      /\ SoundStorage(column, Cardinality(Present(column)), lim)
  BY SoundParts
<1>2. PICK n \in Nat : n = Cardinality(Present(column)) /\ n = Dense(column, rows)
  BY <1>1, PresentCounted DEF Dense
<1>3. CASE column.kind = "fixed_width"
  BY <1>1, <1>2, <1>3 DEF StorageBytes, KeptBytes, SoundStorage
<1>4. CASE column.kind = "boolean"
  <2>1. column.values.size * ByteBits \in n..(n + ByteBits - 1)
    BY <1>1, <1>2, <1>4 DEF SoundStorage
  <2>2. column.values.size \in Nat
    BY <1>4, ColumnParts DEF InMemory
  <2>3. column.values.size = BytesFor(n)
    BY <2>1, <2>2, BytesForExact
  <2> QED
    BY <1>2, <1>4, <2>3 DEF StorageBytes, KeptBytes
<1>5. CASE column.kind = "variable_width"
  <2>1. Len(column.offsets) = n + 1
    BY <1>1, <1>2, <1>5 DEF SoundStorage, SoundSpans
  <2> QED
    BY <1>2, <1>5, <2>1 DEF StorageBytes, KeptBytes
<1> QED
  BY <1>3, <1>4, <1>5, ColumnParts

\* The columns of the fields are published columns.
FieldsSet ==
  /\ schema \in Schemas /\ rows \in Nat
  /\ \A i \in DOMAIN schema : columns[schema[i].id] \in Columns

\* The running total of decoded bytes, step by step.
LEMMA DecodedUnfolds ==
  ASSUME FieldsSet
  PROVE  /\ Decoded[1] = 0
         /\ \A i \in 1..Len(schema) :
              Decoded[i + 1] = Decoded[i] + BitmapBytes(columns[schema[i].id])
                                 + StorageBytes(columns[schema[i].id], rows)
<1>1. PICK L \in Nat : L = Len(schema) /\ DOMAIN schema = 1..L
  BY BlockAssumption DEF FieldsSet
<1> DEFINE b == [j \in 1..L |-> BitmapBytes(columns[schema[j].id])]
           s == [j \in 1..L |-> StorageBytes(columns[schema[j].id], rows)]
           a == [j \in 1..L |-> b[j] + s[j]]
           Body(g) == [i \in 1..(L + 1) |->
                         IF i = 1 THEN 0
                         ELSE g[i - 1] + BitmapBytes(columns[schema[i - 1].id])
                                + StorageBytes(columns[schema[i - 1].id], rows)]
<1>2. b \in [1..L -> Int] /\ s \in [1..L -> Int]
  BY <1>1, StorageBytesInt DEF FieldsSet
<1>3. \A i \in 2..(L + 1) : i - 1 \in 1..L
                            /\ b[i - 1] = BitmapBytes(columns[schema[i - 1].id])
                            /\ s[i - 1] = StorageBytes(columns[schema[i - 1].id], rows)
  OBVIOUS
<1> HIDE DEF b, s
<1>4. a \in [1..L -> Int] /\ \A j \in 1..L : a[j] = b[j] + s[j]
  BY <1>2
<1> HIDE DEF a
<1>5. PICK f \in [1..(L + 1) -> Int] :
        f[1] = 0 /\ \A i \in 2..(L + 1) : f[i] = f[i - 1] + a[i - 1]
  BY <1>4, RunningSumExists
<1>6. f = Body(f)
  <2>1. ASSUME NEW i \in 1..(L + 1)
        PROVE  f[i] = IF i = 1 THEN 0
                      ELSE f[i - 1] + BitmapBytes(columns[schema[i - 1].id])
                             + StorageBytes(columns[schema[i - 1].id], rows)
    <3>1. CASE i = 1
      BY <1>5, <3>1
    <3>2. CASE i # 1
      <4>1. i \in 2..(L + 1) /\ i - 1 \in 1..L /\ i - 1 \in 1..(L + 1)
        BY <3>2
      <4>2. f[i] = f[i - 1] + (b[i - 1] + s[i - 1])
        BY <1>4, <1>5, <4>1
      <4>3. f[i - 1] \in Int /\ b[i - 1] \in Int /\ s[i - 1] \in Int
        BY <1>2, <4>1
      <4>4. f[i] = f[i - 1] + b[i - 1] + s[i - 1]
        BY <4>2, <4>3
      <4> QED
        BY <1>3, <3>2, <4>1, <4>4
    <3> QED
      BY <3>1, <3>2
  <2> QED
    BY <2>1, Zenon
<1>7. Decoded = CHOOSE g : g = Body(g)
  BY <1>1 DEF Decoded
<1>8. Decoded = Body(Decoded)
  <2> HIDE DEF Body
  <2> QED
    BY <1>6, <1>7
<1>9. Decoded[1] = 0
  <2>1. 1 \in 1..(L + 1)
    OBVIOUS
  <2>2. Body(Decoded)[1] = 0
    BY <2>1
  <2> QED
    BY <1>8, <2>2
<1>10. ASSUME NEW i \in 1..L
       PROVE  Decoded[i + 1] = Decoded[i] + BitmapBytes(columns[schema[i].id])
                                 + StorageBytes(columns[schema[i].id], rows)
  <2>1. i + 1 \in 1..(L + 1) /\ i + 1 # 1 /\ (i + 1) - 1 = i
    OBVIOUS
  <2>2. Body(Decoded)[i + 1] = Decoded[(i + 1) - 1]
            + BitmapBytes(columns[schema[(i + 1) - 1].id])
            + StorageBytes(columns[schema[(i + 1) - 1].id], rows)
    BY <2>1, Zenon
  <2> QED
    BY <1>8, <2>1, <2>2
<1> QED
  BY <1>1, <1>9, <1>10

\* The bytes of the i-th field's column, and those of the fields before it.
FieldBytes(i) == {schema[i].id} \X (1..Bytes(columns[schema[i].id]))

BytesBefore(i) == UNION {FieldBytes(j) : j \in 1..(i - 1)}

\* The bytes of a field are as many as its column keeps.
LEMMA FieldBytesCounted ==
  ASSUME FieldsSet, NEW i \in DOMAIN schema
  PROVE  /\ IsFiniteSet(FieldBytes(i))
         /\ Cardinality(FieldBytes(i)) = Bytes(columns[schema[i].id])
<1>1. PICK n \in Nat : n = Bytes(columns[schema[i].id])
  BY BytesKept DEF FieldsSet
<1> DEFINE one == {schema[i].id}
           some == 1..n
<1>2. IsFiniteSet(some) /\ Cardinality(some) = n
  <2>1. 1 \in Int /\ n \in Int /\ (IF 1 > n THEN 0 ELSE n - 1 + 1) = n
    OBVIOUS
  <2> QED
    BY <2>1, FS_Interval
<1>3. IsFiniteSet(one) /\ Cardinality(one) = 1
  BY FS_Singleton
<1>4. FieldBytes(i) = one \X some
  BY <1>1 DEF FieldBytes
<1> HIDE DEF one, some
<1>5. IsFiniteSet(one \X some) /\ Cardinality(one \X some) = 1 * n
  BY <1>2, <1>3, FS_Product, Zenon
<1> QED
  BY <1>1, <1>4, <1>5

\* Going a field further adds its bytes and no others.
LEMMA BytesBeforeUnfolds ==
  ASSUME FieldsSet
  PROVE  /\ BytesBefore(1) = {}
         /\ \A i \in DOMAIN schema : /\ BytesBefore(i + 1) = BytesBefore(i) \cup FieldBytes(i)
                                     /\ BytesBefore(i) \cap FieldBytes(i) = {}
<1>1. PICK L \in Nat : L = Len(schema) /\ DOMAIN schema = 1..L
  BY BlockAssumption DEF FieldsSet
<1>2. BytesBefore(1) = {}
  BY DEF BytesBefore
<1>3. ASSUME NEW i \in 1..L
      PROVE  BytesBefore(i + 1) = BytesBefore(i) \cup FieldBytes(i)
  <2>1. 1..((i + 1) - 1) = 1..(i - 1) \cup {i}
    OBVIOUS
  <2> QED
    BY <2>1, Zenon DEF BytesBefore
<1>4. ASSUME NEW i \in 1..L
      PROVE  BytesBefore(i) \cap FieldBytes(i) = {}
  <2>1. \A j \in 1..(i - 1) : j \in 1..L /\ j # i
    OBVIOUS
  <2>2. \A j \in 1..(i - 1) : schema[j].id # schema[i].id
    BY <1>1, <2>1, BlockAssumption DEF FieldsSet
  <2>3. \A j \in 1..(i - 1) : FieldBytes(j) \cap FieldBytes(i) = {}
    BY <2>2, Zenon DEF FieldBytes
  <2> QED
    BY <2>3, Zenon DEF BytesBefore
<1> QED
  BY <1>1, <1>2, <1>3, <1>4

\* While the columns before a field are sound, decoded_bytes is what they keep.
LEMMA DecodedCounts ==
  ASSUME FieldsSet, NEW lim, NEW i \in 1..(Len(schema) + 1),
         \A j \in 1..(i - 1) : Sound(schema[j], columns[schema[j].id], lim)
  PROVE  /\ IsFiniteSet(BytesBefore(i))
         /\ Decoded[i] = Cardinality(BytesBefore(i))
<1>1. PICK L \in Nat : L = Len(schema) /\ DOMAIN schema = 1..L
  BY BlockAssumption DEF FieldsSet
<1> DEFINE Counted(k) == IsFiniteSet(BytesBefore(k)) /\ Decoded[k] = Cardinality(BytesBefore(k))
           T == {k \in 1..i : ~Counted(k)}
<1>2. Counted(1)
  BY BytesBeforeUnfolds, DecodedUnfolds, FS_EmptySet
<1>3. ASSUME NEW j \in 1..(i - 1), Counted(j)
      PROVE  Counted(j + 1)
  <2>1. j \in 1..L /\ j \in 1..Len(schema)
    BY <1>1
  <2> DEFINE c == columns[schema[j].id]
  <2>2. c \in Columns
    BY <1>1, <2>1 DEF FieldsSet
  <2>3. StorageBytes(c, rows) = KeptBytes(c)
    BY <1>3, <2>2, StorageBytesExact
  <2>4. BitmapBytes(c) \in Nat /\ KeptBytes(c) \in Nat /\ Bytes(c) = BitmapBytes(c) + KeptBytes(c)
    BY <2>2, BytesKept
  <2>5. Decoded[j + 1] = Decoded[j] + BitmapBytes(c) + StorageBytes(c, rows)
    BY <2>1, DecodedUnfolds
  <2>6. IsFiniteSet(FieldBytes(j)) /\ Cardinality(FieldBytes(j)) = Bytes(c)
    BY <1>1, <2>1, FieldBytesCounted
  <2> HIDE DEF c
  <2>7. /\ BytesBefore(j + 1) = BytesBefore(j) \cup FieldBytes(j)
        /\ BytesBefore(j) \cap FieldBytes(j) = {}
    BY <1>1, <2>1, BytesBeforeUnfolds
  <2>8. IsFiniteSet(BytesBefore(j)) /\ Decoded[j] = Cardinality(BytesBefore(j))
        /\ Cardinality(BytesBefore(j)) \in Nat
    BY <1>3, FS_CardinalityType
  <2>9. /\ IsFiniteSet(BytesBefore(j + 1))
        /\ Cardinality(BytesBefore(j + 1)) = Cardinality(BytesBefore(j)) + Bytes(c)
    <3>1. Cardinality(BytesBefore(j) \cap FieldBytes(j)) = 0
      BY <2>7, FS_EmptySet
    <3>2. /\ IsFiniteSet(BytesBefore(j) \cup FieldBytes(j))
          /\ Cardinality(BytesBefore(j) \cup FieldBytes(j))
               = Cardinality(BytesBefore(j)) + Cardinality(FieldBytes(j))
                   - Cardinality(BytesBefore(j) \cap FieldBytes(j))
      BY <2>6, <2>8, FS_Union
    <3>3. Bytes(c) \in Nat
      BY <2>4
    <3>4. PICK x \in Nat, y \in Nat : x = Cardinality(BytesBefore(j)) /\ y = Bytes(c)
      BY <2>8, <3>3
    <3>5. Cardinality(BytesBefore(j + 1)) = x + y - 0
      BY <2>6, <2>7, <3>1, <3>2, <3>4, Zenon
    <3>6. IsFiniteSet(BytesBefore(j + 1))
      BY <2>7, <3>2, Zenon
    <3> QED
      BY <3>4, <3>5, <3>6
  <2> QED
    BY <2>3, <2>4, <2>5, <2>8, <2>9
<1> HIDE DEF Counted
<1>4. T = {}
  <2> SUFFICES ASSUME T # {} PROVE FALSE
    OBVIOUS
  <2>1. T \subseteq Nat
    OBVIOUS
  <2>2. PICK k \in T : \A m \in T : k <= m
    <3> HIDE DEF T
    <3> QED
      BY <2>1, LeastExists
  <2>3. k # 1
    BY <1>2
  <2>4. k - 1 \in 1..i /\ k - 1 \in 1..(i - 1) /\ ~(k <= k - 1) /\ (k - 1) + 1 = k
    BY <1>1, <2>3
  <2>5. Counted(k - 1)
    BY <2>2, <2>4
  <2>6. Counted((k - 1) + 1)
    BY <1>3, <2>4, <2>5
  <2> QED
    BY <2>4, <2>6
<1> QED
  <2>1. i \in 1..i
    BY <1>1
  <2> QED
    BY <1>4, <2>1 DEF Counted

\* All of them are the bytes the columns keep.
LEMMA TotalCounts ==
  ASSUME FieldsSet, DOMAIN columns = Ids
  PROVE  TotalBytes(columns) = Cardinality(BytesBefore(Len(schema) + 1))
<1>1. PICK L \in Nat : L = Len(schema) /\ DOMAIN schema = 1..L
  BY BlockAssumption DEF FieldsSet
<1>2. (L + 1) - 1 = L
  OBVIOUS
<1>3. BytesBefore(L + 1) = UNION {FieldBytes(j) : j \in 1..L}
  BY <1>2, Zenon DEF BytesBefore
<1>4. {{id} \X (1..Bytes(columns[id])) : id \in DOMAIN columns} = {FieldBytes(j) : j \in 1..L}
  <2>1. DOMAIN columns = {schema[j].id : j \in 1..L}
    BY <1>1, Zenon DEF Ids
  <2> QED
    BY ONLY <2>1, Zenon DEF FieldBytes
<1> QED
  BY <1>1, <1>3, <1>4, Zenon DEF TotalBytes

-----------------------------------------------------------------------------
(* finish().                                                               *)

\* finish() passes exactly if it passes its own checks and every column passes.
LEMMA FinishSteps ==
  ASSUME schema \in Schemas, NEW lim
  PROVE  FinishError(lim) = "none"
           <=> /\ LimitsValid(lim)
               /\ rows # 0 /\ ~(rows > lim.block_rows)
               /\ DOMAIN columns = Ids
               /\ \A i \in DOMAIN schema :
                    ColumnError(schema[i], columns[schema[i].id], rows, lim, Decoded[i]) = "none"
<1> DEFINE a == Check(~LimitsValid(lim),                    "invalid_resource_limit")
           b == Check(rows = 0,                             "invalid_block")
           c == Check(rows > lim.block_rows,                "limit_exceeded")
           d == Check(DOMAIN columns # Ids,                 "invalid_block")
           early == FirstError(<<a, b, c, d>>)
           Error(i) == ColumnError(schema[i], columns[schema[i].id], rows, lim, Decoded[i])
           all == [i \in DOMAIN schema |-> Check(Error(i) # "none", Error(i))]
<1>1. FinishError(lim) = IF early # "none" THEN early ELSE ValidateError(lim)
  BY DEF FinishError
<1>2. /\ a.fails <=> ~LimitsValid(lim)
      /\ b.fails <=> rows = 0
      /\ c.fails <=> rows > lim.block_rows
      /\ d.fails <=> DOMAIN columns # Ids
      /\ a.error # "none" /\ b.error # "none" /\ c.error # "none" /\ d.error # "none"
  BY DEF Check
<1>3. ValidateError(lim) = FirstError(all)
  BY DEF ValidateError
<1> HIDE DEF a, b, c, d
<1>4. early = "none" <=> ~a.fails /\ ~b.fails /\ ~c.fails /\ ~d.fails
  BY <1>2, FourPass
<1>5. DOMAIN schema = 1..Len(schema) /\ Len(schema) \in Nat
  BY BlockAssumption
<1>6. \A i \in DOMAIN schema : /\ all[i].fails <=> Error(i) # "none"
                               /\ all[i].fails => all[i].error # "none"
  <2> HIDE DEF Error, early
  <2> QED
    BY DEF Check
<1>7. Len(all) = Len(schema)
  <2>1. all \in [1..Len(schema) -> {all[i] : i \in 1..Len(schema)}]
    <3> HIDE DEF Error
    <3> QED
      BY <1>5
  <2> HIDE DEF all
  <2> QED
    BY <1>5, <2>1
<1> HIDE DEF all, Error, early
<1>8. FirstError(all) = "none" <=> \A i \in 1..Len(all) : ~all[i].fails
  BY <1>5, <1>6, <1>7, FirstErrorNone
<1>9. FirstError(all) = "none" <=> \A i \in DOMAIN schema : Error(i) = "none"
  BY <1>5, <1>6, <1>7, <1>8
<1> QED
  BY <1>1, <1>2, <1>3, <1>4, <1>9 DEF Error

\* The fields of a complete builder have published columns.
LEMMA CompleteFields ==
  ASSUME TypeOK, DOMAIN columns = Ids
  PROVE  FieldsSet
<1>1. schema \in Schemas /\ rows \in Nat
  BY BlockAssumption DEF TypeOK
<1>2. ASSUME NEW i \in DOMAIN schema
      PROVE  columns[schema[i].id] \in Columns
  <2>1. schema[i].id \in DOMAIN columns
    BY DEF Ids
  <2> QED
    BY <2>1 DEF TypeOK
<1> QED
  BY <1>1, <1>2 DEF FieldsSet

\* Disjoint finite sets have as many members together as apart.
LEMMA DisjointUnion ==
  ASSUME NEW S, IsFiniteSet(S), NEW T, IsFiniteSet(T), S \cap T = {}
  PROVE  /\ IsFiniteSet(S \cup T)
         /\ Cardinality(S \cup T) = Cardinality(S) + Cardinality(T)
<1>1. Cardinality(S) \in Nat /\ Cardinality(T) \in Nat
  BY FS_CardinalityType
<1>2. Cardinality(S \cap T) = 0
  BY FS_EmptySet
<1>3. /\ IsFiniteSet(S \cup T)
      /\ Cardinality(S \cup T) = Cardinality(S) + Cardinality(T) - Cardinality(S \cap T)
  BY FS_Union
<1> QED
  BY <1>1, <1>2, <1>3

\* All columns pass, each with decoded_bytes as it is when its field is reached,
\* exactly if all are sound and together within the limit.
LEMMA ColumnsExact ==
  ASSUME FieldsSet, DOMAIN columns = Ids, NEW lim \in LimitSets
  PROVE  (\A i \in DOMAIN schema :
            ColumnError(schema[i], columns[schema[i].id], rows, lim, Decoded[i]) = "none")
         <=> /\ \A i \in DOMAIN schema : Sound(schema[i], columns[schema[i].id], lim)
             /\ TotalBytes(columns) <= lim.decoded_bytes
<1>1. PICK L \in Nat : L = Len(schema) /\ DOMAIN schema = 1..L
  BY BlockAssumption DEF FieldsSet
<1> DEFINE Col(i) == columns[schema[i].id]
           Passes(i) == ColumnError(schema[i], Col(i), rows, lim, Decoded[i]) = "none"
           SoundAt(i) == Sound(schema[i], Col(i), lim)
           Count(i) == Cardinality(BytesBefore(i))
<1>2. PICK most \in Nat : most = lim.decoded_bytes
  BY LimitOnBytes
<1>3. ASSUME NEW i \in 1..(L + 1), \A j \in 1..(i - 1) : SoundAt(j)
      PROVE  /\ IsFiniteSet(BytesBefore(i)) /\ Count(i) \in Nat
             /\ Decoded[i] = Count(i)
  <2>1. IsFiniteSet(BytesBefore(i)) /\ Decoded[i] = Cardinality(BytesBefore(i))
    BY <1>1, <1>3, DecodedCounts
  <2> QED
    BY <2>1, FS_CardinalityType
<1>4. ASSUME NEW i \in 1..L, \A j \in 1..(i - 1) : SoundAt(j)
      PROVE  Passes(i) <=> SoundAt(i) /\ Count(i) + Bytes(Col(i)) <= most
  <2>1. Decoded[i] \in Nat /\ Decoded[i] = Count(i)
    BY <1>3, <1>4
  <2>2. Col(i) \in Columns
    BY <1>1 DEF FieldsSet
  <2>3. Passes(i) <=> SoundAt(i) /\ Decoded[i] + Bytes(Col(i)) <= lim.decoded_bytes
    <3> HIDE DEF Col
    <3> QED
      BY <2>1, <2>2, ColumnExact
  <2> QED
    BY <1>2, <2>1, <2>3
<1>5. ASSUME NEW i \in 1..L, \A j \in 1..i : SoundAt(j)
      PROVE  Count(i + 1) = Count(i) + Bytes(Col(i))
  <2>1. i \in 1..(L + 1) /\ i + 1 \in 1..(L + 1) /\ (i + 1) - 1 = i
        /\ \A j \in 1..(i - 1) : j \in 1..i
    OBVIOUS
  <2>2. /\ IsFiniteSet(BytesBefore(i)) /\ Count(i) \in Nat
        /\ IsFiniteSet(BytesBefore(i + 1)) /\ Count(i + 1) \in Nat
    <3> HIDE DEF SoundAt, Count
    <3> QED
      BY <1>3, <1>5, <2>1
  <2>3. IsFiniteSet(FieldBytes(i)) /\ Cardinality(FieldBytes(i)) = Bytes(Col(i))
    BY <1>1, FieldBytesCounted
  <2>4. /\ BytesBefore(i + 1) = BytesBefore(i) \cup FieldBytes(i)
        /\ BytesBefore(i) \cap FieldBytes(i) = {}
    BY <1>1, BytesBeforeUnfolds
  <2> QED
    BY <2>2, <2>3, <2>4, DisjointUnion
<1>6. ASSUME \A i \in 1..L : Passes(i)
      PROVE  \A i \in 1..L : SoundAt(i)
  <2> DEFINE T == {i \in 1..L : ~SoundAt(i)}
  <2> SUFFICES ASSUME T # {} PROVE FALSE
    OBVIOUS
  <2>1. T \subseteq Nat
    OBVIOUS
  <2>2. PICK k \in T : \A m \in T : k <= m
    <3> HIDE DEF T
    <3> QED
      BY <2>1, LeastExists
  <2>3. k \in 1..L /\ ~SoundAt(k)
    BY <2>2
  <2>4. \A j \in 1..(k - 1) : SoundAt(j)
    <3> SUFFICES ASSUME NEW j \in 1..(k - 1) PROVE SoundAt(j)
      OBVIOUS
    <3>1. j \in 1..L /\ ~(k <= j)
      BY <2>3
    <3> HIDE DEF SoundAt
    <3> QED
      BY <2>2, <3>1
  <2> HIDE DEF T, SoundAt, Passes, Count, Col
  <2> QED
    BY <1>4, <1>6, <2>3, <2>4
<1>7. TotalBytes(columns) = Count(L + 1)
  BY <1>1, TotalCounts
<1>8. ASSUME \A i \in 1..L : SoundAt(i)
      PROVE  (\A i \in 1..L : Passes(i)) <=> Count(L + 1) <= most
  <2>1. ASSUME NEW i \in 1..L
        PROVE  Passes(i) <=> Count(i + 1) <= most
    <3>1. \A j \in 1..i : j \in 1..L
      OBVIOUS
    <3>2. \A j \in 1..(i - 1) : j \in 1..L
      OBVIOUS
    <3> HIDE DEF SoundAt, Passes, Count, Col
    <3> QED
      BY <1>4, <1>5, <1>8, <3>1, <3>2
  <2>2. ASSUME NEW i \in 1..L
        PROVE  Count(i + 1) \in Nat /\ Count(L + 1) \in Nat /\ Count(i + 1) <= Count(L + 1)
    <3>1. /\ L + 1 \in 1..(L + 1) /\ i + 1 \in 1..(L + 1)
          /\ \A j \in 1..((L + 1) - 1) : j \in 1..L
          /\ \A j \in 1..((i + 1) - 1) : j \in 1..L
      OBVIOUS
    <3>2. BytesBefore(i + 1) \subseteq BytesBefore(L + 1)
      <4>1. \A j \in 1..((i + 1) - 1) : j \in 1..((L + 1) - 1)
        OBVIOUS
      <4> QED
        BY <4>1, Zenon DEF BytesBefore
    <3>3. /\ IsFiniteSet(BytesBefore(L + 1)) /\ Count(L + 1) \in Nat
          /\ Count(i + 1) \in Nat
      <4> HIDE DEF SoundAt, Count
      <4> QED
        BY <1>3, <1>8, <3>1
    <3> QED
      BY <3>2, <3>3, FS_Subset
  <2>3. L = 0 => Count(L + 1) = 0
    <3>1. BytesBefore(1) = {}
      BY BytesBeforeUnfolds
    <3> QED
      BY <3>1, FS_EmptySet
  <2>4. L # 0 => L \in 1..L
    OBVIOUS
  <2> HIDE DEF Passes, Count, SoundAt
  <2> QED
    BY <1>2, <2>1, <2>2, <2>3, <2>4
<1> HIDE DEF Count
<1> QED
  BY <1>1, <1>2, <1>6, <1>7, <1>8

\* finish() accepts exactly the acceptable sets of columns.
LEMMA FinishAccepts ==
  ASSUME TypeOK, NEW lim \in LimitSets
  PROVE  FinishError(lim) = "none" <=> Acceptable(lim)
<1>1. schema \in Schemas /\ rows \in Nat
  BY BlockAssumption DEF TypeOK
<1>2. lim.block_rows \in Nat
  BY BlockAssumption DEF Limits
<1>3. rows \in 1..lim.block_rows <=> rows # 0 /\ ~(rows > lim.block_rows)
  BY <1>1, <1>2
<1>4. DOMAIN columns = Ids =>
        ((\A i \in DOMAIN schema :
            ColumnError(schema[i], columns[schema[i].id], rows, lim, Decoded[i]) = "none")
         <=> /\ \A i \in DOMAIN schema : Sound(schema[i], columns[schema[i].id], lim)
             /\ TotalBytes(columns) <= lim.decoded_bytes)
  BY CompleteFields, ColumnsExact
<1>5. FinishError(lim) = "none"
           <=> /\ LimitsValid(lim)
               /\ rows # 0 /\ ~(rows > lim.block_rows)
               /\ DOMAIN columns = Ids
               /\ \A i \in DOMAIN schema :
                    ColumnError(schema[i], columns[schema[i].id], rows, lim, Decoded[i]) = "none"
  BY <1>1, FinishSteps
<1> QED
  BY <1>3, <1>4, <1>5 DEF Acceptable

-----------------------------------------------------------------------------
(* The builder.                                                            *)

\* A new builder satisfies the invariant.
LEMMA InitIInv == Init => IInv
<1>1. DOMAIN <<>> = {}
  OBVIOUS
<1> QED
  BY <1>1 DEF Init, IInv, TypeOK, BlockLaidOut, BlockInOrder

\* Setting a column, for the first time or again, keeps the invariant.
LEMMA SetColumnIInv ==
  ASSUME IInv, NEW id, NEW column \in Columns, SetColumn(id, column)
  PROVE  IInv'
<1>1. /\ columns' = With(id, column) /\ id \in Ids
      /\ schema' = schema /\ rows' = rows /\ finished' = finished /\ block' = block
  BY DEF SetColumn
<1>2. /\ DOMAIN columns' = {id} \cup DOMAIN columns
      /\ \A d \in DOMAIN columns' : columns'[d] = IF d = id THEN column ELSE columns[d]
  BY <1>1 DEF With
<1>3. Ids' = Ids
  BY <1>1 DEF Ids
<1>4. TypeOK'
  BY <1>1, <1>2, <1>3 DEF IInv, TypeOK
<1>5. block = None
  BY DEF SetColumn, IInv, BlockInOrder
<1> QED
  BY <1>1, <1>4, <1>5 DEF IInv, BlockLaidOut, BlockInOrder

\* finish() publishes only columns that are laid out.
LEMMA FinishIInv ==
  ASSUME IInv, NEW lim \in LimitSets, Finish(lim)
  PROVE  IInv'
<1>1. /\ schema' = schema /\ rows' = rows /\ columns' = columns /\ finished' = TRUE
      /\ schema \in Schemas /\ rows \in Nat
  BY BlockAssumption DEF Finish, IInv, TypeOK
<1>2. Ids' = Ids
  BY <1>1 DEF Ids
<1>3. CASE block' = block
  BY <1>1, <1>2, <1>3 DEF IInv, TypeOK, BlockLaidOut, BlockInOrder
<1>4. CASE /\ FinishError(lim) = "none"
           /\ block' = [i \in DOMAIN schema |-> columns[schema[i].id]]
  <2>0. Acceptable(lim)
    BY <1>4, FinishAccepts DEF IInv
  <2>1. ASSUME NEW i \in DOMAIN schema
        PROVE  /\ block'[i] \in Columns
               /\ block'[i].kind = "variable_width" => LaidOut(block'[i])
    <3>1. /\ schema[i].id \in DOMAIN columns
          /\ Sound(schema[i], columns[schema[i].id], lim)
      BY <2>0 DEF Acceptable, Ids
    <3>2. columns[schema[i].id] \in Columns
      BY <3>1 DEF IInv, TypeOK
    <3>3. block'[i] = columns[schema[i].id]
      BY <1>4
    <3> QED
      BY <3>1, <3>2, <3>3, SoundLaidOut
  <2>2. TypeOK'
    BY <1>1, <1>2, <2>1 DEF IInv, TypeOK
  <2>3. BlockLaidOut'
    BY <1>1, <2>1 DEF BlockLaidOut
  <2>4. BlockInOrder'
    BY <1>1, <1>4 DEF BlockInOrder
  <2> QED
    BY <2>2, <2>3, <2>4 DEF IInv
<1> QED
  BY <1>3, <1>4 DEF Finish

\* Every step keeps the invariant.
LEMMA NextIInv == IInv /\ [Next]_vars => IInv'
<1> SUFFICES ASSUME IInv, [Next]_vars PROVE IInv'
  OBVIOUS
<1>1. ASSUME NEW id \in Ids \cup {OtherId}, NEW c \in Columns, SetColumn(id, c) PROVE IInv'
  BY <1>1, SetColumnIInv
<1>2. ASSUME NEW lim \in LimitSets, Finish(lim) PROVE IInv'
  BY <1>2, FinishIInv
<1>3. CASE UNCHANGED vars
  BY <1>3 DEF vars, IInv, TypeOK, Ids, BlockLaidOut, BlockInOrder
<1> QED
  BY <1>1, <1>2, <1>3 DEF Next

\* The invariant holds of every reachable state.
THEOREM InvariantHolds == Spec => []IInv
BY InitIInv, NextIInv, PTL DEF Spec

\* A builder only ever holds published columns for fields of its schema, and a
\* published block has one of each.
THEOREM TypeCorrect == Spec => []TypeOK
<1>1. IInv => TypeOK
  BY DEF IInv
<1> QED
  BY <1>1, InvariantHolds, PTL

\* finish() publishes exactly the sets of columns that make a sound block within
\* the limits, whatever the order they were set in.
THEOREM FinishExact == Spec => []FinishIsExact
<1>1. TypeOK => FinishIsExact
  BY FinishAccepts DEF FinishIsExact
<1> QED
  BY <1>1, TypeCorrect, PTL

\* What variable_value answers for a field of spans.
LEMMA ValueServed ==
  ASSUME IInv, NEW i \in DOMAIN schema, block[i].kind = "variable_width",
         NEW k \in Nat
  PROVE  VariableValue(schema[i].id, k) =
           IF k >= Len(block[i].offsets) - 1 THEN None ELSE Value(block[i], k + 1)
<1>1. /\ schema[i].id \in Ids
      /\ \A j \in DOMAIN schema : schema[j].id = schema[i].id => j = i
  BY BlockAssumption DEF Ids, IInv, TypeOK
<1>2. (CHOOSE j \in DOMAIN schema : schema[j].id = schema[i].id) = i
  BY <1>1
<1> QED
  BY <1>1, <1>2 DEF VariableValue

\* What variable_value answers for the rows of a column that is laid out is its
\* payload, cut up.
LEMMA LaidOutServed ==
  ASSUME IInv, block # None, NEW i \in DOMAIN schema, block[i].kind = "variable_width"
  PROVE  LET n == Cardinality(Present(block[i]))
             Served(k) == VariableValue(schema[i].id, k)
         IN /\ \A k \in 0..(n - 1) : Served(k) # None
            /\ FlattenSeq([k \in 1..n |-> Served(k - 1)]) = block[i].payload
            /\ Served(n) = None
<1> DEFINE c == block[i]
           o == c.offsets
           p == c.payload
           n == Cardinality(Present(c))
           Served(k) == VariableValue(schema[i].id, k)
<1>0. PICK B : B = 0..255
  OBVIOUS
<1>1. c \in Columns /\ o \in Seq(Nat) /\ p \in Seq(B)
  BY <1>0, BlockAssumption DEF IInv, TypeOK
<1>2. /\ Len(o) = n + 1 /\ o[1] = 0 /\ o[n + 1] = Len(p)
      /\ \A k \in 2..Len(o) : o[k - 1] <= o[k]
  BY DEF IInv, BlockLaidOut, LaidOut
<1>3. n \in Nat
  BY <1>1, PresentCounted
<1>4. ASSUME NEW k \in 0..(n - 1)
      PROVE  Served(k) = SubSeq(p, o[k + 1] + 1, o[k + 2])
  <2>1. k \in Nat /\ ~(k >= Len(o) - 1) /\ k + 1 + 1 = k + 2
    BY <1>2, <1>3
  <2> HIDE DEF n
  <2> QED
    BY <2>1, ValueServed DEF Value
<1>5. Served(n) = None
  <2>1. n >= Len(o) - 1
    BY <1>2, <1>3
  <2> HIDE DEF n
  <2> QED
    BY <1>3, <2>1, ValueServed
<1> HIDE DEF c, o, p, n, Served
<1>6. ASSUME NEW k \in 0..(n - 1)
      PROVE  Served(k) # None
  <2>1. k + 2 \in 1..Len(o) /\ k + 1 \in 1..Len(o) /\ Len(o) = n + 1 /\ o # <<>>
    <3>1. Len(o) = n + 1
      BY <1>2
    <3>2. k + 2 \in 1..(n + 1) /\ k + 1 \in 1..(n + 1) /\ n + 1 # 0
      BY <1>3
    <3>3. Len(<<>>) = 0
      OBVIOUS
    <3> QED
      BY <3>1, <3>2, <3>3
  <2>2. o[k + 1] \in Nat /\ o[k + 2] \in Nat /\ o[k + 2] <= Len(p)
    <3>1. o[k + 2] <= o[Len(o)]
      BY <1>1, <1>2, <2>1, OffsetsWithin
    <3> QED
      BY <1>1, <1>2, <2>1, <3>1, SMTT(30)
  <2>3. \A j \in (o[k + 1] + 1)..o[k + 2] : p[j] \in B
    <3> SUFFICES ASSUME NEW j \in (o[k + 1] + 1)..o[k + 2] PROVE p[j] \in B
      OBVIOUS
    <3>1. Len(p) \in Nat /\ j \in 1..Len(p)
      <4>1. Len(p) \in Nat
        BY <1>1
      <4> QED
        BY <2>2, <4>1
    <3> QED
      BY <1>1, <3>1, ElementOfSeq
  <2>4. Served(k) \in Seq(B)
    <3>1. o[k + 1] + 1 \in Int /\ o[k + 2] \in Int
      BY <2>2
    <3>2. SubSeq(p, o[k + 1] + 1, o[k + 2]) \in Seq(B)
      BY <2>3, <3>1, SubSeqProperties
    <3> QED
      BY <1>4, <3>2
  <2> QED
    BY <1>0, <2>4, BlockAssumption
<1>7. [k \in 1..n |-> Served(k - 1)] = Spans(p, o, n)
  <2>1. ASSUME NEW k \in 1..n
        PROVE  Served(k - 1) = SubSeq(p, o[k] + 1, o[k + 1])
    <3>1. k - 1 \in 0..(n - 1) /\ (k - 1) + 1 = k /\ (k - 1) + 2 = k + 1
      BY <1>3
    <3> QED
      BY <1>4, <3>1
  <2> QED
    BY <2>1 DEF Spans
<1>8. FlattenSeq([k \in 1..n |-> Served(k - 1)]) = p
  <2>1. FlattenSeq(Spans(p, o, n)) = p
    BY <1>1, <1>2, <1>3, SpansAreThePayload
  <2> QED
    BY <1>7, <2>1
<1> QED
  BY <1>5, <1>6, <1>8 DEF c, p, n, Served

\* Whatever the order the columns were set in, a published block answers for
\* every value of the column of spans set for a field, the answers make up that
\* column's payload, and it answers for no row behind them.
THEOREM ValuesServed == Spec => []EveryValueServed
<1>1. IInv => EveryValueServed
  <2> SUFFICES ASSUME IInv, block # None, NEW i \in DOMAIN schema
               PROVE  LET c == columns[schema[i].id]
                          n == IF c.kind = "variable_width" THEN Cardinality(Present(c)) ELSE 0
                          Served(k) == VariableValue(schema[i].id, k)
                      IN /\ \A k \in 0..(n - 1) : Served(k) # None
                         /\ c.kind = "variable_width" =>
                              FlattenSeq([k \in 1..n |-> Served(k - 1)]) = c.payload
                         /\ Served(n) = None
    BY DEF EveryValueServed, Ids
  <2>1. block[i] = columns[schema[i].id]
    BY DEF IInv, BlockInOrder
  <2>2. CASE block[i].kind = "variable_width"
    BY <2>1, <2>2, LaidOutServed
  <2>3. CASE block[i].kind # "variable_width"
    <3>1. /\ schema[i].id \in Ids
          /\ \A j \in DOMAIN schema : schema[j].id = schema[i].id => j = i
      BY BlockAssumption DEF Ids, IInv, TypeOK
    <3>2. (CHOOSE j \in DOMAIN schema : schema[j].id = schema[i].id) = i
      BY <3>1
    <3>3. VariableValue(schema[i].id, 0) = None
      BY <2>3, <3>1, <3>2 DEF VariableValue
    <3>4. 0..(0 - 1) = {}
      OBVIOUS
    <3> QED
      BY <2>1, <2>3, <3>3, <3>4
  <2> QED
    BY <2>2, <2>3
<1> QED
  BY <1>1, InvariantHolds, PTL

=============================================================================
