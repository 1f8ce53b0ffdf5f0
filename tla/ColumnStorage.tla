---------------------------- MODULE ColumnStorage ---------------------------
(***************************************************************************)
(* The immutable values of src/column.cpp: validity bitmaps and columns.   *)
(*                                                                         *)
(* A bitmap is its size in bytes and the set of its one bits; the values   *)
(* of a fixed-width or boolean column are such a buffer too, a payload is  *)
(* a sequence of bytes.  Buffers never change once a column has them:      *)
(* ByteBuffer::copy owns its storage, and the caller of share() has to     *)
(* publish its storage as immutable first (docs/columns.md).               *)
(***************************************************************************)
EXTENDS LogicalTypes, FiniteSets

CONSTANTS
  ByteBits,  \* bits in a byte
  None

ASSUME StorageAssumption == ByteBits \in Nat \ {0}

\* Bytes of a bitmap of n bits, and when that computation would wrap
BytesFor(n) == (n + ByteBits - 1) \div ByteBits
TooManyBits(n) == n > MaxWord - (ByteBits - 1)

\* Mutant: bits within the last byte are not looked at.
PaddedBytes(n, bitmap) == \E i \in bitmap.ones : i >= BytesFor(n) * ByteBits

\* One bits past the n bits in use
Padded(n, bitmap) == \E i \in bitmap.ones : i >= n

\* Validity::from_bitmap
FromBitmapError(rows, bitmap) ==
  FirstError(<<
    Check(TooManyBits(rows),             "arithmetic_overflow"),
    Check(bitmap.size # BytesFor(rows),  "invalid_block"),
    Check(Padded(rows, bitmap),          "invalid_block")>>)

FromBitmap(rows, bitmap) ==
  [rows |-> rows, nulls |-> rows - Cardinality(bitmap.ones), bitmap |-> bitmap]

IsValid(validity, row) == row < validity.rows /\ row \in validity.bitmap.ones

\* Column::null_count
NullCount(column) == IF column.validity = None THEN 0 ELSE column.validity.nulls

StorageKinds == {"fixed_width", "boolean", "variable_width"}

\* The storage a logical type is kept in
StorageOf(type) ==
  IF IsVariableWidth(type) THEN "variable_width"
  ELSE IF type.kind = "boolean" THEN "boolean" ELSE "fixed_width"

\* What a builder must be given besides an optional validity

Required(kind) ==
  IF kind = "variable_width" THEN {"offsets", "payload"} ELSE {"values"}

\* What a column has whatever calls made it (ColumnBuilders), and blocks rely
\* on: the storage of its type, all its components, and a validity that is for
\* its rows and counts its nulls.
PublishedValidity(v, n) ==
  /\ v.rows = n
  /\ v.bitmap.size \in Nat
  /\ v.bitmap.ones \subseteq 0..(n - 1)
  /\ v.nulls = n - Cardinality(v.bitmap.ones)

PublishedColumn(c) ==
  /\ c.rows \in Nat
  /\ c.kind = StorageOf(c.type) /\ FixedWidthBytes(c.type) \in Nat
  /\ \A x \in Required(c.kind) : c[x] # None
  /\ c.validity # None => PublishedValidity(c.validity, c.rows)

\* Every bitmap over at most n bytes
Bitmaps(n) == UNION {[size : {k}, ones : SUBSET (0..(k * ByteBits - 1))] : k \in 0..n}

=============================================================================
