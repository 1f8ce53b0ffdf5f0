--------------------------- MODULE ColumnBuilders ---------------------------
(***************************************************************************)
(* The builders of src/column.cpp: a ValidityBuilder, whose bitmap may go  *)
(* into a column, and the three column builders, which share one protocol: *)
(* each component is set at most once, and finish() consumes the builder.  *)
(* A caller makes the calls in any order and repeats them at will; the two *)
(* builders share nothing but the Validity, so one of each is enough.  A   *)
(* refused call changes nothing and is a stuttering step.                  *)
(*                                                                         *)
(* finish() of a column builder looks at the components first and only     *)
(* then marks the builder finished, so a call that comes too early can be  *)
(* repeated; a validity of the wrong length or a failed allocation is      *)
(* found after that mark and spends the builder.                           *)
(***************************************************************************)
EXTENDS ColumnStorage

CONSTANTS
  Rows,      \* row counts callers ask for
  MaxBytes,  \* largest bitmap a caller makes itself
  Types,     \* logical types
  Values,    \* byte buffers callers pass as values or payload
  Offsets    \* offset buffers

\* A LogicalType only comes from create(), and a fixed_binary width is unsigned.
ASSUME ColumnAssumption ==
  /\ Rows \subseteq Nat
  /\ \A t \in Types :
       /\ CreateError(t.kind, t.parameters) = "none"
       /\ t.kind = "fixed_binary" => t.parameters.numbers[1] \in Nat

VARIABLES
  vb,        \* the ValidityBuilder
  held,      \* the Validity the caller has, from a builder or a bitmap
  cb         \* the column builder

buildersVars == <<vb, held, cb>>

-----------------------------------------------------------------------------
(* ValidityBuilder.  said is what was appended; appended is its length.    *)

ValidityBuilder(rows) == [rows |-> rows, said |-> <<>>, ones |-> {}, finished |-> FALSE,
                          out |-> None]

\* Mutant: the byte index is left out.
BitInByte(row) == row % ByteBits
BitOf(row) == (row \div ByteBits) * ByteBits + (row % ByteBits)

\* Mutant: one row too many.
Overfull == Len(vb.said) > vb.rows
Full == Len(vb.said) >= vb.rows

\* invalid_state once finished or full, arithmetic_overflow when the bitmap
\* could not be sized
AppendRow(valid) ==
  /\ ~vb.finished /\ ~Full
  /\ ~TooManyBits(vb.rows)
  /\ vb' = [vb EXCEPT !.said = Append(@, valid),
                      !.ones = IF valid THEN @ \cup {BitOf(Len(vb.said))} ELSE @]
  /\ UNCHANGED <<held, cb>>

BuiltBitmap == [size |-> BytesFor(vb.rows), ones |-> vb.ones]

\* invalid_state until every row was appended.  After the mark, the copy of
\* the bitmap or the Validity itself may fail to be allocated.
FinishValidity ==
  LET v == FromBitmap(vb.rows, BuiltBitmap)
  IN /\ ~vb.finished /\ Len(vb.said) = vb.rows
     /\ \/ /\ FromBitmapError(vb.rows, BuiltBitmap) = "none"
           /\ vb' = [vb EXCEPT !.finished = TRUE, !.out = v]
           /\ held' = v
        \/ /\ vb' = [vb EXCEPT !.finished = TRUE]
           /\ UNCHANGED held
     /\ UNCHANGED cb

\* Validity::from_bitmap with a bitmap of the caller's own
TakeBitmap(rows, bitmap) ==
  /\ FromBitmapError(rows, bitmap) = "none"
  /\ held' = FromBitmap(rows, bitmap)
  /\ UNCHANGED <<vb, cb>>

-----------------------------------------------------------------------------
(* The column builders.                                                    *)

Components == {"validity", "values", "offsets", "payload"}

ColumnBuilder(kind, type, rows) ==
  [kind |-> kind, type |-> type, rows |-> rows,
   set |-> [c \in Components |-> None], finished |-> FALSE, out |-> None]

\* set_validity, set_values, set_offsets, set_payload: invalid_state when
\* finished or already set
Set(component, value) ==
  /\ component \in Required(cb.kind) \cup {"validity"}
  /\ ~cb.finished
  /\ cb.set[component] = None
  /\ cb' = [cb EXCEPT !.set[component] = value]
  /\ UNCHANGED <<vb, held>>

\* is_fixed_storage_type, is_variable_width
Incomplete ==
  \/ cb.finished
  \/ \E c \in Required(cb.kind) : cb.set[c] = None
  \/ StorageOf(cb.type) # cb.kind

\* Mutant: a shorter validity will do.
ValidityWithin ==
  IF cb.set.validity = None THEN TRUE ELSE cb.set.validity.rows <= cb.rows

\* validate_validity
ValidityFits ==
  IF cb.set.validity = None THEN TRUE ELSE cb.set.validity.rows = cb.rows

Built == [kind |-> cb.kind, type |-> cb.type, rows |-> cb.rows,
          validity |-> cb.set.validity, values |-> cb.set.values,
          offsets |-> cb.set.offsets, payload |-> cb.set.payload]

\* invalid_block while incomplete, and again, the builder now spent, when the
\* validity does not fit; the column may fail to be allocated.
FinishColumn ==
  /\ ~Incomplete
  /\ \/ /\ ValidityFits
        /\ cb' = [cb EXCEPT !.finished = TRUE, !.out = Built]
     \/ cb' = [cb EXCEPT !.finished = TRUE]
  /\ UNCHANGED <<vb, held>>

-----------------------------------------------------------------------------
\* A BooleanColumnBuilder takes no type: it makes the boolean type itself.
BuildersInit ==
  /\ \E r \in Rows : vb = ValidityBuilder(r)
  /\ held = None
  /\ \E k \in StorageKinds, t \in Types, r \in Rows :
       (k = "boolean" => t.kind = "boolean") /\ cb = ColumnBuilder(k, t, r)

BuildersNext ==
  \/ \E valid \in BOOLEAN : AppendRow(valid)
  \/ FinishValidity
  \/ \E r \in Rows, b \in Bitmaps(MaxBytes) : TakeBitmap(r, b)
  \/ held # None /\ Set("validity", held)
  \/ \E b \in Values : Set("values", b) \/ Set("payload", b)
  \/ \E o \in Offsets : Set("offsets", o)
  \/ FinishColumn

BuildersSpec == BuildersInit /\ [][BuildersNext]_buildersVars

-----------------------------------------------------------------------------
(* Properties.                                                             *)

\* What from_bitmap lets through: a bitmap of just the bytes its rows need,
\* with no bit past the last row.
Validities ==
  UNION {[rows : {r}, nulls : 0..r,
          bitmap : [size : {BytesFor(r)}, ones : SUBSET (0..(r - 1))]] : r \in Rows}

Optional(S) == S \cup {None}

\* Types.
BuildersTypeOK ==
  /\ vb \in [rows : Rows, said : Seq(BOOLEAN), ones : SUBSET Nat, finished : BOOLEAN,
             out : Optional(Validities)]
  /\ Len(vb.said) <= vb.rows /\ vb.ones \subseteq 0..(vb.rows - 1)
  /\ held \in Optional(Validities)
  /\ cb.set \in [validity : Optional(Validities), values : Optional(Values),
                 offsets : Optional(Offsets), payload : Optional(Values)]
  /\ cb \in [kind : StorageKinds, type : Types, rows : Rows, set : {cb.set},
             finished : BOOLEAN, out : Optional({cb.out})]

\* Whatever bitmap a Validity was made of, its null count is the number of
\* rows that is_valid() denies: a stray padding bit would have made them
\* disagree, and the dense value count of a column with them.
NullCountExact ==
  held # None =>
    held.nulls = Cardinality({r \in 0..(held.rows - 1) : ~IsValid(held, r)})

\* The bitmap a ValidityBuilder produces says of every row what was appended
\* for it, across byte boundaries and whatever refused calls came between.
BitmapFaithful ==
  vb.out # None =>
    /\ vb.out.rows = Len(vb.said)
    /\ \A r \in 0..(vb.out.rows - 1) : IsValid(vb.out, r) = vb.said[r + 1]

\* A published column is one a block may be made of, whichever calls made it:
\* with the components its type's storage needs and no others, of the width of
\* its values, and with a null count that is the count of its rows without a
\* value, so that the dense count blocks rely on is right.  finish() spends the
\* builder before it publishes, never while a component is missing, and what it
\* published is what was set: nothing is set or finished after it.
ColumnWellFormed ==
  /\ cb.finished =>
       /\ StorageOf(cb.type) = cb.kind
       /\ \A c \in Required(cb.kind) : cb.set[c] # None
  /\ cb.out # None =>
       /\ cb.finished /\ cb.out = Built
       /\ PublishedColumn(cb.out)
       /\ \A c \in {"values", "offsets", "payload"} :
            (cb.out[c] # None) <=> (c \in Required(cb.out.kind))
       /\ (cb.out.kind = "fixed_width") <=> (FixedWidthBytes(cb.out.type) > 0)
       /\ (cb.out.kind = "boolean") <=> (cb.out.type.kind = "boolean")

=============================================================================
