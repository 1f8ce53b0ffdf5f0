---------------------------- MODULE BlockBuilder ----------------------------
(***************************************************************************)
(* BlockBuilder and Block (src/block.cpp): columns are bound to the fields *)
(* of a schema in any order, and finish() validates all of them before it  *)
(* publishes an immutable block.  Only finish() looks into the columns:    *)
(* the column builders let any sizes, offsets and bytes through.           *)
(*                                                                         *)
(* Bytes of text are numbers to 255; bitmaps have ByteBits bits in a byte.  *)
(***************************************************************************)
EXTENDS ColumnStorage, ResourceLimits, Utf8

CONSTANTS
  Schemas,      \* sequences of fields [id, type, nullable]
  Columns,      \* columns the column builders have published
  RowCounts,    \* row counts blocks are declared with
  LimitSets,    \* ResourceLimits callers pass to finish
  OffsetBytes,  \* sizeof(std::uint64_t)
  OtherId       \* a field ID no schema has

\* A buffer: its bits are far fewer than a word can count, for it is in memory.
InMemory(buffer) ==
  /\ buffer.size \in Nat
  /\ buffer.ones \subseteq 0..(buffer.size * ByteBits - 1)
  /\ ~TooManyBits(buffer.size * ByteBits)

\* What a program can build a block of: schemas whose fields differ in their
\* IDs (SchemaBuilder), and columns the builders have published (ColumnBuilders),
\* with any offsets and any bytes.
ASSUME BlockAssumption ==
  /\ OffsetBytes \in Nat \ {0}
  /\ RowCounts \subseteq Nat
  /\ LimitSets \subseteq {lim \in Limits : lim.decoded_bytes <= MaxWord}
  /\ None \notin Seq(0..255)
  /\ \A s \in Schemas :
       /\ DOMAIN s = 1..Len(s) /\ Len(s) \in Nat
       /\ \A i, j \in DOMAIN s : s[i].id = s[j].id => i = j
  /\ \A c \in Columns :
       /\ PublishedColumn(c)
       /\ IF c.kind = "variable_width"
          THEN c.offsets \in Seq(Nat) /\ c.payload \in Seq(0..255)
          ELSE InMemory(c.values)

VARIABLES
  schema, rows,  \* what the builder was made with
  columns,       \* field ID -> column, for the columns set so far
  finished,
  block          \* the columns of the published block, in schema order

vars == <<schema, rows, columns, finished, block>>

Ids == {schema[i].id : i \in DOMAIN schema}

-----------------------------------------------------------------------------
(* Validation.  base is decoded_bytes so far.                              *)

\* add_decoded_bytes
AddDecoded(base, amount, lim) ==
  <<Check(AddOverflows(base, amount),        "arithmetic_overflow"),
    Check(base + amount > lim.decoded_bytes, "limit_exceeded")>>

Dense(column, n) == n - NullCount(column)

FixedChecks(field, column, dense, lim, base) ==
  LET expected == dense * FixedWidthBytes(column.type) IN
  <<Check(MultiplyOverflows(dense, FixedWidthBytes(column.type)),      "arithmetic_overflow"),
    Check(column.values = None \/ column.values.size # expected,       "invalid_block")>>
  \o AddDecoded(base, expected, lim)

BooleanChecks(field, column, dense, lim, base) ==
  LET expected == BytesFor(dense) IN
  <<Check(field.type.kind # "boolean",                                 "invalid_block"),
    Check(TooManyBits(dense),                                          "invalid_block"),
    Check(column.values = None \/ column.values.size # expected,       "invalid_block"),
    Check(Padded(dense, column.values),                                "invalid_block")>>
  \o AddDecoded(base, expected, lim)

\* The k-th value of a variable-width column, k from 1
Value(column, k) ==
  SubSeq(column.payload, column.offsets[k] + 1, column.offsets[k + 1])

\* Mutant: the length of a value is not limited.
Descends(o, k, lim) == o[k] < o[k - 1]
BadStep(o, k, lim) == o[k] < o[k - 1] \/ o[k] - o[k - 1] > lim.record_bytes

\* Mutant: payload may be left over.
EndsOutside(o, payload) == o = <<>> \/ Last(o) > Len(payload)
EndsElsewhere(o, payload) == o = <<>> \/ Last(o) # Len(payload)

OffsetChecks(column, dense, lim, base) ==
  LET o == column.offsets
      size == OffsetBytes * (dense + 1)
  IN
  <<Check(dense = MaxWord,                                             "invalid_block"),
    Check(Len(o) # dense + 1,                                          "invalid_block"),
    Check(o = <<>> \/ Head(o) # 0,                                     "invalid_block"),
    Check(\E k \in 2..Len(o) : BadStep(o, k, lim),                     "invalid_block"),
    Check(EndsElsewhere(o, column.payload),                            "invalid_block"),
    Check(MultiplyOverflows(dense + 1, OffsetBytes),                   "arithmetic_overflow")>>
  \o AddDecoded(base, size, lim)
  \o AddDecoded(base + size, Len(column.payload), lim)

\* Utf8Validation::strict
IsStrict(type) == type.kind = "string" /\ type.parameters.numbers[1] = 0

\* Payload bytes are only looked at once every offset is known to be sound.
VariableChecks(field, column, dense, lim, base) ==
  LET layout == FirstError(OffsetChecks(column, dense, lim, base)) IN
  <<Check(layout # "none", layout),
    Check(/\ layout = "none"
          /\ IsStrict(column.type)
          /\ \E k \in 1..dense : ~ValidUtf8(Value(column, k)),         "invalid_block")>>

\* The bytes a column adds to decoded_bytes, its validity bitmap first
BitmapBytes(column) == IF column.validity = None THEN 0 ELSE column.validity.bitmap.size

StorageBytes(column, n) ==
  CASE column.kind = "fixed_width"    -> Dense(column, n) * FixedWidthBytes(column.type)
    [] column.kind = "boolean"        -> BytesFor(Dense(column, n))
    [] column.kind = "variable_width" -> OffsetBytes * (Dense(column, n) + 1)
                                           + Len(column.payload)

StorageChecks(field, column, n, lim, base) ==
  LET dense == Dense(column, n) IN
  CASE column.kind = "fixed_width"    -> FixedChecks(field, column, dense, lim, base)
    [] column.kind = "boolean"        -> BooleanChecks(field, column, dense, lim, base)
    [] column.kind = "variable_width" -> VariableChecks(field, column, dense, lim, base)

NullsForbidden(field, column) == ~field.nullable /\ column.validity # None

ColumnError(field, column, n, lim, base) ==
  LET shape == FirstError(
        <<Check(column.rows # n,                                       "invalid_block"),
          Check(column.type # field.type,                              "invalid_block"),
          Check(NullsForbidden(field, column),                         "invalid_block"),
          Check(NullCount(column) > n,                                 "invalid_block")>>
        \o (IF column.validity = None THEN <<>>
            ELSE AddDecoded(base, BitmapBytes(column), lim)))
  IN IF shape # "none" THEN shape
     ELSE FirstError(StorageChecks(field, column, n, lim, base + BitmapBytes(column)))

\* decoded_bytes when the i-th field is reached
Decoded[i \in 1..(Len(schema) + 1)] ==
  IF i = 1 THEN 0
  ELSE LET c == columns[schema[i - 1].id]
       IN Decoded[i - 1] + BitmapBytes(c) + StorageBytes(c, rows)

\* Fields are validated in schema order, whatever order they were set in.
ValidateError(lim) ==
  LET Error(i) == ColumnError(schema[i], columns[schema[i].id], rows, lim, Decoded[i])
  IN FirstError([i \in DOMAIN schema |-> Check(Error(i) # "none", Error(i))])

FinishError(lim) ==
  LET early == FirstError(
        <<Check(~LimitsValid(lim),                    "invalid_resource_limit"),
          Check(rows = 0,                             "invalid_block"),
          Check(rows > lim.block_rows,                "limit_exceeded"),
          Check(DOMAIN columns # Ids,                 "invalid_block")>>)
  IN IF early # "none" THEN early ELSE ValidateError(lim)

-----------------------------------------------------------------------------
(* The builder.                                                            *)

\* The columns and one more
With(id, column) ==
  [i \in DOMAIN columns \cup {id} |-> IF i = id THEN column ELSE columns[i]]

\* Mutant: the field is not looked up in the schema.
SetAnyColumn(id, column) ==
  /\ ~finished
  /\ id \notin DOMAIN columns
  /\ columns' = With(id, column)
  /\ UNCHANGED <<schema, rows, finished, block>>

\* invalid_state when finished or already set, invalid_block for a field the
\* schema does not have
SetColumn(id, column) ==
  /\ ~finished
  /\ id \notin DOMAIN columns
  /\ id \in Ids
  /\ columns' = With(id, column)
  /\ UNCHANGED <<schema, rows, finished, block>>

\* The first call spends the builder whatever comes of it; publishing may
\* also fail for want of memory.
Finish(lim) ==
  /\ ~finished
  /\ finished' = TRUE
  /\ \/ /\ FinishError(lim) = "none"
        /\ block' = [i \in DOMAIN schema |-> columns[schema[i].id]]
     \/ UNCHANGED block
  /\ UNCHANGED <<schema, rows, columns>>

Init ==
  /\ schema \in Schemas
  /\ rows \in RowCounts
  /\ columns = <<>>
  /\ finished = FALSE
  /\ block = None

Next ==
  \/ \E id \in Ids \cup {OtherId}, c \in Columns : SetColumn(id, c)
  \/ \E lim \in LimitSets : Finish(lim)

Spec == Init /\ [][Next]_vars

\* Block::variable_value(field_id, dense_index): a span of the payload, or
\* None for invalid_configuration
VariableValue(id, dense_index) ==
  LET i == CHOOSE j \in DOMAIN schema : schema[j].id = id
      c == block[i]
  IN IF \/ id \notin Ids
        \/ c.kind # "variable_width"
        \/ dense_index >= Len(c.offsets) - 1
     THEN None
     ELSE Value(c, dense_index + 1)

-----------------------------------------------------------------------------
(* Properties.                                                             *)

\* Types.
TypeOK ==
  /\ schema \in Schemas /\ rows \in RowCounts
  /\ DOMAIN columns \subseteq Ids
  /\ \A id \in DOMAIN columns : columns[id] \in Columns
  /\ finished \in BOOLEAN
  /\ block # None => \A i \in DOMAIN schema : block[i] \in Columns

\* The rows of a column that hold a value.
Present(column) ==
  {r \in 0..(column.rows - 1) :
     IF column.validity = None THEN TRUE ELSE IsValid(column.validity, r)}

\* What a sound column is, said without validating it step by step: a value
\* for every present row and nothing left over.
Sound(field, column, lim) ==
  LET n == Cardinality(Present(column))
      o == column.offsets
      values == [k \in 1..n |-> Value(column, k)]
  IN /\ column.rows = rows
     /\ column.type = field.type
     /\ field.nullable \/ column.validity = None
     /\ CASE column.kind = "fixed_width" -> column.values.size = n * FixedWidthBytes(column.type)
          [] column.kind = "boolean" ->
               /\ column.values.ones \subseteq 0..(n - 1)
               /\ column.values.size * ByteBits \in n..(n + ByteBits - 1)
          [] column.kind = "variable_width" ->
               /\ Len(o) = n + 1
               /\ o[1] = 0
               /\ \A k \in 1..n : o[k + 1] \in o[k]..(o[k] + lim.record_bytes)
               /\ o[n + 1] <= Len(column.payload)
               /\ FlattenSeq(values) = column.payload
               /\ IsStrict(column.type) => \A k \in 1..n : WellFormed(values[k])

\* Bytes a column really keeps.
Bytes(column) ==
  (IF column.validity = None THEN 0 ELSE column.validity.bitmap.size)
  + (IF column.kind = "variable_width"
     THEN OffsetBytes * Len(column.offsets) + Len(column.payload)
     ELSE column.values.size)

TotalBytes(cs) == Cardinality(UNION {{id} \X (1..Bytes(cs[id])) : id \in DOMAIN cs})

Acceptable(lim) ==
  /\ LimitsValid(lim)
  /\ rows \in 1..lim.block_rows
  /\ DOMAIN columns = Ids
  /\ \A i \in DOMAIN schema : Sound(schema[i], columns[schema[i].id], lim)
  /\ TotalBytes(columns) <= lim.decoded_bytes

\* finish accepts exactly the sets of columns that make a sound block within
\* the limits: it lets no malformed column through and refuses no sound one,
\* whatever the order of the columns and the checks.
FinishIsExact ==
  ~finished => \A lim \in LimitSets : (FinishError(lim) = "none") <=> Acceptable(lim)

\* Whoever asks a published block for the values of a field gets those of the
\* column that was set for its ID, in whatever order the columns were set: every
\* variable-width value can be asked for and lies within that column's payload,
\* there is one for every row that is not null, and asking past the last, or for
\* the spans of a column without any, is refused.
EveryValueServed ==
  block # None =>
    \A id \in Ids :
      LET c == columns[id]
          n == IF c.kind = "variable_width" THEN Cardinality(Present(c)) ELSE 0
          Served(k) == VariableValue(id, k)
      IN /\ \A k \in 0..(n - 1) : Served(k) # None
         /\ c.kind = "variable_width" =>
              FlattenSeq([k \in 1..n |-> Served(k - 1)]) = c.payload
         /\ Served(n) = None

=============================================================================
