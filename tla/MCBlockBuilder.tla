--------------------------- MODULE MCBlockBuilder ---------------------------
(* Small values for BlockBuilder: two-field schemas, blocks of two rows,     *)
(* two-bit bytes, two-byte offsets, and columns of every storage kind whose  *)
(* sizes, offsets, bytes and validity are right in some and wrong in others. *)
EXTENDS BlockBuilder

Int16  == LogicalType("int16", NoParameters)
Bool   == LogicalType("boolean", NoParameters)
Text   == LogicalType("string", Parameters("string", <<0>>))
Binary == LogicalType("binary", NoParameters)

Field(id, type, nullable) == [id |-> id, type |-> type, nullable |-> nullable]

MCSchemas == {<<Field(1, Text, TRUE), Field(2, Int16, FALSE)>>,
              <<Field(7, Bool, TRUE), Field(2, Binary, FALSE)>>}

\* No validity, or the first of n rows missing
Validities(n) == {None, FromBitmap(n, [size |-> BytesFor(n), ones |-> 1..(n - 1)])}

Buffers == {[size |-> n, ones |-> {}] : n \in 0..4}
Bits    == {[size |-> 0, ones |-> {}]}
           \cup {[size |-> 1, ones |-> b] : b \in SUBSET {0, 1}}

OffsetBuffers == {<<>>, <<0>>, <<0, 1>>, <<0, 2>>, <<1, 2>>, <<0, 1, 2>>, <<0, 2, 2>>,
                  <<0, 2, 1>>, <<0, 0, 1>>, <<1, 1, 1>>}
Payloads == {<<>>, <<97>>, <<97, 97>>, <<195, 169>>, <<192, 128>>}

Fixed(type, n, buffers) ==
  [kind : {StorageOf(type)}, type : {type}, rows : {n}, validity : Validities(n),
   values : buffers, offsets : {None}, payload : {None}]

Variable(type, n, offsets, payloads) ==
  [kind : {StorageOf(type)}, type : {type}, rows : {n}, validity : Validities(n),
   values : {None}, offsets : offsets, payload : payloads]

\* Columns of one row as well, so that a column may not fit its block
MCColumns ==
  Fixed(Int16, 2, Buffers) \cup Fixed(Int16, 1, {[size |-> 2, ones |-> {}]})
  \cup Fixed(Bool, 2, Bits)
  \cup Variable(Text, 2, OffsetBuffers, Payloads)
  \cup Variable(Binary, 2, {<<0, 1, 2>>, <<0, 2, 1>>, <<0, 1>>}, {<<195, 169>>, <<169>>})
  \cup Variable(Text, 1, {<<0>>, <<0, 1>>}, {<<>>, <<97>>})

ALimit == [resident_bytes |-> 20, block_rows |-> 2, decoded_bytes |-> 20, record_bytes |-> 20,
           metadata_bytes |-> 1, fields |-> 1, encoding_depth |-> 1, workers |-> 1,
           queued_blocks |-> 1]
MCLimitSets == {ALimit, [ALimit EXCEPT !.decoded_bytes = 9], [ALimit EXCEPT !.record_bytes = 1],
                [ALimit EXCEPT !.block_rows = 1], [ALimit EXCEPT !.record_bytes = 21],
                [ALimit EXCEPT !.queued_blocks = 0]}
=============================================================================
