-------------------------- MODULE MCSchemaBuilder ---------------------------
(* Small values for SchemaBuilder: three sound fields of which some clash in *)
(* ID or name, three unsound ones, keys of every sort, limits between the    *)
(* sizes that can be reached, and every text around the edges of UTF-8.      *)
EXTENDS SchemaBuilder

Draft(id, name, type, nullable) ==
  [id |-> id, name |-> name, type |-> type, nullable |-> nullable]

Decimal(precision, scale) == LogicalType("decimal", Parameters("decimal", <<precision, scale>>))
Text  == LogicalType("string", Parameters("string", <<1>>))
Fixed(width) == LogicalType("fixed_binary", Parameters("fixed_binary", <<width>>))

a  == <<97>>
aa == <<97, 195, 169>>  \* with a two-byte character

MCDrafts == {Draft(1, a, Decimal(2, -1), TRUE), Draft(1, aa, Text, FALSE),
             Draft(258, a, Fixed(256), FALSE),
             Draft(0, a, Text, TRUE), Draft(2, <<192, 128>>, Text, TRUE),
             Draft(2, aa, Decimal(1, -2), TRUE), Draft(2, aa, Fixed(0), TRUE)}

s == 115
MCReserved == <<s, 46>>
MCOwn      == <<s, 46, 101, 47>>

\* o/k and s.e/k are sound.
MCKeys == {<<111, 47, 107>>, MCOwn \o <<107>>,
           <<s, 46, 120, 47, 107>>, <<47, 107>>, <<111, 47>>, <<107>>, <<111, 47, 128>>}
MCValues == {<<7>>}

Enough == [resident_bytes |-> 40, block_rows |-> 1, decoded_bytes |-> 1, record_bytes |-> 40,
           metadata_bytes |-> 30, fields |-> 2, encoding_depth |-> 1, workers |-> 1,
           queued_blocks |-> 1]
MCLimitSets == {Enough, [Enough EXCEPT !.metadata_bytes = 7], [Enough EXCEPT !.fields = 0],
                [Enough EXCEPT !.metadata_bytes = 3, !.fields = 3],
                [Enough EXCEPT !.record_bytes = 20]}

Leads == {0, 127, 128, 191, 192, 193, 194, 223, 224, 225, 236, 237, 238, 239, 240, 241, 243,
          244, 245, 247, 248, 255}
Tails == {0, 127, 128, 143, 144, 159, 160, 191, 192, 255}

MCTexts == BoundedSeq(Leads, 2) \cup {<<l>> \o t : l \in Leads, t \in BoundedSeq(Tails, 2)}
             \cup {<<l>> \o t : l \in {240, 241, 243, 244, 245}, t \in SeqOf(Tails, 3)}
=============================================================================
