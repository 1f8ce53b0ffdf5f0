--------------------------- MODULE CanonicalBytes ---------------------------
(***************************************************************************)
(* The canonical bytes of a schema (the append_ functions of               *)
(* src/schema.cpp), which identify it, and a reader that shows they do.    *)
(*                                                                         *)
(* A field is [id, name, type, nullable, metadata], a schema [fields,      *)
(* metadata].  Metadata is a std::map: a function whose domain is its      *)
(* keys, listed in the order of the bytes of the keys.                     *)
(***************************************************************************)
EXTENDS LogicalTypes

\* A word is a number of eight bytes, and holds any number of two.
ASSUME WidthAssumption ==
  MaxWord >= 65535 /\ ((MaxWord \div 65536) \div 65536) \div 65536 < 65536

\* std::uint32_t
Word32 == {n \in 0..MaxWord : n \div 65536 < 65536}

\* append_integer: two's complement, least significant byte first
Integer(value, bytes) ==
  LET bits[k \in 1..bytes] == IF k = 1 THEN value ELSE bits[k - 1] \div 256
  IN [k \in 1..bytes |-> bits[k] % 256]

\* append_bytes, append_string
Bytes(text) == Integer(Len(text), 8) \o text

\* std::string's order: that of the first byte that differs
TextLess(s, t) ==
  \E n \in 0..Len(s) :
    /\ n < Len(t) /\ \A i \in 1..n : s[i] = t[i]
    /\ n < Len(s) => s[n + 1] < t[n + 1]

\* The order a std::map lists its keys in
InOrder(keys) ==
  CHOOSE list \in Bijection(1..Cardinality(keys), keys) :
    \A i, j \in DOMAIN list : i < j => TextLess(list[i], list[j])

\* Mutant: a key and its value are written as one string.
MetadataRunTogether(metadata) ==
  LET keys == InOrder(DOMAIN metadata)
  IN Integer(Len(keys), 8)
       \o FlattenSeq([i \in DOMAIN keys |-> Bytes(keys[i] \o metadata[keys[i]])])

\* append_metadata
MetadataBytes(metadata) ==
  LET keys == InOrder(DOMAIN metadata)
  IN Integer(Len(keys), 8)
       \o FlattenSeq([i \in DOMAIN keys |-> Bytes(keys[i]) \o Bytes(metadata[keys[i]])])

\* Bytes of each number of each alternative
Widths ==
  [none |-> <<>>, decimal |-> <<1, 2>>, time |-> <<1>>, timestamp |-> <<1, 1>>,
   string |-> <<1>>, fixed_binary |-> <<4>>]

IndexOf(s, e) == SelectInSeq(s, LAMBDA x : x = e) - 1

\* append_type
TypeBytes(type) ==
  LET p == type.parameters
      widths == Widths[p.alternative]
  IN <<IndexOf(Kinds, type.kind), IndexOf(Alternatives, p.alternative)>>
       \o FlattenSeq([i \in DOMAIN widths |-> Integer(p.numbers[i], widths[i])])

FieldBytes(f) ==
  Integer(f.id, 4) \o Bytes(f.name) \o TypeBytes(f.type)
    \o <<IF f.nullable THEN 1 ELSE 0>> \o MetadataBytes(f.metadata)

\* "SCH" and the version of the encoding
Canonical(schema) ==
  <<83, 67, 72, 1>> \o Integer(Len(schema.fields), 4)
    \o FlattenSeq([i \in DOMAIN schema.fields |-> FieldBytes(schema.fields[i])])
    \o MetadataBytes(schema.metadata)

-----------------------------------------------------------------------------
(* A reader for these bytes.  No program has one yet: that it can be        *)
(* written is what makes them an identity.  Of each part there is what is   *)
(* read after the first p bytes, its At, and where it ends, its End.        *)

Least(m, n) == IF m < n THEN m ELSE n

ByteAt(b, i) == IF i \in DOMAIN b THEN b[i] ELSE 0

\* A number of w bytes, from its last byte on
NumberAt(b, p, w) ==
  LET high[k \in 0..w] ==
        IF k = 0 THEN 0 ELSE Least(ByteAt(b, p + w + 1 - k) + 256 * high[k - 1], MaxWord)
  IN high[w]

\* The scale of a decimal is the only number of two bytes and has a sign.
ParameterAt(b, p, w) ==
  LET n == NumberAt(b, p, w)
  IN IF w = 2 /\ n >= 32768 THEN n - 65536 ELSE n

TextEnd(b, p) == Least(p + 8 + NumberAt(b, p, 8), Len(b))
TextAt(b, p) == SubSeq(b, p + 9, TextEnd(b, p))

\* A list: a number of w bytes and so many items.  Starts[i] is the end of the
\* i-th, Starts[0] that of the number.
ListLength(b, p, w) == Least(NumberAt(b, p, w), Len(b))
Starts(b, p, w, End(_, _)) ==
  LET start[i \in 0..ListLength(b, p, w)] == IF i = 0 THEN p + w ELSE End(b, start[i - 1])
  IN start

EntryEnd(b, p) == TextEnd(b, TextEnd(b, p))
MetadataEnd(b, p) == Starts(b, p, 8, EntryEnd)[ListLength(b, p, 8)]
MetadataAt(b, p) ==
  LET starts  == Starts(b, p, 8, EntryEnd)
      entries == {starts[i - 1] : i \in 1..ListLength(b, p, 8)}
  IN [key \in {TextAt(b, e) : e \in entries} |->
        TextAt(b, TextEnd(b, CHOOSE e \in entries : TextAt(b, e) = key))]

AlternativeAt(b, p) == Alternatives[ByteAt(b, p + 2) + 1]
\* What the numbers of a type take up before the i-th
Before(widths, i) == SumFunctionOnSet(widths, 1..(i - 1))
TypeEnd(b, p) ==
  LET widths == Widths[AlternativeAt(b, p)]
  IN p + 2 + Before(widths, Len(widths) + 1)
TypeAt(b, p) ==
  LET widths == Widths[AlternativeAt(b, p)]
  IN LogicalType(
       Kinds[ByteAt(b, p + 1) + 1],
       Parameters(AlternativeAt(b, p),
                  [i \in DOMAIN widths |-> ParameterAt(b, p + 2 + Before(widths, i), widths[i])]))

TypeStart(b, p) == TextEnd(b, p + 4)
FlagStart(b, p) == TypeEnd(b, TypeStart(b, p))
FieldEnd(b, p) == MetadataEnd(b, FlagStart(b, p) + 1)
FieldAt(b, p) ==
  [id       |-> NumberAt(b, p, 4),
   name     |-> TextAt(b, p + 4),
   type     |-> TypeAt(b, TypeStart(b, p)),
   nullable |-> ByteAt(b, FlagStart(b, p) + 1) = 1,
   metadata |-> MetadataAt(b, FlagStart(b, p) + 1)]

ReadSchema(b) ==
  LET starts == Starts(b, 4, 4, FieldEnd)
      fields == ListLength(b, 4, 4)
  IN [fields   |-> [i \in 1..fields |-> FieldAt(b, starts[i - 1])],
      metadata |-> MetadataAt(b, starts[fields])]

=============================================================================
