--------------------------- MODULE SchemaBuilder ----------------------------
(***************************************************************************)
(* FieldBuilder and SchemaBuilder (src/schema.cpp).  A program makes one   *)
(* field after another and adds the finished ones, once or more often, to  *)
(* a schema builder, in any order and mixed with metadata for either.      *)
(* add_field() looks at nothing: uniqueness and the limit on all names and *)
(* metadata are found out by the one finish(), in a single pass.           *)
(* A refused call changes nothing and is a stuttering step, except that a  *)
(* refused finish() spends its builder.                                    *)
(***************************************************************************)
EXTENDS CanonicalBytes, ResourceLimits, Utf8

CONSTANTS
  Drafts,        \* [id, name, type, nullable] of the fields the program makes
  Keys, Values,  \* metadata it adds to fields and schemas
  LimitSets,     \* ResourceLimits it passes to finish
  Texts,         \* texts that may or may not be UTF-8
  MaxEntries,    \* bound on the metadata of a field
  MaxFields,     \* bound on the fields of a schema
  Slash,         \* the byte '/'
  Reserved, Own, \* the prefixes "shibori." and "shibori.engine/"
  None

\* The parameters of a type are one alternative with its numbers.
Parametrized(type) ==
  LET p == type.parameters
  IN /\ type = LogicalType(type.kind, p) /\ p = Parameters(p.alternative, p.numbers)
     /\ p.alternative \in DOMAIN Widths
     /\ p.numbers \in Seq(Int) /\ Len(p.numbers) = Len(Widths[p.alternative])
     /\ p.alternative = "fixed_binary" => p.numbers[1] \in Word32

\* Texts are bytes, IDs and limits are words, and the engine's own prefix is a
\* namespace with the slash that ends it.
ASSUME SchemaAssumption ==
  /\ LimitSets \subseteq
       {lim \in Limits : lim.metadata_bytes <= MaxWord /\ lim.fields \in Word32}
  /\ MaxFields \in Nat /\ MaxEntries \in Nat
  /\ \A t \in Keys \cup Values \cup Texts \cup {Reserved, Own} : t \in Seq(0..255)
  /\ \A d \in Drafts : /\ d.id \in Word32 /\ d.name \in Seq(0..255)
                       /\ Parametrized(d.type) /\ d.nullable \in BOOLEAN
  /\ Own # <<>> /\ \A i \in 1..Len(Own) : Own[i] = Slash <=> i = Len(Own)

VARIABLES
  fb,      \* the FieldBuilder in use, None before the first
  field,   \* the Field the program has, None for none
  sb,      \* the SchemaBuilder
  schema   \* what it published, None before: [fields, metadata, canonical]

vars == <<fb, field, sb, schema>>

-----------------------------------------------------------------------------
(* Metadata.                                                                *)

\* Mutant: any key of the own product is taken for the engine's.
KeyErrorPrefix(key) ==
  LET slash == SelectInSeq(key, LAMBDA c : c = Slash)
  IN FirstError(<<
       Check(key = <<>> \/ ~ValidUtf8(key) \/ slash \in {0, 1, Len(key)}, "invalid_schema"),
       Check(IsPrefix(Reserved, key) /\ slash < Len(Own),                 "invalid_schema")>>)

\* validate_key
KeyError(key) ==
  LET slash == SelectInSeq(key, LAMBDA c : c = Slash)
  IN FirstError(<<
       Check(key = <<>> \/ ~ValidUtf8(key) \/ slash \in {0, 1, Len(key)}, "invalid_schema"),
       Check(IsPrefix(Reserved, key) /\ ~IsPrefix(Own, key),              "invalid_schema")>>)

\* add_metadata_value; the copy may also fail for want of memory
AddMetadataError(metadata, key) ==
  FirstError(<<Check(KeyError(key) # "none",     KeyError(key)),
               Check(key \in DOMAIN metadata,    "invalid_schema")>>)

AddMetadata(metadata, key, value) ==
  [k \in DOMAIN metadata \cup {key} |-> IF k = key THEN value ELSE metadata[k]]

\* metadata_size
MetadataSize(metadata) ==
  SumFunction([k \in DOMAIN metadata |-> Len(k) + Len(metadata[k])])

\* validate_metadata: the aggregate that a total of its own is added to
OverLimit(aggregate, lim) ==
  <<Check(aggregate > MaxWord,             "arithmetic_overflow"),
    Check(aggregate > lim.metadata_bytes,  "limit_exceeded")>>

-----------------------------------------------------------------------------
(* Fields.                                                                  *)

FieldSize(f) == Len(f.name) + MetadataSize(f.metadata)

FinishFieldError(f, lim) ==
  FirstError(
    <<Check(f.id = 0 \/ f.name = <<>> \/ ~ValidUtf8(f.name),  "invalid_schema")>>
    \o OverLimit(FieldSize(f), lim))

Field(draft, metadata) ==
  [id |-> draft.id, name |-> draft.name, type |-> draft.type,
   nullable |-> draft.nullable, metadata |-> metadata]

\* FieldBuilder's constructor looks at nothing; the type was made before.  The
\* program is done with the last field.
NewField(draft) ==
  /\ CreateError(draft.type.kind, draft.type.parameters) = "none"
  /\ fb' = [made |-> Field(draft, <<>>), finished |-> FALSE]
  /\ field' = None
  /\ UNCHANGED <<sb, schema>>

FieldMetadata(key, value) ==
  /\ fb # None /\ ~fb.finished
  /\ Cardinality(DOMAIN fb.made.metadata) < MaxEntries
  /\ AddMetadataError(fb.made.metadata, key) = "none"
  /\ fb' = [fb EXCEPT !.made.metadata = AddMetadata(@, key, value)]
  /\ UNCHANGED <<field, sb, schema>>

\* Publishing moves the content out of the builder; it may also fail for want
\* of memory.
FinishField(lim) ==
  /\ fb # None /\ ~fb.finished
  /\ fb' = [made |-> None, finished |-> TRUE]
  /\ \/ FinishFieldError(fb.made, lim) = "none" /\ field' = fb.made
     \/ UNCHANGED field
  /\ UNCHANGED <<sb, schema>>

-----------------------------------------------------------------------------
(* Schemas.                                                                 *)

Clash(f, g) == f.id = g.id \/ f.name = g.name

\* The running total when the i-th field was added to it
RunningTotal(fields, metadata, i) ==
  MetadataSize(metadata)
    + SumFunctionOnSet([j \in DOMAIN fields |-> FieldSize(fields[j])], 1..i)

\* Mutant: a field's own metadata is left out of the total.
NamesOnlyChecks(fields, metadata, i, lim) ==
  <<Check(\E j \in 1..(i - 1) : Clash(fields[j], fields[i]),  "invalid_schema")>>
  \o OverLimit(MetadataSize(metadata)
                 + SumFunctionOnSet([j \in DOMAIN fields |-> Len(fields[j].name)], 1..i), lim)

FieldChecks(fields, metadata, i, lim) ==
  <<Check(\E j \in 1..(i - 1) : Clash(fields[j], fields[i]),  "invalid_schema")>>
  \o OverLimit(RunningTotal(fields, metadata, i), lim)

FinishError(fields, metadata, lim) ==
  FirstError(
    <<Check(~LimitsValid(lim),            "invalid_resource_limit"),
      Check(fields = <<>>,                "invalid_schema"),
      Check(Len(fields) > lim.fields,     "limit_exceeded")>>
    \o OverLimit(MetadataSize(metadata), lim)
    \o FlattenSeq([i \in DOMAIN fields |-> FieldChecks(fields, metadata, i, lim)]))

AddField ==
  /\ field # None /\ ~sb.finished
  /\ Len(sb.fields) < MaxFields
  /\ sb' = [sb EXCEPT !.fields = Append(@, field)]
  /\ UNCHANGED <<fb, field, schema>>

SchemaMetadata(key, value) ==
  /\ ~sb.finished
  /\ AddMetadataError(sb.metadata, key) = "none"
  /\ sb' = [sb EXCEPT !.metadata = AddMetadata(@, key, value)]
  /\ UNCHANGED <<fb, field, schema>>

\* Publishing may also fail for want of memory.  A spent builder is of no use,
\* whatever is left in it.
Finish(lim) ==
  /\ ~sb.finished
  /\ sb' = [fields |-> <<>>, metadata |-> <<>>, finished |-> TRUE]
  /\ \/ /\ FinishError(sb.fields, sb.metadata, lim) = "none"
        /\ LET s == [fields |-> sb.fields, metadata |-> sb.metadata]
           IN schema' = [content |-> s, canonical |-> Canonical(s)]
     \/ UNCHANGED schema
  /\ UNCHANGED <<fb, field>>

\* Schema::find_field: the first field with this ID
FindField(s, id) ==
  SelectInSeq(s.fields, LAMBDA f : f.id = id)

Init ==
  /\ fb = None
  /\ field = None
  /\ sb = [fields |-> <<>>, metadata |-> <<>>, finished |-> FALSE]
  /\ schema = None

Next ==
  \/ \E d \in Drafts : NewField(d)
  \/ \E k \in Keys, v \in Values : FieldMetadata(k, v) \/ SchemaMetadata(k, v)
  \/ \E lim \in LimitSets : FinishField(lim) \/ Finish(lim)
  \/ AddField

Spec == Init /\ [][Next]_vars

-----------------------------------------------------------------------------
(* Properties.                                                             *)

Unique(fields) ==
  \A i, j \in DOMAIN fields :
    (fields[i].id = fields[j].id \/ fields[i].name = fields[j].name) => i = j

\* Every byte the limit is about, once: its number in the entry of a key, or in
\* the name of a field, and the field it belongs to, 0 for the schema itself
EntryBytes(metadata) ==
  UNION {{k} \X (1..(Len(k) + Len(metadata[k]))) : k \in DOMAIN metadata}

OfField(f) == EntryBytes(f.metadata) \cup ({<<>>} \X (1..Len(f.name)))

Counted(fields, metadata) ==
  ({0} \X EntryBytes(metadata))
    \cup UNION {{i} \X OfField(fields[i]) : i \in DOMAIN fields}

Acceptable(fields, metadata, lim) ==
  /\ LimitsValid(lim)
  /\ Len(fields) \in 1..lim.fields
  /\ Unique(fields)
  /\ Cardinality(Counted(fields, metadata)) <= lim.metadata_bytes

\* Whatever was added in whatever order, SchemaBuilder's finish() accepts exactly
\* the schemas whose field IDs and names are unique and whose names, keys and
\* values fit the limit together, and what it says of the others is true of
\* them.  FieldBuilder's accepts exactly the fields that have an ID, a Unicode
\* name and fit the limit alone, so that the two stages never disagree.
FinishIsExact ==
  \A lim \in LimitSets :
    /\ ~sb.finished =>
         LET error == FinishError(sb.fields, sb.metadata, lim)
         IN /\ (error = "none") <=> Acceptable(sb.fields, sb.metadata, lim)
            /\ error = "invalid_schema" => sb.fields = <<>> \/ ~Unique(sb.fields)
            /\ error = "limit_exceeded" =>
                 \/ Len(sb.fields) > lim.fields
                 \/ Cardinality(Counted(sb.fields, sb.metadata)) > lim.metadata_bytes
    /\ (fb # None /\ ~fb.finished) =>
         ((FinishFieldError(fb.made, lim) = "none") <=>
            /\ fb.made.id # 0 /\ fb.made.name # <<>> /\ WellFormed(fb.made.name)
            /\ Cardinality(Counted(<<fb.made>>, <<>>)) <= lim.metadata_bytes)

\* Canonical bytes identify a schema: its fields in their order, with their
\* types, and all metadata can be read back from them, so no two schemas have
\* the same bytes.
CanonicalIdentifies ==
  schema # None => ReadSchema(schema.canonical) = schema.content

\* A key with a namespace, which is not reserved unless it is the engine's
Qualified(key) ==
  \E n \in 2..(Len(key) - 1) :
    LET namespace == SubSeq(key, 1, n - 1)
    IN /\ key[n] = Slash /\ \A i \in DOMAIN namespace : namespace[i] # Slash
       /\ IsPrefix(Reserved, namespace) => namespace \o <<Slash>> = Own

\* Every field of a published schema is found by its ID, has a type that
\* exactly one kind of column can store, a name and keys that a reader of
\* another program takes for Unicode, and no key of a reserved namespace.
FieldsServed ==
  schema # None =>
    LET s == schema.content
        AllKeys == DOMAIN s.metadata \cup
                     UNION {DOMAIN s.fields[i].metadata : i \in DOMAIN s.fields}
    IN /\ \A k \in AllKeys : WellFormed(k) /\ Qualified(k)
       /\ \A i \in DOMAIN s.fields :
            LET f == s.fields[i]
            IN /\ f.id # 0 /\ FindField(s, f.id) = i
               /\ f.name # <<>> /\ WellFormed(f.name)
               /\ (FixedWidthBytes(f.type) = 0) <=>
                    (IsVariableWidth(f.type) \/ f.type.kind = "boolean")

\* valid_utf8 takes a text for UTF-8 exactly if the Unicode standard does: no
\* overlong form, surrogate, number out of range or cut-off character passes
\* and nothing else is refused.  It depends on no state: the first one is enough.
Utf8IsExact ==
  Init => \A t \in Texts : ValidUtf8(t) <=> WellFormed(t)

=============================================================================
