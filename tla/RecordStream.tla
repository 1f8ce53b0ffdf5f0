---------------------------- MODULE RecordStream ----------------------------
(***************************************************************************)
(* Record framing (src/format/record.cpp): a writer frames records with    *)
(* encode_record_envelope and numbers them from zero; a reader fetches     *)
(* stored records in whatever order it likes, again if it likes, each time *)
(* possibly damaged, verifies them with verify_record and offers what it   *)
(* holds to RecordSequenceTracker::accept.                                 *)
(*                                                                         *)
(* Checksums are free of collisions here: the CRC32C of some bytes is      *)
(* those bytes.  The envelope checksum covers bytes 0 through 23, so not   *)
(* the payload checksum next to it; the payload checksum covers extension  *)
(* then payload, so not where one ends and the other begins.               *)
(***************************************************************************)
EXTENDS Checks

CONSTANTS
  KnownTypes,    \* the six registered record types
  UnknownTypes,  \* the other values of the type byte
  MaxExtension,  \* largest 16-bit unsigned value
  EnvelopeSize,  \* record_envelope_size
  Contents,      \* <<extension, payload>> pairs of byte sequences
  Limits,        \* reader configurations [extension, payload]
  None

VARIABLES
  limits,     \* the reader's RecordEnvelopeLimits
  written,    \* what the writer stored, in order
  held,       \* the record the reader verified last, with its content
  expected,   \* expected_sequence_
  accepted    \* what accept let through, in order

vars == <<limits, written, held, expected, accepted>>

FieldValues ==
  [type |-> KnownTypes \cup UnknownTypes, flags |-> SUBSET {"mandatory", "reserved"},
   extension_length |-> 0..MaxExtension, payload_length |-> 0..MaxWord,
   sequence |-> 0..MaxWord]

Heads == [type : FieldValues.type, flags : FieldValues.flags,
          extension_length : FieldValues.extension_length,
          payload_length : FieldValues.payload_length,
          sequence : FieldValues.sequence]

Mandatory(head) == "mandatory" \in head.flags

Records == [head : Heads, content : Contents]

\* Lengths are numbers of the fields that declare them, an envelope is not
\* empty, and None is no checksum and no record.
ASSUME RecordAssumption ==
  /\ KnownTypes \cap UnknownTypes = {}
  /\ MaxExtension \in 0..MaxWord
  /\ EnvelopeSize \in 1..MaxWord
  /\ \A c \in Contents :
       /\ c \in Seq(STRING) \X Seq(STRING)
       /\ Len(c[1]) <= MaxExtension /\ Len(c[2]) <= MaxWord
  /\ Limits \subseteq [extension : 0..MaxExtension, payload : 0..MaxWord]
  /\ None \notin Heads \cup Seq(STRING) \cup Records

-----------------------------------------------------------------------------
(* The envelope on the wire.                                               *)

Crc32c(bytes) == bytes

EncodeError(head) ==
  IF "reserved" \in head.flags THEN "invalid_record" ELSE "none"

\* Mutant: the checksum is taken before the sequence number is in place.
EncodeEarlyChecksum(head, payload_checksum) ==
  [whole |-> TRUE, sync |-> TRUE, head |-> head,
   checksum |-> Crc32c([head EXCEPT !.sequence = 0]), payload_checksum |-> payload_checksum]

Encode(head, payload_checksum) ==
  [whole |-> TRUE, sync |-> TRUE, head |-> head, checksum |-> Crc32c(head),
   payload_checksum |-> payload_checksum]

ParseError(wire) ==
  LET ext == wire.head.extension_length
      pay == wire.head.payload_length
  IN FirstError(<<
       Check(~wire.whole,                            "unexpected_end"),
       Check(~wire.sync,                             "invalid_magic"),
       Check("reserved" \in wire.head.flags,         "invalid_record"),
       Check(ext > limits.extension,                 "limit_exceeded"),
       Check(pay > limits.payload,                   "limit_exceeded"),
       Check(AddOverflows(ext, pay),                 "arithmetic_overflow"),
       Check(AddOverflows(EnvelopeSize, ext + pay),  "arithmetic_overflow"),
       Check(wire.checksum # Crc32c(wire.head),      "checksum_mismatch")>>)

VerifyError(wire, content) ==
  LET parse == ParseError(wire)
  IN FirstError(<<
       Check(parse # "none", parse),
       Check(\/ Len(content[1]) # wire.head.extension_length
             \/ Len(content[2]) # wire.head.payload_length, "invalid_record"),
       Check(Crc32c(content[1] \o content[2]) # wire.payload_checksum,
             "checksum_mismatch")>>)

OneFieldOff(head) ==
  UNION {{[head EXCEPT ![f] = v] : v \in FieldValues[f] \ {head[f]}} : f \in DOMAIN head}

\* What one fault of the store or the transport makes of an envelope; a
\* damaged checksum is None: some value that is not the right one
Damaged(wire) ==
  {[wire EXCEPT !.whole = FALSE], [wire EXCEPT !.sync = FALSE]}
  \cup {[wire EXCEPT !.head = h] : h \in OneFieldOff(wire.head)}
  \cup {[wire EXCEPT !.checksum = None]}
  \cup {[wire EXCEPT !.payload_checksum = None]}

\* What may arrive when the i-th stored record is fetched
Arrivals(i) ==
  LET wire == written[i].wire
  IN ({wire} \cup Damaged(wire)) \X {written[i].content}
     \cup {wire} \X Contents

-----------------------------------------------------------------------------
(* The writer and the reader.  A call that fails changes nothing.          *)

\* The writer declares what lengths it likes; the content need not agree.
Write(type, flags, ext, pay, content) ==
  LET head == [type |-> type, flags |-> flags, extension_length |-> ext,
               payload_length |-> pay, sequence |-> Len(written)]
  IN /\ Len(written) <= MaxWord
     /\ IF EncodeError(head) # "none"
        THEN UNCHANGED written
        ELSE written' = Append(written,
                  [wire |-> Encode(head, Crc32c(content[1] \o content[2])),
                   content |-> content])
     /\ UNCHANGED <<limits, held, expected, accepted>>

\* verify_record on the i-th stored record, as it arrived
Fetch(i) ==
  /\ \E a \in Arrivals(i) :
       held' = IF VerifyError(a[1], a[2]) # "none" THEN held
               ELSE [head |-> a[1].head, content |-> a[2]]
  /\ UNCHANGED <<limits, written, expected, accepted>>

\* Mutant: a gap in the numbers is let through.
OutOfOrderBackwards(head) == head.sequence < expected
OutOfOrder(head) == head.sequence # expected

\* Mutant: the wrong flag bit is tested.
UnsupportedReserved(head) == head.type \notin KnownTypes /\ "reserved" \in head.flags
Unsupported(head) == head.type \notin KnownTypes /\ Mandatory(head)

AcceptError(head) ==
  FirstError(<<
    Check(OutOfOrder(head),          "invalid_record"),
    Check(Unsupported(head),         "unsupported_feature"),
    Check(AddOverflows(expected, 1), "arithmetic_overflow")>>)

Disposition(head) == IF head.type \in KnownTypes THEN "process" ELSE "skip"

\* Mutant: a refused record is counted too.
AcceptCountsRefused ==
  /\ held # None
  /\ expected' = expected + 1
  /\ accepted' = IF AcceptError(held.head) # "none" THEN accepted
                 ELSE Append(accepted, [record |-> held,
                                        disposition |-> Disposition(held.head)])
  /\ UNCHANGED <<limits, written, held>>

\* RecordSequenceTracker::accept; a VerifiedRecord can be offered again
Accept ==
  /\ held # None
  /\ IF AcceptError(held.head) # "none"
     THEN UNCHANGED <<expected, accepted>>
     ELSE /\ expected' = expected + 1
          /\ accepted' = Append(accepted,
               [record |-> held, disposition |-> Disposition(held.head)])
  /\ UNCHANGED <<limits, written, held>>

Init ==
  /\ limits \in Limits
  /\ written = <<>>
  /\ held = None
  /\ expected = 0
  /\ accepted = <<>>

\* Declared lengths are the content's, or more than the reader can add up.
Next ==
  \/ \E type \in KnownTypes \cup UnknownTypes, c \in Contents,
        flags \in SUBSET {"mandatory", "reserved"} :
       \/ Write(type, flags, Len(c[1]), Len(c[2]), c)
       \/ /\ type \in KnownTypes /\ flags = {"mandatory"}
          /\ Write(type, flags, MaxExtension, MaxWord, c)
  \/ \E i \in DOMAIN written : Fetch(i)
  \/ Accept

Spec == Init /\ [][Next]_vars

-----------------------------------------------------------------------------
(* Properties.                                                             *)

\* Types.
TypeOK ==
  /\ limits \in Limits
  /\ written \in Seq([wire : [whole : {TRUE}, sync : {TRUE}, head : Heads,
                              checksum : Heads, payload_checksum : Seq(STRING)],
                     content : Contents])
  /\ held \in Records \cup {None}
  /\ expected \in 0..MaxWord
  /\ accepted \in Seq([record : Records, disposition : {"process", "skip"}])

Original(i) == [head |-> written[i].wire.head, content |-> written[i].content]

\* However records are lost, repeated, reordered or damaged on the way, what
\* accept has let through is what the writer wrote, from the first record on:
\* none altered, skipped over, repeated or out of order.
AcceptsPrefix ==
  /\ expected = Len(accepted)
  /\ Len(accepted) <= Len(written)
  /\ \A i \in DOMAIN accepted : accepted[i].record = Original(i)

\* Everything accepted was understood, or its writer said it may be skipped.
NothingMandatorySkipped ==
  \A i \in DOMAIN accepted :
    \/ written[i].wire.head.type \in KnownTypes /\ accepted[i].disposition = "process"
    \/ ~Mandatory(written[i].wire.head) /\ accepted[i].disposition = "skip"

Honest(i) ==
  LET head == written[i].wire.head
      content == written[i].content
  IN /\ head.extension_length = Len(content[1]) /\ Len(content[1]) <= limits.extension
     /\ head.payload_length = Len(content[2]) /\ Len(content[2]) <= limits.payload
     /\ EnvelopeSize + Len(content[1]) + Len(content[2]) <= MaxWord

\* No failed call leaves the reader stuck: after any history of damage and
\* refusals, a sound copy of the next record verifies, and is accepted unless
\* it is unknown and mandatory or has the last sequence number of all.
NextRecordReadable ==
  LET i == Len(accepted) + 1 IN
  (i \in DOMAIN written /\ Honest(i)) =>
    /\ VerifyError(written[i].wire, written[i].content) = "none"
    /\ AcceptError(written[i].wire.head) # "none" =>
         \/ expected = MaxWord
         \/ /\ written[i].wire.head.type \in UnknownTypes
            /\ Mandatory(written[i].wire.head)

\* Errors name their cause: no record that arrives as it was written is
\* refused for its checksum, magic or truncation, and a record is called
\* unsupported only if its writer made it so.
ErrorsNameTheCause ==
  /\ \A i \in DOMAIN written :
       VerifyError(written[i].wire, written[i].content) \notin
         {"checksum_mismatch", "invalid_magic", "unexpected_end"}
  /\ (held # None /\ AcceptError(held.head) = "unsupported_feature") =>
       \E i \in DOMAIN written : /\ written[i].wire.head = held.head
                                 /\ held.head.type \in UnknownTypes
                                 /\ Mandatory(held.head)

\* The lengths of an envelope that parses, damaged or not, are within the
\* reader's limits and their total, envelope included, does not wrap.  (Every
\* record is the newest one at some time.)
LengthsFit ==
  written # <<>> =>
    \A w \in {Last(written).wire} \cup Damaged(Last(written).wire) :
      ParseError(w) = "none" =>
        /\ w.head.extension_length <= limits.extension
        /\ w.head.payload_length <= limits.payload
        /\ EnvelopeSize + w.head.extension_length + w.head.payload_length <= MaxWord

=============================================================================
