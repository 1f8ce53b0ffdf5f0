------------------------- MODULE RecordStreamProofs -------------------------
(***************************************************************************)
(* Proofs about RecordStream for every number of records, every set of     *)
(* types and contents, and every width of the words.                       *)
(***************************************************************************)
EXTENDS RecordStream, CommonLemmas, SequenceTheorems

-----------------------------------------------------------------------------
(* The inductive invariant.                                                *)

\* Every stored record carries its place as sequence number, checksums that
\* are right, and either the lengths of its content or ones that cannot be
\* summed up.
Framed(i) ==
  LET wire == written[i].wire
      content == written[i].content
  IN /\ wire.head.sequence = i - 1
     /\ "reserved" \notin wire.head.flags
     /\ wire.checksum = wire.head
     /\ wire.payload_checksum = content[1] \o content[2]
     /\ \/ /\ wire.head.extension_length = Len(content[1])
           /\ wire.head.payload_length = Len(content[2])
        \/ /\ wire.head.extension_length = MaxExtension
           /\ wire.head.payload_length = MaxWord

\* What verify_record let through is a stored record, unaltered.
HeldIsOriginal == held # None => \E i \in DOMAIN written : held = Original(i)

IInv == /\ TypeOK
        /\ \A i \in DOMAIN written : Framed(i)
        /\ HeldIsOriginal
        /\ AcceptsPrefix
        /\ NothingMandatorySkipped

-----------------------------------------------------------------------------
(* The checks.                                                             *)

\* The fields of an envelope.
LEMMA HeadFields ==
  ASSUME NEW head \in Heads
  PROVE  /\ head.type \in KnownTypes \cup UnknownTypes
         /\ head.flags \in SUBSET {"mandatory", "reserved"}
         /\ head.extension_length \in 0..MaxExtension
         /\ head.payload_length \in 0..MaxWord
         /\ head.sequence \in 0..MaxWord
BY DEF Heads, FieldValues

\* parse_record_envelope succeeds exactly if none of its checks fails.
LEMMA ParsedIff ==
  ASSUME NEW wire, TRUE
  PROVE  (ParseError(wire) = "none") <=>
           LET ext == wire.head.extension_length
               pay == wire.head.payload_length
           IN /\ wire.whole /\ wire.sync
              /\ "reserved" \notin wire.head.flags
              /\ ~(ext > limits.extension) /\ ~(pay > limits.payload)
              /\ ~AddOverflows(ext, pay)
              /\ ~AddOverflows(EnvelopeSize, ext + pay)
              /\ wire.checksum = wire.head
<1> DEFINE ext == wire.head.extension_length
           pay == wire.head.payload_length
           checks == <<
             Check(~wire.whole,                            "unexpected_end"),
             Check(~wire.sync,                             "invalid_magic"),
             Check("reserved" \in wire.head.flags,         "invalid_record"),
             Check(ext > limits.extension,                 "limit_exceeded"),
             Check(pay > limits.payload,                   "limit_exceeded"),
             Check(AddOverflows(ext, pay),                 "arithmetic_overflow"),
             Check(AddOverflows(EnvelopeSize, ext + pay),  "arithmetic_overflow"),
             Check(wire.checksum # Crc32c(wire.head),      "checksum_mismatch")>>
<1>1. ParseError(wire) = FirstError(checks)
  BY DEF ParseError
<1>2. Len(checks) \in Nat /\ Len(checks) = 8
  OBVIOUS
<1>3. /\ checks[1].fails <=> ~wire.whole
      /\ checks[2].fails <=> ~wire.sync
      /\ checks[3].fails <=> "reserved" \in wire.head.flags
      /\ checks[4].fails <=> ext > limits.extension
      /\ checks[5].fails <=> pay > limits.payload
      /\ checks[6].fails <=> AddOverflows(ext, pay)
      /\ checks[7].fails <=> AddOverflows(EnvelopeSize, ext + pay)
      /\ checks[8].fails <=> wire.checksum # wire.head
  BY DEF Check, Crc32c
<1>4. \A i \in 1..Len(checks) : checks[i].error # "none"
  BY DEF Check
<1> HIDE DEF checks
<1>5. (ParseError(wire) = "none") <=> \A i \in 1..Len(checks) : ~checks[i].fails
  BY <1>1, <1>2, <1>4, FirstErrorNone
<1>6. (ParseError(wire) = "none") <=>
        /\ ~checks[1].fails /\ ~checks[2].fails /\ ~checks[3].fails /\ ~checks[4].fails
        /\ ~checks[5].fails /\ ~checks[6].fails /\ ~checks[7].fails /\ ~checks[8].fails
  BY <1>2, <1>5
<1> QED
  BY <1>3, <1>6

\* verify_record succeeds exactly if the envelope parses and the content
\* has its lengths and its checksum.
LEMMA VerifiedIff ==
  ASSUME NEW wire, NEW content
  PROVE  (VerifyError(wire, content) = "none") <=>
           /\ ParseError(wire) = "none"
           /\ Len(content[1]) = wire.head.extension_length
           /\ Len(content[2]) = wire.head.payload_length
           /\ content[1] \o content[2] = wire.payload_checksum
<1> DEFINE parse == ParseError(wire)
           checks == <<Check(parse # "none", parse),
                       Check(\/ Len(content[1]) # wire.head.extension_length
                             \/ Len(content[2]) # wire.head.payload_length, "invalid_record"),
                       Check(Crc32c(content[1] \o content[2]) # wire.payload_checksum,
                             "checksum_mismatch")>>
<1>1. VerifyError(wire, content) = FirstError(checks)
  BY DEF VerifyError
<1>2. Len(checks) \in Nat /\ Len(checks) = 3
  OBVIOUS
<1> HIDE DEF parse
<1>3. /\ checks[1].fails <=> parse # "none"
      /\ checks[2].fails <=> \/ Len(content[1]) # wire.head.extension_length
                             \/ Len(content[2]) # wire.head.payload_length
      /\ checks[3].fails <=> content[1] \o content[2] # wire.payload_checksum
  BY DEF Check, Crc32c
<1>4. checks[1].error = parse /\ checks[2].error # "none" /\ checks[3].error # "none"
  BY DEF Check
<1> HIDE DEF checks
<1>5. \A i \in 1..Len(checks) : checks[i].fails => checks[i].error # "none"
  BY <1>2, <1>3, <1>4
<1>6. (VerifyError(wire, content) = "none") <=> \A i \in 1..Len(checks) : ~checks[i].fails
  BY <1>1, <1>2, <1>5, FirstErrorNone
<1>7. (VerifyError(wire, content) = "none") <=>
        ~checks[1].fails /\ ~checks[2].fails /\ ~checks[3].fails
  BY <1>2, <1>6
<1> QED
  BY <1>3, <1>7 DEF parse

\* What accept() says of a record.
LEMMA AcceptedIff ==
  ASSUME NEW head
  PROVE  /\ (AcceptError(head) = "none") <=>
              ~OutOfOrder(head) /\ ~Unsupported(head) /\ ~AddOverflows(expected, 1)
         /\ (AcceptError(head) = "unsupported_feature") => Unsupported(head)
         /\ (AcceptError(head) # "none" /\ ~OutOfOrder(head) /\ ~Unsupported(head)) =>
              AddOverflows(expected, 1)
<1> DEFINE checks == <<Check(OutOfOrder(head),          "invalid_record"),
                       Check(Unsupported(head),         "unsupported_feature"),
                       Check(AddOverflows(expected, 1), "arithmetic_overflow")>>
<1>1. AcceptError(head) = FirstError(checks)
  BY DEF AcceptError
<1>2. Len(checks) \in Nat /\ Len(checks) = 3
  OBVIOUS
<1>3. /\ checks[1].fails <=> OutOfOrder(head)
      /\ checks[2].fails <=> Unsupported(head)
      /\ checks[3].fails <=> AddOverflows(expected, 1)
  BY DEF Check, OutOfOrder, Unsupported, AddOverflows
<1>4. /\ checks[1].error = "invalid_record"
      /\ checks[2].error = "unsupported_feature"
      /\ checks[3].error = "arithmetic_overflow"
  BY DEF Check
<1> HIDE DEF checks
<1>5. \A i \in 1..Len(checks) : checks[i].fails => checks[i].error # "none"
  BY <1>2, <1>4
<1>6. (AcceptError(head) = "none") <=> \A i \in 1..Len(checks) : ~checks[i].fails
  BY <1>1, <1>2, <1>5, FirstErrorNone
<1>7. (AcceptError(head) = "none") <=>
        ~checks[1].fails /\ ~checks[2].fails /\ ~checks[3].fails
  BY <1>2, <1>6
<1>8. ASSUME AcceptError(head) = "unsupported_feature"
      PROVE  checks[2].fails
  <2>1. PICK i \in 1..Len(checks) : checks[i].fails
    BY <1>6, <1>8
  <2>2. PICK j \in 1..i : checks[j].fails /\ AcceptError(head) = checks[j].error
    BY <1>1, <1>2, <2>1, FirstErrorFails
  <2> QED
    BY <1>2, <1>4, <1>8, <2>2
<1> QED
  BY <1>3, <1>7, <1>8

\* A concatenation of parts of known lengths has only one division into them.
LEMMA SameDivision ==
  ASSUME NEW a \in Seq(STRING), NEW b \in Seq(STRING),
         NEW c \in Seq(STRING), NEW d \in Seq(STRING),
         Len(a) = Len(c), Len(b) = Len(d), a \o b = c \o d
  PROVE  a = c /\ b = d
<1>1. Len(a) \in Nat /\ Len(b) \in Nat
  OBVIOUS
<1>2. \A i \in 1..(Len(a) + Len(b)) :
        (a \o b)[i] = IF i <= Len(a) THEN a[i] ELSE b[i - Len(a)]
  BY ConcatProperties
<1>3. \A i \in 1..(Len(c) + Len(d)) :
        (c \o d)[i] = IF i <= Len(c) THEN c[i] ELSE d[i - Len(c)]
  BY ConcatProperties
<1>4. ASSUME NEW i \in 1..Len(a)
      PROVE  a[i] = c[i]
  <2>1. i \in 1..(Len(a) + Len(b)) /\ i <= Len(a)
    BY <1>1
  <2> QED
    BY <1>2, <1>3, <2>1
<1>5. ASSUME NEW i \in 1..Len(b)
      PROVE  b[i] = d[i]
  <2>1. /\ Len(a) + i \in 1..(Len(a) + Len(b)) /\ ~(Len(a) + i <= Len(a))
        /\ (Len(a) + i) - Len(a) = i
    BY <1>1
  <2> QED
    BY <1>2, <1>3, <2>1
<1> QED
  BY <1>4, <1>5, SeqEqual

-----------------------------------------------------------------------------
(* Faults.                                                                 *)

\* Whatever arrives in place of a stored record, what verifies is that record:
\* damage to the envelope does not pass its checksum, and content with the
\* right lengths and checksum is the right content.
LEMMA VerifiedIsOriginal ==
  ASSUME IInv, NEW i \in DOMAIN written, NEW a \in Arrivals(i),
         VerifyError(a[1], a[2]) = "none"
  PROVE  a[1].head = written[i].wire.head /\ a[2] = written[i].content
<1> DEFINE wire == written[i].wire
           content == written[i].content
<1>1. Framed(i)
  BY DEF IInv
<1>2. /\ wire \in [whole : {TRUE}, sync : {TRUE}, head : Heads,
                   checksum : Heads, payload_checksum : Seq(STRING)]
      /\ content \in Contents
  <2>1. written \in Seq([wire : [whole : {TRUE}, sync : {TRUE}, head : Heads,
                                checksum : Heads, payload_checksum : Seq(STRING)],
                        content : Contents])
    BY DEF IInv, TypeOK
  <2>2. written[i] \in [wire : [whole : {TRUE}, sync : {TRUE}, head : Heads,
                               checksum : Heads, payload_checksum : Seq(STRING)],
                        content : Contents]
    <3>1. i \in 1..Len(written)
      BY <2>1
    <3> QED
      BY <2>1, <3>1, ElementOfSeq
  <2> QED
    BY <2>2
<1>3. /\ ParseError(a[1]) = "none"
      /\ Len(a[2][1]) = a[1].head.extension_length
      /\ Len(a[2][2]) = a[1].head.payload_length
      /\ a[2][1] \o a[2][2] = a[1].payload_checksum
  BY VerifiedIff
<1>4. a[1].whole /\ a[1].sync /\ a[1].checksum = a[1].head
  BY <1>3, ParsedIff
<1>5. CASE a \in ({wire} \cup Damaged(wire)) \X {content}
  <2>1. a[2] = content
    BY <1>5
  <2>2. CASE a[1] \in {[wire EXCEPT !.whole = FALSE], [wire EXCEPT !.sync = FALSE]}
    BY <1>2, <1>4, <2>1, <2>2
  <2>3. CASE a[1] \in {[wire EXCEPT !.head = h] : h \in OneFieldOff(wire.head)}
    BY <1>1, <1>2, <1>4, <2>1, <2>3 DEF Framed
  <2>4. CASE a[1] = [wire EXCEPT !.checksum = None]
    BY <1>2, <1>4, <2>1, <2>4, RecordAssumption
  <2>5. CASE a[1] = [wire EXCEPT !.payload_checksum = None]
    BY <1>2, <2>1, <2>5
  <2>6. CASE a[1] = wire
    BY <2>1, <2>6
  <2> QED
    BY <1>5, <2>1, <2>2, <2>3, <2>4, <2>5, <2>6 DEF Damaged
<1>6. CASE a \in {wire} \X Contents
  <2>1. a[1] = wire /\ a[2] \in Contents
    BY <1>6
  <2>2. /\ a[2][1] \in Seq(STRING) /\ a[2][2] \in Seq(STRING)
        /\ content[1] \in Seq(STRING) /\ content[2] \in Seq(STRING)
        /\ a[2] = <<a[2][1], a[2][2]>> /\ content = <<content[1], content[2]>>
    BY <1>2, <2>1, RecordAssumption
  <2>3. ~(wire.head.extension_length = MaxExtension /\ wire.head.payload_length = MaxWord)
    <3>1. ~AddOverflows(wire.head.extension_length, wire.head.payload_length)
          /\ ~AddOverflows(EnvelopeSize,
                           wire.head.extension_length + wire.head.payload_length)
      BY <1>3, <2>1, ParsedIff
    <3>2. ~AddOverflows(EnvelopeSize, MaxExtension + MaxWord)
          \/ ~(wire.head.extension_length = MaxExtension /\ wire.head.payload_length = MaxWord)
      BY <3>1
    <3>3. AddOverflows(EnvelopeSize, MaxExtension + MaxWord)
      BY RecordAssumption, WordAssumption DEF AddOverflows
    <3> QED
      BY <3>2, <3>3
  <2>4. Len(a[2][1]) = Len(content[1]) /\ Len(a[2][2]) = Len(content[2])
    BY <1>1, <1>3, <2>1, <2>3 DEF Framed
  <2>5. a[2][1] \o a[2][2] = content[1] \o content[2]
    BY <1>1, <1>3, <2>1 DEF Framed
  <2>6. a[2][1] = content[1] /\ a[2][2] = content[2]
    <3> DEFINE p == a[2][1]
               q == a[2][2]
               r == content[1]
               s == content[2]
    <3>1. /\ p \in Seq(STRING) /\ q \in Seq(STRING) /\ r \in Seq(STRING) /\ s \in Seq(STRING)
          /\ Len(p) = Len(r) /\ Len(q) = Len(s) /\ p \o q = r \o s
      BY <2>2, <2>4, <2>5
    <3> HIDE DEF p, q, r, s
    <3>2. p = r /\ q = s
      BY <3>1, SameDivision, Zenon
    <3> QED
      BY <3>2 DEF p, q, r, s
  <2> QED
    BY <2>1, <2>2, <2>6
<1> QED
  BY <1>5, <1>6 DEF Arrivals

-----------------------------------------------------------------------------
(* Steps.                                                                  *)

StoredRecords ==
  [wire : [whole : {TRUE}, sync : {TRUE}, head : Heads,
           checksum : Heads, payload_checksum : Seq(STRING)],
   content : Contents]

\* What is stored, a record at a time.
LEMMA StoredTypes ==
  ASSUME TypeOK
  PROVE  /\ written \in Seq(StoredRecords)
         /\ Len(written) \in Nat /\ DOMAIN written = 1..Len(written)
         /\ \A i \in DOMAIN written : written[i] \in StoredRecords /\ Original(i) \in Records
<1>1. written \in Seq(StoredRecords)
  BY DEF TypeOK, StoredRecords
<1>2. Len(written) \in Nat /\ DOMAIN written = 1..Len(written)
  BY <1>1
<1>3. \A i \in DOMAIN written : written[i] \in StoredRecords
  BY <1>1, <1>2, ElementOfSeq
<1> QED
  BY <1>1, <1>2, <1>3 DEF StoredRecords, Original, Records

\* Init establishes the invariant.
LEMMA InitIInv == Init => IInv
<1> SUFFICES ASSUME Init PROVE IInv
  OBVIOUS
<1>1. TypeOK
  BY WordAssumption DEF Init, TypeOK
<1> QED
  BY <1>1, RecordAssumption
     DEF Init, IInv, HeldIsOriginal, AcceptsPrefix, NothingMandatorySkipped

\* Writing one more record disturbs none of those already stored.
LEMMA WriteIInv ==
  ASSUME IInv, NEW type \in KnownTypes \cup UnknownTypes,
         NEW flags \in SUBSET {"mandatory", "reserved"}, NEW content \in Contents,
         NEW ext, NEW pay,
         \/ ext = Len(content[1]) /\ pay = Len(content[2])
         \/ ext = MaxExtension /\ pay = MaxWord,
         Write(type, flags, ext, pay, content)
  PROVE  IInv'
<1> DEFINE head == [type |-> type, flags |-> flags, extension_length |-> ext,
                    payload_length |-> pay, sequence |-> Len(written)]
           record == [wire |-> Encode(head, Crc32c(content[1] \o content[2])),
                      content |-> content]
<1>1. /\ written \in Seq(StoredRecords)
      /\ Len(written) \in Nat /\ DOMAIN written = 1..Len(written)
  BY StoredTypes DEF IInv
<1>2. Len(written) <= MaxWord /\ UNCHANGED <<limits, held, expected, accepted>>
  BY DEF Write
<1>3. CASE EncodeError(head) # "none"
  <2>1. UNCHANGED written
    BY <1>3 DEF Write
  <2> QED
    BY <1>2, <2>1 DEF IInv, TypeOK, Framed, HeldIsOriginal, Original, AcceptsPrefix,
                      NothingMandatorySkipped, Mandatory
<1>4. CASE EncodeError(head) = "none"
  <2>1. written' = Append(written, record) /\ "reserved" \notin flags
    BY <1>4 DEF Write, EncodeError
  <2>2. head \in Heads
    <3>1. content[1] \in Seq(STRING) /\ content[2] \in Seq(STRING)
          /\ Len(content[1]) <= MaxExtension /\ Len(content[2]) <= MaxWord
      BY RecordAssumption
    <3>2. ext \in 0..MaxExtension /\ pay \in 0..MaxWord /\ Len(written) \in 0..MaxWord
      BY <1>1, <1>2, <3>1, RecordAssumption, WordAssumption
    <3> QED
      BY <3>2 DEF Heads, FieldValues
  <2>3. record \in StoredRecords
    <3>1. content[1] \o content[2] \in Seq(STRING)
      BY RecordAssumption, ConcatProperties
    <3> QED
      BY <2>2, <3>1 DEF StoredRecords, Encode, Crc32c
  <2>4. /\ written' \in Seq(StoredRecords) /\ Len(written') = Len(written) + 1
        /\ \A i \in 1..Len(written) : written'[i] = written[i]
        /\ written'[Len(written) + 1] = record
    BY <1>1, <2>1, <2>3, AppendProperties
  <2>5. /\ DOMAIN written' = 1..(Len(written) + 1) /\ DOMAIN written \subseteq DOMAIN written'
        /\ \A i \in DOMAIN written : written'[i] = written[i] /\ Original(i)' = Original(i)
    BY <1>1, <2>4 DEF Original
  <2>6. TypeOK'
    BY <1>2, <2>4 DEF IInv, TypeOK, StoredRecords
  <2>7. \A i \in DOMAIN written' : Framed(i)'
    <3> SUFFICES ASSUME NEW i \in DOMAIN written' PROVE Framed(i)'
      OBVIOUS
    <3>1. CASE i \in DOMAIN written
      BY <2>5, <3>1 DEF IInv, Framed
    <3>2. CASE i = Len(written) + 1
      <4>1. written'[i] = record /\ i - 1 = Len(written)
        BY <1>1, <2>4, <3>2
      <4>2. /\ record.wire.head = head /\ record.content = content
            /\ record.wire.checksum = head
            /\ record.wire.payload_checksum = content[1] \o content[2]
        BY DEF Encode, Crc32c
      <4>3. /\ head.sequence = Len(written) /\ head.flags = flags
            /\ head.extension_length = ext /\ head.payload_length = pay
        OBVIOUS
      <4> HIDE DEF head, record
      <4> QED
        BY <2>1, <4>1, <4>2, <4>3 DEF Framed
    <3> QED
      BY <1>1, <2>5, <3>1, <3>2
  <2>8. HeldIsOriginal'
    BY <1>2, <2>5 DEF IInv, HeldIsOriginal
  <2>9. DOMAIN accepted \subseteq DOMAIN written
    BY <1>1 DEF IInv, AcceptsPrefix, TypeOK
  <2>10. AcceptsPrefix'
    BY <1>1, <1>2, <2>4, <2>5, <2>9 DEF IInv, AcceptsPrefix, TypeOK
  <2>11. NothingMandatorySkipped'
    BY <1>2, <2>5, <2>9 DEF IInv, NothingMandatorySkipped, Mandatory
  <2> QED
    BY <2>6, <2>7, <2>8, <2>10, <2>11 DEF IInv
<1> QED
  BY <1>3, <1>4

\* Whatever arrives, the reader holds a record as it was stored.
LEMMA FetchIInv ==
  ASSUME IInv, NEW i \in DOMAIN written, Fetch(i)
  PROVE  IInv'
<1>1. UNCHANGED <<limits, written, expected, accepted>>
  BY DEF Fetch
<1>2. held' = held \/ held' = Original(i)
  <2>1. PICK a \in Arrivals(i) :
          held' = IF VerifyError(a[1], a[2]) # "none" THEN held
                  ELSE [head |-> a[1].head, content |-> a[2]]
    BY DEF Fetch
  <2>2. CASE VerifyError(a[1], a[2]) # "none"
    BY <2>1, <2>2
  <2>3. CASE VerifyError(a[1], a[2]) = "none"
    BY <2>1, <2>3, VerifiedIsOriginal DEF Original
  <2> QED
    BY <2>2, <2>3
<1>3. Original(i) \in Records
  BY StoredTypes DEF IInv
<1>4. TypeOK'
  BY <1>1, <1>2, <1>3 DEF IInv, TypeOK
<1>5. HeldIsOriginal'
  BY <1>1, <1>2 DEF IInv, HeldIsOriginal, Original
<1> QED
  BY <1>1, <1>4, <1>5 DEF IInv, Framed, Original, AcceptsPrefix, NothingMandatorySkipped,
                         Mandatory

\* What accept() lets through is the next stored record.
LEMMA AcceptIInv ==
  ASSUME IInv, Accept
  PROVE  IInv'
<1> DEFINE entry == [record |-> held, disposition |-> Disposition(held.head)]
<1>1. UNCHANGED <<limits, written, held>> /\ held # None
  BY DEF Accept
<1>2. PICK i \in DOMAIN written : held = Original(i)
  BY <1>1 DEF IInv, HeldIsOriginal
<1>3. /\ Len(written) \in Nat /\ DOMAIN written = 1..Len(written)
      /\ held \in Records /\ held.head = written[i].wire.head
  BY <1>2, StoredTypes DEF IInv, Original
<1>4. accepted \in Seq([record : Records, disposition : {"process", "skip"}])
  BY DEF IInv, TypeOK
<1>5. CASE AcceptError(held.head) # "none"
  <2>1. UNCHANGED <<expected, accepted>>
    BY <1>5 DEF Accept
  <2> QED
    BY <1>1, <2>1 DEF IInv, TypeOK, Framed, HeldIsOriginal, Original, AcceptsPrefix,
                      NothingMandatorySkipped, Mandatory
<1>6. CASE AcceptError(held.head) = "none"
  <2>1. expected' = expected + 1 /\ accepted' = Append(accepted, entry)
    BY <1>6 DEF Accept
  <2>2. ~OutOfOrder(held.head) /\ ~Unsupported(held.head) /\ ~AddOverflows(expected, 1)
    BY <1>6, AcceptedIff
  <2>3. /\ Len(accepted) \in Nat /\ expected = Len(accepted) /\ expected \in 0..MaxWord
        /\ DOMAIN accepted = 1..Len(accepted)
    BY <1>4 DEF IInv, TypeOK, AcceptsPrefix
  <2>4. i = Len(accepted) + 1
    <3>1. written[i].wire.head.sequence = i - 1
      BY DEF IInv, Framed
    <3> QED
      BY <1>3, <2>2, <2>3, <3>1 DEF OutOfOrder
  <2>5. entry \in [record : Records, disposition : {"process", "skip"}]
    BY <1>3 DEF Disposition
  <2>6. /\ accepted' \in Seq([record : Records, disposition : {"process", "skip"}])
        /\ Len(accepted') = Len(accepted) + 1
        /\ \A k \in 1..Len(accepted) : accepted'[k] = accepted[k]
        /\ accepted'[Len(accepted) + 1] = entry
    BY <1>4, <2>1, <2>5, AppendProperties
  <2>7. DOMAIN accepted' = 1..(Len(accepted) + 1)
    BY <2>6
  <2>8. TypeOK'
    <3>1. expected' \in 0..MaxWord
      BY <2>1, <2>2, <2>3, WordAssumption DEF AddOverflows
    <3> QED
      BY <1>1, <2>6, <3>1 DEF IInv, TypeOK
  <2>9. AcceptsPrefix'
    <3>1. \A k \in DOMAIN accepted' : accepted'[k].record = Original(k)'
      <4> SUFFICES ASSUME NEW k \in DOMAIN accepted'
                   PROVE  accepted'[k].record = Original(k)'
        OBVIOUS
      <4>1. Original(k)' = Original(k)
        BY <1>1 DEF Original
      <4>2. CASE k \in 1..Len(accepted)
        BY <2>3, <2>6, <4>1, <4>2 DEF IInv, AcceptsPrefix
      <4>3. CASE k = Len(accepted) + 1
        BY <1>2, <2>4, <2>6, <4>1, <4>3
      <4> QED
        BY <2>3, <2>7, <4>2, <4>3
    <3> QED
      BY <1>1, <1>3, <2>1, <2>3, <2>4, <2>6, <3>1 DEF AcceptsPrefix
  <2>10. NothingMandatorySkipped'
    <3> SUFFICES ASSUME NEW k \in DOMAIN accepted'
                 PROVE  \/ /\ written[k].wire.head.type \in KnownTypes
                           /\ accepted'[k].disposition = "process"
                        \/ /\ ~Mandatory(written[k].wire.head)
                           /\ accepted'[k].disposition = "skip"
      BY <1>1 DEF NothingMandatorySkipped, Mandatory
    <3>1. CASE k \in 1..Len(accepted)
      BY <2>3, <2>6, <3>1 DEF IInv, NothingMandatorySkipped
    <3>2. CASE k = Len(accepted) + 1
      <4>1. accepted'[k].disposition = Disposition(written[k].wire.head)
        BY <1>3, <2>4, <2>6, <3>2
      <4>2. ~Unsupported(written[k].wire.head)
        BY <1>3, <2>2, <2>4, <3>2
      <4> QED
        BY <4>1, <4>2 DEF Disposition, Unsupported
    <3> QED
      BY <2>3, <2>7, <3>1, <3>2
  <2> QED
    BY <1>1, <2>8, <2>9, <2>10 DEF IInv, Framed, HeldIsOriginal, Original
<1> QED
  BY <1>5, <1>6

\* Every step preserves the invariant.
LEMMA NextIInv == IInv /\ [Next]_vars => IInv'
<1> SUFFICES ASSUME IInv, [Next]_vars PROVE IInv'
  OBVIOUS
<1>1. ASSUME NEW type \in KnownTypes \cup UnknownTypes, NEW c \in Contents,
             NEW flags \in SUBSET {"mandatory", "reserved"},
             \/ Write(type, flags, Len(c[1]), Len(c[2]), c)
             \/ Write(type, flags, MaxExtension, MaxWord, c)
      PROVE  IInv'
  BY <1>1, WriteIInv
<1>2. ASSUME NEW i \in DOMAIN written, Fetch(i)
      PROVE  IInv'
  BY <1>2, FetchIInv
<1>3. CASE Accept
  BY <1>3, AcceptIInv
<1>4. CASE UNCHANGED vars
  BY <1>4 DEF vars, IInv, TypeOK, Framed, HeldIsOriginal, Original, AcceptsPrefix,
              NothingMandatorySkipped, Mandatory
<1> QED
  BY <1>1, <1>2, <1>3, <1>4 DEF Next

-----------------------------------------------------------------------------
(* What the invariant says of errors and of lengths.                       *)

\* The error of a list of checks is none, or that of a check that fails.
LEMMA ErrorOfACheck ==
  ASSUME NEW checks, Len(checks) \in Nat
  PROVE  \/ FirstError(checks) = "none"
         \/ \E j \in 1..Len(checks) : /\ checks[j].fails
                                      /\ FirstError(checks) = checks[j].error
<1>1. CASE \E i \in 1..Len(checks) : checks[i].fails
  <2>1. PICK i \in 1..Len(checks) : checks[i].fails
    BY <1>1
  <2>2. PICK j \in 1..i : checks[j].fails /\ FirstError(checks) = checks[j].error
    BY <2>1, FirstErrorFails
  <2>3. j \in 1..Len(checks)
    BY <2>1
  <2> QED
    BY <2>2, <2>3
<1>2. CASE ~\E i \in 1..Len(checks) : checks[i].fails
  BY <1>2, FirstErrorNone
<1> QED
  BY <1>1, <1>2

\* An intact envelope with a right checksum is not refused as a damaged one.
LEMMA ParseErrorCause ==
  ASSUME NEW wire, wire.whole, wire.sync, wire.checksum = wire.head
  PROVE  ParseError(wire) \in
           {"none", "invalid_record", "limit_exceeded", "arithmetic_overflow"}
<1> DEFINE ext == wire.head.extension_length
           pay == wire.head.payload_length
           checks == <<
             Check(~wire.whole,                            "unexpected_end"),
             Check(~wire.sync,                             "invalid_magic"),
             Check("reserved" \in wire.head.flags,         "invalid_record"),
             Check(ext > limits.extension,                 "limit_exceeded"),
             Check(pay > limits.payload,                   "limit_exceeded"),
             Check(AddOverflows(ext, pay),                 "arithmetic_overflow"),
             Check(AddOverflows(EnvelopeSize, ext + pay),  "arithmetic_overflow"),
             Check(wire.checksum # Crc32c(wire.head),      "checksum_mismatch")>>
<1>1. ParseError(wire) = FirstError(checks)
  BY DEF ParseError
<1>2. Len(checks) \in Nat /\ Len(checks) = 8
  OBVIOUS
<1>3. ~checks[1].fails /\ ~checks[2].fails /\ ~checks[8].fails
  BY DEF Check, Crc32c
<1>4. /\ checks[3].error = "invalid_record"
      /\ checks[4].error = "limit_exceeded" /\ checks[5].error = "limit_exceeded"
      /\ checks[6].error = "arithmetic_overflow" /\ checks[7].error = "arithmetic_overflow"
  BY DEF Check
<1> HIDE DEF checks
<1>5. \A j \in 1..Len(checks) : j \in {1, 2, 3, 4, 5, 6, 7, 8}
  BY <1>2
<1>6. \/ ParseError(wire) = "none"
      \/ \E j \in 1..Len(checks) : checks[j].fails /\ ParseError(wire) = checks[j].error
  BY <1>1, <1>2, ErrorOfACheck
<1> QED
  BY <1>3, <1>4, <1>5, <1>6

\* A record that arrives as it was stored is not refused as a damaged one.
LEMMA VerifyErrorCause ==
  ASSUME IInv, NEW i \in DOMAIN written
  PROVE  VerifyError(written[i].wire, written[i].content) \notin
           {"checksum_mismatch", "invalid_magic", "unexpected_end"}
<1> DEFINE wire == written[i].wire
           content == written[i].content
           parse == ParseError(wire)
           checks == <<Check(parse # "none", parse),
                       Check(\/ Len(content[1]) # wire.head.extension_length
                             \/ Len(content[2]) # wire.head.payload_length, "invalid_record"),
                       Check(Crc32c(content[1] \o content[2]) # wire.payload_checksum,
                             "checksum_mismatch")>>
<1>1. VerifyError(wire, content) = FirstError(checks)
  BY DEF VerifyError
<1>2. Len(checks) \in Nat /\ Len(checks) = 3
  OBVIOUS
<1>3. parse \in {"none", "invalid_record", "limit_exceeded", "arithmetic_overflow"}
  <2>1. wire.whole /\ wire.sync
    BY StoredTypes DEF IInv, StoredRecords
  <2>2. wire.checksum = wire.head
    BY DEF IInv, Framed
  <2> QED
    BY <2>1, <2>2, ParseErrorCause
<1>4. wire.payload_checksum = content[1] \o content[2]
  BY DEF IInv, Framed
<1> HIDE DEF parse
<1>5. ~checks[3].fails
  BY <1>4 DEF Check, Crc32c
<1>6. checks[1].error = parse /\ checks[2].error = "invalid_record"
  BY DEF Check
<1> HIDE DEF checks
<1>7. \A j \in 1..Len(checks) : j \in {1, 2, 3}
  BY <1>2
<1>8. \/ VerifyError(wire, content) = "none"
      \/ \E j \in 1..Len(checks) : /\ checks[j].fails
                                   /\ VerifyError(wire, content) = checks[j].error
  BY <1>1, <1>2, ErrorOfACheck
<1> QED
  BY <1>3, <1>5, <1>6, <1>7, <1>8

\* Under the invariant no error names a cause that is not there.
LEMMA CauseNamed == IInv => ErrorsNameTheCause
<1> SUFFICES ASSUME IInv PROVE ErrorsNameTheCause
  OBVIOUS
<1>1. ASSUME held # None, AcceptError(held.head) = "unsupported_feature"
      PROVE  \E i \in DOMAIN written : /\ written[i].wire.head = held.head
                                       /\ held.head.type \in UnknownTypes
                                       /\ Mandatory(held.head)
  <2>1. PICK i \in DOMAIN written : held = Original(i)
    BY <1>1 DEF IInv, HeldIsOriginal
  <2>2. held.head = written[i].wire.head /\ held.head \in Heads
    BY <2>1, StoredTypes DEF IInv, Original, Records
  <2>3. held.head.type \notin KnownTypes /\ Mandatory(held.head)
    BY <1>1, AcceptedIff DEF Unsupported
  <2>4. held.head.type \in UnknownTypes
    BY <2>2, <2>3, HeadFields
  <2> QED
    BY <2>2, <2>3, <2>4
<1> QED
  BY <1>1, VerifyErrorCause DEF ErrorsNameTheCause

\* Under the invariant a sound copy of the next record passes every check.
LEMMA NextReadable == IInv => NextRecordReadable
<1> DEFINE i == Len(accepted) + 1
           wire == written[i].wire
           content == written[i].content
<1> SUFFICES ASSUME IInv, i \in DOMAIN written, Honest(i)
             PROVE  /\ VerifyError(wire, content) = "none"
                    /\ AcceptError(wire.head) # "none" =>
                         \/ expected = MaxWord
                         \/ wire.head.type \in UnknownTypes /\ Mandatory(wire.head)
  BY DEF NextRecordReadable
<1>1. written[i] \in StoredRecords
  BY StoredTypes DEF IInv
<1>2. /\ wire.whole /\ wire.sync /\ wire.head \in Heads
      /\ content[1] \in Seq(STRING) /\ content[2] \in Seq(STRING)
  BY <1>1, RecordAssumption DEF StoredRecords
<1>3. /\ wire.head.sequence = i - 1 /\ "reserved" \notin wire.head.flags
      /\ wire.checksum = wire.head /\ wire.payload_checksum = content[1] \o content[2]
  BY DEF IInv, Framed
<1>4. /\ wire.head.extension_length = Len(content[1])
      /\ wire.head.payload_length = Len(content[2])
      /\ Len(content[1]) <= limits.extension /\ Len(content[2]) <= limits.payload
      /\ EnvelopeSize + Len(content[1]) + Len(content[2]) <= MaxWord
  BY DEF Honest
<1>5. /\ Len(content[1]) \in Nat /\ Len(content[2]) \in Nat
      /\ limits.extension \in Nat /\ limits.payload \in Nat
  <2>1. Len(content[1]) \in Nat /\ Len(content[2]) \in Nat
    BY <1>2
  <2>2. limits \in [extension : 0..MaxExtension, payload : 0..MaxWord]
    BY RecordAssumption DEF IInv, TypeOK
  <2> QED
    BY <2>1, <2>2
<1>6. VerifyError(wire, content) = "none"
  <2> DEFINE ext == Len(content[1])
             pay == Len(content[2])
  <2>1. /\ ~(ext > limits.extension) /\ ~(pay > limits.payload)
        /\ ~AddOverflows(ext, pay) /\ ~AddOverflows(EnvelopeSize, ext + pay)
    <3>1. /\ ext <= limits.extension /\ pay <= limits.payload
          /\ EnvelopeSize + ext + pay <= MaxWord
          /\ ext \in Nat /\ pay \in Nat /\ limits.extension \in Nat /\ limits.payload \in Nat
      BY <1>4, <1>5
    <3> HIDE DEF ext, pay
    <3> QED
      BY <3>1, RecordAssumption, WordAssumption DEF AddOverflows
  <2>2. ParseError(wire) = "none"
    BY <1>2, <1>3, <1>4, <2>1, ParsedIff
  <2> QED
    BY <1>3, <1>4, <2>2, VerifiedIff
<1>7. ASSUME AcceptError(wire.head) # "none"
      PROVE  \/ expected = MaxWord
             \/ wire.head.type \in UnknownTypes /\ Mandatory(wire.head)
  <2>1. expected \in 0..MaxWord /\ expected = Len(accepted)
    BY DEF IInv, TypeOK, AcceptsPrefix
  <2>2. ~OutOfOrder(wire.head)
    BY <1>3, <2>1, WordAssumption DEF OutOfOrder
  <2>3. CASE Unsupported(wire.head)
    BY <1>2, <2>3, HeadFields DEF Unsupported
  <2>4. CASE ~Unsupported(wire.head)
    <3>1. AddOverflows(expected, 1)
      BY <1>7, <2>2, <2>4, AcceptedIff
    <3> QED
      BY <2>1, <3>1, WordAssumption DEF AddOverflows
  <2> QED
    BY <2>3, <2>4
<1> QED
  BY <1>6, <1>7

\* Damage leaves every field of an envelope a value its bits can have.
LEMMA DamagedHead ==
  ASSUME NEW head \in Heads, NEW h \in OneFieldOff(head)
  PROVE  h \in Heads
<1>1. PICK f \in DOMAIN head : \E v \in FieldValues[f] : h = [head EXCEPT ![f] = v]
  BY DEF OneFieldOff
<1>2. PICK v \in FieldValues[f] : h = [head EXCEPT ![f] = v]
  BY <1>1
<1>3. f \in {"type", "flags", "extension_length", "payload_length", "sequence"}
  BY DEF Heads
<1>4. CASE f = "type"
  BY <1>2, <1>4 DEF Heads, FieldValues
<1>5. CASE f = "flags"
  BY <1>2, <1>5 DEF Heads, FieldValues
<1>6. CASE f = "extension_length"
  BY <1>2, <1>6 DEF Heads, FieldValues
<1>7. CASE f = "payload_length"
  BY <1>2, <1>7 DEF Heads, FieldValues
<1>8. CASE f = "sequence"
  BY <1>2, <1>8 DEF Heads, FieldValues
<1> QED
  BY <1>3, <1>4, <1>5, <1>6, <1>7, <1>8

\* Under the invariant lengths that parse fit the limits and a word.
LEMMA LengthsFitAlways == IInv => LengthsFit
<1> SUFFICES ASSUME IInv, written # <<>>,
                    NEW w \in {Last(written).wire} \cup Damaged(Last(written).wire),
                    ParseError(w) = "none"
             PROVE  /\ w.head.extension_length <= limits.extension
                    /\ w.head.payload_length <= limits.payload
                    /\ EnvelopeSize + w.head.extension_length + w.head.payload_length <= MaxWord
  BY DEF LengthsFit
<1> DEFINE wire == Last(written).wire
<1>1. wire \in [whole : {TRUE}, sync : {TRUE}, head : Heads,
                checksum : Heads, payload_checksum : Seq(STRING)]
  <2>1. /\ Len(written) \in Nat /\ DOMAIN written = 1..Len(written)
        /\ \A i \in DOMAIN written : written[i] \in StoredRecords
    BY StoredTypes DEF IInv
  <2>2. Len(written) # 0
    BY DEF IInv, TypeOK
  <2>3. Len(written) \in DOMAIN written
    BY <2>1, <2>2
  <2> QED
    BY <2>1, <2>3 DEF Last, StoredRecords
<1>2. w.head \in Heads
  <2> HIDE DEF wire
  <2>1. CASE w = wire
    BY <1>1, <2>1
  <2>2. CASE w \in {[wire EXCEPT !.whole = FALSE], [wire EXCEPT !.sync = FALSE]}
    BY <1>1, <2>2
  <2>3. CASE w \in {[wire EXCEPT !.head = h] : h \in OneFieldOff(wire.head)}
    BY <1>1, <2>3, DamagedHead
  <2>4. CASE w = [wire EXCEPT !.checksum = None]
    BY <1>1, <2>4
  <2>5. CASE w = [wire EXCEPT !.payload_checksum = None]
    BY <1>1, <2>5
  <2> QED
    BY <2>1, <2>2, <2>3, <2>4, <2>5 DEF wire, Damaged
<1>3. w.head.extension_length \in 0..MaxExtension /\ w.head.payload_length \in 0..MaxWord
  BY <1>2, HeadFields
<1>4. limits \in [extension : 0..MaxExtension, payload : 0..MaxWord]
  BY RecordAssumption DEF IInv, TypeOK
<1>5. /\ ~(w.head.extension_length > limits.extension)
      /\ ~(w.head.payload_length > limits.payload)
      /\ ~AddOverflows(w.head.extension_length, w.head.payload_length)
      /\ ~AddOverflows(EnvelopeSize, w.head.extension_length + w.head.payload_length)
  BY ParsedIff
<1>6. EnvelopeSize + (w.head.extension_length + w.head.payload_length) <= MaxWord
  <2>1. /\ w.head.extension_length + w.head.payload_length \in Nat
        /\ EnvelopeSize \in Nat /\ MaxWord \in Nat
    BY <1>3, RecordAssumption, WordAssumption
  <2> QED
    BY <1>5, <2>1, SumFits
<1>7. /\ w.head.extension_length \in Nat /\ w.head.payload_length \in Nat
      /\ limits.extension \in Nat /\ limits.payload \in Nat /\ EnvelopeSize \in Nat
  BY <1>3, <1>4, RecordAssumption
<1> QED
  BY <1>5, <1>6, <1>7

-----------------------------------------------------------------------------
(* Theorems.                                                               *)

\* The invariant holds of every reachable state.
LEMMA InvariantHolds == Spec => []IInv
<1> QED
  BY InitIInv, NextIInv, PTL DEF Spec

\* Types, for every width of the words: neither the expected sequence number
\* nor any length of an envelope leaves its range.
THEOREM TypeCorrect == Spec => []TypeOK
<1>1. IInv => TypeOK
  BY DEF IInv
<1> QED
  BY <1>1, InvariantHolds, PTL

\* What RecordSequence::accept has let through is a prefix of what the writer
\* framed, unaltered, whatever the transport lost, repeated, reordered or damaged.
THEOREM AcceptedIsPrefix == Spec => []AcceptsPrefix
<1>1. IInv => AcceptsPrefix
  BY DEF IInv
<1> QED
  BY <1>1, InvariantHolds, PTL

\* A record of an unknown type is only ever skipped when its writer has not
\* marked it mandatory.
THEOREM NothingSkipped == Spec => []NothingMandatorySkipped
<1>1. IInv => NothingMandatorySkipped
  BY DEF IInv
<1> QED
  BY <1>1, InvariantHolds, PTL

\* After any history of refused records, a sound copy of the next one verifies,
\* and is accepted unless it is unknown and mandatory or sequence numbers end.
THEOREM AlwaysReadable == Spec => []NextRecordReadable
<1> QED
  BY NextReadable, InvariantHolds, PTL

\* verify_record and accept never blame a checksum, the magic, a truncation or
\* an unsupported type that is not there.
THEOREM CauseAlwaysNamed == Spec => []ErrorsNameTheCause
<1> QED
  BY CauseNamed, InvariantHolds, PTL

\* The lengths of an envelope that parses are within the reader's limits, and
\* the total parse_record_envelope computes from them does not wrap.
THEOREM LengthsAlwaysFit == Spec => []LengthsFit
<1> QED
  BY LengthsFitAlways, InvariantHolds, PTL

=============================================================================
