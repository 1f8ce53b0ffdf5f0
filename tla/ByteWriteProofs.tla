--------------------------- MODULE ByteWriteProofs --------------------------
(***************************************************************************)
(* Proofs about ByteWrite for every bound of the sinks, every disk and     *)
(* every length of the payloads.                                           *)
(***************************************************************************)
EXTENDS ByteWrite, SequenceTheorems, TLAPS

Sinks == [position : 0..Longest, stream : 0..Longest, extent : 0..Longest, err : BOOLEAN]

-----------------------------------------------------------------------------
(* The inductive invariant.                                                *)

\* How a sink s with content c stands: position() is never ahead of the stream,
\* nor beyond what was written, and only a failed fwrite leaves it behind.
Standing(s, c) ==
  /\ s.position <= s.stream /\ s.stream <= Len(c)
  /\ s.position <= s.extent /\ s.extent <= Len(c)
  /\ ~s.err => s.stream = s.position
  /\ kind # "file" => ~s.err
  /\ kind # "plugin" => s.extent <= MaxSize

\* Between the start of a call and position() stands the beginning of its
\* payload.
Placed ==
  /\ start <= sink.position /\ sink.position <= start + Len(payload)
  /\ ~sink.err => \A i \in 1..(sink.position - start) : content[start + i] = payload[i]

\* What the loop counts is what position() moved by.  In between, the outcome
\* of a transfer says by how much they differ, if it can be believed.
Counted ==
  /\ pc \in {"require", "seek", "move"} =>
       sink.position = start /\ completed = 0 /\ at # None
  /\ pc \in {"loop", "write", "transfer"} => sink.position = start + completed
  /\ pc \in {"write", "transfer", "outcome"} => completed < Len(payload)
  /\ (pc = "outcome" /\ outcome.error # "none") => sink.position = start + completed
  /\ (pc = "outcome" /\ outcome.error = "none" /\ outcome.n <= Len(payload) - completed) =>
       sink.position = start + completed + outcome.n
  /\ (pc = "outcome" /\ outcome.error = "limit_exceeded") => sink.position = MaxSize
  /\ (pc = "idle" /\ result = "ok") => sink.position = start + Len(payload)

\* Until the operation that is under way takes effect nothing has been late, and
\* after a request only that operation gets past the checks.
Sparing ==
  /\ late <= spared
  /\ ~cancelled => spared = 0
  /\ (cancelled /\ pc \in {"seek", "write"}) => late = 0 /\ (kind = "plugin" => spared = 1)
  /\ (cancelled /\ pc \in {"move", "transfer"}) => late = 0 /\ spared = 1

IInv == /\ TypeOK
        /\ Standing(sink, content)
        /\ Placed
        /\ Counted
        /\ LimitIsReal
        /\ Sparing

-----------------------------------------------------------------------------
(* Numbers and sequences.                                                  *)

\* The larger of two numbers.
LEMMA LargerOfTwo ==
  ASSUME NEW a \in Nat, NEW b \in Nat
  PROVE  Max({a, b}) = IF a >= b THEN a ELSE b
<1>1. CASE a >= b
  BY <1>1 DEF Max
<1>2. CASE b > a
  BY <1>2 DEF Max
<1> QED
  BY <1>1, <1>2

\* The smallest of three numbers is one of them, and no larger than the others.
LEMMA LeastOfThree ==
  ASSUME NEW a \in Int, NEW b \in Int, NEW c \in Int
  PROVE  /\ Min({a, b, c}) \in {a, b, c}
         /\ Min({a, b, c}) <= a /\ Min({a, b, c}) <= b /\ Min({a, b, c}) <= c
<1>1. \E m \in {a, b, c} : \A k \in {a, b, c} : m =< k
  <2>1. CASE a <= b /\ a <= c
    BY <2>1
  <2>2. CASE b <= a /\ b <= c
    BY <2>2
  <2>3. CASE c <= a /\ c <= b
    BY <2>3
  <2> QED
    BY <2>1, <2>2, <2>3
<1> QED
  BY <1>1 DEF Min

\* The same for two.
LEMMA LeastOfTwo ==
  ASSUME NEW a \in Int, NEW b \in Int
  PROVE  Min({a, b}) \in {a, b} /\ Min({a, b}) <= a /\ Min({a, b}) <= b
<1>1. CASE a <= b
  BY <1>1 DEF Min
<1>2. CASE b < a
  BY <1>2 DEF Min
<1> QED
  BY <1>1, <1>2

\* The bounds of the model.
LEMMA Bounds ==
  /\ MaxSize \in Nat /\ MaxWrite \in Nat \ {0} /\ DiskSpace \in Nat /\ MaxLen \in Nat
  /\ Longest \in Nat /\ MaxSize <= Longest /\ DiskSpace <= Longest
  /\ None \notin Nat
BY ByteWriteAssumption, LargerOfTwo DEF Longest

\* A payload is a sequence of bytes.
LEMMA PayloadBytes ==
  ASSUME NEW tag \in Tags \cup {"old"}, NEW n \in Nat, n <= MaxLen \/ n <= MaxSize
  PROVE  Payload(tag, n) \in Seq(Bytes) /\ Len(Payload(tag, n)) = n
<1>1. \A i \in 1..n : <<tag, i>> \in Bytes
  BY Bounds, LargerOfTwo DEF Bytes
<1> QED
  BY <1>1, IsASeq DEF Payload

\* The first n elements of a sequence.
LEMMA Beginning ==
  ASSUME NEW d \in Seq(Bytes), NEW n \in 0..Len(d)
  PROVE  /\ SubSeq(d, 1, n) \in Seq(Bytes) /\ Len(SubSeq(d, 1, n)) = n
         /\ \A i \in 1..n : SubSeq(d, 1, n)[i] = d[i]
<1>1. \A i \in 1..n : d[i] \in Bytes
  OBVIOUS
<1> QED
  BY <1>1, SubSeqProperties

\* Two stretches with the same elements are equal.
LEMMA SameStretch ==
  ASSUME NEW c \in Seq(Bytes), NEW d \in Seq(Bytes), NEW p \in Nat, NEW n \in Nat,
         p + n <= Len(c), n <= Len(d), \A i \in 1..n : c[p + i] = d[i]
  PROVE  SubSeq(c, p + 1, p + n) = SubSeq(d, 1, n)
<1>1. \A i \in (p + 1)..(p + n) : c[i] \in Bytes
  OBVIOUS
<1>2. /\ SubSeq(c, p + 1, p + n) \in Seq(Bytes) /\ Len(SubSeq(c, p + 1, p + n)) = n
      /\ \A i \in 1..n : SubSeq(c, p + 1, p + n)[i] = c[p + i]
  BY <1>1, SubSeqProperties
<1> QED
  BY <1>2, Beginning, SeqEqual

\* Bytes put over others: theirs from the offset on, the old ones before it.
LEMMA OverlayBytes ==
  ASSUME NEW c \in Seq(Bytes), NEW d \in Seq(Bytes), NEW p \in 0..Len(c)
  PROVE  /\ Overlay(c, p, d) \in Seq(Bytes)
         /\ Len(Overlay(c, p, d)) = IF Len(c) >= p + Len(d) THEN Len(c) ELSE p + Len(d)
         /\ \A i \in 1..Len(d) : Overlay(c, p, d)[p + i] = d[i]
         /\ \A i \in 1..p : Overlay(c, p, d)[i] = c[i]
<1> DEFINE e(i) == IF i \in (p + 1)..(p + Len(d)) THEN d[i - p] ELSE c[i]
           n == IF Len(c) >= p + Len(d) THEN Len(c) ELSE p + Len(d)
<1>1. n \in Nat /\ Len(c) \in Nat /\ Len(d) \in Nat /\ p \in Nat
  OBVIOUS
<1>2. Overlay(c, p, d) = [i \in 1..n |-> e(i)]
  BY <1>1, LargerOfTwo DEF Overlay
<1>3. \A i \in 1..n : e(i) \in Bytes
  OBVIOUS
<1>4. /\ \A i \in 1..Len(d) : p + i \in 1..n /\ e(p + i) = d[i]
      /\ \A i \in 1..p : i \in 1..n /\ e(i) = c[i]
  BY <1>1
<1> HIDE DEF e
<1>5. [i \in 1..n |-> e(i)] \in Seq(Bytes)
  BY <1>1, <1>3, IsASeq
<1>6. Len([i \in 1..n |-> e(i)]) = n
  BY <1>1
<1> QED
  BY <1>2, <1>4, <1>5, <1>6

-----------------------------------------------------------------------------
(* The sinks.                                                              *)

Capacity == IF kind = "memory" THEN MaxSize ELSE DiskSpace

\* What a write leaves behind, whether it succeeds or not: position() moves by
\* what was stored, of the beginning of data, unless the stream is out of step.
Stored(o, data) ==
  /\ o.content \in Seq(Bytes) /\ Len(o.content) <= Capacity
  /\ o.sink \in Sinks /\ Standing(o.sink, o.content)
  /\ o.sink.position \in sink.position..(sink.position + Len(data))
  /\ ~o.sink.err =>
       /\ ~sink.err
       /\ \A i \in 1..(o.sink.position - sink.position) : o.content[sink.position + i] = data[i]
       /\ \A i \in 1..sink.position : o.content[i] = content[i]

\* What any sink may report of a write of data.
Sound(o, data) ==
  /\ Stored(o, data)
  /\ o.n \in 0..(Len(data) + 1)
  /\ o.error \in {"none", "limit_exceeded", "allocation_failed", "io_write_failed",
                  "plugin_error"}
  /\ o.error # "none" => o.sink.position = sink.position
  /\ (o.error = "none" /\ o.n <= Len(data)) => o.sink.position = sink.position + o.n
  /\ o.error = "limit_exceeded" => sink.position = MaxSize

\* The sink before a write.
LEMMA SinkType ==
  ASSUME TypeOK, Standing(sink, content)
  PROVE  /\ sink \in Sinks
         /\ sink = [position |-> sink.position, stream |-> sink.stream,
                    extent |-> sink.extent, err |-> sink.err]
         /\ sink.position \in Nat /\ sink.stream \in 0..Len(content) /\ sink.extent \in Nat
         /\ sink.err \in BOOLEAN
         /\ content \in Seq(Bytes) /\ Len(content) <= Capacity
         /\ Len(content) \in Nat /\ Capacity \in Nat /\ Capacity <= Longest
<1>1. sink \in Sinks /\ content \in Seq(Bytes) /\ Len(content) <= Capacity
  BY DEF TypeOK, Sinks, Capacity
<1>2. Len(content) \in Nat /\ Capacity \in Nat /\ Capacity <= Longest /\ Longest \in Nat
  BY <1>1, Bounds DEF Capacity
<1>3. sink.stream <= Len(content)
  BY DEF Standing
<1> QED
  BY <1>1, <1>2, <1>3 DEF Sinks

\* count bytes stored where the stream is.
LEMMA StoresBytes ==
  ASSUME TypeOK, Standing(sink, content), NEW data \in Seq(Bytes), NEW count \in 0..Len(data),
         NEW position \in Nat, NEW extent \in Nat, NEW err \in BOOLEAN,
         sink.err => err, kind # "file" => ~err,
         position = sink.position + count \/ (err /\ position = sink.position),
         extent = IF sink.extent >= position THEN sink.extent ELSE position,
         kind # "plugin" => position <= MaxSize,
         sink.stream + count <= Capacity, NEW o,
         o.content = Overlay(content, sink.stream, SubSeq(data, 1, count)),
         o.sink = [position |-> position, stream |-> sink.stream + count,
                   extent |-> extent, err |-> err]
  PROVE  Stored(o, data)
<1>1. /\ sink.position \in Nat /\ sink.stream \in 0..Len(content) /\ sink.extent \in Nat
      /\ sink.err \in BOOLEAN /\ content \in Seq(Bytes) /\ Len(content) <= Capacity
      /\ Len(content) \in Nat /\ Capacity \in Nat /\ Capacity <= Longest
  BY SinkType
<1>2. /\ SubSeq(data, 1, count) \in Seq(Bytes) /\ Len(SubSeq(data, 1, count)) = count
      /\ \A i \in 1..count : SubSeq(data, 1, count)[i] = data[i]
  BY Beginning
<1> DEFINE put == SubSeq(data, 1, count)
<1> HIDE DEF put
<1>3. /\ put \in Seq(Bytes) /\ Len(put) = count /\ \A i \in 1..count : put[i] = data[i]
      /\ o.content = Overlay(content, sink.stream, put)
  BY <1>2 DEF put
<1>4. /\ o.content \in Seq(Bytes)
      /\ Len(o.content) = IF Len(content) >= sink.stream + count THEN Len(content)
                          ELSE sink.stream + count
      /\ \A i \in 1..count : o.content[sink.stream + i] = data[i]
      /\ \A i \in 1..sink.stream : o.content[i] = content[i]
  <2> DEFINE new == Overlay(content, sink.stream, put)
  <2>1. /\ new \in Seq(Bytes)
        /\ Len(new) = IF Len(content) >= sink.stream + count THEN Len(content)
                      ELSE sink.stream + count
        /\ \A i \in 1..count : new[sink.stream + i] = put[i]
        /\ \A i \in 1..sink.stream : new[i] = content[i]
    <3>1. /\ content \in Seq(Bytes) /\ put \in Seq(Bytes)
          /\ sink.stream \in 0..Len(content)
      BY <1>1, <1>3
    <3>2. /\ new \in Seq(Bytes)
          /\ Len(new) = IF Len(content) >= sink.stream + Len(put) THEN Len(content)
                        ELSE sink.stream + Len(put)
          /\ \A i \in 1..Len(put) : new[sink.stream + i] = put[i]
          /\ \A i \in 1..sink.stream : new[i] = content[i]
      BY <3>1, OverlayBytes, Zenon
    <3>3. Len(put) = count
      BY <1>3
    <3> QED
      BY <3>2, <3>3, Zenon
  <2>2. o.content = new
    BY <1>3
  <2> HIDE DEF new
  <2> QED
    BY <1>3, <2>1, <2>2
<1>5. Len(data) \in Nat /\ count \in Nat /\ count <= Len(data)
  OBVIOUS
<1>6. /\ Len(o.content) <= Capacity /\ Len(o.content) >= sink.stream + count
      /\ Len(o.content) >= Len(content) /\ Len(o.content) \in Nat
  BY <1>1, <1>4, <1>5
<1>7. /\ sink.position <= sink.stream /\ sink.position <= sink.extent
      /\ sink.extent <= Len(content)
      /\ ~sink.err => sink.stream = sink.position
      /\ kind # "plugin" => sink.extent <= MaxSize
  BY DEF Standing
<1>8. /\ position >= sink.position /\ position <= sink.position + count
      /\ position <= extent /\ extent <= Len(o.content) /\ position <= sink.stream + count
      /\ kind # "plugin" => extent <= MaxSize
      /\ ~err => sink.stream + count = position
  <2>1. position = sink.position + count \/ position = sink.position
    OBVIOUS
  <2>2. ~err => sink.stream = sink.position /\ position = sink.position + count
    BY <1>1, <1>7
  <2>3. extent = position \/ extent = sink.extent
    OBVIOUS
  <2>4. position <= extent
    BY <1>1
  <2>5. /\ position >= sink.position /\ position <= sink.position + count
        /\ position <= sink.stream + count
    BY <1>1, <1>5, <1>7, <2>1
  <2>6. extent <= Len(o.content)
    BY <1>1, <1>5, <1>6, <1>7, <2>3, <2>5
  <2>7. kind # "plugin" => extent <= MaxSize
    BY <1>7, <2>3
  <2> QED
    BY <2>2, <2>4, <2>5, <2>6, <2>7
<1>9. /\ o.sink.position = position /\ o.sink.stream = sink.stream + count
      /\ o.sink.extent = extent /\ o.sink.err = err
  OBVIOUS
<1>10. o.sink \in Sinks
  <2>1. position <= Longest /\ sink.stream + count <= Longest /\ extent <= Longest
    BY <1>1, <1>5, <1>6, <1>8, Bounds
  <2>2. position \in 0..Longest /\ sink.stream + count \in 0..Longest /\ extent \in 0..Longest
    <3>1. sink.stream + count \in Nat /\ Longest \in Nat
      BY <1>1, <1>5, Bounds
    <3> QED
      BY <2>1, <3>1
  <2> QED
    BY <2>2 DEF Sinks
<1>11. Standing(o.sink, o.content)
  BY <1>6, <1>8, <1>9 DEF Standing
<1>12. position \in sink.position..(sink.position + Len(data))
  BY <1>1, <1>5, <1>8
<1>13. ASSUME ~err
       PROVE  /\ ~sink.err
              /\ \A i \in 1..(position - sink.position) : o.content[sink.position + i] = data[i]
              /\ \A i \in 1..sink.position : o.content[i] = content[i]
  <2>1. sink.stream = sink.position /\ position - sink.position = count
    BY <1>1, <1>5, <1>7, <1>13
  <2> QED
    BY <1>4, <1>13, <2>1
<1> QED
  BY <1>4, <1>6, <1>9, <1>10, <1>11, <1>12, <1>13 DEF Stored

\* A refused write stores nothing.
LEMMA RefusedStores ==
  ASSUME TypeOK, Standing(sink, content), NEW data \in Seq(Bytes),
         NEW error, NEW o, o = Refused(error)
  PROVE  Stored(o, data) /\ o.n = 0 /\ o.error = error /\ o.sink = sink
<1>1. o.content = content /\ o.sink = sink /\ o.n = 0 /\ o.error = error
  BY DEF Refused, Outcome
<1>2. /\ sink \in Sinks /\ content \in Seq(Bytes) /\ Len(content) <= Capacity
      /\ sink.position \in Nat /\ Len(data) \in Nat
  BY SinkType
<1>3. /\ sink.position \in sink.position..(sink.position + Len(data))
      /\ 1..(sink.position - sink.position) = {}
  BY <1>2
<1> QED
  BY <1>1, <1>2, <1>3 DEF Stored

\* The memory sink stores what fits, or runs out of memory or of bounds.
LEMMA MemorySound ==
  ASSUME TypeOK, Standing(sink, content), kind = "memory",
         NEW data \in Seq(Bytes), data # <<>>, NEW o \in MemoryWrite(data)
  PROVE  Sound(o, data)
<1> DEFINE count == Min({Len(data), MaxWrite, Available})
           end == sink.position + count
           whole == Outcome(Overlay(content, sink.position, SubSeq(data, 1, count)),
                            [sink EXCEPT !.position = end, !.stream = end,
                                         !.extent = Max({@, end})],
                            count, "none")
<1>1. /\ sink.position \in Nat /\ sink.extent \in Nat /\ Len(data) \in Nat
      /\ sink = [position |-> sink.position, stream |-> sink.stream,
                 extent |-> sink.extent, err |-> sink.err]
      /\ sink.position <= MaxSize /\ sink.stream = sink.position /\ sink.err = FALSE
      /\ Capacity = MaxSize
  BY SinkType, Bounds DEF Standing, Capacity
<1>2. Available \in Nat /\ sink.position + Available = MaxSize
  BY <1>1, Bounds DEF Available
<1>3. \/ o = Refused("invariant_violation") /\ sink.position > MaxSize
      \/ o = Refused("limit_exceeded") /\ Full(data)
      \/ o = whole
      \/ o = Refused("allocation_failed")
  BY DEF MemoryWrite
<1>4. CASE o = Refused("limit_exceeded") /\ Full(data)
  <2>1. sink.position = MaxSize
    BY <1>1, <1>2, <1>4 DEF Full
  <2> QED
    BY <1>1, <1>4, <2>1, RefusedStores DEF Sound
<1>5. CASE o = Refused("allocation_failed")
  BY <1>1, <1>5, RefusedStores DEF Sound
<1>6. CASE o = whole
  <2>1. count \in 0..Len(data) /\ count <= Available
    <3>1. /\ count \in {Len(data), MaxWrite, Available}
          /\ count <= Len(data) /\ count <= Available
      <4>1. Len(data) \in Int /\ MaxWrite \in Int /\ Available \in Int
        BY <1>1, <1>2, Bounds
      <4> QED
        BY <4>1, LeastOfThree
    <3> HIDE DEF count
    <3> QED
      BY <1>1, <1>2, <3>1, Bounds
  <2> HIDE DEF count
  <2>2. end \in Nat /\ Max({sink.extent, end}) = IF sink.extent >= end THEN sink.extent ELSE end
    BY <1>1, <2>1, LargerOfTwo
  <2>3. o.content = Overlay(content, sink.stream, SubSeq(data, 1, count))
    BY <1>1, <1>6 DEF Outcome
  <2>4. o.sink = [position |-> end, stream |-> sink.stream + count,
                  extent |-> Max({sink.extent, end}), err |-> FALSE]
    BY <1>1, <1>6 DEF Outcome
  <2>5. end <= MaxSize /\ sink.stream + count <= Capacity
    BY <1>1, <1>2, <2>1, Bounds
  <2>6. Max({sink.extent, end}) \in Nat
    BY <1>1, <2>2
  <2>7. Stored(o, data)
    BY <1>1, <2>1, <2>2, <2>3, <2>4, <2>5, <2>6, StoresBytes
  <2>8. o.n = count /\ o.error = "none" /\ o.sink.position = sink.position + count
    BY <1>6, <2>4 DEF Outcome
  <2>9. count \in 0..(Len(data) + 1)
    BY <1>1, <2>1
  <2> QED
    BY <2>7, <2>8, <2>9 DEF Sound
<1> QED
  BY <1>1, <1>3, <1>4, <1>5, <1>6, Bounds

\* A stream moved by k bytes, and then a sink that counts them.
LEMMA CountedSink ==
  ASSUME NEW s, NEW k, NEW r, NEW x, NEW m, NEW t,
         s = [position |-> s.position, stream |-> s.stream, extent |-> s.extent, err |-> s.err],
         m = [s EXCEPT !.stream = @ + k, !.err = r],
         t = [m EXCEPT !.position = @ + k, !.extent = Max({@, x})]
  PROVE  t = [position |-> s.position + k, stream |-> s.stream + k,
            extent |-> Max({s.extent, x}), err |-> r]
<1>1. m = [position |-> s.position, stream |-> s.stream + k, extent |-> s.extent, err |-> r]
  OBVIOUS
<1>2. m.extent = s.extent
  BY <1>1
<1>3. PICK v : v = Max({m.extent, x})
  OBVIOUS
<1>4. Max({s.extent, x}) = v
  BY <1>2, <1>3, Zenon
<1>5. t = [m EXCEPT !.position = @ + k, !.extent = v]
  BY <1>3, Zenon
<1>6. t = [position |-> s.position + k, stream |-> s.stream + k, extent |-> v, err |-> r]
  BY <1>1, <1>5
<1> QED
  BY <1>4, <1>6, Zenon

\* The file sink stores what fwrite put; after an error position() stays.
LEMMA FileSound ==
  ASSUME TypeOK, Standing(sink, content), kind = "file",
         NEW data \in Seq(Bytes), data # <<>>, NEW o \in FileWrite(data)
  PROVE  Sound(o, data)
<1> DEFINE count == Min({Len(data), MaxWrite, Available})
           written(f) == Overlay(content, sink.stream, SubSeq(data, 1, f.put))
           moved(f) == [sink EXCEPT !.stream = @ + f.put, !.err = f.err]
           counted(f) == [moved(f) EXCEPT !.position = @ + f.put,
                                          !.extent = Max({@, sink.position + f.put})]
<1>1. /\ sink.position \in Nat /\ sink.stream \in Nat /\ sink.extent \in Nat /\ Len(data) \in Nat
      /\ sink.err \in BOOLEAN
      /\ sink = [position |-> sink.position, stream |-> sink.stream,
                 extent |-> sink.extent, err |-> sink.err]
      /\ sink.position <= MaxSize /\ sink.position <= sink.extent
      /\ Capacity = DiskSpace /\ DiskSpace \in Nat /\ MaxSize \in Nat
  BY SinkType, Bounds DEF Standing, Capacity
<1>2. Available \in Nat /\ sink.position + Available = MaxSize
  BY <1>1, Bounds DEF Available
<1>3. /\ count \in {Len(data), MaxWrite, Available}
      /\ count <= Len(data) /\ count <= Available
  <2>1. Len(data) \in Int /\ MaxWrite \in Int /\ Available \in Int
    BY <1>1, <1>2, Bounds
  <2> QED
    BY <2>1, LeastOfThree
<1>4. \/ o = Refused("limit_exceeded") /\ Full(data)
      \/ \E f \in Fwrite(count) :
           o = IF f.put < count /\ f.err
               THEN Outcome(written(f), moved(f), 0, "io_write_failed")
               ELSE Outcome(written(f), counted(f), f.put, "none")
  BY DEF FileWrite
<1>5. CASE o = Refused("limit_exceeded") /\ Full(data)
  <2>1. sink.position = MaxSize
    BY <1>1, <1>2, <1>5 DEF Full
  <2> QED
    BY <1>1, <1>5, <2>1, RefusedStores DEF Sound
<1> HIDE DEF count
<1>6. count \in Nat /\ count <= Len(data) /\ count <= Available
  BY <1>1, <1>2, <1>3, Bounds
<1>7. ASSUME NEW f \in Fwrite(count),
             o = IF f.put < count /\ f.err
                 THEN Outcome(written(f), moved(f), 0, "io_write_failed")
                 ELSE Outcome(written(f), counted(f), f.put, "none")
      PROVE  Sound(o, data)
  <2>1. PICK k \in 0..Min({count, DiskSpace - sink.stream}) :
          f = [put |-> k, err |-> sink.err \/ k < count]
    BY DEF Fwrite
  <2>2. k \in Nat /\ k <= count /\ sink.stream + k <= DiskSpace
    <3>1. DiskSpace - sink.stream \in Int /\ count \in Int
      BY <1>1, <1>6
    <3>2. /\ Min({count, DiskSpace - sink.stream}) \in Int
          /\ Min({count, DiskSpace - sink.stream}) <= count
          /\ Min({count, DiskSpace - sink.stream}) <= DiskSpace - sink.stream
      BY <3>1, LeastOfTwo
    <3> QED
      BY <1>1, <1>6, <3>2
  <2>3. /\ f.put = k /\ f.err \in BOOLEAN /\ (sink.err => f.err) /\ (k < count => f.err)
        /\ k \in 0..Len(data) /\ k \in 0..(Len(data) + 1)
    <3>1. f.put = k /\ f.err = (sink.err \/ k < count)
      BY <2>1
    <3>2. k \in 0..Len(data) /\ k \in 0..(Len(data) + 1)
      BY <1>1, <1>6, <2>2
    <3> QED
      BY <3>1, <3>2
  <2>4. CASE f.put < count /\ f.err
    <3>1. /\ o.content = Overlay(content, sink.stream, SubSeq(data, 1, k))
          /\ o.n = 0 /\ o.error = "io_write_failed"
          /\ o.sink = moved(f)
      BY <1>7, <2>3, <2>4 DEF Outcome
    <3>2. o.sink = [position |-> sink.position, stream |-> sink.stream + k,
                    extent |-> sink.extent, err |-> f.err]
      BY <1>1, <2>3, <3>1
    <3>3. Stored(o, data)
      <4>1. /\ sink.position \in Nat /\ sink.extent \in Nat /\ sink.position <= MaxSize
            /\ sink.extent = IF sink.extent >= sink.position THEN sink.extent
                             ELSE sink.position
        BY <1>1
      <4>2. sink.stream + k <= Capacity /\ k \in 0..Len(data)
        BY <1>1, <2>2, <2>3
      <4> QED
        BY <2>3, <2>4, <3>1, <3>2, <4>1, <4>2, StoresBytes
    <3>4. o.sink.position = sink.position /\ o.n \in 0..(Len(data) + 1)
      BY <1>1, <3>1, <3>2
    <3> QED
      BY <3>1, <3>3, <3>4 DEF Sound
  <2>5. CASE ~(f.put < count /\ f.err)
    <3>1. /\ o.content = Overlay(content, sink.stream, SubSeq(data, 1, k))
          /\ o.n = k /\ o.error = "none"
          /\ o.sink = counted(f)
      BY <1>7, <2>3, <2>5 DEF Outcome
    <3>2. o.sink = [position |-> sink.position + k, stream |-> sink.stream + k,
                    extent |-> Max({sink.extent, sink.position + k}), err |-> f.err]
      <4>1. f.put = k
        BY <2>3
      <4>2. PICK m : m = moved(f)
        OBVIOUS
      <4>3. /\ m = [sink EXCEPT !.stream = @ + k, !.err = f.err]
            /\ o.sink = [m EXCEPT !.position = @ + k,
                                  !.extent = Max({@, sink.position + k})]
        BY <3>1, <4>1, <4>2, Zenon
      <4> QED
        BY <1>1, <4>3, CountedSink
    <3>3. /\ sink.position + k \in Nat /\ sink.position + k <= MaxSize
          /\ Max({sink.extent, sink.position + k}) =
               IF sink.extent >= sink.position + k THEN sink.extent ELSE sink.position + k
      <4>1. sink.position + k \in Nat /\ sink.position + k <= MaxSize
        BY <1>1, <1>2, <1>6, <2>2
      <4>2. sink.extent \in Nat
        BY <1>1
      <4> QED
        BY <4>1, <4>2, LargerOfTwo
    <3>4. Max({sink.extent, sink.position + k}) \in Nat
      BY <1>1, <3>3
    <3>5. Stored(o, data)
      BY <1>1, <2>2, <2>3, <3>1, <3>2, <3>3, <3>4, StoresBytes
    <3>6. o.sink.position = sink.position + k /\ o.n = k
      <4>1. o.sink.position = sink.position + k
        BY <3>2
      <4> QED
        BY <3>1, <4>1
    <3> QED
      BY <2>3, <3>1, <3>5, <3>6 DEF Sound
  <2> QED
    BY <2>4, <2>5
<1> QED
  BY <1>4, <1>5, <1>7

\* A third-party sink that reports no more than it was given has stored what
\* it reports.
LEMMA PluginSound ==
  ASSUME TypeOK, Standing(sink, content), kind = "plugin",
         NEW data \in Seq(Bytes), NEW o \in PluginWrite(data)
  PROVE  Sound(o, data)
<1> DEFINE stored(n) == Min({n, Len(data), DiskSpace - sink.position})
           after(n) == [sink EXCEPT !.position = @ + stored(n), !.stream = @ + stored(n),
                                    !.extent = Max({@, sink.position + stored(n)})]
           Counts == {m \in 0..(Len(data) + 1) : m = stored(m) \/ m > Len(data)}
<1>1. /\ sink.position \in Nat /\ sink.extent \in Nat /\ Len(data) \in Nat
      /\ sink = [position |-> sink.position, stream |-> sink.stream,
                 extent |-> sink.extent, err |-> sink.err]
      /\ sink.stream = sink.position /\ sink.err = FALSE
      /\ Capacity = DiskSpace /\ DiskSpace \in Nat /\ sink.position <= DiskSpace
  BY SinkType, Bounds DEF Standing, Capacity
<1>2. \/ o = Refused("plugin_error")
      \/ \E n \in Counts :
           o = Outcome(Overlay(content, sink.position, SubSeq(data, 1, stored(n))),
                       after(n), n, "none")
  BY DEF PluginWrite
<1>3. CASE o = Refused("plugin_error")
  BY <1>1, <1>3, RefusedStores DEF Sound
<1>4. ASSUME NEW n \in Counts,
             o = Outcome(Overlay(content, sink.position, SubSeq(data, 1, stored(n))),
                         after(n), n, "none")
      PROVE  Sound(o, data)
  <2> DEFINE k == stored(n)
  <2>1. n \in 0..(Len(data) + 1) /\ (n = k \/ n > Len(data))
    OBVIOUS
  <2>2. /\ k \in {n, Len(data), DiskSpace - sink.position}
        /\ k <= Len(data) /\ k <= DiskSpace - sink.position
    <3>1. n \in Int /\ Len(data) \in Int /\ DiskSpace - sink.position \in Int
      BY <1>1, <2>1
    <3> QED
      BY <3>1, LeastOfThree
  <2>3. /\ o.content = Overlay(content, sink.position, SubSeq(data, 1, k))
        /\ o.n = n /\ o.error = "none" /\ o.sink = after(n)
    BY <1>4 DEF Outcome
  <2>4. o.sink = [position |-> sink.position + k, stream |-> sink.stream + k,
                  extent |-> Max({sink.extent, sink.position + k}), err |-> FALSE]
    BY <1>1, <2>3
  <2> HIDE DEF k
  <2>5. k \in 0..Len(data) /\ sink.position + k \in Nat /\ sink.stream + k <= Capacity
    BY <1>1, <2>1, <2>2
  <2>6. Max({sink.extent, sink.position + k}) =
          IF sink.extent >= sink.position + k THEN sink.extent ELSE sink.position + k
    BY <1>1, <2>5, LargerOfTwo
  <2>7. Max({sink.extent, sink.position + k}) \in Nat
    BY <1>1, <2>5, <2>6
  <2>8. o.content = Overlay(content, sink.stream, SubSeq(data, 1, k))
    BY <1>1, <2>3
  <2>9. Stored(o, data)
    BY <1>1, <2>4, <2>5, <2>6, <2>7, <2>8, StoresBytes
  <2>10. n <= Len(data) => o.sink.position = sink.position + n
    BY <1>1, <2>1, <2>4
  <2> QED
    BY <2>1, <2>3, <2>9, <2>10 DEF Sound
<1> QED
  BY <1>2, <1>3, <1>4

\* So does any sink the loops write to.
LEMMA WriteSound ==
  ASSUME TypeOK, Standing(sink, content), NEW data \in Seq(Bytes), data # <<>>,
         NEW o \in WriteOutcomes(data)
  PROVE  Sound(o, data)
<1>1. kind \in {"memory", "file", "plugin"}
  BY DEF TypeOK
<1>2. CASE kind = "memory"
  BY <1>2, MemorySound DEF WriteOutcomes
<1>3. CASE kind = "file"
  BY <1>3, FileSound DEF WriteOutcomes
<1>4. CASE kind = "plugin"
  BY <1>4, PluginSound DEF WriteOutcomes
<1> QED
  BY <1>1, <1>2, <1>3, <1>4

-----------------------------------------------------------------------------
(* Steps.                                                                  *)

\* The initial sinks stand at the start of what they hold.
LEMMA InitIInv == Init => IInv
<1> SUFFICES ASSUME Init PROVE IInv
  OBVIOUS
<1>1. PICK n \in {0} \cup {m \in 1..MaxSize : kind = "file" /\ m <= DiskSpace} :
        content = Payload("old", n)
  BY DEF Init
<1>2. /\ n \in Nat /\ n <= MaxSize /\ n <= DiskSpace
      /\ content \in Seq(Bytes) /\ Len(content) = n
  BY <1>1, Bounds, PayloadBytes
<1>3. /\ sink = [position |-> 0, stream |-> 0, extent |-> n, err |-> FALSE]
      /\ payload = <<>> /\ completed = 0 /\ start = 0
      /\ pc = "idle" /\ result = "none" /\ at = None
      /\ outcome = [n |-> 0, error |-> "none"] /\ kind \in {"memory", "file", "plugin"}
  BY <1>2 DEF Init, NoOutcome
<1>4. sink \in Sinks
  BY <1>2, <1>3, Bounds DEF Sinks
<1>5. TypeOK
  <2>1. seekable \in BOOLEAN /\ cancelled \in BOOLEAN
    BY DEF Init
  <2>5. pc \in Labels /\ spared \in 0..1 /\ late \in Nat
    BY DEF Init, Labels
  <2>2. payload \in Seq(Bytes) /\ Len(payload) = 0
    BY <1>3, EmptySeq
  <2>3. /\ Len(payload) <= MaxLen /\ completed \in 0..Len(payload) /\ start \in 0..Longest
        /\ Len(content) <= IF kind = "memory" THEN MaxSize ELSE DiskSpace
    BY <1>2, <1>3, <2>2, Bounds
  <2>4. outcome \in [n : 0..(MaxLen + 1),
                     error : {"none", "limit_exceeded", "allocation_failed",
                              "io_write_failed", "plugin_error"}]
    BY <1>3, Bounds
  <2> QED
    BY <1>2, <1>3, <1>4, <2>1, <2>2, <2>3, <2>4, <2>5 DEF TypeOK, Sinks
<1>6. Standing(sink, content)
  BY <1>2, <1>3, Bounds DEF Standing
<1>7. Placed /\ Counted /\ LimitIsReal /\ Sparing
  BY <1>3, EmptySeq DEF Init, Placed, Counted, LimitIsReal, Sparing
<1> QED
  BY <1>5, <1>6, <1>7 DEF IInv

\* A new call starts where the sink stands.
LEMMA BeginIInv ==
  ASSUME IInv, NEW p \in 0..(MaxSize + 1) \cup {None}, NEW data \in Seq(Bytes),
         Len(data) <= MaxLen, NEW label,
         \/ p = None /\ label = "loop"
         \/ p # None /\ label = "require",
         Begin(p, data, label)
  PROVE  IInv'
<1>1. /\ pc' = label /\ at' = p /\ payload' = data /\ completed' = 0 /\ start' = sink.position
      /\ cancelled' \in {FALSE, cancelled} /\ spared' = 0 /\ late' = 0
      /\ UNCHANGED <<kind, seekable, content, sink, outcome, result>>
  BY DEF Begin, sinkVars
<1>2. sink.position \in 0..Longest /\ Len(data) \in Nat
  BY DEF IInv, TypeOK
<1>3. TypeOK'
  <2>1. cancelled' \in BOOLEAN /\ pc' \in Labels
    BY <1>1 DEF IInv, TypeOK, Labels
  <2>2. completed' \in 0..Len(payload') /\ start' \in 0..Longest
    BY <1>1, <1>2
  <2> QED
    BY <1>1, <2>1, <2>2 DEF IInv, TypeOK
<1>4. Standing(sink, content)' /\ LimitIsReal'
  BY <1>1 DEF IInv, Standing, LimitIsReal
<1>5. Placed' /\ Counted' /\ Sparing'
  BY <1>1, <1>2, Bounds DEF Placed, Counted, Sparing
<1> QED
  BY <1>3, <1>4, <1>5 DEF IInv

\* What stays true when only the place in the loop and the status change.
LEMMA SameBytes ==
  ASSUME IInv,
         UNCHANGED <<kind, seekable, content, sink, payload, completed, start, outcome, cancelled>>
  PROVE  Standing(sink, content)' /\ Placed'
BY DEF IInv, Standing, Placed

\* The capability and the token, before a seek.
LEMMA RequireIInv ==
  ASSUME IInv, Require
  PROVE  IInv'
<1>1. pc = "require" /\ UNCHANGED <<cancelled, spared, late>>
  BY DEF Require, history
<1>2. UNCHANGED <<kind, seekable, content, sink, payload, completed, start, outcome>>
  BY DEF Require, sinkVars
<1>3. \/ /\ pc' = "idle" /\ at' = None
         /\ result' \in {"unsupported_feature", "operation_cancelled"}
      \/ pc' = "seek" /\ result' = result /\ at' = at /\ ~cancelled
  BY DEF Require, Return
<1>4. TypeOK'
  <2>1. pc' \in Labels
    BY <1>3 DEF Labels
  <2> QED
    BY <1>1, <1>2, <1>3, <2>1 DEF IInv, TypeOK
<1>5. Counted' /\ LimitIsReal' /\ Sparing'
  BY <1>1, <1>2, <1>3 DEF IInv, Counted, LimitIsReal, Sparing
<1> QED
  BY <1>1, <1>2, <1>4, <1>5, SameBytes DEF IInv

\* The adapter's look at the token only ends the call or goes on, after a
\* request only if the sink is a plugin.
LEMMA AdapterCheckIInv ==
  ASSUME IInv, SeekCheck \/ WriteCheck
  PROVE  IInv'
<1>1. /\ UNCHANGED <<kind, seekable, content, sink, payload, completed, start, outcome>>
      /\ UNCHANGED <<cancelled, spared, late>>
      /\ \/ /\ pc \in {"seek", "write"} /\ pc' = "idle" /\ result' = "operation_cancelled"
            /\ at' \in {at, None}
         \/ /\ result' = result /\ at' = at /\ (~cancelled \/ kind = "plugin")
            /\ \/ pc = "seek" /\ pc' = "move"
               \/ pc = "write" /\ pc' = "transfer"
  BY DEF SeekCheck, WriteCheck, AdapterCheck, Return, sinkVars, history
<1>2. TypeOK'
  <2>1. /\ pc' \in Labels /\ at' \in {at, None}
        /\ result' = result \/ result' = "operation_cancelled"
    BY <1>1 DEF Labels
  <2> QED
    BY <1>1, <2>1 DEF IInv, TypeOK
<1>3. Counted' /\ LimitIsReal'
  BY <1>1 DEF IInv, Counted, LimitIsReal
<1>4. Sparing'
  BY <1>1 DEF IInv, Sparing
<1> QED
  BY <1>1, <1>2, <1>3, <1>4, SameBytes DEF IInv

\* An operation takes effect late only if it was under way.
LEMMA EffectSpares ==
  ASSUME IInv, pc \in {"move", "transfer"}, TakesEffect, UNCHANGED <<kind, cancelled>>,
         pc' \in {"loop", "outcome"}
  PROVE  spared' \in 0..1 /\ late' \in Nat /\ Sparing'
<1>1. /\ spared' = spared /\ spared \in 0..1 /\ late \in Nat /\ cancelled \in BOOLEAN
      /\ late' = late + (IF cancelled THEN 1 ELSE 0)
  BY DEF TakesEffect, IInv, TypeOK
<1>2. CASE cancelled
  BY <1>1, <1>2 DEF IInv, Sparing
<1>3. CASE ~cancelled
  BY <1>1, <1>3 DEF IInv, Sparing
<1> QED
  BY <1>2, <1>3

\* A seek brings the stream and position() together, or changes nothing.
LEMMA SeekMoveIInv ==
  ASSUME IInv, SeekMove
  PROVE  IInv'
<1>1. /\ pc = "move" /\ at' = None
      /\ UNCHANGED <<kind, seekable, content, payload, completed, outcome, cancelled>>
  BY DEF SeekMove
<1>2. /\ at \in 0..(MaxSize + 1) /\ completed = 0 /\ sink \in Sinks /\ Len(payload) \in Nat
  BY <1>1 DEF IInv, TypeOK, Counted, Sinks
<1>3. CASE /\ UNCHANGED <<sink, start, spared, late>> /\ pc' = "idle"
           /\ result' = "io_write_failed"
  <2>1. TypeOK'
    BY <1>1, <1>3 DEF IInv, TypeOK, Labels
  <2>2. Counted' /\ LimitIsReal' /\ Sparing'
    BY <1>1, <1>3 DEF IInv, Counted, LimitIsReal, Sparing
  <2> QED
    BY <1>1, <1>3, <2>1, <2>2, SameBytes DEF IInv
<1>4. CASE /\ SeekMaySucceed(at) /\ sink' = Sought(at) /\ start' = at
           /\ pc' = "loop" /\ UNCHANGED result /\ TakesEffect
  <2>1. /\ at \in Nat /\ at <= sink.extent /\ sink.extent \in Nat
        /\ sink.extent <= Longest /\ Longest \in Nat
        /\ sink.extent <= Len(content) /\ Len(content) \in Nat
        /\ kind # "plugin" => sink.extent <= MaxSize
    BY <1>2, <1>4, Bounds DEF SeekMaySucceed, Sinks, IInv, Standing, TypeOK
  <2>2. /\ sink' = [position |-> at, stream |-> at, extent |-> sink.extent, err |-> FALSE]
    BY <1>2, <1>4 DEF Sought, Sinks
  <2>3. sink' \in Sinks /\ at \in 0..Longest
    BY <2>1, <2>2 DEF Sinks
  <2>4. spared' \in 0..1 /\ late' \in Nat /\ Sparing'
    BY <1>1, <1>4, EffectSpares
  <2>5. TypeOK'
    BY <1>1, <1>4, <2>3, <2>4 DEF IInv, TypeOK, Sinks, Labels
  <2>6. Standing(sink, content)'
    BY <1>1, <2>1, <2>2 DEF Standing
  <2>7. Placed'
    BY <1>1, <1>2, <1>4, <2>1, <2>2 DEF Placed
  <2>8. Counted' /\ LimitIsReal'
    BY <1>1, <1>2, <1>4, <2>1, <2>2 DEF Counted, LimitIsReal
  <2> QED
    BY <2>4, <2>5, <2>6, <2>7, <2>8 DEF IInv
<1> QED
  BY <1>3, <1>4 DEF SeekMove, Return, history

\* The loop is done, cancelled, or goes on.
LEMMA LoopCheckIInv ==
  ASSUME IInv, LoopCheck
  PROVE  IInv'
<1>1. /\ pc = "loop"
      /\ UNCHANGED <<kind, seekable, content, sink, at, payload, completed, start, outcome>>
      /\ UNCHANGED <<cancelled, spared, late>>
  BY DEF LoopCheck, sinkVars, history
<1>2. sink.position = start + completed /\ completed \in 0..Len(payload) /\ Len(payload) \in Nat
  BY <1>1 DEF IInv, TypeOK, Counted
<1>3. \/ pc' = "idle" /\ result' = "ok" /\ completed = Len(payload)
      \/ pc' = "idle" /\ result' = "operation_cancelled"
      \/ pc' = "write" /\ result' = result /\ completed # Len(payload) /\ ~cancelled
  BY DEF LoopCheck, Stopped, Return
<1>4. TypeOK'
  <2>1. /\ pc' \in Labels
        /\ result' = result \/ result' \in {"ok", "operation_cancelled"}
    BY <1>3 DEF Labels
  <2> QED
    BY <1>1, <2>1 DEF IInv, TypeOK
<1>5. Counted' /\ LimitIsReal' /\ Sparing'
  BY <1>1, <1>2, <1>3 DEF IInv, Counted, LimitIsReal, Sparing
<1> QED
  BY <1>1, <1>4, <1>5, SameBytes DEF IInv

\* A transfer puts the next bytes of the payload behind those already there.
LEMMA WriteTransferIInv ==
  ASSUME IInv, WriteTransfer
  PROVE  IInv'
<1>1. /\ pc = "transfer" /\ pc' = "outcome" /\ TakesEffect
      /\ UNCHANGED <<kind, seekable, at, payload, completed, start, result, cancelled>>
  BY DEF WriteTransfer
<1>2. PICK o \in WriteOutcomes(Rest) :
        content' = o.content /\ sink' = o.sink /\ outcome' = [n |-> o.n, error |-> o.error]
  BY DEF WriteTransfer
<1>3. /\ completed \in Nat /\ completed < Len(payload) /\ Len(payload) \in Nat
      /\ Len(payload) <= MaxLen
      /\ start \in Nat /\ sink.position = start + completed /\ payload \in Seq(Bytes)
  BY <1>1, Bounds DEF IInv, TypeOK, Counted
<1>4. /\ Rest \in Seq(Bytes) /\ Rest # <<>> /\ Len(Rest) = Len(payload) - completed
      /\ \A j \in 1..(Len(payload) - completed) : Rest[j] = payload[completed + j]
  <2>1. \A i \in (completed + 1)..Len(payload) : payload[i] \in Bytes
    BY <1>3
  <2>2. /\ Rest \in Seq(Bytes) /\ Len(Rest) = Len(payload) - completed
        /\ \A j \in 1..(Len(payload) - completed) : Rest[j] = payload[completed + j]
    <3>1. /\ completed + 1 \in Int /\ Len(payload) \in Int
          /\ ~(completed + 1 > Len(payload))
      BY <1>3
    <3>2. /\ Rest \in Seq(Bytes) /\ Len(Rest) = Len(payload) - (completed + 1) + 1
          /\ \A j \in 1..(Len(payload) - (completed + 1) + 1) :
               Rest[j] = payload[completed + 1 + j - 1]
      BY <2>1, <3>1, SubSeqProperties DEF Rest
    <3>3. /\ Len(payload) - (completed + 1) + 1 = Len(payload) - completed
          /\ \A j \in Nat : completed + 1 + j - 1 = completed + j
      BY <1>3
    <3> QED
      BY <3>2, <3>3
  <2> QED
    BY <1>3, <2>2
<1>5. Sound(o, Rest)
  BY <1>4, WriteSound DEF IInv
<1>6. /\ o.content \in Seq(Bytes) /\ Len(o.content) <= Capacity
      /\ o.sink \in Sinks /\ Standing(o.sink, o.content)
      /\ o.sink.position \in sink.position..(sink.position + Len(Rest))
      /\ o.n \in 0..(Len(Rest) + 1)
      /\ o.error \in {"none", "limit_exceeded", "allocation_failed", "io_write_failed",
                      "plugin_error"}
      /\ o.error # "none" => o.sink.position = sink.position
      /\ (o.error = "none" /\ o.n <= Len(Rest)) => o.sink.position = sink.position + o.n
      /\ o.error = "limit_exceeded" => sink.position = MaxSize
  BY <1>5 DEF Sound, Stored
<1>7. ~o.sink.err =>
        /\ ~sink.err
        /\ \A i \in 1..(o.sink.position - sink.position) : o.content[sink.position + i] = Rest[i]
        /\ \A i \in 1..sink.position : o.content[i] = content[i]
  BY <1>5 DEF Sound, Stored
<1>8. outcome'.n = o.n /\ outcome'.error = o.error
  BY <1>2
<1>9. TypeOK'
  <2>1. o.n \in 0..(MaxLen + 1)
    BY <1>3, <1>4, <1>6, Bounds
  <2>2. outcome' \in [n : 0..(MaxLen + 1),
                      error : {"none", "limit_exceeded", "allocation_failed",
                               "io_write_failed", "plugin_error"}]
    BY <1>2, <1>6, <2>1
  <2>3. pc' \in Labels /\ spared' \in 0..1 /\ late' \in Nat
    BY <1>1, EffectSpares DEF Labels
  <2> QED
    BY <1>1, <1>2, <1>6, <2>2, <2>3 DEF IInv, TypeOK, Sinks, Capacity
<1>10. Standing(sink, content)'
  BY <1>1, <1>2, <1>6 DEF Standing
<1>11. Placed'
  <2>1. /\ o.sink.position \in Nat /\ start <= o.sink.position
        /\ o.sink.position <= start + Len(payload) /\ o.sink.position >= sink.position
    BY <1>3, <1>4, <1>6
  <2>2. ASSUME ~o.sink.err, NEW i \in 1..(o.sink.position - start)
        PROVE  o.content[start + i] = payload[i]
    <3>1. CASE i <= completed
      <4>1. start + i \in 1..sink.position /\ i \in 1..(sink.position - start)
        BY <1>3, <3>1
      <4>2. content[start + i] = payload[i]
        BY <1>7, <2>2, <4>1 DEF IInv, Placed
      <4> QED
        BY <1>7, <2>2, <4>1, <4>2
    <3>2. CASE i > completed
      <4>1. PICK j \in 1..(o.sink.position - sink.position) : i = completed + j
        <5>1. i - completed \in 1..(o.sink.position - sink.position)
          BY <1>3, <2>1, <3>2
        <5> QED
          BY <1>3, <5>1
      <4>2. j \in 1..(Len(payload) - completed) /\ start + i = sink.position + j
        BY <1>3, <2>1, <4>1
      <4> QED
        BY <1>4, <1>7, <2>2, <4>1, <4>2
    <3> QED
      BY <1>3, <3>1, <3>2
  <2> QED
    BY <1>1, <1>2, <2>1, <2>2 DEF Placed
<1>12. Counted'
  BY <1>1, <1>2, <1>3, <1>4, <1>6, <1>8 DEF Counted
<1>13. LimitIsReal' /\ Sparing'
  BY <1>1, EffectSpares DEF LimitIsReal
<1> QED
  BY <1>9, <1>10, <1>11, <1>12, <1>13 DEF IInv

\* What the loop makes of an outcome.
LEMMA HandleIInv ==
  ASSUME IInv, Handle
  PROVE  IInv'
<1>1. /\ pc = "outcome" /\ outcome' = NoOutcome
      /\ UNCHANGED <<kind, seekable, content, sink, at, payload, start, cancelled,
                     spared, late>>
  BY DEF Handle, sinkVars, history
<1>2. /\ completed \in Nat /\ completed < Len(payload) /\ Len(payload) \in Nat
      /\ start \in Nat /\ sink.position \in Nat /\ payload \in Seq(Bytes)
      /\ outcome.n \in Nat
      /\ outcome.error # "none" => sink.position = start + completed
      /\ (outcome.error = "none" /\ outcome.n <= Len(payload) - completed) =>
           sink.position = start + completed + outcome.n
      /\ outcome.error = "limit_exceeded" => sink.position = MaxSize
      /\ outcome.error \in {"none", "limit_exceeded", "allocation_failed",
                            "io_write_failed", "plugin_error"}
  BY <1>1 DEF IInv, TypeOK, Counted
<1>3. Len(Rest) = Len(payload) - completed
  <2>1. \A i \in (completed + 1)..Len(payload) : payload[i] \in Bytes
    BY <1>2
  <2> QED
    BY <1>2, <2>1, SubSeqProperties DEF Rest
<1>4. outcome' \in [n : 0..(MaxLen + 1),
                    error : {"none", "limit_exceeded", "allocation_failed",
                             "io_write_failed", "plugin_error"}]
  BY <1>1, Bounds DEF NoOutcome
<1>5. Standing(sink, content)' /\ Placed'
  BY <1>1 DEF IInv, Standing, Placed
<1>6. CASE outcome.error # "none" /\ pc' = "idle" /\ result' = outcome.error /\ UNCHANGED completed
  <2>1. TypeOK'
    BY <1>1, <1>2, <1>4, <1>6 DEF IInv, TypeOK, Labels
  <2>2. Counted' /\ LimitIsReal' /\ Sparing'
    BY <1>1, <1>2, <1>6, Bounds DEF IInv, Counted, LimitIsReal, Sparing
  <2> QED
    BY <1>5, <2>1, <2>2 DEF IInv
<1>7. CASE /\ pc' = "idle" /\ result' \in {"plugin_contract_violation", "io_no_progress"}
           /\ UNCHANGED completed
  <2>1. TypeOK'
    BY <1>1, <1>4, <1>7 DEF IInv, TypeOK, Labels
  <2>2. Counted' /\ LimitIsReal' /\ Sparing'
    BY <1>1, <1>7 DEF IInv, Counted, LimitIsReal, Sparing
  <2> QED
    BY <1>5, <2>1, <2>2 DEF IInv
<1>8. CASE /\ outcome.error = "none" /\ ~Overreported
           /\ completed' = completed + outcome.n /\ pc' = "loop" /\ UNCHANGED result
  <2>1. completed' \in 0..Len(payload) /\ sink.position = start + completed'
    BY <1>2, <1>3, <1>8 DEF Overreported
  <2>2. TypeOK'
    BY <1>1, <1>4, <1>8, <2>1 DEF IInv, TypeOK, Labels
  <2>3. Counted' /\ LimitIsReal' /\ Sparing'
    BY <1>1, <1>8, <2>1 DEF IInv, Counted, LimitIsReal, Sparing
  <2> QED
    BY <1>5, <2>2, <2>3 DEF IInv
<1> QED
  BY <1>6, <1>7, <1>8 DEF Handle, Return

\* Every step keeps the invariant.
LEMMA NextIInv == IInv /\ [Next]_vars => IInv'
<1> SUFFICES ASSUME IInv, [Next]_vars PROVE IInv'
  OBVIOUS
<1>1. ASSUME NEW tag \in Tags, NEW n \in 0..MaxLen
      PROVE  Payload(tag, n) \in Seq(Bytes) /\ Len(Payload(tag, n)) <= MaxLen
  BY Bounds, PayloadBytes
<1>2. ASSUME NEW tag \in Tags, NEW n \in 0..MaxLen, WriteAll(Payload(tag, n))
      PROVE  IInv'
  BY <1>1, <1>2, BeginIInv DEF WriteAll
<1>3. ASSUME NEW tag \in Tags, NEW n \in 0..MaxLen, NEW p \in 0..(MaxSize + 1),
             WriteAllAt(p, Payload(tag, n))
      PROVE  IInv'
  <2>1. p # None /\ Begin(p, Payload(tag, n), "require")
    BY <1>3, Bounds DEF WriteAllAt
  <2> QED
    BY <1>1, <2>1, BeginIInv
<1>4. CASE Loop
  BY <1>4, RequireIInv, AdapterCheckIInv, SeekMoveIInv, LoopCheckIInv, WriteTransferIInv,
     HandleIInv DEF Loop
<1>5. CASE RequestCancel
  <2>1. /\ ~cancelled /\ cancelled' = TRUE /\ late' = late
        /\ spared' = IF UnderWay THEN 1 ELSE 0
        /\ UNCHANGED <<sinkVars, callVars>>
    BY <1>5 DEF RequestCancel
  <2>2. TypeOK'
    BY <2>1 DEF sinkVars, callVars, IInv, TypeOK
  <2>3. Sparing'
    BY <2>1 DEF sinkVars, callVars, IInv, TypeOK, Sparing, UnderWay
  <2> QED
    BY <2>1, <2>2, <2>3 DEF sinkVars, callVars, IInv, Standing, Placed, Counted, LimitIsReal
<1>6. CASE UNCHANGED vars
  BY <1>6 DEF vars, sinkVars, callVars, history, IInv, TypeOK, Standing, Placed, Counted,
              LimitIsReal, Sparing
<1> QED
  BY <1>2, <1>3, <1>4, <1>5, <1>6 DEF Next

-----------------------------------------------------------------------------
(* Theorems.                                                               *)

\* The invariant holds in every execution.
LEMMA InvariantHolds == Spec => []IInv
<1> QED
  BY InitIInv, NextIInv, PTL DEF Spec

\* Every variable keeps its type, the content its bound.
THEOREM TypeCorrect == Spec => []TypeOK
<1>1. IInv => TypeOK
  BY DEF IInv
<1> QED
  BY <1>1, InvariantHolds, PTL

\* What a call leaves between its start and position() is the beginning of its
\* payload, as a sequence.
LEMMA PlacedStretch ==
  ASSUME IInv, ~sink.err
  PROVE  /\ sink.position - start \in 0..Len(payload) /\ sink.position <= Len(content)
         /\ SubSeq(content, start + 1, sink.position) =
              SubSeq(payload, 1, sink.position - start)
<1> DEFINE n == sink.position - start
<1>1. /\ content \in Seq(Bytes) /\ payload \in Seq(Bytes) /\ start \in Nat
      /\ sink.position \in Nat /\ Len(content) \in Nat /\ Len(payload) \in Nat
      /\ start <= sink.position /\ sink.position <= start + Len(payload)
      /\ sink.position <= Len(content)
      /\ \A i \in 1..n : content[start + i] = payload[i]
  BY SinkType DEF IInv, TypeOK, Placed, Standing
<1>2. /\ n \in 0..Len(payload) /\ n \in Nat /\ start + n = sink.position
      /\ n <= Len(payload) /\ start + n <= Len(content)
      /\ \A i \in 1..n : content[start + i] = payload[i]
  BY <1>1
<1> HIDE DEF n
<1>3. SubSeq(content, start + 1, start + n) = SubSeq(payload, 1, n)
  BY <1>1, <1>2, SameStretch
<1> QED
  BY <1>1, <1>2, <1>3 DEF n

\* A call that reports success has stored its payload, whole and in order.
THEOREM ExactWrites == Spec => []WritesExactly
<1>1. IInv => WritesExactly
  <2> SUFFICES ASSUME IInv, pc = "idle", result = "ok", ~sink.err
               PROVE  /\ start + Len(payload) <= Len(content)
                      /\ SubSeq(content, start + 1, start + Len(payload)) = payload
    BY DEF WritesExactly
  <2>1. sink.position = start + Len(payload) /\ start \in Nat /\ payload \in Seq(Bytes)
    BY DEF IInv, Counted, TypeOK
  <2>2. SubSeq(payload, 1, Len(payload)) = payload
    BY <2>1, SubSeqFull
  <2>3. sink.position - start = Len(payload)
    BY <2>1
  <2> QED
    BY <2>1, <2>2, <2>3, PlacedStretch
<1> QED
  BY <1>1, InvariantHolds, PTL

\* However a call ends, nothing of its payload was skipped, repeated or cut in
\* the middle.
THEOREM PrefixStored == Spec => []StoresPrefix
<1>1. IInv => StoresPrefix
  BY PlacedStretch DEF StoresPrefix
<1> QED
  BY <1>1, InvariantHolds, PTL

\* limit_exceeded is reported only when the payload does not fit, and what fits
\* has been counted.
THEOREM LimitAlwaysReal == Spec => []LimitIsReal
<1>1. IInv => LimitIsReal
  BY DEF IInv
<1> QED
  BY <1>1, InvariantHolds, PTL

\* Once cancellation is requested, in whatever step of a call that happens, at most
\* the operation that was under way still moves the sink or stores bytes.
THEOREM CancelledWritesStop == Spec => []CancelStops
<1>1. IInv => CancelStops
  BY DEF IInv, Sparing, CancelStops
<1> QED
  BY <1>1, InvariantHolds, PTL

=============================================================================
