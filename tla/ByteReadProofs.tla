--------------------------- MODULE ByteReadProofs ---------------------------
(***************************************************************************)
(* Proofs about ByteRead for every source size, adapter limit and length   *)
(* of the destination.                                                     *)
(***************************************************************************)
EXTENDS ByteRead, TLAPS

Sources == [position : Offsets, stream : Offsets, err : BOOLEAN, eof : BOOLEAN]

-----------------------------------------------------------------------------
(* The inductive invariant.                                                *)

\* The stdio stream is where position() says, and between the start of a call
\* and there the destination holds the bytes of the source, each at its place.
Filled ==
  /\ src.position = src.stream
  /\ start <= src.position /\ src.position <= start + want
  /\ \A i \in DOMAIN dest :
       dest[i] = IF i < src.position - start THEN start + i ELSE None

\* What the loop counts is what the adapter moved by.  In between, the outcome
\* of a transfer says by how much they differ, if it can be believed.
Counted ==
  /\ pc \in {"require", "seek", "move"} => src.position = start /\ completed = 0
  /\ pc \in {"loop", "read", "transfer"} => src.position = start + completed
  /\ pc \in {"read", "transfer", "outcome"} => completed # want
  /\ (pc = "outcome" /\ outcome.n <= want - completed) =>
       src.position = start + completed + outcome.n
  /\ (pc = "idle" /\ result = "ok") => src.position = start + want

\* A positioned read starts where it was asked to.
Positioned ==
  /\ (at # None /\ pc \in {"loop", "read", "transfer", "outcome"}) => start = at
  /\ (at # None /\ pc = "idle" /\ result = "ok") => start = at

\* Our adapters report the end only when there is nothing behind it.
EndSeen ==
  (pc = "outcome" /\ kind # "plugin" /\ outcome.eof) => src.eof \/ src.position = Size

\* Until the operation that is under way takes effect nothing has been late, and
\* after a request only that operation gets past the checks.
Sparing ==
  /\ late <= spared
  /\ ~cancelled => spared = 0
  /\ (cancelled /\ pc \in {"seek", "read"}) => late = 0 /\ (kind = "plugin" => spared = 1)
  /\ (cancelled /\ pc \in {"move", "transfer"}) => late = 0 /\ spared = 1

IInv == /\ TypeOK
        /\ Filled
        /\ Counted
        /\ Positioned
        /\ pc \in {"require", "seek", "move"} => at # None
        /\ EndIsReal
        /\ EndSeen
        /\ Sparing

-----------------------------------------------------------------------------
(* The sources.                                                            *)

\* The minimum of three numbers is one of them, and no larger than the others.
LEMMA LeastOfThree ==
  ASSUME NEW a \in Nat, NEW b \in Nat, NEW c \in Nat
  PROVE  /\ Min({a, b, c}) \in Nat
         /\ Min({a, b, c}) <= a /\ Min({a, b, c}) <= b /\ Min({a, b, c}) <= c
<1>1. \E m \in {a, b, c} : \A k \in {a, b, c} : m =< k
  <2>1. CASE a <= b /\ a <= c
    BY <2>1
  <2>2. CASE b <= a /\ b <= c
    BY <2>2
  <2>3. CASE c <= a /\ c <= b
    BY <2>3
  <2> QED
    BY <2>1, <2>2, <2>3
<1> QED
  BY <1>1 DEF Min

\* What any source may report of a read into room bytes.
Sound(o, s, room) ==
  /\ o.s \in Sources /\ o.placed \in 0..room
  /\ o.s.position = s.position + o.placed /\ o.s.stream = s.stream + o.placed
  /\ o.offset = s.position
  /\ o.n \in 0..(room + 1) /\ (o.n <= room => o.n = o.placed)
  /\ o.eof \in BOOLEAN /\ o.error \in {"none", "io_read_failed", "plugin_error"}
  /\ (kind # "plugin" /\ o.eof) => o.s.eof \/ o.s.position = Size

\* The memory source copies what there is and stops at its end.
LEMMA MemorySound ==
  ASSUME NEW s \in Sources, s.position = s.stream, NEW room \in Nat,
         NEW o \in MemoryRead(s, room)
  PROVE  Sound(o, s, room)
<1> DEFINE count == Count(s, room, MaxRead)
           next == Advanced(s, count)
<1>1. o = Outcome(next, count, s.position, count, next.position = Size, "none")
  BY DEF MemoryRead
<1>2. /\ s.position \in 0..Size /\ s.stream \in 0..Size /\ s.err \in BOOLEAN /\ s.eof \in BOOLEAN
      /\ s = [position |-> s.position, stream |-> s.stream, err |-> s.err, eof |-> s.eof]
  BY DEF Sources, Offsets
<1>3. Size - s.position \in Nat
  BY <1>2, ByteReadAssumption
<1>4. count \in 0..room /\ s.position + count \in 0..Size
  <2>1. count \in Nat /\ count <= room /\ count <= Size - s.position
    BY <1>3, ByteReadAssumption, LeastOfThree DEF Count
  <2> HIDE DEF count
  <2> QED
    BY <1>2, <2>1, ByteReadAssumption
<1> HIDE DEF count
<1>5. /\ next \in Sources
      /\ next.position = s.position + count /\ next.stream = s.stream + count
  BY <1>2, <1>4 DEF Sources, Offsets, Advanced
<1> HIDE DEF next
<1>6. /\ o.s = next /\ o.placed = count /\ o.offset = s.position /\ o.n = count
      /\ o.eof \in BOOLEAN /\ (o.eof => next.position = Size) /\ o.error = "none"
  BY <1>1 DEF Outcome
<1> QED
  BY <1>4, <1>5, <1>6 DEF Sound

\* The file source moves by what fread moved, also when it reports an error.
LEMMA FileSound ==
  ASSUME NEW s \in Sources, s.position = s.stream, NEW room \in Nat,
         NEW o \in FileRead(s, room)
  PROVE  Sound(o, s, room)
<1> DEFINE count == Count(s, room, MaxRead)
<1>1. /\ s.position \in 0..Size /\ s.stream \in 0..Size /\ s.err \in BOOLEAN /\ s.eof \in BOOLEAN
  BY DEF Sources, Offsets
<1>2. Size - s.position \in Nat
  BY <1>1, ByteReadAssumption
<1>3. count \in Nat /\ count <= room /\ count <= Size - s.position
  BY <1>2, ByteReadAssumption, LeastOfThree DEF Count
<1>4. PICK f \in Fread(s, count) :
        o = Outcome([position |-> s.position + f.got, stream |-> s.stream + f.got,
                     err |-> f.err, eof |-> f.eof],
                    f.got, s.stream, f.got,
                    s.position + f.got = Size \/ f.eof,
                    IF f.got < count /\ f.err THEN "io_read_failed" ELSE "none")
  BY DEF FileRead
<1> HIDE DEF count
<1>5. f.got \in 0..count /\ f.err \in BOOLEAN /\ f.eof \in BOOLEAN
  <2>1. \/ f = [got |-> count, err |-> s.err, eof |-> s.eof]
        \/ \E k \in 0..(count - 1) : \/ f = [got |-> k, err |-> s.err, eof |-> TRUE]
                                     \/ f = [got |-> k, err |-> TRUE, eof |-> s.eof]
    BY <1>4 DEF Fread
  <2>2. CASE f = [got |-> count, err |-> s.err, eof |-> s.eof]
    BY <1>1, <1>3, <2>2
  <2>3. ASSUME NEW k \in 0..(count - 1),
               \/ f = [got |-> k, err |-> s.err, eof |-> TRUE]
               \/ f = [got |-> k, err |-> TRUE, eof |-> s.eof]
        PROVE  f.got \in 0..count /\ f.err \in BOOLEAN /\ f.eof \in BOOLEAN
    <3>1. count \in Nat /\ k \in 0..(count - 1) /\ k \in 0..count
      BY <1>3
    <3>2. CASE f = [got |-> k, err |-> s.err, eof |-> TRUE]
      BY <1>1, <3>1, <3>2
    <3>3. CASE f = [got |-> k, err |-> TRUE, eof |-> s.eof]
      BY <1>1, <3>1, <3>3
    <3> QED
      BY <2>3, <3>2, <3>3
  <2> QED
    BY <2>1, <2>2, <2>3
<1>6. f.got \in 0..room /\ s.position + f.got \in 0..Size
  BY <1>1, <1>3, <1>5, ByteReadAssumption
<1>7. /\ o.s = [position |-> s.position + f.got, stream |-> s.stream + f.got,
                err |-> f.err, eof |-> f.eof]
      /\ o.placed = f.got /\ o.offset = s.stream /\ o.n = f.got
      /\ o.eof = (s.position + f.got = Size \/ f.eof)
      /\ o.error \in {"none", "io_read_failed"}
  BY <1>4 DEF Outcome
<1>8. o.s \in Sources
  BY <1>5, <1>6, <1>7 DEF Sources, Offsets
<1> QED
  BY <1>5, <1>6, <1>7, <1>8 DEF Sound

\* A third-party source that reports no more than it was given room for has
\* delivered what it reports.
LEMMA PluginSound ==
  ASSUME NEW s \in Sources, s.position = s.stream, NEW room \in Nat, kind = "plugin",
         NEW o \in PluginRead(s, room)
  PROVE  Sound(o, s, room)
<1>1. /\ s.position \in 0..Size /\ s.stream \in 0..Size /\ s.err \in BOOLEAN /\ s.eof \in BOOLEAN
      /\ s = [position |-> s.position, stream |-> s.stream, err |-> s.err, eof |-> s.eof]
  BY DEF Sources, Offsets
<1>2. Size - s.position \in Nat
  BY <1>1, ByteReadAssumption
<1>3. CASE o = Outcome(s, 0, s.position, 0, FALSE, "plugin_error")
  <2>1. /\ o.s = s /\ o.placed = 0 /\ o.offset = s.position /\ o.n = 0 /\ o.eof = FALSE
        /\ o.error = "plugin_error"
    BY <1>3 DEF Outcome
  <2>2. o.s \in Sources /\ o.placed \in 0..room /\ o.n \in 0..(room + 1)
    BY <2>1
  <2>3. s.position = s.position + 0 /\ s.stream = s.stream + 0
    BY <1>1
  <2> QED
    BY <2>1, <2>2, <2>3 DEF Sound
<1>4. ASSUME NEW n \in {m \in 0..(room + 1) : m = Count(s, room, m) \/ m > room}, NEW eof \in BOOLEAN,
             o = Outcome(Advanced(s, Count(s, room, n)),
                         Count(s, room, n), s.position, n, eof, "none")
      PROVE  Sound(o, s, room)
  <2> DEFINE place == Count(s, room, n)
  <2>1. place \in Nat /\ place <= room /\ place <= Size - s.position
    BY <1>2, LeastOfThree DEF Count
  <2>2. n \in 0..(room + 1) /\ (n <= room => n = place)
    <3>1. n \in 0..(room + 1) /\ (n = place \/ n > room)
      BY <1>4
    <3> HIDE DEF place
    <3> QED
      BY <3>1
  <2>3. /\ o.s = Advanced(s, place)
        /\ o.placed = place /\ o.offset = s.position /\ o.n = n /\ o.eof = eof
        /\ o.error = "none"
    BY <1>4 DEF Outcome
  <2> HIDE DEF place
  <2>4. s.position + place \in 0..Size /\ s.stream + place \in 0..Size
    BY <1>1, <2>1, ByteReadAssumption
  <2>5. /\ o.s \in Sources
        /\ o.s.position = s.position + place /\ o.s.stream = s.stream + place
    BY <1>1, <2>3, <2>4 DEF Sources, Offsets, Advanced
  <2> QED
    BY <2>1, <2>2, <2>3, <2>5 DEF Sound
<1> DEFINE Counts == {m \in 0..(room + 1) : m = Count(s, room, m) \/ m > room}
           Claims == {Outcome(Advanced(s, Count(s, room, n)), Count(s, room, n),
                              s.position, n, eof, "none") : n \in Counts, eof \in BOOLEAN}
           Refusal == Outcome(s, 0, s.position, 0, FALSE, "plugin_error")
<1>5. PluginRead(s, room) = Claims \cup {Refusal}
  BY DEF PluginRead
<1> HIDE DEF Counts
<1>6. o \in Claims => \E n \in Counts : \E eof \in BOOLEAN :
        o = Outcome(Advanced(s, Count(s, room, n)), Count(s, room, n),
                    s.position, n, eof, "none")
  OBVIOUS
<1>7. CASE o = Refusal
  BY <1>3, <1>7
<1> HIDE DEF Claims, Refusal
<1>8. CASE o \in Claims
  BY <1>4, <1>6, <1>8 DEF Counts
<1> QED
  BY <1>5, <1>7, <1>8

\* A transfer is sound whatever source it is that transfers.
LEMMA ReadSound ==
  ASSUME TypeOK, src.position = src.stream, NEW room \in Nat,
         NEW o \in ReadOutcomes(src, room)
  PROVE  Sound(o, src, room)
<1>1. src \in Sources /\ kind \in {"memory", "file", "plugin"}
  BY DEF TypeOK, Sources
<1>2. CASE kind = "memory"
  BY <1>1, <1>2, MemorySound DEF ReadOutcomes
<1>3. CASE kind = "file"
  BY <1>1, <1>3, FileSound DEF ReadOutcomes
<1>4. CASE kind = "plugin"
  BY <1>1, <1>4, PluginSound DEF ReadOutcomes
<1> QED
  BY <1>1, <1>2, <1>3, <1>4

-----------------------------------------------------------------------------
(* Steps.                                                                  *)

\* Init establishes the invariant.
LEMMA InitIInv == Init => IInv
<1> SUFFICES ASSUME Init PROVE IInv
  OBVIOUS
<1>1. Blank \in [0..(MaxWant - 1) -> Offsets \cup {None}]
  BY DEF Blank
<1>2. TypeOK
  <2>1. seekable \in BOOLEAN /\ cancelled \in BOOLEAN
    BY DEF Init
  <2>2. /\ src \in [position : Offsets, stream : Offsets, err : BOOLEAN, eof : BOOLEAN]
        /\ outcome \in [n : 0..(MaxWant + 1), eof : BOOLEAN,
                        error : {"none", "io_read_failed", "plugin_error"}]
    BY ByteReadAssumption DEF Init, Offsets
  <2>3. /\ want \in 0..MaxWant /\ completed \in 0..want /\ start \in Offsets
        /\ at \in 0..(Size + 1) \cup {None}
    BY ByteReadAssumption DEF Init, Offsets
  <2> QED
    BY <1>1, <2>1, <2>2, <2>3 DEF Init, TypeOK, Labels
<1> QED
  BY <1>2, ByteReadAssumption
     DEF Init, IInv, Filled, Counted, Positioned, EndIsReal, EndSeen, Sparing, Blank

\* A new call starts where the adapter stands, with an empty destination.
LEMMA BeginIInv ==
  ASSUME IInv, NEW p \in 0..(Size + 1) \cup {None}, NEW n \in 0..MaxWant, NEW label,
         \/ p = None /\ label = "loop"
         \/ p # None /\ label = "require",
         Begin(p, n, label)
  PROVE  IInv'
<1>1. /\ at' = p /\ want' = n /\ completed' = 0 /\ start' = src.position
      /\ dest' = Blank /\ cancelled' \in {FALSE, cancelled} /\ pc' = label
      /\ spared' = 0 /\ late' = 0
      /\ UNCHANGED <<kind, seekable, src, outcome, result>>
  BY DEF Begin, srcVars
<1>2. Blank \in [0..(MaxWant - 1) -> Offsets \cup {None}]
  BY DEF Blank
<1>3. src.position \in 0..Size
  BY DEF IInv, TypeOK, Offsets
<1>4. TypeOK'
  <2>1. cancelled' \in BOOLEAN
    BY <1>1 DEF IInv, TypeOK
  <2>2. start' \in Offsets /\ completed' \in 0..want' /\ want' \in 0..MaxWant
    BY <1>1, <1>3, ByteReadAssumption DEF Offsets
  <2> QED
    BY <1>1, <1>2, <2>1, <2>2 DEF IInv, TypeOK, Labels
<1>5. Filled'
  BY <1>1, <1>3, ByteReadAssumption DEF IInv, Filled, Blank
<1> QED
  BY <1>1, <1>3, <1>4, <1>5, ByteReadAssumption
     DEF IInv, Counted, Positioned, EndIsReal, EndSeen, Sparing

\* require_seekable only refuses or goes on.
LEMMA RequireIInv ==
  ASSUME IInv, Require
  PROVE  IInv'
<1>1. /\ pc = "require"
      /\ UNCHANGED <<kind, seekable, src, at, want, completed, start, dest, outcome, cancelled,
                     spared, late>>
      /\ \/ pc' = "idle" /\ result' \in {"unsupported_feature", "operation_cancelled"}
         \/ pc' = "seek" /\ result' = result /\ ~cancelled
  BY DEF Require, Return, srcVars, history
<1> QED
  BY <1>1 DEF IInv, TypeOK, Labels, Filled, Counted, Positioned, EndIsReal, EndSeen, Sparing

\* The adapter's look at the token only ends the call or goes on, after a
\* request only if the source is a plugin.
LEMMA AdapterCheckIInv ==
  ASSUME IInv, SeekCheck \/ ReadCheck
  PROVE  IInv'
<1>1. /\ UNCHANGED <<kind, seekable, src, at, want, completed, start, dest, outcome, cancelled,
                     spared, late>>
      /\ \/ /\ pc \in {"seek", "read"} /\ pc' = "idle" /\ result' = "operation_cancelled"
         \/ /\ result' = result /\ (~cancelled \/ kind = "plugin")
            /\ \/ pc = "seek" /\ pc' = "move"
               \/ pc = "read" /\ pc' = "transfer"
  BY DEF SeekCheck, ReadCheck, AdapterCheck, Return, srcVars, history
<1>2. TypeOK'
  <2>1. pc' \in Labels /\ (result' = result \/ result' = "operation_cancelled")
    BY <1>1 DEF Labels
  <2> QED
    BY <1>1, <2>1 DEF IInv, TypeOK
<1>3. Sparing'
  BY <1>1 DEF IInv, Sparing
<1> QED
  BY <1>1, <1>2, <1>3 DEF IInv, Filled, Counted, Positioned, EndIsReal, EndSeen

\* An operation takes effect late only if it was under way.
LEMMA EffectSpares ==
  ASSUME IInv, pc \in {"move", "transfer"}, TakesEffect, UNCHANGED <<kind, cancelled>>,
         pc' \in {"loop", "outcome"}
  PROVE  spared' \in 0..1 /\ late' \in Nat /\ Sparing'
<1>1. /\ spared' = spared /\ spared \in 0..1 /\ late \in Nat /\ cancelled \in BOOLEAN
      /\ late' = late + (IF cancelled THEN 1 ELSE 0)
  BY DEF TakesEffect, IInv, TypeOK
<1>2. CASE cancelled
  BY <1>1, <1>2 DEF IInv, Sparing
<1>3. CASE ~cancelled
  BY <1>1, <1>3 DEF IInv, Sparing
<1> QED
  BY <1>2, <1>3

\* A seek places the call's start where it was asked to, or ends the call.
LEMMA SeekMoveIInv ==
  ASSUME IInv, SeekMove
  PROVE  IInv'
<1>1. /\ pc = "move" /\ at \in 0..(Size + 1)
      /\ UNCHANGED <<kind, seekable, at, want, completed, dest, outcome, cancelled>>
  BY DEF SeekMove, IInv, TypeOK
<1>2. CASE /\ UNCHANGED <<src, start, spared, late>> /\ pc' = "idle"
           /\ result' = "io_read_failed"
  BY <1>1, <1>2 DEF IInv, TypeOK, Labels, Filled, Counted, Positioned, EndIsReal, EndSeen,
                    Sparing
<1>3. CASE /\ SeekMaySucceed(at) /\ src' = Sought(src, at) /\ start' = at
           /\ pc' = "loop" /\ UNCHANGED result /\ TakesEffect
  <2>1. at \in 0..Size
    BY <1>1, <1>3, ByteReadAssumption DEF SeekMaySucceed
  <2>2. src' \in Sources /\ src'.position = at /\ src'.stream = at
    BY <1>3, <2>1 DEF Sought, Sources, Offsets
  <2>3. \A i \in DOMAIN dest : dest[i] = None
    BY <1>1 DEF IInv, Counted, Filled, TypeOK, Offsets
  <2>7. spared' \in 0..1 /\ late' \in Nat /\ Sparing'
    BY <1>1, <1>3, EffectSpares
  <2>4. TypeOK'
    BY <1>1, <1>3, <2>1, <2>2, <2>7 DEF IInv, TypeOK, Labels, Sources, Offsets
  <2>5. completed = 0 /\ want \in Nat
    BY <1>1, ByteReadAssumption DEF IInv, TypeOK, Counted
  <2>6. Filled'
    BY <1>1, <1>3, <2>1, <2>2, <2>3, <2>5, ByteReadAssumption DEF IInv, Filled, TypeOK
  <2> QED
    BY <1>1, <1>3, <2>1, <2>2, <2>4, <2>5, <2>6, <2>7
       DEF IInv, Counted, Positioned, EndIsReal, EndSeen
<1> QED
  BY <1>2, <1>3 DEF SeekMove, Return, history

\* The head of the loop only ends the call or goes on.
LEMMA LoopCheckIInv ==
  ASSUME IInv, LoopCheck
  PROVE  IInv'
<1>1. /\ pc = "loop"
      /\ UNCHANGED <<kind, seekable, src, at, want, completed, start, dest, outcome, cancelled,
                     spared, late>>
  BY DEF LoopCheck, srcVars, history
<1>2. CASE pc' = "idle" /\ result' = "ok" /\ completed = want
  <2>1. TypeOK'
    BY <1>1, <1>2 DEF IInv, TypeOK, Labels
  <2>2. Filled' /\ Counted' /\ Positioned'
    BY <1>1, <1>2 DEF IInv, Filled, Counted, Positioned
  <2> QED
    BY <1>1, <1>2, <2>1, <2>2 DEF IInv, EndIsReal, EndSeen, Sparing
<1>3. CASE pc' = "idle" /\ result' = "operation_cancelled"
  BY <1>1, <1>3 DEF IInv, TypeOK, Labels, Filled, Counted, Positioned, EndIsReal, EndSeen,
                    Sparing
<1>4. CASE pc' = "read" /\ result' = result /\ completed # want /\ ~cancelled
  BY <1>1, <1>4 DEF IInv, TypeOK, Labels, Filled, Counted, Positioned, EndIsReal, EndSeen,
                    Sparing
<1> QED
  BY <1>2, <1>3, <1>4 DEF LoopCheck, Stopped, Return

\* A transfer puts the next bytes of the source behind those already there.
LEMMA ReadTransferIInv ==
  ASSUME IInv, ReadTransfer
  PROVE  IInv'
<1> DEFINE room == want - completed
<1>1. /\ pc = "transfer" /\ pc' = "outcome" /\ TakesEffect
      /\ UNCHANGED <<kind, seekable, at, want, completed, start, result, cancelled>>
  BY DEF ReadTransfer
<1>2. PICK o \in ReadOutcomes(src, room) :
        /\ src' = o.s
        /\ dest' = [i \in DOMAIN dest |->
                      IF i \in completed..(completed + o.placed - 1)
                      THEN o.offset + (i - completed) ELSE dest[i]]
        /\ outcome' = [n |-> o.n, eof |-> o.eof, error |-> o.error]
  BY DEF ReadTransfer
<1>3. /\ want \in 0..MaxWant /\ completed \in 0..want /\ completed # want
      /\ start \in 0..Size /\ src.position \in 0..Size
      /\ src.position = start + completed /\ src.position = src.stream
  BY <1>1 DEF IInv, TypeOK, Filled, Counted, Offsets
<1>4. room \in Nat /\ room <= MaxWant
  BY <1>3, ByteReadAssumption
<1> HIDE DEF room
<1>5. Sound(o, src, room)
  BY <1>3, <1>4, ReadSound DEF IInv
<1>6. /\ o.s \in Sources /\ o.placed \in 0..room
      /\ o.s.position = src.position + o.placed /\ o.s.stream = src.stream + o.placed
      /\ o.offset = src.position
      /\ o.n \in 0..(room + 1) /\ (o.n <= room => o.n = o.placed)
      /\ o.eof \in BOOLEAN /\ o.error \in {"none", "io_read_failed", "plugin_error"}
      /\ (kind # "plugin" /\ o.eof) => o.s.eof \/ o.s.position = Size
  BY <1>5 DEF Sound
<1>7. /\ o.s.position \in 0..Size /\ o.placed \in Nat /\ o.n \in 0..(MaxWant + 1)
  BY <1>4, <1>6, ByteReadAssumption DEF Sources, Offsets
<1>8. /\ outcome'.n = o.n /\ outcome'.eof = o.eof /\ outcome'.error = o.error
      /\ outcome' \in [n : 0..(MaxWant + 1), eof : BOOLEAN,
                       error : {"none", "io_read_failed", "plugin_error"}]
  BY <1>2, <1>6, <1>7
<1>9. DOMAIN dest = 0..(MaxWant - 1) /\ DOMAIN dest' = 0..(MaxWant - 1)
  BY <1>2 DEF IInv, TypeOK
<1>10. ASSUME NEW i \in DOMAIN dest
       PROVE  dest'[i] = IF i < o.s.position - start THEN start + i ELSE None
  <2>1. dest[i] = IF i < src.position - start THEN start + i ELSE None
    BY DEF IInv, Filled
  <2>2. dest'[i] = IF i \in completed..(completed + o.placed - 1)
                   THEN o.offset + (i - completed) ELSE dest[i]
    BY <1>2
  <2>3. i \in Nat
    BY <1>9
  <2>4. CASE i < completed
    <3>1. i < src.position - start /\ i < o.s.position - start
          /\ i \notin completed..(completed + o.placed - 1)
      BY <1>3, <1>6, <1>7, <2>3, <2>4
    <3> QED
      BY <2>1, <2>2, <3>1
  <2>5. CASE i >= completed /\ i < completed + o.placed
    <3>1. /\ i \in completed..(completed + o.placed - 1) /\ i < o.s.position - start
          /\ o.offset + (i - completed) = start + i
      BY <1>3, <1>6, <1>7, <2>3, <2>5
    <3> QED
      BY <2>2, <3>1
  <2>6. CASE i >= completed + o.placed
    <3>1. /\ i \notin completed..(completed + o.placed - 1)
          /\ ~(i < src.position - start) /\ ~(i < o.s.position - start)
      BY <1>3, <1>6, <1>7, <2>3, <2>6
    <3> QED
      BY <2>1, <2>2, <3>1
  <2> QED
    BY <1>3, <1>7, <2>3, <2>4, <2>5, <2>6
<1>11. dest' \in [0..(MaxWant - 1) -> Offsets \cup {None}]
  <2>1. ASSUME NEW i \in DOMAIN dest
        PROVE  dest'[i] \in Offsets \cup {None}
    <3>1. i \in Nat /\ start \in 0..Size /\ o.s.position \in 0..Size
      BY <1>3, <1>7, <1>9
    <3>2. i < o.s.position - start => start + i \in 0..Size
      BY <3>1, ByteReadAssumption
    <3> QED
      BY <1>10, <3>2 DEF Offsets
  <2> QED
    BY <1>2, <1>9, <2>1
<1>17. spared' \in 0..1 /\ late' \in Nat /\ Sparing'
  BY <1>1, EffectSpares
<1>12. TypeOK'
  BY <1>1, <1>2, <1>6, <1>8, <1>11, <1>17 DEF IInv, TypeOK, Labels, Sources
<1>13. Filled'
  <2>1. o.placed <= room /\ room = want - completed
    BY <1>4, <1>6 DEF room
  <2>2. start <= o.s.position /\ o.s.position <= start + want
    BY <1>3, <1>6, <1>7, <2>1
  <2> QED
    BY <1>1, <1>2, <1>3, <1>6, <1>9, <1>10, <2>2 DEF Filled
<1>14. Counted'
  <2>1. outcome'.n <= want - completed => o.s.position = start + completed + outcome'.n
    BY <1>3, <1>6, <1>7, <1>8 DEF room
  <2> QED
    BY <1>1, <1>2, <1>3, <2>1 DEF Counted
<1>15. Positioned' /\ EndIsReal'
  BY <1>1 DEF IInv, Positioned, EndIsReal
<1>16. EndSeen'
  BY <1>1, <1>2, <1>6, <1>8 DEF EndSeen
<1> QED
  BY <1>1, <1>12, <1>13, <1>14, <1>15, <1>16, <1>17 DEF IInv

\* What the loop makes of an outcome.
LEMMA HandleIInv ==
  ASSUME IInv, Handle
  PROVE  IInv'
<1>1. /\ pc = "outcome"
      /\ UNCHANGED <<kind, seekable, src, at, want, start, dest, outcome, cancelled,
                     spared, late>>
  BY DEF Handle, srcVars, history
<1>2. /\ want \in 0..MaxWant /\ completed \in 0..want /\ completed # want
      /\ start \in 0..Size /\ src.position \in 0..Size /\ outcome.n \in 0..(MaxWant + 1)
      /\ outcome.n <= want - completed => src.position = start + completed + outcome.n
      /\ (kind # "plugin" /\ outcome.eof) => src.eof \/ src.position = Size
  BY <1>1 DEF IInv, TypeOK, Counted, EndSeen, Offsets
<1>3. CASE /\ pc' = "idle" /\ UNCHANGED completed
           /\ result' \in {"io_read_failed", "plugin_error", "plugin_contract_violation",
                           "io_no_progress"}
  BY <1>1, <1>3 DEF IInv, TypeOK, Labels, Filled, Counted, Positioned, EndIsReal, EndSeen,
           Sparing
<1>4. CASE /\ ~Overreported /\ Stalled /\ outcome.eof
           /\ pc' = "idle" /\ result' = "unexpected_end" /\ UNCHANGED completed
  <2>1. kind # "plugin" => src.eof \/ start + want > Size
    BY <1>2, <1>4 DEF Overreported, Stalled
  <2> QED
    BY <1>1, <1>4, <2>1 DEF IInv, TypeOK, Labels, Filled, Counted, Positioned, EndIsReal, EndSeen,
           Sparing
<1>5. CASE /\ ~Overreported /\ completed' = completed + outcome.n
           /\ \/ EndsEarly /\ pc' = "idle" /\ result' = "unexpected_end"
              \/ ~EndsEarly /\ pc' = "loop" /\ UNCHANGED result
  <2>1. /\ outcome.n <= want - completed /\ completed' \in 0..want
        /\ src.position = start + completed'
    BY <1>2, <1>5, ByteReadAssumption DEF Overreported
  <2>2. CASE EndsEarly /\ pc' = "idle" /\ result' = "unexpected_end"
    <3>1. kind # "plugin" => src.eof \/ start + want > Size
      BY <1>2, <1>5, <2>1, <2>2 DEF EndsEarly
    <3> QED
      BY <1>1, <2>1, <2>2, <3>1
         DEF IInv, TypeOK, Labels, Filled, Counted, Positioned, EndIsReal, EndSeen,
           Sparing
  <2>3. CASE ~EndsEarly /\ pc' = "loop" /\ UNCHANGED result
    BY <1>1, <2>1, <2>3 DEF IInv, TypeOK, Labels, Filled, Counted, Positioned, EndIsReal, EndSeen,
           Sparing
  <2> QED
    BY <1>5, <2>2, <2>3
<1>6. outcome.error \in {"none", "io_read_failed", "plugin_error"}
  BY DEF IInv, TypeOK
<1>7. CASE outcome.error # "none"
  BY <1>3, <1>6, <1>7 DEF Handle, Return
<1>8. CASE outcome.error = "none" /\ Overreported
  BY <1>3, <1>8 DEF Handle, Return
<1>9. CASE outcome.error = "none" /\ ~Overreported /\ Stalled
  BY <1>3, <1>4, <1>9 DEF Handle, Return
<1>10. CASE outcome.error = "none" /\ ~Overreported /\ ~Stalled
  BY <1>5, <1>10 DEF Handle, Return
<1> QED
  BY <1>7, <1>8, <1>9, <1>10

\* Every step keeps the invariant.
LEMMA NextIInv == IInv /\ [Next]_vars => IInv'
<1> SUFFICES ASSUME IInv, [Next]_vars PROVE IInv'
  OBVIOUS
<1>1. ASSUME NEW n \in 0..MaxWant, ReadExact(n)
      PROVE  IInv'
  BY <1>1, BeginIInv DEF ReadExact
<1>2. ASSUME NEW p \in 0..(Size + 1), NEW n \in 0..MaxWant, ReadExactAt(p, n)
      PROVE  IInv'
  <2>1. p # None /\ Begin(p, n, "require")
    BY <1>2, ByteReadAssumption DEF ReadExactAt
  <2> QED
    BY <2>1, BeginIInv
<1>3. CASE Loop
  BY <1>3, RequireIInv, AdapterCheckIInv, SeekMoveIInv, LoopCheckIInv, ReadTransferIInv,
     HandleIInv DEF Loop
<1>4. CASE RequestCancel
  <2>1. /\ ~cancelled /\ cancelled' = TRUE /\ late' = late
        /\ spared' = IF UnderWay THEN 1 ELSE 0
        /\ UNCHANGED <<srcVars, callVars>>
    BY <1>4 DEF RequestCancel
  <2>2. TypeOK'
    BY <2>1 DEF srcVars, callVars, IInv, TypeOK
  <2>3. Sparing'
    BY <2>1 DEF srcVars, callVars, IInv, TypeOK, Sparing, UnderWay
  <2> QED
    BY <2>1, <2>2, <2>3 DEF srcVars, callVars, IInv, Filled, Counted, Positioned, EndIsReal,
                            EndSeen
<1>5. CASE UNCHANGED vars
  BY <1>5 DEF vars, srcVars, callVars, history, IInv, TypeOK, Filled, Counted, Positioned,
              EndIsReal, EndSeen, Sparing
<1> QED
  BY <1>1, <1>2, <1>3, <1>4, <1>5 DEF Next

-----------------------------------------------------------------------------
(* Theorems.                                                               *)

\* The invariant holds of every reachable state.
LEMMA InvariantHolds == Spec => []IInv
<1> QED
  BY InitIInv, NextIInv, PTL DEF Spec

\* Types; in particular read_exact never counts more bytes than it was asked
\* for, whatever a plugin source claims to have read.
THEOREM TypeCorrect == Spec => []TypeOK
<1>1. IInv => TypeOK
  BY DEF IInv
<1> QED
  BY <1>1, InvariantHolds, PTL

\* read_exact and read_exact_at report success only with every byte asked for
\* in its place, for every source, length and history of short reads.
THEOREM ExactReads == Spec => []ReadsExactly
<1>1. IInv => ReadsExactly
  <2> SUFFICES ASSUME IInv, pc = "idle", result = "ok", NEW i \in 0..(want - 1)
               PROVE  dest[i] = (IF at = None THEN start ELSE at) + i
    BY DEF ReadsExactly
  <2>1. src.position = start + want /\ start = IF at = None THEN start ELSE at
    BY DEF IInv, Counted, Positioned
  <2>2. /\ want \in 0..MaxWant /\ start \in Nat /\ DOMAIN dest = 0..(MaxWant - 1)
    BY DEF IInv, TypeOK, Offsets
  <2>3. i \in DOMAIN dest /\ i < src.position - start
    BY <2>1, <2>2, ByteReadAssumption
  <2>4. dest[i] = start + i
    BY <2>3 DEF IInv, Filled
  <2> QED
    BY <2>1, <2>4
<1> QED
  BY <1>1, InvariantHolds, PTL

\* When a call returns, position() tells how much of the destination it has
\* filled, whatever its result.
THEOREM Resumable == Spec => []ResumesAtPosition
<1>1. IInv => ResumesAtPosition
  BY DEF IInv, Filled, ResumesAtPosition
<1> QED
  BY <1>1, InvariantHolds, PTL

\* unexpected_end from our sources means that the bytes are not there.
THEOREM EndAlwaysReal == Spec => []EndIsReal
<1>1. IInv => EndIsReal
  BY DEF IInv
<1> QED
  BY <1>1, InvariantHolds, PTL

\* Once cancellation is requested, in whatever step of a call that happens, at most
\* the operation that was under way still moves the source or delivers.
THEOREM CancelledReadsStop == Spec => []CancelStops
<1>1. IInv => CancelStops
  BY DEF IInv, Sparing, CancelStops
<1> QED
  BY <1>1, InvariantHolds, PTL

=============================================================================
