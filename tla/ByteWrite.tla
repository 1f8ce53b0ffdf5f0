------------------------------ MODULE ByteWrite -----------------------------
(***************************************************************************)
(* Complete writes: write_all and write_all_at (src/io.cpp) over the       *)
(* memory sink (src/io.cpp), the file sink (src/file_io.cpp) and an        *)
(* arbitrary third-party ByteSink, with a second thread that may cancel.   *)
(*                                                                         *)
(* A byte is <<tag, i>>: the i-th byte of a payload with that tag, so the  *)
(* content of the sink shows where every byte came from.  As in ByteRead,  *)
(* an iteration is two looks at the token and then the transfer, each a    *)
(* step of its own.                                                        *)
(*                                                                         *)
(* C stdio is outside the repository: fwrite puts any part of the bytes at *)
(* the stream's own position, which it moves, and raises the error flag    *)
(* when it falls short; the disk holds DiskSpace bytes; fseek and fflush   *)
(* may fail.  After an error the stream stands behind the bytes that were  *)
(* put, which the C standard leaves open.  Flush never changes content     *)
(* (durability is not claimed).                                            *)
(***************************************************************************)
EXTENDS Naturals, Sequences, FiniteSetsExt

CONSTANTS
  MaxSize,    \* maximum_size of the memory and file sinks
  MaxWrite,   \* their maximum_write_size
  DiskSpace,  \* bytes a file can really grow to
  MaxLen,     \* longest payload a caller passes
  Tags,       \* payloads of different calls
  None

ASSUME ByteWriteAssumption ==
  /\ MaxSize \in Nat /\ MaxLen \in Nat /\ DiskSpace \in Nat
  /\ MaxWrite \in Nat \ {0}
  /\ None \notin Nat

VARIABLES
  kind,       \* which ByteSink is behind the interface
  seekable,   \* its seek capability
  content,    \* the bytes stored
  sink,       \* its state: position, extent, and the stdio stream of a file
  at,         \* the position a write_all_at asks for, until its seek
  payload,    \* the bytes to write
  completed,  \* how many the loop counts as written
  start,      \* where the adapter stood when the loop began
  outcome,    \* what sink.write() just returned
  pc, result, \* the loop, and the status it returned
  cancelled,  \* the token
  \* History, for the properties only:
  spared,     \* operations under way when cancellation was requested
  late        \* operations of the sink that took effect after that

sinkVars == <<kind, seekable, content, sink>>
callVars == <<at, payload, completed, start, outcome, pc, result>>
history  == <<spared, late>>
vars     == <<sinkVars, callVars, cancelled, history>>

Payload(tag, n) == [i \in 1..n |-> <<tag, i>>]

\* c with the bytes of d put at offset p, extended when d reaches past the end
Overlay(c, p, d) ==
  [i \in 1..Max({Len(c), p + Len(d)}) |->
     IF i \in (p + 1)..(p + Len(d)) THEN d[i - p] ELSE c[i]]

-----------------------------------------------------------------------------
(* The sinks.  A write yields the new content and state, the count it      *)
(* reports, and an error or "none".                                        *)

Outcome(c, s, n, error) == [content |-> c, sink |-> s, n |-> n, error |-> error]

Refused(error) == Outcome(content, sink, 0, error)

\* Mutant: the bound is taken for what is left of it.
WholeBound == MaxSize

Available == MaxSize - sink.position

\* Mutant: a write that only partly fits is refused whole.
FullForAll(data) == Len(data) > Available

\* limit_exceeded, when not even one byte fits
Full(data) == data # <<>> /\ Available = 0

MemoryWrite(data) ==
  LET count == Min({Len(data), MaxWrite, Available})
      end   == sink.position + count
      Stored == Outcome(Overlay(content, sink.position, SubSeq(data, 1, count)),
                        [sink EXCEPT !.position = end, !.stream = end,
                                     !.extent = Max({@, end})],
                        count, "none")
  IN IF sink.position > MaxSize THEN {Refused("invariant_violation")}
     ELSE IF Full(data) THEN {Refused("limit_exceeded")}
     ELSE {o \in {Stored, Refused("allocation_failed")} :
             o.error = "none" \/ end > Len(content)}

\* std::fwrite(source, 1, count, file)
Fwrite(count) ==
  LET space == DiskSpace - sink.stream
  IN {[put |-> k, err |-> sink.err \/ k < count] : k \in 0..Min({count, space})}

\* A failed write returns before position and extent are updated.
FileWrite(data) ==
  LET count == Min({Len(data), MaxWrite, Available})
      Written(f) == Overlay(content, sink.stream, SubSeq(data, 1, f.put))
      Moved(f) == [sink EXCEPT !.stream = @ + f.put, !.err = f.err]
      Counted(f) == [Moved(f) EXCEPT !.position = @ + f.put,
                                     !.extent = Max({@, sink.position + f.put})]
  IN IF Full(data) THEN {Refused("limit_exceeded")}
     ELSE {IF f.put < count /\ f.err
           THEN Outcome(Written(f), Moved(f), 0, "io_write_failed")
           ELSE Outcome(Written(f), Counted(f), f.put, "none") : f \in Fwrite(count)}

\* Any ByteSink: short writes, no progress, errors, more bytes reported than
\* it was given.
PluginWrite(data) ==
  LET Stored(n) == Min({n, Len(data), DiskSpace - sink.position})
      After(n)  == [sink EXCEPT !.position = @ + Stored(n), !.stream = @ + Stored(n),
                                !.extent = Max({@, sink.position + Stored(n)})]
  IN {Outcome(Overlay(content, sink.position, SubSeq(data, 1, Stored(n))),
              After(n), n, "none") :
        n \in {m \in 0..(Len(data) + 1) : m = Stored(m) \/ m > Len(data)}}
     \cup {Refused("plugin_error")}

WriteOutcomes(data) ==
  CASE kind = "memory" -> MemoryWrite(data)
    [] kind = "file"   -> FileWrite(data)
    [] kind = "plugin" -> PluginWrite(data)

\* Mutant: only position is set, the stdio stream stays.
SoughtLogically(p) == [sink EXCEPT !.position = p, !.err = FALSE]

\* seek(position): not beyond what was written; fseek or a plugin may fail
SeekMaySucceed(p) == p <= sink.extent
SeekMayFail(p) == kind # "memory" \/ p > sink.extent
Sought(p) == [sink EXCEPT !.position = p, !.stream = p, !.err = FALSE]

-----------------------------------------------------------------------------
(* The loops.                                                              *)

NoOutcome == [n |-> 0, error |-> "none"]

Return(status) == pc' = "idle" /\ result' = status

\* The adapter does what it was asked for.
TakesEffect == late' = late + (IF cancelled THEN 1 ELSE 0) /\ UNCHANGED spared

Begin(p, data, label) ==
  /\ pc = "idle"
  /\ at' = p
  /\ payload' = data
  /\ completed' = 0
  /\ start' = sink.position
  /\ cancelled' \in {FALSE, cancelled}
  /\ spared' = 0 /\ late' = 0
  /\ pc' = label
  /\ UNCHANGED <<sinkVars, outcome, result>>

WriteAll(data) == Begin(None, data, "loop")

WriteAllAt(p, data) == Begin(p, data, "require")

\* require_capabilities, then the helper's own look at the token
Require ==
  /\ pc = "require"
  /\ IF ~seekable THEN Return("unsupported_feature")
     ELSE IF cancelled THEN Return("operation_cancelled")
     ELSE pc' = "seek" /\ UNCHANGED result
  /\ at' = IF pc' = "seek" THEN at ELSE None
  /\ UNCHANGED <<sinkVars, payload, completed, start, outcome, cancelled, history>>

\* The adapter looks at the token before it does label.  A plugin may or may not.
AdapterCheck(label) ==
  /\ \/ cancelled /\ Return("operation_cancelled")
     \/ (~cancelled \/ kind = "plugin") /\ pc' = label /\ UNCHANGED result
  /\ UNCHANGED <<sinkVars, payload, completed, start, outcome, cancelled, history>>

\* sink.seek(position, cancellation)
SeekCheck ==
  /\ pc = "seek"
  /\ AdapterCheck("move")
  /\ at' = IF pc' = "move" THEN at ELSE None

SeekMove ==
  /\ pc = "move"
  /\ \/ /\ SeekMayFail(at)
        /\ Return("io_write_failed")
        /\ UNCHANGED <<sink, start, history>>
     \/ /\ SeekMaySucceed(at)
        /\ sink' = Sought(at)
        /\ start' = at
        /\ TakesEffect
        /\ pc' = "loop"
        /\ UNCHANGED result
  /\ at' = None
  /\ UNCHANGED <<kind, seekable, content, payload, completed, outcome, cancelled>>

\* Mutant: the token is looked at before the loop instead of in it.
StoppedAtFirst == cancelled /\ completed = 0

\* The loop's own look at the token
Stopped == cancelled

LoopCheck ==
  /\ pc = "loop"
  /\ IF completed = Len(payload) THEN Return("ok")
     ELSE IF Stopped THEN Return("operation_cancelled")
     ELSE pc' = "write" /\ UNCHANGED result
  /\ UNCHANGED <<sinkVars, at, payload, completed, start, outcome, cancelled, history>>

\* Mutant: every attempt starts over.
WholePayload == payload

\* source.subspan(completed)
Rest == SubSeq(payload, completed + 1, Len(payload))

\* sink.write(source.subspan(completed), cancellation)
WriteCheck == pc = "write" /\ AdapterCheck("transfer") /\ UNCHANGED at

WriteTransfer ==
  /\ pc = "transfer"
  /\ TakesEffect
  /\ \E o \in WriteOutcomes(Rest) :
       /\ content' = o.content
       /\ sink' = o.sink
       /\ outcome' = [n |-> o.n, error |-> o.error]
  /\ pc' = "outcome"
  /\ UNCHANGED <<kind, seekable, at, payload, completed, start, result, cancelled>>

\* What the loop looks for in an outcome, each with a mutant that misses it.
NeverOverreported == FALSE
Overreported == outcome.n > Len(Rest)

NeverStalled == FALSE
Stalled == outcome.n = 0

Handle ==
  /\ pc = "outcome"
  /\ \/ /\ outcome.error # "none"
        /\ Return(outcome.error)
        /\ UNCHANGED completed
     \/ /\ outcome.error = "none"
        /\ Overreported
        /\ Return("plugin_contract_violation")
        /\ UNCHANGED completed
     \/ /\ outcome.error = "none"
        /\ ~Overreported /\ Stalled
        /\ Return("io_no_progress")
        /\ UNCHANGED completed
     \/ /\ outcome.error = "none"
        /\ ~Overreported /\ ~Stalled
        /\ completed' = completed + outcome.n
        /\ pc' = "loop"
        /\ UNCHANGED result
  /\ outcome' = NoOutcome
  /\ UNCHANGED <<sinkVars, at, payload, start, cancelled, history>>

\* Nothing can stop an operation of the sink any more: one of ours has looked
\* at the token, a plugin has been called.
UnderWay == pc \in {"move", "transfer"} \/ (kind = "plugin" /\ pc \in {"seek", "write"})

\* CancellationSource::request_cancel, by another thread
RequestCancel ==
  /\ pc # "idle"
  /\ ~cancelled
  /\ cancelled' = TRUE
  /\ spared' = IF UnderWay THEN 1 ELSE 0
  /\ UNCHANGED <<sinkVars, callVars, late>>

-----------------------------------------------------------------------------
\* A file sink may be opened on existing content within its bound.
Init ==
  /\ kind \in {"memory", "file", "plugin"}
  /\ seekable \in {TRUE, kind # "plugin"}
  /\ content \in {Payload("old", n) :
                    n \in {0} \cup {m \in 1..MaxSize : kind = "file" /\ m <= DiskSpace}}
  /\ sink = [position |-> 0, stream |-> 0, extent |-> Len(content), err |-> FALSE]
  /\ at = None
  /\ payload = <<>>
  /\ completed = 0
  /\ start = 0
  /\ outcome = NoOutcome
  /\ pc = "idle"
  /\ result = "none"
  /\ cancelled = FALSE
  /\ spared = 0 /\ late = 0

Loop ==
  \/ Require \/ SeekCheck \/ SeekMove
  \/ LoopCheck \/ WriteCheck \/ WriteTransfer \/ Handle

Next ==
  \/ \E tag \in Tags, n \in 0..MaxLen :
       \/ WriteAll(Payload(tag, n))
       \/ \E p \in 0..(MaxSize + 1) : WriteAllAt(p, Payload(tag, n))
  \/ Loop
  \/ RequestCancel

\* The calling thread keeps running; nobody has to call, or to cancel.
Spec == Init /\ [][Next]_vars /\ WF_vars(Loop)

-----------------------------------------------------------------------------
(* Properties.                                                             *)

Bytes == (Tags \cup {"old"}) \X (1..Max({MaxLen, MaxSize}))
Longest == Max({MaxSize, DiskSpace})
Labels == {"idle", "require", "seek", "move", "loop", "write", "transfer", "outcome"}

\* Types; the loop never counts more bytes than it was given, and a memory sink
\* never grows beyond its bound, nor any other beyond the disk.
TypeOK ==
  /\ kind \in {"memory", "file", "plugin"}
  /\ seekable \in BOOLEAN
  /\ content \in Seq(Bytes)
  /\ Len(content) <= IF kind = "memory" THEN MaxSize ELSE DiskSpace
  /\ sink \in [position : 0..Longest, stream : 0..Longest, extent : 0..Longest,
               err : BOOLEAN]
  /\ at \in 0..(MaxSize + 1) \cup {None}
  /\ payload \in Seq(Bytes) /\ Len(payload) <= MaxLen
  /\ completed \in 0..Len(payload)
  /\ start \in 0..Longest
  /\ outcome \in [n : 0..(MaxLen + 1),
                  error : {"none", "limit_exceeded", "allocation_failed",
                           "io_write_failed", "plugin_error"}]
  /\ pc \in Labels
  /\ result \in {"none", "ok", "unsupported_feature", "operation_cancelled",
                 "io_write_failed", "limit_exceeded", "allocation_failed",
                 "plugin_error", "plugin_contract_violation", "io_no_progress"}
  /\ cancelled \in BOOLEAN
  /\ spared \in 0..1 /\ late \in Nat

\* A call that reports success has stored its payload, whole and in order,
\* where the sink stood or at the position asked for, however the adapter cut
\* it up and whatever failed before.  After a failed fwrite this takes a seek, as
\* in write_all_at: until then the stream of a file sink is not where position
\* says.
WritesExactly ==
  (pc = "idle" /\ result = "ok" /\ ~sink.err) =>
    /\ start + Len(payload) <= Len(content)
    /\ SubSeq(content, start + 1, start + Len(payload)) = payload

\* When a call returns, with success or any error, the bytes between where it
\* started and position() are the beginning of its payload: nothing was
\* skipped, repeated or cut in the middle.
StoresPrefix ==
  (pc = "idle" /\ result # "none" /\ ~sink.err) =>
    /\ sink.position - start \in 0..Len(payload)
    /\ sink.position <= Len(content)
    /\ SubSeq(content, start + 1, sink.position) =
         SubSeq(payload, 1, sink.position - start)

\* limit_exceeded means what it says: the payload does not fit below
\* maximum_size, and all of it that fits has been counted.
LimitIsReal ==
  (pc = "idle" /\ result = "limit_exceeded") =>
    /\ start + Len(payload) > MaxSize
    /\ sink.position = MaxSize

\* A request for cancellation, whenever it comes, stops everything but the one
\* operation that is under way: that may still move the sink and store bytes,
\* once, and nothing else does, even if the sink never looks at the token.  A
\* call that is given a cancelled token moves and stores nothing.
CancelStops == late <= spared

\* Every call returns, whatever sink it writes to.
Terminates == pc # "idle" ~> pc = "idle"

\* A documented promise (docs/byte-io.md): file adapters enforce their
\* total-size bound.
FileBounded == kind = "file" => Len(content) <= MaxSize

=============================================================================
