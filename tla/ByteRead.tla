------------------------------ MODULE ByteRead ------------------------------
(***************************************************************************)
(* Exact reads: read_exact and read_exact_at (src/io.cpp) over the memory  *)
(* source (src/io.cpp), the file source (src/file_io.cpp) and an arbitrary *)
(* third-party ByteSource, with a second thread that may cancel at any     *)
(* moment.                                                                 *)
(*                                                                         *)
(* The byte at offset p of the source is written p, so a destination shows *)
(* which source byte every position received.  Calls follow one another,   *)
(* so a call may start where a failed one left the adapter.                *)
(*                                                                         *)
(* A loop iteration is two looks at the cancellation token, one by the     *)
(* loop and one by the adapter, and then the transfer, all of them steps   *)
(* of their own: a request may come in between any two.                    *)
(*                                                                         *)
(* C stdio is outside the repository: fread moves any part of the bytes    *)
(* asked for and raises the error or end-of-file flag when it falls short  *)
(* (end-of-file early if someone truncated the file since it was opened);  *)
(* fseek may fail.  After an error the stream stands behind the bytes that *)
(* fread returned, as in the libraries the engine is built with; the C     *)
(* standard leaves that open.  Offsets beyond the platform's range cannot  *)
(* occur below a size that the platform reported.                          *)
(***************************************************************************)
EXTENDS Naturals, FiniteSetsExt

CONSTANTS
  Size,      \* bytes in the source
  MaxRead,   \* maximum_read_size of the memory and file sources
  MaxWant,   \* largest destination a caller passes
  None

ASSUME ByteReadAssumption ==
  /\ Size \in Nat /\ MaxWant \in Nat
  /\ MaxRead \in Nat \ {0}
  /\ None \notin Nat

VARIABLES
  kind,       \* which ByteSource is behind the interface
  seekable,   \* its seek capability
  src,        \* its state: position, and for a file the stdio stream
  at,         \* the position a read_exact_at asked for
  want,       \* destination.size()
  completed,  \* bytes the loop counts as read
  start,      \* where the adapter stood when the loop began
  dest,       \* the destination
  outcome,    \* what the last source.read() returned
  pc, result, \* the loop, and the status it returned
  cancelled,  \* the token
  \* History, for the properties only:
  spared,     \* operations under way when cancellation was requested
  late        \* operations of the source that took effect after that

srcVars  == <<kind, seekable, src>>
callVars == <<at, want, completed, start, dest, outcome, pc, result>>
history  == <<spared, late>>
vars     == <<srcVars, callVars, cancelled, history>>

Offsets == 0..Size
Blank   == [i \in 0..(MaxWant - 1) |-> None]

-----------------------------------------------------------------------------
(* The sources.  A read yields the new adapter state s, the number of      *)
(* bytes placed in the destination, the offset of the first of them, the   *)
(* bytes_read and eof reported, and an error or "none".                    *)

Outcome(s, placed, offset, n, eof, error) ==
  [s |-> s, placed |-> placed, offset |-> offset,
   n |-> n, eof |-> eof, error |-> error]

\* At most n bytes, no more than there is room for or left in the source
Count(s, room, n) == Min({room, n, Size - s.position})

Advanced(s, n) == [s EXCEPT !.position = @ + n, !.stream = @ + n]

MemoryRead(s, room) ==
  LET count == Count(s, room, MaxRead)
      next  == Advanced(s, count)
  IN {Outcome(next, count, s.position, count, next.position = Size, "none")}

\* std::fread(destination, 1, count, file)
Fread(s, count) ==
  {[got |-> count, err |-> s.err, eof |-> s.eof]}
    \cup (IF count = 0 THEN {}
          ELSE {[got |-> k, err |-> s.err, eof |-> TRUE] : k \in 0..(count - 1)}
               \cup {[got |-> k, err |-> TRUE, eof |-> s.eof] : k \in 0..(count - 1)})

\* Mutant: a read that fails does not advance position.
FileReadLate(s, room) ==
  LET count == Count(s, room, MaxRead)
      Failed(f) == f.got < count /\ f.err
      After(f) == [position |-> s.position + (IF Failed(f) THEN 0 ELSE f.got),
                   stream |-> s.stream + f.got, err |-> f.err, eof |-> f.eof]
  IN {Outcome(After(f), f.got, s.stream, f.got, f.eof,
              IF Failed(f) THEN "io_read_failed" ELSE "none") : f \in Fread(s, count)}

\* position advances before the error is looked at
FileRead(s, room) ==
  LET count == Count(s, room, MaxRead)
      After(f) == [position |-> s.position + f.got, stream |-> s.stream + f.got,
                   err |-> f.err, eof |-> f.eof]
      Failed(f) == f.got < count /\ f.err
  IN {Outcome(After(f), f.got, s.stream, f.got,
              s.position + f.got = Size \/ f.eof,
              IF Failed(f) THEN "io_read_failed" ELSE "none") : f \in Fread(s, count)}

\* Any ByteSource: short reads, no progress, early eof, errors, more bytes
\* reported than there was room for.
PluginRead(s, room) ==
  {Outcome(Advanced(s, Count(s, room, n)), Count(s, room, n), s.position, n, eof, "none") :
     n \in {m \in 0..(room + 1) : m = Count(s, room, m) \/ m > room}, eof \in BOOLEAN}
  \cup {Outcome(s, 0, s.position, 0, FALSE, "plugin_error")}

ReadOutcomes(s, room) ==
  CASE kind = "memory" -> MemoryRead(s, room)
    [] kind = "file"   -> FileRead(s, room)
    [] kind = "plugin" -> PluginRead(s, room)

\* Mutant: only position is set, the stdio stream stays.
SoughtLogically(s, p) == [s EXCEPT !.position = p]

\* seek(position): the state it leaves when it succeeds
Sought(s, p) == [position |-> p, stream |-> p, err |-> FALSE, eof |-> FALSE]

\* a seek past the end, an fseek that fails, a plugin that refuses
SeekMayFail(p) == kind # "memory" \/ p > Size
SeekMaySucceed(p) == p <= Size

-----------------------------------------------------------------------------
(* The loops.                                                              *)

Return(status) == pc' = "idle" /\ result' = status

\* The adapter does what it was asked for.
TakesEffect == late' = late + (IF cancelled THEN 1 ELSE 0) /\ UNCHANGED spared

\* Every call may come with a token of its own or share the previous one.
Begin(p, n, label) ==
  /\ pc = "idle"
  /\ at' = p
  /\ want' = n
  /\ completed' = 0
  /\ start' = src.position
  /\ dest' = Blank
  /\ cancelled' \in {FALSE, cancelled}
  /\ spared' = 0 /\ late' = 0
  /\ pc' = label
  /\ UNCHANGED <<srcVars, outcome, result>>

ReadExact(n) == Begin(None, n, "loop")

ReadExactAt(p, n) == Begin(p, n, "require")

\* require_capabilities, then the helper's own look at the token
Require ==
  /\ pc = "require"
  /\ IF ~seekable THEN Return("unsupported_feature")
     ELSE IF cancelled THEN Return("operation_cancelled")
     ELSE pc' = "seek" /\ UNCHANGED result
  /\ UNCHANGED <<srcVars, at, want, completed, start, dest, outcome, cancelled, history>>

\* The adapter looks at the token before it does label.  A plugin may or may not.
AdapterCheck(label) ==
  /\ \/ cancelled /\ Return("operation_cancelled")
     \/ (~cancelled \/ kind = "plugin") /\ pc' = label /\ UNCHANGED result
  /\ UNCHANGED <<srcVars, at, want, completed, start, dest, outcome, cancelled, history>>

\* source.seek(position, cancellation)
SeekCheck == pc = "seek" /\ AdapterCheck("move")

SeekMove ==
  /\ pc = "move"
  /\ \/ /\ SeekMayFail(at)
        /\ Return("io_read_failed")
        /\ UNCHANGED <<src, start, history>>
     \/ /\ SeekMaySucceed(at)
        /\ src' = Sought(src, at)
        /\ start' = at
        /\ TakesEffect
        /\ pc' = "loop"
        /\ UNCHANGED result
  /\ UNCHANGED <<kind, seekable, at, want, completed, dest, outcome, cancelled>>

\* Mutant: the token is looked at before the loop instead of in it.
StoppedAtFirst == cancelled /\ completed = 0

\* The loop's own look at the token
Stopped == cancelled

LoopCheck ==
  /\ pc = "loop"
  /\ IF completed = want THEN Return("ok")
     ELSE IF Stopped THEN Return("operation_cancelled")
     ELSE pc' = "read" /\ UNCHANGED result
  /\ UNCHANGED <<srcVars, at, want, completed, start, dest, outcome, cancelled, history>>

\* source.read(destination.subspan(completed), cancellation)
ReadCheck == pc = "read" /\ AdapterCheck("transfer")

ReadTransfer ==
  /\ pc = "transfer"
  /\ TakesEffect
  /\ \E o \in ReadOutcomes(src, want - completed) :
       /\ src' = o.s
       /\ dest' = [i \in DOMAIN dest |->
                     IF i \in completed..(completed + o.placed - 1)
                     THEN o.offset + (i - completed) ELSE dest[i]]
       /\ outcome' = [n |-> o.n, eof |-> o.eof, error |-> o.error]
  /\ pc' = "outcome"
  /\ UNCHANGED <<kind, seekable, at, want, completed, start, result, cancelled>>

\* What the loop looks for in an outcome, each with a mutant that misses it.
NeverOverreported == FALSE
Overreported == outcome.n > want - completed

StalledOnlyAtEnd == outcome.n = 0 /\ outcome.eof
Stalled == outcome.n = 0

AnyEnd == outcome.eof
EndsEarly == outcome.eof /\ completed + outcome.n # want

Handle ==
  /\ pc = "outcome"
  /\ \/ /\ outcome.error # "none"
        /\ Return(outcome.error)
        /\ UNCHANGED completed
     \/ /\ outcome.error = "none"
        /\ Overreported
        /\ Return("plugin_contract_violation")
        /\ UNCHANGED completed
     \/ /\ outcome.error = "none"
        /\ ~Overreported /\ Stalled
        /\ Return(IF outcome.eof THEN "unexpected_end" ELSE "io_no_progress")
        /\ UNCHANGED completed
     \/ /\ outcome.error = "none"
        /\ ~Overreported /\ ~Stalled
        /\ completed' = completed + outcome.n
        /\ IF EndsEarly
           THEN Return("unexpected_end")
           ELSE pc' = "loop" /\ UNCHANGED result
  /\ UNCHANGED <<srcVars, at, want, start, dest, outcome, cancelled, history>>

\* Nothing can stop an operation of the source any more: one of ours has looked
\* at the token, a plugin has been called.
UnderWay == pc \in {"move", "transfer"} \/ (kind = "plugin" /\ pc \in {"seek", "read"})

\* CancellationSource::request_cancel, by another thread
RequestCancel ==
  /\ pc # "idle"
  /\ ~cancelled
  /\ cancelled' = TRUE
  /\ spared' = IF UnderWay THEN 1 ELSE 0
  /\ UNCHANGED <<srcVars, callVars, late>>

-----------------------------------------------------------------------------
Init ==
  /\ kind \in {"memory", "file", "plugin"}
  /\ seekable \in {TRUE, kind # "plugin"}
  /\ src = [position |-> 0, stream |-> 0, err |-> FALSE, eof |-> FALSE]
  /\ at = None
  /\ want = 0
  /\ completed = 0
  /\ start = 0
  /\ dest = Blank
  /\ outcome = [n |-> 0, eof |-> FALSE, error |-> "none"]
  /\ pc = "idle"
  /\ result = "none"
  /\ cancelled = FALSE
  /\ spared = 0 /\ late = 0

Loop ==
  \/ Require \/ SeekCheck \/ SeekMove
  \/ LoopCheck \/ ReadCheck \/ ReadTransfer \/ Handle

Next ==
  \/ \E n \in 0..MaxWant : ReadExact(n)
  \/ \E p \in 0..(Size + 1), n \in 0..MaxWant : ReadExactAt(p, n)
  \/ Loop
  \/ RequestCancel

\* The calling thread keeps running; nobody has to call, or to cancel.
Spec == Init /\ [][Next]_vars /\ WF_vars(Loop)

-----------------------------------------------------------------------------
(* Properties.                                                             *)

Labels == {"idle", "require", "seek", "move", "loop", "read", "transfer", "outcome"}

\* Types; the loop never counts more bytes than were asked for.
TypeOK ==
  /\ kind \in {"memory", "file", "plugin"}
  /\ seekable \in BOOLEAN
  /\ src \in [position : Offsets, stream : Offsets, err : BOOLEAN, eof : BOOLEAN]
  /\ at \in 0..(Size + 1) \cup {None}
  /\ want \in 0..MaxWant
  /\ completed \in 0..want
  /\ start \in Offsets
  /\ dest \in [0..(MaxWant - 1) -> Offsets \cup {None}]
  /\ outcome \in [n : 0..(MaxWant + 1), eof : BOOLEAN,
                  error : {"none", "io_read_failed", "plugin_error"}]
  /\ pc \in Labels
  /\ result \in {"none", "ok", "unsupported_feature", "operation_cancelled",
                 "io_read_failed", "plugin_error", "plugin_contract_violation",
                 "unexpected_end", "io_no_progress"}
  /\ cancelled \in BOOLEAN
  /\ spared \in 0..1 /\ late \in Nat

\* A call that reports success has put exactly the bytes asked for into the
\* destination, each at its place, whatever short reads, failures and
\* retries came before; a positioned read, those at its position.
ReadsExactly ==
  (pc = "idle" /\ result = "ok") =>
    \A i \in 0..(want - 1) : dest[i] = (IF at = None THEN start ELSE at) + i

\* When a call returns, with success or any error, position() tells how much
\* of the destination was filled: a caller can resume there without losing or
\* repeating a byte.
ResumesAtPosition ==
  pc = "idle" =>
    \A i \in DOMAIN dest :
      dest[i] = IF i < src.position - start THEN start + i ELSE None

\* unexpected_end is only reported when the bytes are really not there: the
\* source is shorter than the request, or the file shrank under it.
EndIsReal ==
  (pc = "idle" /\ result = "unexpected_end" /\ kind # "plugin") =>
    src.eof \/ start + want > Size

\* A request for cancellation, whenever it comes, stops everything but the one
\* operation that is under way: that may still move the source and deliver,
\* once, and nothing else does, even if the source never looks at the token.
\* A call that is given a cancelled token moves and delivers nothing.
CancelStops == late <= spared

\* Every call returns, whatever source it reads from: an iteration that makes
\* no progress ends it.
Terminates == pc # "idle" ~> pc = "idle"

=============================================================================
