# Formal models of shibori-engine

TLA+ models of the engine's C++ core, the TLC configurations that check them on
small instances, and machine-checked proofs of their properties for every size.
Everything here is translated from the source under
`src/` (in the repository: `include/`, `src/`); documents are quoted only where
the code is compared with them. `PROJECT.json` relates every definition to the
lines it stands for, every hazard to the properties aimed at it, and every
property to a mutation of the code it detects.

```
tlc -workers 2 -config budget_safety.cfg MCResourceBudget   # one run
tlapm ResourceBudgetProofs.tla                              # one module's proofs
```

## 1. The system

shibori-engine is the foundation of a columnar storage engine. At this commit it
holds resource governance, byte I/O, framing, columns, schemas and blocks. The
writer, the reader, the codecs and the adaptive policy exist in design documents
only.

| Component | Source | State | Operations | Hard parts |
|---|---|---|---|---|
| Resource budgets | `resource.cpp` | shared heap states `{mutex, capacity, used, parent, parent_amount}`; move-only reservations `{state_, amount_}` | `create_root`, `create_child`, `reserve`, `release`, moves, `used`/`available`, copies and destructors | threads, reference counts, destructors that lock the parent |
| Resource limits | `resource.cpp` | none | `validate_resource_limits` | relations between limits |
| Byte I/O helpers | `io.cpp` | loop counters, cancellation flag | `read_exact[_at]`, `write_all[_at]`, `require_capabilities`, `request_cancel` | short transfers, plugins, cancellation |
| Memory adapters | `io.cpp` | buffer, position | read, write, seek | bounds, failed allocation half way |
| File adapters | `file_io.cpp` | position, extent, *and* the stdio stream's own position and error flag | open, read, write, seek, flush | the two positions must agree after partial failures |
| Record framing | `format/record.cpp` | `expected_sequence_` | encode, parse, `verify_record`, `accept` | damage, loss, repetition, reordering, length overflow |
| Columns, validity | `column.cpp` | optional parts and the "finished" flag of each builder | `set`, setters, `finish`, `from_bitmap` | call order, bits past the last row |
| Blocks | `block.cpp` | columns by field ID, finished flag | `set_column`, `finish`, `variable_value` | three independent inputs per column must agree, cumulative limits |
| Checked arithmetic, results | `checked_arithmetic.cpp`, `result.hpp` | none | `checked_add`, `checked_multiply`, first failing check decides | wrap-around |
| Logical types, schemas | `logical_type.cpp`, `schema.cpp` | content and "finished" flag of each builder | `create`; field and schema `add_metadata`, `add_field`, `finish`; canonical bytes | uniqueness and a running limit found out only at the end, hand-written UTF-8, bytes without separators as an identity |
| Preamble, endian codecs | `format/preamble.cpp`, `format/endian.cpp` | none | encode, parse | which of several faults is reported, versions |
| Integrity hashes | `integrity.cpp`, `crc32c_x86.cpp` | hash state | CRC32C update, finalize, reset; BLAKE3 | two back ends, fragments of any length |

Interaction. A budget state is reached by many threads through handles,
reservations and child states, all of which own it (`std::shared_ptr`); the mutex
of each state is the only synchronisation. The byte helpers call an adapter
through a virtual interface and share nothing with other threads but the
cancellation flag. Framing, schemas and blocks are values: a finished field goes to a
schema builder, a verified record to the tracker, published columns and a schema
to a block builder, each in one thread.

What makes each part correct:

* budgets: what is charged is exactly what is outstanding, at every instant; no
  budget and no subtree exceeds its capacity; nothing freed is touched;
  everything comes back in the end;
* byte I/O: success means every byte is at its place; after a failure position
  and content tell how far the call came; a call ends; a request for cancellation
  stops all but the operation under way; bounds hold;
* records: what is accepted is a prefix of what was written; a failure does not
  stop the reader from going on;
* columns and blocks: what is published is well-formed and every value of it can
  be served, whatever order the calls came in;
* schemas: exactly the unique, well-formed and small enough ones are published,
  and no two of them have the same canonical bytes;
* preambles: damage never parses and is never mistaken for another version;
* CRC32C: the result depends on the bytes alone.

The hazards behind these, each at its line, are in `PROJECT.json`.

## 2. Modules

```
BudgetLedger  <=(refines)=  ResourceBudget  <-- MCResourceBudget
ByteRead      ByteWrite
Checks  <--  RecordStream    <-- MCRecordStream
        <--  LogicalTypes    <-- ColumnStorage  <-- ColumnBuilders <-- MCColumnBuilders
                                                <-- BlockBuilder   <-- MCBlockBuilder
                             <-- CanonicalBytes <-- SchemaBuilder  <-- MCSchemaBuilder
        <--  ResourceLimits  <-- BlockBuilder, SchemaBuilder
Utf8    <--  BlockBuilder, SchemaBuilder
Words   <--  Crc32c          <-- FilePreamble   <-- MCFilePreamble
```

The `MC` modules hold what TLC needs. The proofs about a module `M` are in
`MProofs`, those about `ColumnBuilders` and `BlockBuilder` together in
`ColumnProofs`. `CommonLemmas` has what they share: least numbers, what a list of
checks answers, arithmetic, folds, and the proof about UTF-8.

Operators introduced by a comment `Mutant:` are wrong on purpose. No model uses
them: each is the replacement, for one property, of the definition that follows
it, and shows that the property can be violated by a plausible slip.

### ResourceBudget and BudgetLedger

The variables are the fields of `ResourceBudgetState` (`live` is the set of
allocated ones, addresses are reused after `free`) and of `ResourceReservation`,
the handles each thread holds, and the call each thread is in (`pc` and the
call's locals). A call is cut wherever another thread can see a difference:

* `reserve`: `ReserveLock`, then `ReserveFits`/`ReserveFails`, `ReserveCharge`;
* `create_child`: `CreateChild`, `ChildAlloc`/`ChildAllocFails` (before the
  lock), `ChildLock`, `ChildFits`/`ChildFails`, `ChildCharge`;
* `release()`: `ReleaseLock`, `ReleaseDebit` (subtract and unlock),
  `ReleaseReset` (drop the pointer, perhaps the last one);
* move assignment: the same from `MoveAssignLock`, then `MoveAssign`; move
  construction, and assignment to an inactive reservation, is `MoveConstruct`;
* `~ResourceBudgetState`: `DestroyLock`, `Refund`, `Free`. It is run by whichever
  thread drops the last owner (`Dropped`), from wherever that happens, and
  `Free` drops the reference to the parent, so destructors cascade;
* `used()`, `available()`: `QueryLock`, `QueryRead`.

`std::terminate()` is the label `terminated`, a dead end. Requests for zero units
change nothing and are left out, as is the label `kind`. A reservation object is
used by one thread at a time (`Claimed`), as C++ demands of non-const members.

`BudgetLedger` is what the calls promise: accounts and claims, each operation one
step, no threads. `Ledger` in `ResourceBudget` is the refinement mapping: a child
is on the books from its charge to its refund, a root from its creation until it
is unowned, a reservation until its debit.

### ByteRead and ByteWrite

One call after another over one adapter (`memory`, `file` or `plugin`), so that a
call starts where the last one, failed or not, left the adapter. An iteration of
a loop is four steps: `LoopCheck` (the helper looks at the token), `ReadCheck` or
`WriteCheck` (the adapter looks at it again), the transfer, and `Handle` (the tests
on what came back). A call at a position begins with `Require` (capability and
token), `SeekCheck` (the adapter's look) and `SeekMove`. `RequestCancel` interleaves
between any two of them, so a request may come after the adapter's look and before
the bytes move, as it may in the code; a plugin need not look at all. Two history
variables serve `CancelStops` alone: `spared` says whether an operation was under way
when the request came, `late` counts the operations that took effect after it.

A file has two positions, the adapter's and the stream's; `fread` and `fwrite` may
move any number of bytes up to the one asked for and raise the error or the end flag,
`fseek` may fail. Where the stream stands after an error C leaves open: the model
assumes, of reads as of writes, that it stands behind the bytes that were moved, as
with the usual stdio over a file descriptor. What `ReadsExactly` and
`ResumesAtPosition` say of calls after a failed `fread` rests on this.

A plugin may make no progress, end early, fail, or report more than it had room for.
Bytes carry their origin, so that a destination or a sink shows where each byte came
from.

### RecordStream

A writer numbers records from zero and frames them. A reader fetches any stored
record at any time, intact or with one fault in any field, checksum, magic,
length or content, verifies it in code order (`ParseError`, `VerifyError`) and
offers what it holds to the tracker (`Accept`), as often as it likes. A call that
fails changes nothing, as in the code; `ErrorsNameTheCause` and `LengthsFit` look
at the error it would return. CRC32C is
taken to have no collisions, but covers what the code makes it cover: the envelope
checksum leaves out the payload checksum next to it, the payload checksum does not
see the boundary between extension and payload. Lengths live in a machine word
that ends at `MaxWord`. What a checksum notices is checked in `preamble`, on bits.

### Checks, ResourceLimits, Utf8, LogicalTypes

These have no state. `Checks` is the common shape of failing functions, an ordered
list of checks, and the overflow tests. `ResourceLimits` is
`validate_resource_limits` over its nine limits. `Utf8` has the hand-written
validator of which `schema.cpp` and `block.cpp` have a copy each (`ValidUtf8`,
over bytes), next to the definition of the Unicode standard (`WellFormed`).
`LogicalTypes` has the twenty kinds, the alternative of parameters each kind
calls for, their validation and the width of a value.

### ColumnStorage, ColumnBuilders, BlockBuilder

`ColumnStorage` has validity bitmaps and column values. `ColumnBuilders` runs a
`ValidityBuilder` and a column builder of any storage kind through every sequence
of `set`, setters and `finish`. `BlockBuilder` binds columns to the fields of a
schema and validates all of them in `finish`, check by check, under any limits,
the UTF-8 of strict strings included.

### CanonicalBytes and SchemaBuilder

`SchemaBuilder` runs field builders, one after another, and a schema builder
through every order of calls: a field can be added once, more often or never,
metadata goes to either in between, and each `finish` is given any limits. A
refused call changes nothing, except that a refused `finish` spends its builder.
`CanonicalBytes` has the `append_` functions, byte by byte, with metadata in the
order of `std::map`. The engine has no reader for these bytes; the one in this
module (`ReadSchema`) exists to show that there can be one, from which it follows
that different schemas have different bytes. It has two operators for every part of
a schema, what stands after the first `p` bytes (`TextAt`, `FieldAt`, ...) and where
that ends (`TextEnd`, `FieldEnd`, ...).

### Words, Crc32c and FilePreamble

A word is the set of its one bits, so that XOR is a symmetric difference and the
codecs and the polynomial can have any width. `Crc32c` has the table, the loop over
it, and the loop over the instruction for wide words and for the bytes that are
left, and the choice between the two; what the instruction computes is modelled
from its documentation and external. `FilePreamble` stores a preamble written by
an engine of some version, damages it at most once (a burst of flipped bits, a
cut, bytes appended), and lets a client that accepted it feed the file to a hasher
in fragments, reset it, or make another one.

## 3. Runs

Deadlock is checked in every run except `block_builder`, where a finished builder
has nothing left to do.

| Run | Question | Properties |
|---|---|---|
| `budget_safety` | Is accounting exact and memory-safe in every interleaving? | `TypeOK` `UsedWithinCapacity` `Conservation` `NoTerminate` `NoDangling` `SubtreeWithinCapacity` |
| `budget_ledger` | Do the calls behave as an atomic ledger? | `LedgerSpec` |
| `budget_drains` | Does everything come back once threads only leave scopes? | `Drains` |
| `budget_final_handle` | Does the last handle give a child's capacity back, as documented? | `FinalHandleReleases` (violated) |
| `byte_read` | Do exact reads read exactly, resume, end and obey cancellation? | `TypeOK` `ReadsExactly` `ResumesAtPosition` `EndIsReal` `CancelStops` `Terminates` |
| `byte_write` | The same for complete writes | `TypeOK` `WritesExactly` `StoresPrefix` `LimitIsReal` `CancelStops` `Terminates` |
| `file_bound` | Does the file sink keep its maximum size, as documented? | `FileBounded` (violated) |
| `record_stream` | Does a reader of a faulty store get exactly a prefix? | `TypeOK` `AcceptsPrefix` `NothingMandatorySkipped` `NextRecordReadable` `ErrorsNameTheCause` `LengthsFit` |
| `column_builders` | Can any order of builder calls publish a malformed column? | `BuildersTypeOK` `NullCountExact` `BitmapFaithful` `ColumnWellFormed` |
| `block_builder` | Does `finish` accept exactly the sound blocks? | `TypeOK` `FinishIsExact` `EveryValueServed` |
| `schema_builder` | Is exactly the sound schema published, and do its bytes identify it? | `FinishIsExact` `CanonicalIdentifies` `FieldsServed` `Utf8IsExact` |
| `preamble` | Is every damage named as such, and a checksum a function of the bytes? | `ChecksumOfWhole` `DamageIsNamed` `VersionsReadBack` |

Distinct states: `budget_safety` 421,950, `budget_ledger` 25,474, `budget_drains`
101,446, `byte_read` 110,619, `byte_write` 853,028, `record_stream` 34,807,
`column_builders` 114,912, `block_builder` 163,605, `schema_builder` 84,730,
`preamble` 14,166; each run takes less than two minutes with two workers.

In `byte_write`, `TypeOK` includes that a memory sink never holds more than its
maximum, since that is what its type promises; in `block_builder`, `FinishIsExact`
compares the list of checks with one statement of what a sound block is, limits
included.

### Bounds, and why they are enough

* Budgets: two threads, three budgets, two reservations, up to two units
  (`budget_safety`). Three budgets give a chain of three, in which one release
  starts a cascade of two destructors, and a parent with two siblings. Two
  reservations are what a move needs. Two units make one request fit and the
  next one not. `budget_ledger` and `budget_drains` use one unit,
  `budget_drains` also one reservation: order of calls, not amounts, is their
  subject. Threads, addresses and reservations are interchangeable, so the safety
  runs use symmetry; the liveness run does not. The proofs below are for all
  sizes.
* Byte reads: three bytes, at most two per read and three wanted, seeks to one
  past the end: a call takes several iterations, crosses the end or stops at it,
  and the next call starts anywhere.
* Byte writes: payloads up to three bytes against a sink of two and a disk of
  three, so that each limit bites first in some behaviour; two tags tell the
  bytes of one call from those of an earlier one.
* Records: a word that counts to two: three records, of which the last has the
  last sequence number; lengths and sums that overflow; an extension and a payload
  of the same byte, which have the same payload checksum, and a payload of
  another byte.
* Columns: bytes of two bits; three rows cross a byte boundary, five rows are too
  many to size in a word that ends at five.
* Blocks: blocks of two rows, two fields, columns whose sizes, offsets, bytes and
  validity are right in some and wrong in others, six limit sets, among them ones
  that are exact and ones that are inconsistent. The invariant `FinishIsExact`
  looks at every limit set in every state in which `finish` can be called.
* Schemas: three sound fields, of which two pairs clash, and four unsound ones;
  three additions, one entry of metadata per field, keys of both sound and of five
  unsound sorts, five limit sets of which some are reached in the middle of the
  sum. `Utf8IsExact` looks at texts of all leading and trailing bytes at which the
  standard draws a line, and at both sides of each, up to four bytes.
* Preamble: bytes of two bits, checksums of four bits with the polynomial
  x^4 + x + 1, wide words of three bytes, so that the preamble has two wide words
  and two bytes left over. All bursts no longer than the checksum are tried, which
  is what a CRC promises; longer ones may pass any CRC of that length. The
  algorithms do not depend on the widths.

### Fairness

* `budget_drains`: weak fairness of `Continue(t)`, the operating system runs
  every thread, and a mutex held by a thread that runs is given up; and of
  `ScopeExit(t)`, C++ scopes end, so destructors of handles and reservations run.
  Nothing is assumed of new requests: `Drains` says what follows if they cease.
  Weak fairness suffices because once no new work begins a thread waiting for a
  mutex can be passed over only finitely often.
* `byte_read`, `byte_write`: weak fairness of `Loop`, the calling thread runs.
  No plugin is assumed to make progress: the loops end because they refuse an
  iteration without any.
* The other runs check safety only.

### Two disagreements

* `docs/resource-governance.md:49-50`: "Destroying the final child handle releases
  that parent capacity." In the code (`resource.cpp:18`) the capacity goes back in
  the destructor of the shared state, which every reservation and every grandchild
  owns as well: with one of them outstanding nothing goes back. TLC's trace
  (`budget_final_handle`): create a root and a child, reserve from the child,
  drop the child's handle. `SubtreeWithinCapacity` and `LedgerSpec` show why
  the code is the sound side of this.
* `docs/byte-io.md:18-19`: adapters "enforce per-operation and total-size bounds".
  `FileByteSink::write` (`file_io.cpp:312`) returns on a failed `fwrite` before it
  counts the bytes that were stored, while the stdio stream has moved past them. A
  following write without a seek computes its room from the stale position, and
  the file ends up longer than `maximum_size` (`file_bound`). `WritesExactly` and
  `StoresPrefix` say what still holds: what is stored is where the helpers say
  unless a transfer failed and no `seek` has repaired the position since. The source
  side counts first (`file_io.cpp:158`), and has no such state.

Two more sentences differ from the code in a way no run can refute:
`docs/data-model.md:18-20` calls identity a matter of properties relevant to
interpretation, while the canonical bytes hold all metadata, in a field and in the
schema; `docs/data-model.md:248` lists a limit on the number of keys, of which
`finish` has none but the total of bytes.

## 4. Proofs

Each theorem holds for every value of the constants that satisfies the named
assumption of its model, and states a property some run checks:

| Module | Theorem | Property |
|---|---|---|
| `ResourceBudgetProofs` | `TypeCorrect` | `TypeOK` |
| | `CapacityRespected` | `UsedWithinCapacity`: `capacity - used` never wraps |
| | `AccountingExact` | `Conservation`: `used` is the sum of what is outstanding |
| | `TerminateUnreachable` | `NoTerminate`: no `std::terminate()` call is reached |
| | `NothingDangles` | `NoDangling`: no reference to a freed state |
| | `HierarchyWithinCapacity` | `SubtreeWithinCapacity` |
| | `LedgerImplemented` | `LedgerSpec`: `Spec` implements `BudgetLedger` |
| `ByteReadProofs` | `TypeCorrect`, `ExactReads`, `Resumable`, `EndAlwaysReal`, `CancelledReadsStop` | `TypeOK`, `ReadsExactly`, `ResumesAtPosition`, `EndIsReal`, `CancelStops` |
| `ByteWriteProofs` | `TypeCorrect`, `ExactWrites`, `PrefixStored`, `LimitAlwaysReal`, `CancelledWritesStop` | `TypeOK`, `WritesExactly`, `StoresPrefix`, `LimitIsReal`, `CancelStops` |
| `RecordStreamProofs` | `TypeCorrect`, `AcceptedIsPrefix`, `NothingSkipped`, `AlwaysReadable`, `CauseAlwaysNamed`, `LengthsAlwaysFit` | `TypeOK`, `AcceptsPrefix`, `NothingMandatorySkipped`, `NextRecordReadable`, `ErrorsNameTheCause`, `LengthsFit` |
| `ColumnProofs` | `BuildersTypeCorrect`, `NullsCounted`, `BitmapAlwaysFaithful`, `ColumnsWellFormed` | `BuildersTypeOK`, `NullCountExact`, `BitmapFaithful`, `ColumnWellFormed`, |
| | `TypeCorrect`, `ValuesServed` | `TypeOK`, `EveryValueServed` |
| | `FinishExact` | `FinishIsExact`: what `finish` accepts is exactly what is sound |
| `SchemaBuilderProofs` | `FinishSchemaExact` | `FinishIsExact`: of both `finish` functions |
| | `SchemaServed`, `TextsUtf8` | `FieldsServed`, `Utf8IsExact` |
| | `CanonicalReadsBack` | `CanonicalIdentifies`: the canonical bytes can be read back |
| `FilePreambleProofs` | `ChecksumAlwaysOfWhole`, `VersionsAlwaysReadBack`, `DamageAlwaysNamed` | `ChecksumOfWhole`, `VersionsReadBack`, `DamageIsNamed` |

Two more theorems state no property of a run: `Utf8Exact` (`CommonLemmas`), that
`ValidUtf8` and `WellFormed` agree on every text, and `BuildersHold`
(`SchemaBuilderProofs`), the invariant of the schema builders.

Every proof has an invariant `IInv` of its own, which implies the property and is
inductive; there is one lemma per action and one step per conjunct the action can
disturb. `NextStep` or `NextIInv` assembles them.

### Assumptions

TLC evaluates all of them in every run.

* `BudgetAssumption`: budgets and reservations are finite and disjoint, `MaxUnits`
  is a natural number.
* `ByteReadAssumption`, `ByteWriteAssumption`: sizes are natural numbers and an
  adapter transfers at least one byte at a time if it transfers any; the engine's
  adapters refuse a configured maximum of zero.
* `WordAssumption`, `StorageAssumption`, `ByteAssumption`: words hold a natural
  number, bytes at least one bit.
* `RecordAssumption`: an extension and a payload fit the fields that hold their
  lengths, known and unknown types differ, an envelope has a size.
* `ColumnAssumption`: row counts are numbers, and every type was made by
  `LogicalType::create` (its constructor is private).
* `BlockAssumption`: a schema has distinct field IDs, which is what `SchemaBuilder`
  checks; a column is a `PublishedColumn`, which is what `ColumnsWellFormed` proves of
  every column a builder publishes; its offsets and bytes may be anything, but a
  buffer is in memory, so that its bits can be counted in a word (a buffer of more
  than 2^61 bytes cannot be allocated); the limit on decoded bytes is a word
  (`std::uint64_t`).
* `WidthAssumption`: a word has at most eight bytes, which is what lengths are written
  in, and holds every number of two.
* `SchemaAssumption`: texts are bytes; IDs and the limit on the number of fields are
  `Word32` (`std::uint32_t`), the limit on metadata is a word (`std::uint64_t`);
  the parameters of a type are one alternative of `LogicalTypeParameters` with its
  numbers; and the engine's own prefix is a namespace with the slash that ends it.
* `CrcAssumption`: the polynomial has its highest term and fits the checksum;
  `PreambleAssumption`: the versions a preamble stores fit its fields.
* In all of them, `None` is none of the values it stands beside.

### Budgets

The three properties one wants are not inductive by themselves:

* `NoTerminate` needs `Conservation`: a release cannot find less charged than it
  gives back, because what it holds is part of the sum (`HeldBound`).
* `Conservation` needs to know who holds what while calls are under way.
  `Released` and `Refunded` mark a holder that has given back but still points at
  the budget; `Exclusive` says that no two calls work on the same reservation, new
  child or dying state, so nothing is given back twice.
* `UsedWithinCapacity` needs `StillFits`: what was checked under the lock is true
  when the charge is made, which needs `MutexInv`: the holder of a mutex is the
  thread in its critical section, and the only one.
* All of them need `Lifetimes`: owners keep states alive, a dying state has no
  owner left, a new child is known to its creator only, a freed state is blank
  (its address can be reused), and `CallShape`: what the locals of a call refer to
  at each of its points.

`Total`, the sum over all holders, is the cardinality of a set of single units,
so that it can be reasoned about with the library's theorems on finite sets and
no recursion: `TotalUpdate` says that changing one holder changes the sum by the
difference, `HeldChange` turns that into the preservation of `Conservation`, and
`HeldFrame` covers the steps that leave holdings alone.

*The ledger.* `NextRefines` goes through the steps one by one. Six of them are
operations of the ledger (charging a reservation or a child, creating a root,
debiting, moving, closing an account), all others leave the books alone. What a
step means there depends on what it is the last owner of: dropping a handle, a
reservation or a parent reference closes a root, while a child stays on the books
until its refund. `Funded` adds to `IInv` what the ledger knows and the code keeps
only implicitly: a child's capacity is what its parent was charged for it.

*The hierarchy.* `Conservation` speaks of one budget. That no subtree holds more
than its root has granted needs no induction over its depth: the units charged to
the budgets of a subtree are either held by reservations or are the units of a
child in it, every budget but the root is the child of another one in it, and
uses no more than it was charged for. Counting all units of the subtree once per
budget and once per holder (`SubtreeWithinUsed`) leaves the root's.

### Byte I/O

`IInv` ties together the four places the progress of a call is kept in: the
loop's counter, the adapter's position, the stream's position and what has been
stored. `Counted` says by how much they differ at every point of an iteration,
in particular between a transfer and the test of what it reports, where a plugin may
report nonsense. `Filled` (reads) and `Placed` (writes) say where each byte is.
For writes, `Standing` says that the stream of a file sink is where the adapter
thinks it is, unless a transfer has failed; the exception in `WritesExactly` and
`StoresPrefix` is exactly this, and the violated run `file_bound` shows that it is
needed.

The docs promise a check before mutation (`docs/byte-io.md:13`), and no more can
be promised, for the check and what follows it are not one step. `CancelStops`
says what the checks together achieve: whenever the request comes, at most the
operation then under way takes effect. `Sparing` is what makes it inductive: a cancelled call is
past the adapter's look only if the request came after that look, or after a plugin
was called; then `spared` counts the operation, and nothing has been late yet. With a
plugin that never looks at the token it is the loop's own look, in every iteration, that
stops the call; the mutant looks only before the first.

### Records

`Framed` says of every stored record that its checksums are those of its fields
and its content, and that its lengths are true or are the pair of lengths a writer
that overstates them would declare; `HeldIsOriginal` says that what
`verify_record` let through is a stored record, unaltered. The work is in
`VerifiedIsOriginal`, fault by fault: one in a field no longer agrees with the
envelope checksum, and other content has another payload checksum or another
boundary between its two parts, which the lengths notice (`SameDivision`).
`FirstErrorNone` and `FirstErrorFails` (`CommonLemmas`) say what an ordered list of checks answers.

### Columns and blocks

`ColumnBuilders`: `BitsSaid` relates the bits set so far to the rows appended so
far, `OutBuilt` what was given away to all of them. `ColumnWellFormed` is part of the
invariant: a builder is spent before it publishes and never while a component is
missing, so what it published is still what is set. `CountIsExact` counts rows with
the library's theorems on cardinality. `WidthTellsStorage` goes through the
twenty kinds.

What a block asks of its columns and what the builders give are the same
definition, `PublishedColumn`: `BlockAssumption` supposes it, `ColumnsWellFormed` proves
it, so that the two halves of `ColumnProofs` fit together (`ColumnGiven`).

`BlockBuilder`: `FinishExact` compares the list of checks with `Acceptable`, in which
there are no checks, no order and no running total. For each kind of storage a
lemma says that its checks pass exactly for sound storage that still fits
(`FixedExact`, `BooleanExact`, `VariableExact`); the overflow tests can be dropped
from such a list because a sum that overflows is over the limit as well
(`AddDecodedExact`). Offsets that never descend and end with the payload are the same as
values that, put together, are the payload (`StepsExact`, `SpansLaid`,
`SpansAreThePayload`); what is sound UTF-8 is `Utf8Exact`'s matter. `ColumnsExact` then
goes through the fields: the running total, `Decoded`, is the number of bytes in the
columns before (`DecodedCounts`), as long as those have passed, and whichever column
fails first, some column is unsound or the sum is over the limit. `LaidOut`, what `finish`
leaves behind of a column of spans, follows from its soundness (`SoundLaidOut`) and is what
`ValuesServed` needs, with `BlockInOrder`: a block holds, in schema order, the columns
that were set by field ID, and no other can be set any more. The decoded bytes of all columns are counted as the members of one
set, so that neither side of the comparison is a sum in some order.

### UTF-8

`Utf8Exact` speaks of texts of any length, so it needs an induction over where the
validator stands. `CharacterStep` is its step: wherever the validator stands, it goes
on by a sequence it finds valid exactly if one of the standard's characters begins
there, and that character is the sequence. The standard's definition cuts a
text into characters in any way that works; `GreatestCut` and `WellFormedSplits` say
that a text can be cut at most where the validator cuts it.

### Schemas

`FinishSchemaExact` compares two lists of checks with `Acceptable`. The second list
goes through the fields, each compared with the fields before it and added to a total
that is compared with the limit at once. What such a list answers is what the list of one
field does (`FlattenFirst`), so nothing is said of a schema that is not true of one
of its fields, and what is true of a prefix is true of the whole (`TotalCounts`):
sizes only grow. `Counted` is the set of all bytes that count, each with its entry
and its field, so that a sum of lengths is a cardinality (`SumCounts`), nothing is
counted twice and nothing left out; keys are not empty, which keeps them apart from the
name (`FieldSizeCounts`). Because a limit is a word, a total past every word is over the
limit too.

The invariant says where fields come from: what `finish` publishes was made by
`NewField` with a type `create` let through, and has only keys `validate_key` let
through. `KeyIsQualified` goes through the first slash: a key that starts like the
reserved namespaces has the engine's own prefix, whose only slash is its last
byte, so the two slashes are the same one. A published schema has unique IDs, which
`BlockAssumption` supposes of the schemas of blocks.

`CanonicalReadsBack` follows the reader through the bytes. `Occurs(b, p, code)` says that
`code` stands in `b` after the first `p` bytes; for every part there is a lemma that the
reader, put there, finds that part and its end. The parts of a list stand one after the
other (`FlattenOccurs`, `Chain`), and the reader meets each where the one before ends.
A number is read back if it fits its bytes, and the limits see to it that all do:
what `finish` accepts has no more bytes of text than a word says and no more fields
than a `std::uint32_t` (`AcceptedFits`), so the cast of the number of fields loses
nothing. Parameters fit because `create` has validated them; a scale below zero is
written as that number plus 65536 and read back as such. Metadata needs one more
thing: that its keys have exactly one order, that of their bytes.

### Checksums and preambles

All of it rests on one operator, `Absorbs(state, bytes)`: the remainder when all bits of
the bytes are divided at once. Division is linear (`DivideXor`) and can be
interrupted (`DivideAdd`, `Absorb`), so absorbing a concatenation is absorbing its
parts one after the other (`AbsorbsConcat`). The table loop (`PortableIsAbsorbs`)
and the loop over wide words and the bytes left over (`HardwareIsAbsorbs`) absorb
what they are given, for every width; the invariant of a hasher is then that its
state is `Absorbs(Ones, fed)`.

A burst no longer than the checksum leaves a remainder (`BurstRemains`: the
polynomial has its highest term, so dividing never loses what fits the checksum), and
remainders of two contents differ by that of their difference; `BurstIsSeen` says
so for the covered bytes, the checksum itself and a burst across the boundary. With
`LittleEndianRoundTrip` and `FitsIff` this gives the properties of the preamble.

### Induction

The library's induction theorems take an operator, which the installed provers cannot
instantiate. Where a proof needs induction over a number it takes the least
counterexample instead (`LeastExists` from the well-foundedness of `<`, `AllOfThem`),
with the set of counterexamples written out. Folds are defined through a recursive
function inside the community modules; `PathExists` and `IterIsPath` say that such a
function exists and what its steps are.

### Only model-checked

The liveness properties `Drains` and `Terminates`: they rest on fairness, and TLAPS
has no rules for `ENABLED`. Every other property of a passing run has a theorem.

## 5. Not modelled, and why

* BLAKE3: an external library behind a thin wrapper.
* The fingerprint of a schema (`make_fingerprint`): two 64-bit multiplicative hashes of
  the canonical bytes. Nothing in the engine decides anything by it.
* CRC32C at its real width: only the algorithms are modelled, the 32-bit polynomial
  is a parameter; test vectors compare the back ends at that width.
* `checked_range` and `checked_cast`: nothing in the repository calls them yet
  but a test.
* `ByteBuffer` and `OffsetBuffer`: their copying and sharing constructors only
  validate and store; a buffer is a value. That a shared buffer is not written to
  is the duty of the caller (`docs/columns.md`).
* `BlockBuilder` takes its schemas from a set, all of them ones `SchemaBuilder`
  publishes, reduced to what blocks look at.
* stdio buffering, `flush`, `fclose`: the code claims no durability.
* Allocation failure of columns, buffers and bitmaps: throws or returns an
  error before there is an object. It is modelled where it leaves state behind: `create_child` and
  the growth of the memory sink.
* Texts of errors, of types and of digests, resource kinds: labels no decision
  depends on.
* Writer, reader, codecs, adaptive policy: no code yet.

## 6. Plan

Done: the models, in this order because concurrency is where tests reach least:
1. `ResourceBudget` and its ledger; 2. `ByteRead`, `ByteWrite`; 3. `RecordStream`;
4. `ColumnStorage`, `ColumnBuilders`; 5. `BlockBuilder`; 6. `LogicalTypes`,
`CanonicalBytes`, `SchemaBuilder`; 7. `Words`, `Crc32c`, `FilePreamble`. Then the
proofs of section 4.

Every safety property that a run checks is proved. What comes next is code that is not
there yet: writer, reader and codecs, for which `RecordStream`, `BlockBuilder` and
`FilePreamble` are the parts to compose.
