----------------------------- MODULE FilePreamble ---------------------------
(***************************************************************************)
(* The file preamble (src/format/preamble.cpp) and a hasher over the file. *)
(*                                                                         *)
(* A file begins with the preamble some version of the engine has written. *)
(* It is stored, followed by other bytes or not, and may be hit by a burst *)
(* of flipped bits or cut off; a reader may parse it at any time.  A       *)
(* client that has parsed it computes a checksum of the file, in whatever  *)
(* fragments it reads, on a machine with or without the instructions.      *)
(***************************************************************************)
EXTENDS Crc32c, Checks, FiniteSets

CONSTANTS
  Magic,         \* the first bytes of every file
  VersionBytes,  \* bytes of a version number
  CurrentMajor,  \* current_format_major
  Versions,      \* [major, minor] of the engines that write files
  Following,     \* what may come after a preamble
  None

\* Versions are of the width they are written in.
ASSUME PreambleAssumption ==
  /\ Magic \in Seq(Byte) /\ VersionBytes \in Nat /\ Following \subseteq Seq(Byte)
  /\ \A v \in Versions : /\ v.major \subseteq 0..(ByteBits * VersionBytes - 1)
                         /\ v.minor \subseteq 0..(ByteBits * VersionBytes - 1)

VARIABLES
  version,    \* of the engine that wrote the file
  written,    \* its preamble as it was written
  file,       \* its bytes as they are now
  available,  \* x86_crc32c_available()
  hasher,     \* the Crc32cHasher in use, None before the first
  fed         \* the bytes it was given since it was made or reset

vars == <<version, written, file, available, hasher, fed>>

-----------------------------------------------------------------------------
(* Encoding and parsing.                                                    *)

ChecksumOf(bytes) == Finalize(Updated(Hasher("portable", FALSE), bytes))

Covered == Len(Magic) + 2 * VersionBytes
PreambleSize == Covered + CrcBytes

\* encode_file_preamble
Encode(v) ==
  LET head == Magic \o LittleEndian(v.major, VersionBytes) \o LittleEndian(v.minor, VersionBytes)
  IN head \o LittleEndian(ChecksumOf(head), CrcBytes)

Number(bytes, offset, n) == FromLittleEndian(SubSeq(bytes, offset + 1, offset + n))

Parsed(bytes) ==
  [major    |-> Number(bytes, Len(Magic), VersionBytes),
   minor    |-> Number(bytes, Len(Magic) + VersionBytes, VersionBytes),
   checksum |-> Number(bytes, Covered, CrcBytes)]

\* Mutant: a minor version it does not know is refused.
IsExactlyCurrent(preamble) == preamble.major = CurrentMajor /\ preamble.minor = {}

IsCurrent(preamble) == preamble.major = CurrentMajor

ChecksumFits(bytes) == ChecksumOf(SubSeq(bytes, 1, Covered)) = Parsed(bytes).checksum

\* Mutant: the version is looked at before the checksum.
VersionFirst(bytes) ==
  FirstError(IF Truncated(bytes, PreambleSize) THEN <<Check(TRUE, "unexpected_end")>> ELSE
    <<Check(~IsPrefix(Magic, bytes),           "invalid_magic"),
      Check(~IsCurrent(Parsed(bytes)),         "unsupported_format_version"),
      Check(~ChecksumFits(bytes),              "checksum_mismatch")>>)

\* parse_file_preamble
ParseError(bytes) ==
  FirstError(IF Truncated(bytes, PreambleSize) THEN <<Check(TRUE, "unexpected_end")>> ELSE
    <<Check(~IsPrefix(Magic, bytes),           "invalid_magic"),
      Check(~ChecksumFits(bytes),              "checksum_mismatch"),
      Check(~IsCurrent(Parsed(bytes)),         "unsupported_format_version")>>)

-----------------------------------------------------------------------------
(* What may become of the file.                                             *)

\* Sets of bits no further apart than a checksum is long
Bursts ==
  {burst \in UNION {SUBSET (i..(i + CrcBits - 1)) : i \in 0..(PreambleSize * ByteBits - 1)} :
     burst # {} /\ burst \subseteq 0..(PreambleSize * ByteBits - 1)}

Damage(burst) ==
  /\ file = written
  /\ file' = LittleEndian(Xor(FromLittleEndian(file), burst), PreambleSize)
  /\ UNCHANGED <<version, written, available, hasher, fed>>

\* A file has one fault.
Truncate(length) ==
  /\ file = written
  /\ length < Len(file)
  /\ file' = SubSeq(file, 1, length)
  /\ UNCHANGED <<version, written, available, hasher, fed>>

AppendTo(bytes) ==
  /\ file = written
  /\ file' = file \o bytes
  /\ UNCHANGED <<version, written, available, hasher, fed>>

-----------------------------------------------------------------------------
(* A hasher.                                                                *)

NewHasher(mode) ==
  /\ hasher' = Hasher(mode, available)
  /\ fed' = <<>>
  /\ UNCHANGED <<version, written, file, available>>

\* The next n bytes of a file that parses, perhaps none
Feed(n) ==
  /\ hasher # None
  /\ ParseError(file) = "none"
  /\ Len(fed) + n <= Len(file)
  /\ LET fragment == SubSeq(file, Len(fed) + 1, Len(fed) + n)
     IN hasher' = Updated(hasher, fragment) /\ fed' = fed \o fragment
  /\ UNCHANGED <<version, written, file, available>>

Reset ==
  /\ hasher # None
  /\ hasher' = [hasher EXCEPT !.state = Ones]
  /\ fed' = <<>>
  /\ UNCHANGED <<version, written, file, available>>

-----------------------------------------------------------------------------

Init ==
  /\ version \in Versions
  /\ written = Encode(version)
  /\ file = written
  /\ available \in BOOLEAN
  /\ hasher = None
  /\ fed = <<>>

Next ==
  \/ \E burst \in Bursts : Damage(burst)
  \/ \E length \in 0..Len(file) : Truncate(length)
  \/ \E bytes \in Following : AppendTo(bytes)
  \/ \E mode \in {"automatic", "portable"} : NewHasher(mode)
  \/ \E n \in 0..Len(file) : Feed(n)
  \/ Reset

Spec == Init /\ [][Next]_vars

-----------------------------------------------------------------------------
(* Properties.                                                             *)

\* The checksum of bytes: what is left of all their bits, as one number, when
\* they are divided at once
LongDivision(bytes) ==
  Xor(Ones, Divide(Xor(Ones, FromLittleEndian(bytes)), Len(bytes) * ByteBits))

\* A checksum does not depend on how the bytes were cut up, on the machine or
\* the mode, or on what a hasher did before it was reset: it is always that of
\* the bytes fed, read as one number.
ChecksumOfWhole == hasher # None => Finalize(hasher) = LongDivision(fed)

IsIntact == IsPrefix(written, file)

\* A preamble that was cut off or hit by a burst never parses, and is never
\* taken for one that only has another version, even when it is the version
\* that was hit (docs/format-primitives.md).
DamageIsNamed ==
  ~IsIntact =>
    IF Len(file) < PreambleSize THEN ParseError(file) = "unexpected_end"
    ELSE ParseError(file) \in {"invalid_magic", "checksum_mismatch"}

\* What an engine wrote is read back by every engine of the same major
\* version, whatever its minor version is and whatever follows it, and by no
\* other.
VersionsReadBack ==
  IsIntact =>
    /\ ParseError(file) = IF version.major = CurrentMajor THEN "none"
                          ELSE "unsupported_format_version"
    /\ Parsed(file).major = version.major /\ Parsed(file).minor = version.minor

=============================================================================
