-------------------------------- MODULE Words -------------------------------
(***************************************************************************)
(* Machine words as the sets of their one bits, so that XOR and shifts are *)
(* operations on sets of any width, and the little-endian codecs of        *)
(* src/format/endian.hpp and endian.cpp.                                   *)
(***************************************************************************)
EXTENDS Integers, SequencesExt

CONSTANT ByteBits  \* bits in a byte

ASSUME ByteAssumption == ByteBits \in Nat \ {0}

Byte == SUBSET (0..(ByteBits - 1))

ShiftRight(word, n) == {bit - n : bit \in {b \in word : b >= n}}
ShiftLeft(word, n)  == {bit + n : bit \in word}
LowBits(word, n)    == word \cap 0..(n - 1)
Xor(v, w)           == SymDiff(v, w)

\* encode_u16_le and the like
LittleEndian(word, bytes) ==
  [k \in 1..bytes |-> LowBits(ShiftRight(word, ByteBits * (k - 1)), ByteBits)]

\* require_bytes
Truncated(bytes, required) == Len(bytes) < required

\* decode_u16_le and the like, of bytes that are not truncated
FromLittleEndian(bytes) ==
  UNION {ShiftLeft(bytes[k], ByteBits * (k - 1)) : k \in DOMAIN bytes}

=============================================================================
