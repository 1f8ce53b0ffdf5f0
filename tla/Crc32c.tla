------------------------------- MODULE Crc32c -------------------------------
(***************************************************************************)
(* CRC32C (src/integrity.cpp, src/crc32c_x86.cpp): a hasher that is fed in *)
(* fragments and works on them with a table, byte by byte, or with the     *)
(* processor's instructions, a wide word at a time and then the rest.      *)
(***************************************************************************)
EXTENDS Words

CONSTANTS
  CrcBytes,    \* bytes of a checksum
  Polynomial,  \* reflected: the bit of the highest power is left out
  WideBytes    \* bytes the wide instruction takes

CrcBits == CrcBytes * ByteBits
Ones    == 0..(CrcBits - 1)

ASSUME CrcAssumption == /\ CrcBytes \in Nat \ {0} /\ WideBytes \in Nat \ {0}
                        /\ Polynomial \subseteq Ones /\ CrcBits - 1 \in Polynomial

\* One bit of the division
DivideBit(remainder) ==
  IF 0 \in remainder THEN Xor(ShiftRight(remainder, 1), Polynomial)
  ELSE ShiftRight(remainder, 1)

Divide(word, bits) == FoldLeft(LAMBDA r, i : DivideBit(r), word, [i \in 1..bits |-> i])

\* make_crc32c_table
Table == [byte \in Byte |-> Divide(byte, ByteBits)]

\* portable_crc32c_update
PortableUpdate(state, bytes) ==
  FoldLeft(LAMBDA s, byte : Xor(Table[LowBits(Xor(s, byte), ByteBits)], ShiftRight(s, ByteBits)),
           state, bytes)

\* _mm_crc32_u8 and _mm_crc32_u64
Instruction(state, word, bytes) == Divide(Xor(state, word), bytes * ByteBits)

WideWords(bytes) ==
  [k \in 1..(Len(bytes) \div WideBytes) |->
     FromLittleEndian(SubSeq(bytes, WideBytes * (k - 1) + 1, WideBytes * k))]

\* Bytes after the last wide word
Rest(bytes) == SubSeq(bytes, WideBytes * (Len(bytes) \div WideBytes) + 1, Len(bytes))

\* Mutant: a last word is filled up with zeros.
PaddedUpdate(state, bytes) ==
  LET wide == FoldLeft(LAMBDA s, w : Instruction(s, w, WideBytes), state, WideWords(bytes))
  IN IF Rest(bytes) = <<>> THEN wide
     ELSE Instruction(wide, FromLittleEndian(Rest(bytes)), WideBytes)

\* x86_crc32c_update
HardwareUpdate(state, bytes) ==
  LET wide == FoldLeft(LAMBDA s, w : Instruction(s, w, WideBytes), state, WideWords(bytes))
  IN FoldLeft(LAMBDA s, byte : Instruction(s, byte, 1), wide, Rest(bytes))

\* Crc32cHasher
Hasher(mode, available) ==
  [state |-> Ones,
   implementation |-> IF mode = "automatic" /\ available THEN "hardware" ELSE "portable"]

Updated(hasher, bytes) ==
  [hasher EXCEPT !.state = IF hasher.implementation = "hardware"
                           THEN HardwareUpdate(@, bytes) ELSE PortableUpdate(@, bytes)]

Finalize(hasher) == Xor(hasher.state, Ones)

=============================================================================
