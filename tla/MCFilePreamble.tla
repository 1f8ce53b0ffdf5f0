--------------------------- MODULE MCFilePreamble ---------------------------
(* Bytes of two bits, checksums of two bytes, the polynomial x^4 + x + 1 and *)
(* wide words of three bytes; versions that differ in every bit of a byte.   *)
EXTENDS FilePreamble

MCPolynomial == {2, 3}
MCMagic      == <<{1}, {0}>>
One          == {0}
MCVersions   == {[major |-> m, minor |-> n] : m \in {One, {1}, {0, 3}}, n \in {{}, One, {1, 2, 3}}}
MCFollowing  == {<<{0, 1}>>}
=============================================================================
