--------------------------- MODULE MCRecordStream ---------------------------
(* Small values for RecordStream: one known and one unknown type, regions of *)
(* at most one byte, and a 64-bit word that counts to two.                   *)
EXTENDS RecordStream

\* Two have the same bytes and differ in where the payload begins.
MCContents == {<<<<>>, <<"a">>>>, <<<<"a">>, <<>>>>, <<<<>>, <<"b">>>>}

\* A reader that wants no extension, and one that sets no limit at all
MCLimits == {[extension |-> 0, payload |-> 1],
             [extension |-> MaxExtension, payload |-> MaxWord]}
=============================================================================
