-------------------------------- MODULE Utf8 --------------------------------
(***************************************************************************)
(* valid_utf8 (src/schema.cpp), which decides what may be a field name or  *)
(* a metadata key.  A text is a sequence of bytes, a byte a number to 255. *)
(***************************************************************************)
EXTENDS Integers, Sequences, FiniteSets

\* Bytes of the sequence a byte starts; 0 if it starts none
SequenceBytes(first) ==
  CASE first \in 0..127                      -> 1
    [] first \in 192..223                    -> 2
    [] first \in 224..239                    -> 3
    [] first \in 240..247                    -> 4
    [] first \in (128..191) \cup (248..255)  -> 0

IsContinuation(byte) == byte \in 128..191

\* What the payload bits of the n bytes from i on spell
Codepoint(text, i, n) ==
  LET bits(k) == text[i + k] - 128
  IN CASE n = 1 -> text[i]
       [] n = 2 -> (text[i] - 192) * 64 + bits(1)
       [] n = 3 -> (text[i] - 224) * 4096 + bits(1) * 64 + bits(2)
       [] n = 4 -> (text[i] - 240) * 262144 + bits(1) * 4096 + bits(2) * 64 + bits(3)

\* Mutant: three-byte forms of what fits in two are let through.
NotShortest(codepoint, n) == (n = 2 /\ codepoint < 128) \/ (n = 4 /\ codepoint < 65536)

Overlong(codepoint, n) ==
  \/ n = 2 /\ codepoint < 128
  \/ n = 3 /\ codepoint < 2048
  \/ n = 4 /\ codepoint < 65536

ValidSequence(text, i, n) ==
  /\ n # 0
  /\ i + n - 1 <= Len(text)
  /\ \A k \in 1..(n - 1) : IsContinuation(text[i + k])
  /\ LET c == Codepoint(text, i, n)
     IN ~Overlong(c, n) /\ c <= 1114111 /\ c \notin 55296..57343

ValidUtf8(text) ==
  LET validFrom[i \in 1..(Len(text) + 1)] ==
        i = Len(text) + 1 \/ LET n == SequenceBytes(text[i])
                             IN ValidSequence(text, i, n) /\ validFrom[i + n]
  IN validFrom[1]

-----------------------------------------------------------------------------
(* The reference: the well-formed byte sequences of the Unicode standard,   *)
(* byte range by byte range (its table 3-7).                                *)

Trail == 128..191

WellFormedSequences ==
  {<<0..127>>, <<194..223, Trail>>,
   <<{224}, 160..191, Trail>>, <<225..236, Trail, Trail>>, <<{237}, 128..159, Trail>>,
   <<238..239, Trail, Trail>>,
   <<{240}, 144..191, Trail, Trail>>, <<241..243, Trail, Trail, Trail>>,
   <<{244}, 128..143, Trail, Trail>>}

IsOneCharacter(text) ==
  \E form \in WellFormedSequences :
    Len(form) = Len(text) /\ \A k \in DOMAIN form : text[k] \in form[k]

\* Some set of cuts splits the text into characters.
WellFormed(text) ==
  \E ends \in SUBSET (1..Len(text)) :
    /\ text # <<>> => Len(text) \in ends
    /\ \A e \in ends :
         LET before == {d \in ends : d < e} \cup {0}
             start  == CHOOSE d \in before : \A b \in before : b <= d
         IN IsOneCharacter(SubSeq(text, start + 1, e))

=============================================================================
