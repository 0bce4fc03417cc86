---------------------------- MODULE MCByteRingBuf ----------------------------
(***************************************************************************)
(* Four slots, three of which hold data, and blocks of up to five bytes:   *)
(* every position of the wrap, a block that fills the ring and one that    *)
(* exceeds it.                                                             *)
(***************************************************************************)
EXTENDS ByteRingBuf, SequencesExt

\* Strings to match: everything that fits, and one length that does not.
Strings == UNION {[1 .. n -> Byte] : n \in 1 .. Size}

\* endsWith(), with which the ESP port recognises an answer or an event, is
\* true exactly of the strings the newest bytes spell.
EndsWithIsSuffix == \A str \in Strings : endsWith(str) <=> IsSuffix(str, Items)

\* compare() tells a string at the start of the buffer, a string of which the
\* buffer holds only the start, and any other apart.
CompareIsPrefix ==
  \A str \in Strings :
    compare(str) = CASE IsPrefix(str, Items)                    -> "CMP_ALL_MATCH"
                     [] Items # <<>> /\ IsStrictPrefix(Items, str) -> "CMP_MATCH_PART"
                     [] OTHER                                   -> "CMP_NO_MATCH"
=============================================================================
