-------------------------- MODULE MCCircularBuffer --------------------------
(***************************************************************************)
(* A ring of three slots: every rotation of head and tail, every wrap and  *)
(* every overwrite happens within it.                                      *)
(***************************************************************************)
EXTENDS CircularBuffer, SequencesExt

\* Strings to match: everything that fits, and one length that does not.
Strings == UNION {[1 .. n -> Value] : n \in 0 .. Size + 1}

\* endsWith, as waitResponse() of the Arduino port uses it to recognise an
\* answer or an event, is true exactly of the strings the last characters
\* spell, however the window has wrapped.
EndsWithIsSuffix == \A str \in Strings : EndsWith(str) <=> IsSuffix(str, Items)
=============================================================================
