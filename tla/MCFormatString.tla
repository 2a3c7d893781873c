---------------------------- MODULE MCFormatString ----------------------------
(* FormatString on every short string of the characters that matter.       *)
EXTENDS FormatString

CONSTANTS MixedLength, StarsLength

\* One character of each kind, "0" being both a flag and a digit.
Mixed == {"%", "0", "5", ".", "*", "l", " ", "+", "d", "k"}

\* What decides on the arguments that are taken, in longer strings.
Stars == {"%", ".", "*", "d"}

Strings(alphabet, length) == UNION {[1..n -> alphabet] : n \in 0..length}
MCFormats == Strings(Mixed, MixedLength) \cup Strings(Stars, StarsLength)
=============================================================================
