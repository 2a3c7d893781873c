------------------------------ MODULE MCLogTime ------------------------------
(* Seconds of a thousand nanoseconds, of which the specifiers show one, two *)
(* or three digits; expansions shorter and longer than strftime's first     *)
(* buffer and than the line's, and one that is empty.                       *)
EXTENDS LogTime, SequencesExt

CONSTANT MaxNs  \* latest time

\* H has one length, B is a name that is longer in some seconds, p expands to
\* nothing, as in locales without a.m. and p.m.
MCPiece == {"H", "B", "p"}

Expansion(piece, s) ==
    [k \in 1..(CASE piece = "H" -> 1 [] piece = "B" -> 1 + 2 * (s % 2) [] piece = "p" -> 0)
        |-> <<piece, s, k>>]

MCstrftime(part, s) == FlattenSeq([k \in 1..Len(part) |-> Expansion(part[k], s)])

MCFormats == { <<"H", "B", Qus>>, <<"H", Qms, "B">>, <<Qns, "B", "p">>,
               <<"H">>, <<"p", Qus>>, <<Qms, "B", Qms>>, <<Qns, "H", Qms>> }

MCTimestamps == 0..MaxNs
MCSeconds    == 0..(MaxNs \div SECOND)
MCScale == [q \in Specifier |-> CASE q = Qms -> 100 [] q = Qus -> 10 [] q = Qns -> 1]
MCWidth == [q \in Specifier |-> CASE q = Qms -> 1 [] q = Qus -> 2 [] q = Qns -> 3]
==============================================================================
