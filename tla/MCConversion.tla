----------------------------- MODULE MCConversion -----------------------------
(* Types of 8, 16 and 20 bits: three table lookups in base 10 and in base   *)
(* 16, and the least and largest values of every type.  Floating point with *)
(* a default precision of two digits and a MAXFRACT of three or four.       *)
EXTENDS Conversion

MCBits == [hh |-> 8, none |-> 16, j |-> MaxBits]

MCMAXFRACT == [f |-> 4, e |-> 3]

Values == {0, 1, 9, 10, 63, 64, 99, 100, 127, 128, 255, 256, 9999, 10000,
           32767, 32768, 65535, 65536, 524287, 524288, 1048575,
           -1, -128, -129, -32768, -32769, -524288}

\* 0.5, 2.5, 9.5 and 99.5 tie; 9.96, 0.99995 and 0.000095 round to another
\* exponent; the last one is long in %.6g.
Floats ==
    { Finite(s, v[1], v[2]) : s \in BOOLEAN,
        v \in { <<0, 0>>, <<5, 1>>, <<25, 1>>, <<95, 1>>, <<995, 1>>, <<100, 0>>,
                <<12, 5>>, <<95, 6>>, <<99995, 5>>, <<996, 2>>, <<123456, 10>> } }
    \cup { Infinite(TRUE), Infinite(FALSE), NaN }

Flags == SUBSET {"-", "0", "#"}

Specs(terminals, signs, lengths, precs) ==
    [flags : Flags, sign : signs, length : lengths, terminal : terminals,
     width : {0, 5, 8, DYNAMIC_WIDTH}, prec : precs]

\* '#' means nothing to d, u, c, s and p, a sign nothing to u, o, x, c, s and p,
\* 0 nothing to c and s.
IntegerSpecs ==
    { s \in Specs(IntegerTerminal, {"", "+"}, DOMAIN MCBits, {-1, 0, 4, 7, DYNAMIC_PRECISION}) :
        /\ s.terminal \in {"d", "u"} => "#" \notin s.flags
        /\ s.terminal # "d" => s.sign = "" }

FloatSpecs == Specs(FloatTerminal, {"", "+"}, {"none"}, {-1, 0, 6, DYNAMIC_PRECISION})

TextSpecs ==
    { s \in Specs({"c", "s", "p"}, {""}, {"none"}, {-1, 0, 4, DYNAMIC_PRECISION}) :
        /\ "#" \notin s.flags
        /\ s.terminal # "p" => "0" \notin s.flags }

Strings == { Text(<<>>, 1), Text(<<"a", "b", "c">>, 4095),
             Text(<<"a", "b", "c", "d", "e", "f">>, 65536) }

MCCalls ==
    (IntegerSpecs \X { Integer(v) : v \in Values })
    \cup (FloatSpecs \X Floats)
    \cup (TextSpecs \X (Strings \cup { Integer(65), Integer(-1), Null, Pointer(0),
                                       Pointer(255), Pointer(1048575),
                                       Finite(FALSE, 659, 1), Finite(TRUE, 995, 1) }))
    \cup { call \in (IntegerSpecs \cup FloatSpecs) \X
                        { Text(<<"a">>, 8), Null, Integer(1), Finite(FALSE, 1, 0) } :
             ~Convertible(call[1], call[2]) }

MCWidths     == {-7, 6}
MCPrecisions == {-3, 5}
==============================================================================
