----------------------------- MODULE MCLogRecord -----------------------------
(* LogRecord for calls that use every way of storing an argument.           *)
EXTENDS LogRecord, TLC

Spec_(t, width, prec) ==
    [terminal |-> t, long |-> FALSE, width |-> width, prec |-> prec,
     wFirst |-> TRUE]
Plain(t) == Spec_(t, 0, -1)
Long(t) == [Plain(t) EXCEPT !.long = TRUE]
WidthAndPrec == Spec_("s", DYNAMIC, DYNAMIC)
PrecAndWidth == [Spec_("d", DYNAMIC, DYNAMIC) EXCEPT !.wFirst = FALSE]

MCSizeOf == [t \in Type |-> IF t = "int" THEN 1 ELSE 2]

\* The call sites:
\*   strings:  "%s %ls" s, ws            stars:  "%*.*s %.**d" w, p, s, p, w, 7
\*   odd:      "%s%p%ls%*d" nullptr, s, s, 2.5, 7, the third %s an argument
\*             of the wrong type and the width no integer
\*   oversize: "%s%s" long, s
MCCall == {"strings", "stars", "odd", "oversize"}
MCSIs ==
    [strings  |-> <<Plain("s"), Long("s")>>,
     stars    |-> <<WidthAndPrec, PrecAndWidth>>,
     odd      |-> <<Plain("s"), Plain("p"), Long("s"), Spec_("d", DYNAMIC, 1)>>,
     oversize |-> <<Plain("s"), Plain("s")>>]
MCTypes ==
    [strings  |-> <<"char*", "wchar_t*">>,
     stars    |-> <<"int", "int", "char*", "int", "double", "int">>,
     odd      |-> <<"nullptr_t", "char*", "char*", "double", "int", "int">>,
     oversize |-> <<"char*", "char*">>]
MCSeverity == [c \in MCCall |-> IF c = "strings" THEN 4 ELSE 1]

\* The second evaluation of the arguments may give either list of a call.
AB == <<"a", "b">>
MCValues ==
    [strings  |-> {<<<<>>, AB>>, <<AB, <<>>>>},
     stars    |-> {<<-3, 1, AB, 2, 5, 7>>, <<4, 1, <<>>, 2, 5, 7>>},
     odd      |-> {<<0, AB, AB, 2, 7, 0>>},
     oversize |-> {<<<<"a", "b", "c", "d", "e">>, <<"a">>>>}]
=============================================================================
