----------------------------- MODULE FormatString -----------------------------
(***************************************************************************)
(* The compile-time analysis of a printf format and the expansion that it  *)
(* drives (src/constexpr_fmt.h): CFMT_STR counts the valid specifications, *)
(* squeezes the invalid ones out of the text, describes each valid one by  *)
(* a SpecInfo, and converts the arguments one SpecInfo at a time.          *)
(*                                                                         *)
(* Positions count from 0 as in the code, and NUL ends the string.  An     *)
(* argument is its place in the argument list; what a conversion prints is *)
(* the record of what it was asked to print.                               *)
(*                                                                         *)
(* X_Fault above a definition X is X with a plausible bug, used only to    *)
(* show that the checked properties notice it.                             *)
(***************************************************************************)
EXTENDS Integers, Sequences, SequencesExt, FiniteSetsExt

CONSTANT
    Formats             \* the format strings of the program

Flag     == {"-", "+", " ", "#", "0"}
Length   == {"h", "l", "j", "z", "t", "L"}
DigitChar == <<"0", "1", "2", "3", "4", "5", "6", "7", "8", "9">>
Digit    == ToSet(DigitChar)
Terminal == {"d", "i", "u", "o", "x", "X", "f", "F", "e", "E", "g", "G",
             "a", "A", "c", "p", "s", "n"}
NUL      == "NUL"

toDigit == [c \in Digit |-> CHOOSE d \in 0..9 : DigitChar[d + 1] = c]
DYNAMIC == -2147483647 - 1      \* 0x80000000 as an int

ASSUME FormatAssumption == \A f \in Formats : f \in Seq(STRING \ {NUL})

VARIABLES
    fmt,            \* the format string, without its NUL
    num,            \* the SpecInfo to convert next
    nextArg,        \* the argument to convert next
    outbuf,         \* what has been written
    done

vars == <<fmt, num, nextArg, outbuf, done>>

N == Len(fmt) + 1
At(pos) == IF pos < Len(fmt) THEN fmt[pos + 1] ELSE NUL

-----------------------------------------------------------------------------
(* The scan that getOneSpec, countValidSpecInfos, squeezeSoundSize share    *)

Modifier == Flag \cup Digit \cup Length \cup {".", "*"}

NextPercent(pos) == Min({p \in pos..Len(fmt) : At(p) \in {"%", NUL}})
SkipModifiers(pos) == Min({p \in pos..Len(fmt) : At(p) \notin Modifier})

\* The loop they share, from one '%' to the next: where it goes on, the valid
\* specifications so far, and the bytes of the invalid ones, in all and before
\* each valid one (sizeOfInvalidSpecs).
Scan ==
    LET after[k \in 0..N] ==
            IF k = 0 THEN [pos |-> 0, valid |-> <<>>, invalid |-> 0]
            ELSE LET scan  == after[k - 1]
                     start == NextPercent(scan.pos)
                     stop  == SkipModifiers(start + 1)
                 IN  IF scan.pos = N \/ At(start) = NUL THEN scan
                     ELSE IF At(stop) \in Terminal
                     THEN [scan EXCEPT
                             !.pos = stop + 1,
                             !.valid = Append(@, [start |-> start, stop |-> stop,
                                                  invalid |-> scan.invalid])]
                     ELSE [scan EXCEPT !.pos = stop + 1,
                                       !.invalid = @ + (stop - start)]
    IN  after[N]

Valid == Scan.valid
InvalidSize == Scan.invalid

countValidSpecInfos == Len(Valid)

squeezeSoundSize == N - InvalidSize

\* storeOneChar: the n-th character of the squeezed string, and the bytes
\* left out of it so far.
storeOneChar(n, offset) ==
    LET stop == SkipModifiers(n + offset + 1)
        new  == IF At(n + offset) = "%" /\ At(stop) \notin Terminal
                THEN stop - n ELSE offset
    IN  IF n + offset < N THEN [char |-> At(n + new), offset |-> new]
        ELSE [char |-> NUL, offset |-> offset]

\* preprocessInvalidSpecs
kfmtArr ==
    LET store[i \in 0..N] ==
            storeOneChar(i, IF i = 0 THEN 0 ELSE store[i - 1].offset)
    IN  [i \in 0..(squeezeSoundSize - 1) |-> store[i].char]

kRTStr == IF squeezeSoundSize < N THEN kfmtArr
          ELSE [i \in 0..(N - 1) |-> At(i)]

-----------------------------------------------------------------------------
(* getOneSpec                                                              *)

NoSpec == [flags |-> {}, width |-> 0, prec |-> -1, sign |-> NUL,
           intWidth |-> "int", terminal |-> NUL, wFirst |-> TRUE]

\* The number that a sequence of digits is read as.
Decimal(digits) ==
    LET value[k \in 0..Len(digits)] ==
            IF k = 0 THEN 0 ELSE 10 * value[k - 1] + toDigit[digits[k]]
    IN  value[Len(digits)]

SkipDigits(pos) == Min({p \in pos..Len(fmt) : At(p) \notin Digit})
Number(pos) == Decimal(SubSeq(fmt, pos + 1, SkipDigits(pos)))

StarWidth_KeepsOrder(si) == [si EXCEPT !.width = DYNAMIC]
StarWidth(si) ==
    [si EXCEPT !.width = DYNAMIC,
               !.wFirst = @ /\ si.prec # DYNAMIC]

\* One turn of the switch: where it goes on, and what it has learnt.
Turn(pos, si) ==
    LET c == At(pos) IN
    CASE c = " " ->
           <<pos + 1, [si EXCEPT !.sign = IF @ = NUL THEN " " ELSE @]>>
      [] c = "+" -> <<pos + 1, [si EXCEPT !.sign = "+"]>>
      [] c \in {"#", "-", "0", "L"} ->
           <<pos + 1, [si EXCEPT !.flags = @ \cup {c}]>>
      [] c = "*" -> <<pos + 1, StarWidth(si)>>
      [] c = "." /\ At(pos + 1) = "*" ->
           <<pos + 2, [si EXCEPT !.prec = DYNAMIC,
                                 !.wFirst = @ \/ si.width = DYNAMIC]>>
      [] c = "." /\ At(pos + 1) # "*" ->
           <<SkipDigits(pos + 1), [si EXCEPT !.prec = Number(pos + 1)]>>
      [] c \in Digit \ {"0"} ->
           <<SkipDigits(pos), [si EXCEPT !.width = Number(pos)]>>
      [] c \in {"h", "l"} /\ At(pos + 1) = c ->
           <<pos + 2, [si EXCEPT !.intWidth = c \o c]>>
      [] c \in {"h", "l"} /\ At(pos + 1) # c ->
           <<pos + 1, [si EXCEPT !.intWidth = c]>>
      [] c \in {"j", "z", "t"} -> <<pos + 1, [si EXCEPT !.intWidth = c]>>
      [] c \in Terminal -> <<pos + 1, [si EXCEPT !.terminal = c]>>

\* All turns, from the character behind the '%' to the terminal.
Parse(start) ==
    LET after[k \in 0..N] ==
            IF k = 0 THEN <<start + 1, NoSpec>>
            ELSE LET before == after[k - 1]
                 IN  IF before[2].terminal # NUL THEN before
                     ELSE Turn(before[1], before[2])
    IN  after[N][2]

\* Where the text before the n-th valid specification begins and ends in
\* kRTStr (n counts from 0; the last SpecInfo describes the tail).
Begin_OfRawText(n) == IF n = 0 THEN 0 ELSE Valid[n].stop + 1
Begin(n) ==
    IF n = 0 THEN 0
    ELSE Valid[n].stop + 1 - Valid[n].invalid
TailEnd_WithNul == N - InvalidSize
TailEnd == Len(fmt) - InvalidSize
End(n) ==
    IF n < Len(Valid)
    THEN Valid[n + 1].start - Valid[n + 1].invalid
    ELSE TailEnd

getOneSpec(n) ==
    IF n < Len(Valid) THEN Parse(Valid[n + 1].start) ELSE NoSpec

\* countArgsRequired, over the SpecInfos of the whole format.
Required_WithoutPrecision(si) == IF si.width = DYNAMIC THEN 2 ELSE 1
Required(si) ==
    1 + (IF si.width = DYNAMIC THEN 1 ELSE 0)
      + (IF si.prec = DYNAMIC THEN 1 ELSE 0)
countArgsRequired ==
    LET count[n \in 0..Len(Valid)] ==
            IF n = 0 THEN 0 ELSE count[n - 1] + Required(getOneSpec(n - 1))
    IN  count[Len(Valid)]

-----------------------------------------------------------------------------
(* CFMT_STR                                                                *)

Init ==
    /\ fmt \in Formats
    /\ num = 0 /\ nextArg = 1 /\ outbuf = <<>> /\ done = FALSE

Text(n) ==
    [k \in 1..(End(n) - Begin(n)) |-> <<"text", kRTStr[Begin(n) + k - 1]>>]

Const(value) == <<"const", value>>
Arg(k) == <<"arg", k>>

\* A conversion: what is printed, and where its width and precision come from.
Conversion(si, width, prec, arg) ==
    <<"conversion",
      [flags |-> si.flags, sign |-> si.sign, intWidth |-> si.intWidth,
       terminal |-> si.terminal, width |-> width, prec |-> prec, arg |-> arg]>>

\* converter_impl, converter_args, converter_D_args, converter_D_D_args: take
\* one, two or three arguments off the front.
ConvertOne(si) ==
    CASE si.width = DYNAMIC /\ si.prec = DYNAMIC ->
           IF si.wFirst
           THEN Conversion(si, Arg(nextArg), Arg(nextArg + 1), nextArg + 2)
           ELSE Conversion(si, Arg(nextArg + 1), Arg(nextArg), nextArg + 2)
      [] si.width = DYNAMIC /\ si.prec # DYNAMIC ->
           Conversion(si, Arg(nextArg), Const(si.prec), nextArg + 1)
      [] si.width # DYNAMIC /\ si.prec = DYNAMIC ->
           Conversion(si, Const(si.width), Arg(nextArg), nextArg + 1)
      [] OTHER ->
           Conversion(si, Const(si.width), Const(si.prec), nextArg)

\* converter_single: the text up to the specification, then the conversion.
Convert ==
    /\ num < countValidSpecInfos
    /\ LET conversion == ConvertOne(getOneSpec(num))
       IN  /\ outbuf' = outbuf \o Text(num) \o <<conversion>>
           /\ nextArg' = conversion[2].arg + 1
    /\ num' = num + 1
    /\ UNCHANGED <<fmt, done>>

\* The tail SpecInfo ends the recursion.
WriteTail ==
    /\ num = countValidSpecInfos /\ ~done
    /\ outbuf' = outbuf \o Text(num)
    /\ done' = TRUE
    /\ UNCHANGED <<fmt, num, nextArg>>

Finished == done /\ UNCHANGED vars

Next == Convert \/ WriteTail \/ Finished
Spec == Init /\ [][Next]_vars

-----------------------------------------------------------------------------
(* Reference: a format read once, left to right                            *)

\* What the modifiers m between '%' and the terminal mean, without reading
\* them in order: each setting is made by its last setter.  A '0' is a digit
\* of a number that has begun, and otherwise a flag.
InPrec(m, i) ==
    /\ m[i] \in Digit
    /\ \E j \in 1..(i - 1) : m[j] = "." /\ \A k \in (j + 1)..i : m[k] \in Digit
InWidth(m, i) ==
    /\ ~InPrec(m, i)
    /\ \E j \in 1..i : m[j] # "0" /\ \A k \in j..i : m[k] \in Digit

WidthAt(m) ==
    {i \in 1..Len(m) : \/ m[i] = "*" /\ (i = 1 \/ m[i - 1] # ".")
                       \/ InWidth(m, i) /\ (i = 1 \/ ~InWidth(m, i - 1))}
PrecAt(m) == {i \in 1..Len(m) : m[i] = "."}
SizeAt(m) == {i \in 1..Len(m) : m[i] \in Length \ {"L"}}
FlagAt(m) ==
    {i \in 1..Len(m) : \/ m[i] \in {"#", "-", "L"}
                       \/ m[i] = "0" /\ ~InPrec(m, i) /\ ~InWidth(m, i)}
LastOf(S) == Max(S \cup {0})

\* The number that begins at i, which may be empty.
RunEnd(m, i) ==
    Max({i - 1} \cup {k \in i..Len(m) : \A j \in i..k : m[j] \in Digit})
Value(m, i) == Decimal(SubSeq(m, i, RunEnd(m, i)))

\* The second h or l of a pair.
IsPaired(m, s) ==
    \E i \in 1..s : /\ \A j \in i..s : m[j] = m[s]
                    /\ i = 1 \/ m[i - 1] # m[s]
                    /\ (s - i) % 2 = 1

Meaning(m, terminal, arg) ==
    LET w == LastOf(WidthAt(m))
        p == LastOf(PrecAt(m))
        s == LastOf(SizeAt(m))
        starW == w > 0 /\ m[w] = "*"
        starP == p > 0 /\ p < Len(m) /\ m[p + 1] = "*"
        stars == (IF starW THEN 1 ELSE 0) + (IF starP THEN 1 ELSE 0)
    IN  [args |-> stars + 1,
         item |-> Conversion(
            [flags |-> {m[i] : i \in FlagAt(m)},
             sign |-> IF "+" \in ToSet(m) THEN "+"
                      ELSE IF " " \in ToSet(m) THEN " " ELSE NUL,
             intWidth |-> IF s = 0 THEN "int"
                          ELSE IF m[s] \in {"h", "l"} /\ IsPaired(m, s)
                               THEN m[s] \o m[s] ELSE m[s],
             terminal |-> terminal],
            IF starW THEN Arg(IF starP /\ p < w THEN arg + 1 ELSE arg)
            ELSE Const(IF w = 0 THEN 0 ELSE Value(m, w)),
            IF starP THEN Arg(IF starW /\ w < p THEN arg + 1 ELSE arg)
            ELSE Const(IF p = 0 THEN -1 ELSE Value(m, p + 1)),
            arg + stars)]

\* An invalid specification is dropped but for the character that ends it.
ReadChar(r, c) ==
    IF ~r.inSpec
    THEN IF c = "%" THEN [r EXCEPT !.inSpec = TRUE, !.spec = <<>>]
         ELSE [r EXCEPT !.out = Append(@, <<"text", c>>)]
    ELSE IF c \in Modifier THEN [r EXCEPT !.spec = Append(@, c)]
    ELSE IF c \in Terminal
    THEN LET meaning == Meaning(r.spec, c, r.arg)
         IN  [r EXCEPT !.inSpec = FALSE, !.arg = @ + meaning.args,
                       !.out = Append(@, meaning.item)]
    ELSE [r EXCEPT !.inSpec = FALSE, !.out = Append(@, <<"text", c>>)]

ReadNothing == [inSpec |-> FALSE, spec |-> <<>>, arg |-> 1, out |-> <<>>]
Reference ==
    LET read[k \in 0..Len(fmt)] ==
            IF k = 0 THEN ReadNothing ELSE ReadChar(read[k - 1], fmt[k])
    IN  read[Len(fmt)]

-----------------------------------------------------------------------------
(* Properties *)

\* No SpecInfo past the tail is asked for, and no NUL is written as text.
TypeOK ==
    /\ num \in 0..countValidSpecInfos
    /\ nextArg \in Nat \ {0}
    /\ \A i \in 1..Len(outbuf) :
           outbuf[i][1] = "text" => outbuf[i][2] \in ToSet(fmt)

\* The scanners, which each rescan the format and subtract what the others
\* leave out, together write what one reading of the format means, at every
\* point of the expansion: every character of text once and in place, every
\* specification with its own width, precision and argument.
ExpansionIsReference ==
    /\ IsPrefix(outbuf, Reference.out)
    /\ done => outbuf = Reference.out

\* The number of arguments CFMT_STR demands (a static_assert) is what the
\* conversions take: no argument is read that need not be there.
ArgumentsAreCounted ==
    /\ nextArg <= countArgsRequired + 1
    /\ done => nextArg = countArgsRequired + 1

\* A SpecInfo's text lies inside the squeezed string, and end_ - begin_,
\* which is unsigned, never wraps; the segments follow one another.
SegmentsInside ==
    /\ Begin(num) <= End(num) /\ End(num) < squeezeSoundSize
    /\ num < countValidSpecInfos => End(num) <= Begin(num + 1)
=============================================================================
