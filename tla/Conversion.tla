------------------------------ MODULE Conversion ------------------------------
(***************************************************************************)
(* One conversion of src/constexpr_fmt.h, from the argument to the         *)
(* characters written: converter_single for d, u, o, x, c, s, p, f, e, g.  *)
(* Upper-case terminals differ in letters only, i is d; a, n and wide      *)
(* characters are not modelled.                                            *)
(*                                                                         *)
(* A specification is what getOneSpec made of it (FormatString).  Widths of *)
(* integer types, the limits of floating point and printf's default        *)
(* precision are constants, so that their boundaries can be checked on      *)
(* small values.  std::to_chars is external: its text is printf's.         *)
(*                                                                         *)
(* X_Fault above a definition X is X with a plausible bug, used only to    *)
(* show that the checked properties notice it.                             *)
(***************************************************************************)
EXTENDS Integers, Sequences, SequencesExt, FiniteSetsExt, TLC

CONSTANTS
    Bits,       \* length modifier -> width of the type it casts to
    MaxBits,    \* width of intmax_t and of a pointer
    MAXFRACT,   \* style f or e -> digits asked of to_chars at most
    BUFSIZE,    \* room for the text of a floating-point number
    DEFAULT_PRECISION,  \* of floating point: 6
    Calls,      \* pairs of a specification and an argument
    Widths,     \* dynamic widths, negative ones included
    Precisions  \* dynamic precisions

(***************************************************************************)
(* Arguments.  A double is a decimal fraction: n / 10^m.                   *)
(***************************************************************************)
Integer(v)        == [int |-> v]
Pointer(v)        == [ptr |-> v]
Text(chars, at)   == [text |-> chars, ptr |-> at]    \* a char* is a pointer too
Null              == [null |-> "nullptr"]
Finite(neg, n, m) == [neg |-> neg, n |-> n, m |-> m]
Infinite(neg)     == [neg |-> neg, special |-> <<"i", "n", "f">>]
NaN               == [neg |-> FALSE, special |-> <<"n", "a", "n">>]

Is(a, field) == field \in DOMAIN a

Argument ==
    [int : Int] \cup [ptr : Nat] \cup [text : Seq(STRING), ptr : Nat] \cup {Null}
        \cup [neg : BOOLEAN, n : Nat, m : Nat]
        \cup {Infinite(TRUE), Infinite(FALSE), NaN}

DYNAMIC_WIDTH     == -2
DYNAMIC_PRECISION == -2

NoSign == ""
Blank  == " "

IntegerTerminal == {"d", "u", "o", "x"}
FloatTerminal   == {"f", "e", "g"}

\* A precision of -1 is none.
Specification ==
    [flags : SUBSET {"-", "0", "#"}, sign : {NoSign, "+", Blank}, length : DOMAIN Bits,
     terminal : IntegerTerminal \cup FloatTerminal \cup {"c", "s", "p"},
     width : Nat \cup {DYNAMIC_WIDTH}, prec : Nat \cup {-1, DYNAMIC_PRECISION}]

\* b^k by its recursion, which can be reasoned about.
Power(b, k) ==
    LET power[i \in Nat] == IF i = 0 THEN 1 ELSE b * power[i - 1]
    IN  power[k]

\* (int)arg, which cuts off what is behind the point.
ToInt(a) ==
    IF Is(a, "int") THEN a.int
    ELSE IF a.neg THEN -(a.n \div Power(10, a.m)) ELSE a.n \div Power(10, a.m)

Ints == LET half == Power(2, Bits["none"] - 1) IN -half..(half - 1)

\* What is undefined is no input: the cast of a floating-point number that does
\* not fit an int, the 0 flag for c and s, and W = -W for a dynamic width of
\* INT_MIN.  %lc and %ls are not modelled.
ASSUME ConversionAssumption ==
    /\ "none" \in DOMAIN Bits /\ MaxBits \in Nat
    /\ \A l \in DOMAIN Bits : Bits[l] \in 1..MaxBits
    /\ MAXFRACT \in [{"f", "e"} -> Nat \ {0}] /\ BUFSIZE \in Nat
    /\ DEFAULT_PRECISION \in Nat \ {0}
    /\ Widths \cup Precisions \subseteq Int
    /\ Calls \subseteq Specification \X Argument
    /\ \A call \in Calls : call[1].terminal \in {"c", "s"} =>
         "0" \notin call[1].flags /\ call[1].length # "l"
    /\ \A call \in Calls : call[1].terminal = "c" =>
         ~Is(call[2], "special") /\ (Is(call[2], "n") => ToInt(call[2]) \in Ints)

VARIABLES
    SI, arg,            \* the specification and its argument
    given,              \* W and P as converter_single is called with them
    W, P, flags,        \* width, precision and flags in force
    sign,               \* '-', '+', ' ' or none, as a string
    cp,                 \* the text proper, with its prefix
    fpprec,             \* leftover floating-point precision
    gtoe,               \* is the text in style e, for e or g?
    outbuf,             \* what has been written
    pc                  \* the next part to write

vars == <<SI, arg, given, W, P, flags, sign, cp, fpprec, gtoe, outbuf, pc>>

-----------------------------------------------------------------------------
(* From integer to digits *)

DigitChar == <<"0", "1", "2", "3", "4", "5", "6", "7",
               "8", "9", "a", "b", "c", "d", "e", "f">>

Base == [d |-> 10, u |-> 10, o |-> 8, x |-> 16]

\* Sign-extended to intmax_t, then read as uintmax_t.
SARG(l, v) ==
    LET low == v % Power(2, Bits[l])
    IN  IF low >= Power(2, Bits[l] - 1)
        THEN (low - Power(2, Bits[l])) % Power(2, MaxBits) ELSE low

UARG(l, v) == v % Power(2, Bits[l])

\* The table entry for two digits.
Pair(base, v) == <<DigitChar[v \div base + 1], DigitChar[(v % base) + 1]>>

LeadingPair_KeepsZero(base, v) == Pair(base, v)
LeadingPair(base, v) == IF v < base THEN Tail(Pair(base, v)) ELSE Pair(base, v)

\* formatDec, formatOct and formatHex: two digits at a time, from the right.
formatBase(base, d) ==
    LET text[v \in Nat] ==
            IF v < base * base THEN LeadingPair(base, v)
            ELSE text[v \div (base * base)] \o Pair(base, v % (base * base))
    IN  text[d]

IsNegative(s, v) == s.terminal = "d" /\ SARG(s.length, v) >= Power(2, MaxBits - 1)

Magnitude(s, v) ==
    IF s.terminal # "d" THEN UARG(s.length, v)
    ELSE IF IsNegative(s, v) THEN (0 - SARG(s.length, v)) % Power(2, MaxBits)
    ELSE SARG(s.length, v)

Prefix(s, digits) ==
    IF "#" \notin s.flags \/ digits[1] = "0" THEN <<>>
    ELSE IF s.terminal = "x" THEN <<"0", "x">>
    ELSE IF s.terminal = "o" THEN <<"0">> ELSE <<>>

Number(s, v) ==
    LET digits == formatBase(Base[s.terminal], Magnitude(s, v))
    IN  Prefix(s, digits) \o digits

\* p: the digits overwrite the end of as many zeros as a pointer can need.
PointerText(a) ==
    LET size   == MaxBits \div 4
        digits == formatBase(16, IF Is(a, "ptr") THEN a.ptr ELSE 0)
    IN  [i \in 1..(size - Len(digits)) |-> "0"] \o digits

-----------------------------------------------------------------------------
(* From floating point to text *)

Max0(v) == Max({0, v})
Abs(v)  == IF v < 0 THEN -v ELSE v

Run(ch, k) == [i \in 1..Max0(k) |-> ch]

\* The shortest representation in a base, with zeros in front up to least digits.
Digits(v, base, least) ==
    LET shortest[n \in Nat] ==
            IF n < base THEN <<DigitChar[n + 1]>>
            ELSE Append(shortest[n \div base], DigitChar[(n % base) + 1])
    IN  Run("0", least - Len(shortest[v])) \o shortest[v]

\* n / 10^k to the nearest integer, ties to even.
Round(n, k) ==
    IF k <= 0 THEN n * Power(10, -k)
    ELSE IF k > Len(Digits(n, 10, 1)) THEN 0
    ELSE LET unit == Power(10, k)
             q    == n \div unit
             r    == 2 * (n % unit)
         IN  IF r > unit \/ (r = unit /\ q % 2 = 1) THEN q + 1 ELSE q

\* (int)std::floor(std::log10(arg)), 0 for 0.
Log10(v) == IF v.n = 0 THEN 0 ELSE Len(Digits(v.n, 10, 1)) - 1 - v.m

\* A point before the last p digits, none if p is 0.
Point(digits, p) ==
    IF p = 0 THEN digits
    ELSE SubSeq(digits, 1, Len(digits) - p) \o <<".">>
             \o SubSeq(digits, Len(digits) - p + 1, Len(digits))

Fixed(v, p) == Point(Digits(Round(v.n, v.m - p), 10, p + 1), p)

\* p digits behind the point and the exponent, which rounding may raise.
Mantissa(v, p) == Round(v.n, v.m + Log10(v) - p)
Exponent(v, p) == Log10(v) + (IF Mantissa(v, p) >= Power(10, p + 1) THEN 1 ELSE 0)

Scientific(v, p) ==
    LET exp == Exponent(v, p)
    IN  Point(SubSeq(Digits(Mantissa(v, p), 10, p + 1), 1, p + 1), p)
            \o <<"e", IF exp < 0 THEN "-" ELSE "+">> \o Digits(Abs(exp), 10, 2)

Significant(p) == IF p < 0 THEN DEFAULT_PRECISION ELSE Max({p, 1})

\* Without the zeros at the end of a fraction, nor its point if it gets empty.
Shortened(text) ==
    LET last == Max({ k \in 0..Len(text) : k > 0 => text[k] # "0" })
    IN  IF "." \notin ToSet(text) THEN text
        ELSE SubSeq(text, 1, IF text[last] = "." THEN last - 1 ELSE last)

ExponentAt(text) == CHOOSE k \in 1..Len(text) : text[k] = "e"

General(v, p) ==
    LET sig  == Significant(p)
        exp  == Exponent(v, sig - 1)
        text == Scientific(v, sig - 1)
        at   == ExponentAt(text)
    IN  IF sig > exp /\ exp >= -4 THEN Shortened(Fixed(v, sig - 1 - exp))
        ELSE Shortened(SubSeq(text, 1, at - 1)) \o SubSeq(text, at, Len(text))

\* std::to_chars, as if by printf; a negative precision is the default one.
to_chars(style, v, p) ==
    LET prec == IF p < 0 THEN DEFAULT_PRECISION ELSE p
    IN  (IF v.neg THEN <<"-">> ELSE <<>>)
        \o CASE style = "f" -> Fixed(v, prec)
             [] style = "e" -> Scientific(v, prec)
             [] style = "g" -> General(v, p)

\* Nothing if the buffer is too small; '#' adds a point where there is none.
formatDuble(style, alt, v, p) ==
    LET text == to_chars(style, v, p)
    IN  IF Len(text) > BUFSIZE THEN <<>>
        ELSE IF ~alt \/ p # 0 \/ style = "g" THEN text
        ELSE IF style = "f" THEN text \o <<".">>
        ELSE InsertAt(text, ExponentAt(text), ".")

\* Negative zero is not less than 0.0, and keeps its sign in the text.
IsBelowZero(a) == a.neg /\ (Is(a, "n") => a.n > 0)

\* std::abs
Magnitude_f(a) == IF IsBelowZero(a) THEN [a EXCEPT !.neg = FALSE] ELSE a

\* %#g chooses between f and e itself, by the exponent before rounding.
Style(s, v, p) ==
    IF s.terminal # "g" \/ "#" \notin s.flags THEN [style |-> s.terminal, prec |-> p]
    ELSE LET sig == Significant(p)
             exp == Log10(v)
         IN  IF sig > exp /\ exp >= -4
             THEN [style |-> "f", prec |-> sig - (exp + 1)]
             ELSE [style |-> "e", prec |-> sig - 1]

\* What is asked for beyond MAXFRACT digits is made up of zeros.
Leftover(st) == IF st.style = "g" THEN 0 ELSE Max0(st.prec - MAXFRACT[st.style])

FloatText(s, a, p) ==
    LET v  == Magnitude_f(a)
        st == Style(s, v, p)
    IN  IF Is(a, "special") THEN a.special
        ELSE formatDuble(st.style, "#" \in s.flags, v, st.prec - Leftover(st))

-----------------------------------------------------------------------------
(* The parts of a field, in the order they are written *)

\* The text proper of each terminal; an argument of another type has none.
Convertible(s, a) ==
    CASE s.terminal \in IntegerTerminal -> Is(a, "int")
      [] s.terminal \in FloatTerminal   -> Is(a, "n") \/ Is(a, "special")
      [] s.terminal = "c" -> Is(a, "int") \/ Is(a, "n") \/ Is(a, "special")
      [] s.terminal = "s" -> Is(a, "text") \/ Is(a, "null")
      [] s.terminal = "p" -> Is(a, "ptr") \/ Is(a, "null")

\* (char)(int)arg
CharText(a) == <<ToString(ToInt(a) % 256)>>

\* At most P characters, by memchr.
StringText(a, p) ==
    LET text == IF Is(a, "null") THEN <<"(", "n", "u", "l", "l", ")">> ELSE a.text
    IN  IF p >= 0 /\ p < Len(text) THEN SubSeq(text, 1, p) ELSE text

TextProper(s, a, p) ==
    CASE s.terminal \in IntegerTerminal -> Number(s, a.int)
      [] s.terminal \in FloatTerminal   -> FloatText(s, a, p)
      [] s.terminal = "c" -> CharText(a)
      [] s.terminal = "s" -> StringText(a, p)
      [] s.terminal = "p" -> PointerText(a)

SignOf(s, a) ==
    IF \/ s.terminal \in IntegerTerminal /\ IsNegative(s, a.int)
       \/ s.terminal \in FloatTerminal /\ IsBelowZero(a)
    THEN "-" ELSE s.sign

Init ==
    /\ \E call \in Calls : SI = call[1] /\ arg = call[2]
    /\ given \in [width : IF SI.width = DYNAMIC_WIDTH THEN Widths ELSE {0},
                 prec  : IF SI.prec = DYNAMIC_PRECISION THEN Precisions ELSE {-1}]
    /\ W = 0 /\ P = -1 /\ flags = {} /\ sign = NoSign /\ cp = <<>>
    /\ fpprec = 0 /\ gtoe = FALSE
    /\ outbuf = <<>>
    /\ pc = "begin"

\* A negative width is a left-justified positive one.
Justified_Lost(s, w) == {}
Justified(s, w) == IF s.width = DYNAMIC_WIDTH /\ w < 0 THEN {"-"} ELSE {}

\* The 0 flag is ignored when an integer has a precision, which a pointer is
\* given, and for what is no number.
ZeroPadIgnored(s, a, p) ==
    IF \/ s.terminal \in IntegerTerminal /\ p >= 0
       \/ s.terminal = "p"
       \/ Is(a, "special")
    THEN {"0"} ELSE {}

Begin ==
    /\ pc = "begin"
    /\ Convertible(SI, arg)
    /\ W' = IF SI.width = DYNAMIC_WIDTH THEN Abs(given.width) ELSE SI.width
    /\ P' = IF SI.prec = DYNAMIC_PRECISION THEN Max({given.prec, -1}) ELSE SI.prec
    /\ flags' = (SI.flags \cup Justified(SI, given.width))
                   \ ZeroPadIgnored(SI, arg, P')
    /\ sign' = SignOf(SI, arg)
    /\ cp' = TextProper(SI, arg, P')
    /\ IF SI.terminal \in FloatTerminal /\ Is(arg, "n")
       THEN LET st == Style(SI, Magnitude_f(arg), P')
            IN  fpprec' = Leftover(st) /\ gtoe' = (st.style = "e")
       ELSE UNCHANGED <<fpprec, gtoe>>
    /\ pc' = "blanks"
    /\ UNCHANGED <<SI, arg, given, outbuf>>

\* "(ER)", without padding.
Mismatch ==
    /\ pc = "begin"
    /\ ~Convertible(SI, arg)
    /\ outbuf' = <<"(", "E", "R", ")">>
    /\ pc' = "done"
    /\ UNCHANGED <<SI, arg, given, W, P, flags, sign, cp, fpprec, gtoe>>

HasSign == SI.terminal \in {"d"} \cup FloatTerminal /\ sign # NoSign

realsz ==
    (IF SI.terminal \in IntegerTerminal THEN Max({P, Len(cp)}) ELSE Len(cp) + fpprec)
        + (IF HasSign THEN 1 ELSE 0)

Part(name, text, next) ==
    /\ pc = name
    /\ outbuf' = outbuf \o text
    /\ pc' = next
    /\ UNCHANGED <<SI, arg, given, W, P, flags, sign, cp, fpprec, gtoe>>

LeadingBlanks ==
    Part("blanks", IF flags \cap {"0", "-"} = {} THEN Run(Blank, W - realsz) ELSE <<>>,
         "sign")

WriteSign == Part("sign", IF HasSign THEN <<sign>> ELSE <<>>, "zeros")

PaddedWithZeros == "0" \in flags /\ "-" \notin flags

LeadingZeros ==
    Part("zeros", IF PaddedWithZeros THEN Run("0", W - realsz) ELSE <<>>,
         "precision")

PrecisionZeros ==
    Part("precision",
         IF SI.terminal \in IntegerTerminal THEN Run("0", P - Len(cp)) ELSE <<>>,
         "number")

\* Where the leftover zeros go: in front of an exponent.
LeftoverAt_End == Len(cp)
LeftoverAt == IF gtoe /\ fpprec > 0 THEN ExponentAt(cp) - 1 ELSE Len(cp)

WriteNumber == Part("number", SubSeq(cp, 1, LeftoverAt), "leftover")

LeftoverZeros ==
    Part("leftover", Run("0", fpprec) \o SubSeq(cp, LeftoverAt + 1, Len(cp)), "left")

TrailingBlanks ==
    Part("left", IF "-" \in flags THEN Run(Blank, W - realsz) ELSE <<>>, "done")

Next == Begin \/ Mismatch \/ LeadingBlanks \/ WriteSign \/ LeadingZeros
        \/ PrecisionZeros \/ WriteNumber \/ LeftoverZeros \/ TrailingBlanks

Spec == Init /\ [][Next]_vars

-----------------------------------------------------------------------------
(* Properties *)

\* Integers are never without a digit and never start with a zero they do not
\* need; only floating point has leftover precision.
TypeOK ==
    /\ <<SI, arg>> \in Calls
    /\ given \in [width : Widths \cup {0}, prec : Precisions \cup {-1}]
    /\ W \in Nat /\ P \in Nat \cup {-1}
    /\ flags \subseteq {"-", "0", "#"}
    /\ sign \in {NoSign, "-", "+", Blank}
    /\ fpprec \in Nat /\ gtoe \in BOOLEAN
    /\ fpprec > 0 => SI.terminal \in FloatTerminal
    /\ pc \notin {"begin", "done"} /\ SI.terminal \in IntegerTerminal =>
        cp # <<>> /\ (Len(cp) > 1 /\ cp[1] = "0" => "#" \in flags)

\* What an integer is worth in the type that the length modifier names.
Value ==
    LET b   == Bits[SI.length]
        low == arg.int % Power(2, b)
    IN  IF SI.terminal = "d" /\ low >= Power(2, b - 1) THEN low - Power(2, b) ELSE low

\* What the specification or the arguments in front ask for: a negative precision
\* is none, a negative width is a '-' flag and a width.
AskedWidth == IF SI.width = DYNAMIC_WIDTH THEN given.width ELSE SI.width
AskedPrecision ==
    LET p == IF SI.prec = DYNAMIC_PRECISION THEN given.prec ELSE SI.prec
    IN  IF p < 0 THEN -1 ELSE p
LeftJustified == "-" \in SI.flags \/ AskedWidth < 0

\* C's text for a floating-point number, sign aside: with '#' there is always a
\* point, and %g keeps its zeros.
PrintfFloat ==
    LET sig == Significant(AskedPrecision)
        exp == Exponent(arg, sig - 1)
        alt == "#" \in SI.flags
        p   == IF AskedPrecision < 0 THEN DEFAULT_PRECISION ELSE AskedPrecision
        WithPoint(digits, k) ==
            IF alt /\ k = 0 THEN digits \o <<".">> ELSE digits
        e(k) == LET text == Scientific(arg, k)
                    at   == ExponentAt(text)
                IN  WithPoint(SubSeq(text, 1, at - 1), k) \o SubSeq(text, at, Len(text))
        f(k) == WithPoint(Fixed(arg, k), k)
    IN  CASE SI.terminal = "f" -> f(p)
          [] SI.terminal = "e" -> e(p)
          [] SI.terminal = "g" /\ ~alt -> General(arg, AskedPrecision)
          [] SI.terminal = "g" /\ alt /\ sig > exp /\ exp >= -4 -> f(sig - 1 - exp)
          [] OTHER -> e(sig - 1)

\* The text between the padding, and what stands before the zeros of the 0 flag.
PrintfBody ==
    CASE SI.terminal \in IntegerTerminal ->
           LET plain == Digits(Abs(Value), Base[SI.terminal], Max({AskedPrecision, 1}))
           IN  IF SI.terminal = "o" /\ "#" \in SI.flags /\ plain[1] # "0"
               THEN <<"0">> \o plain ELSE plain
      [] Is(arg, "special") -> arg.special
      [] SI.terminal \in FloatTerminal /\ ~Is(arg, "special") -> PrintfFloat
      [] SI.terminal = "c" -> CharText(arg)
      [] SI.terminal = "s" -> StringText(arg, AskedPrecision)
      [] SI.terminal = "p" -> Digits(IF Is(arg, "ptr") THEN arg.ptr ELSE 0, 16, MaxBits \div 4)

PrintfLead ==
    LET signed   == SI.terminal = "d" \/ SI.terminal \in FloatTerminal
        negative == IF SI.terminal = "d" THEN Value < 0 ELSE arg.neg
    IN  IF signed /\ negative THEN <<"-">>
        ELSE IF signed /\ SI.sign # NoSign THEN <<SI.sign>>
        ELSE IF SI.terminal = "x" /\ "#" \in SI.flags /\ Value # 0 THEN <<"0", "x">>
        ELSE <<>>

\* The field as the C standard lays it out: sign or prefix, then the zeros of
\* the precision or of the 0 flag, then the number.
Reference ==
    LET missing == Abs(AskedWidth) - Len(PrintfLead) - Len(PrintfBody)
        zeros   == \/ SI.terminal \in IntegerTerminal /\ AskedPrecision < 0
                   \/ SI.terminal \in FloatTerminal /\ Is(arg, "n")
    IN  IF ~Convertible(SI, arg) THEN <<"(", "E", "R", ")">>
        ELSE IF LeftJustified THEN PrintfLead \o PrintfBody \o Run(Blank, missing)
        ELSE IF "0" \in SI.flags /\ zeros
        THEN PrintfLead \o Run("0", missing) \o PrintfBody
        ELSE Run(Blank, missing) \o PrintfLead \o PrintfBody

\* The two cases in which "0x" meets zeros: see PrefixBeforeZeros.
PrefixMeetsZeros ==
    /\ SI.terminal = "x" /\ "#" \in SI.flags /\ Is(arg, "int")
    /\ Value # 0
    /\ \/ P > Len(cp) - 2
       \/ PaddedWithZeros /\ W > Len(cp)

\* Where floating point leaves printf: digits that MAXFRACT cuts off are not
\* zero, %#g has rounded up to another exponent than it chose the style by, %g
\* is too long for its buffer, a negative zero has a sign flag or zeros in front.
BeyondMAXFRACT ==
    LET st   == Style(SI, arg, P)
        kept == MAXFRACT[st.style] - (IF st.style = "e" THEN Log10(arg) ELSE 0)
    IN  Leftover(st) > 0 /\ kept < arg.m /\ arg.n % Power(10, arg.m - kept) # 0

FloatIsSpecial ==
    /\ SI.terminal \in FloatTerminal /\ Is(arg, "n")
    /\ \/ BeyondMAXFRACT
       \/ SI.terminal = "g" /\ "#" \in SI.flags
          /\ Exponent(arg, Significant(P) - 1) # Log10(arg)
       \/ cp = <<>>
       \/ arg.neg /\ arg.n = 0 /\ (SI.sign # NoSign \/ PaddedWithZeros)

\* Flags, width, precision, sign and prefix combine as in printf, whose width and
\* precision are those given, the negative ones included (converter_single,
\* src/constexpr_fmt.h:1290-1893), for the values at both ends of every integer
\* type and on both sides of where floating point changes its style, exponent or
\* precision.  A zero of precision zero is left one digit, as in all of this code,
\* a null pointer its zeros, and an argument that does not convert gives "(ER)".
PrintsAsPrintf ==
    pc = "done" /\ ~PrefixMeetsZeros /\ ~FloatIsSpecial => outbuf = Reference

\* "If flags&__FLAG_ZEROPAD, it should first be prefixed by any sign or other
\* prefix" (src/constexpr_fmt.h:1756): only blanks stand before a "0x".
PrefixBeforeZeros ==
    pc = "done" /\ SI.terminal = "x" =>
        \A i \in 1..Len(outbuf) :
            outbuf[i] = "x" => \A j \in 1..(i - 2) : outbuf[j] = Blank

===============================================================================
