-------------------------- MODULE TimestampFormatter --------------------------
(***************************************************************************)
(* TimestampFormatter (src/timestamp_formatter.cpp): the time in front of  *)
(* every line of the log.  The parts of the format before and after the    *)
(* fraction of a second are expanded by strftime once a second and kept;   *)
(* safe_strftime (src/portability.cpp:366) grows its buffer until the      *)
(* expansion fits.                                                         *)
(*                                                                         *)
(* A format is a sequence of tokens: a specifier %Qms, %Qus, %Qns, or a    *)
(* piece that strftime knows.  strftime is a constant, the conversion to   *)
(* the time zone included; what it returns is a sequence of cells.         *)
(*                                                                         *)
(* X_Fault above a definition X is X with a plausible bug, used only to    *)
(* show that the checked properties notice it.                             *)
(***************************************************************************)
EXTENDS Integers, Sequences

CONSTANTS
    Piece,              \* what strftime expands
    Formats,            \* format strings for the constructor
    strftime(_, _),     \* the expansion of pieces at a second, without limit
    Seconds,            \* values of time_t
    Timestamps,         \* nanoseconds asked for
    SECOND,             \* nanoseconds in a second: 10^9
    Scale,              \* specifier -> nanoseconds in its unit
    Width,              \* specifier -> digits it is padded to
    BUFFER_SIZE,        \* 100
    STRFTIME_SIZE,      \* first buffer of safe_strftime: 32
    MaxSize             \* bound: a larger buffer is not to be had

Qms == "Qms"
Qus == "Qus"
Qns == "Qns"
Specifier == {Qms, Qus, Qns}
None == "None"

ASSUME FormatterAssumption ==
    /\ Piece \cap Specifier = {}
    /\ Formats \subseteq Seq(Piece \cup Specifier)
    /\ SECOND \in Nat \ {0}
    /\ Seconds \subseteq Nat /\ Timestamps \subseteq Nat
    /\ \A t \in Timestamps : t \div SECOND \in Seconds
    /\ Scale \in [Specifier -> Nat \ {0}] /\ Width \in [Specifier -> Nat]
    /\ BUFFER_SIZE \in Nat \ {0}
    /\ STRFTIME_SIZE \in Nat \ {0} /\ MaxSize \in Nat
    /\ \A s \in Seconds : strftime(<<>>, s) = <<>>

\* k decimal digits.
Decimal(v, k) == [j \in 1..k |-> (v \div 10^(k - j)) % 10]

\* The digits of the units are the leading digits of the nanoseconds.
ASSUME ScaleAssumption ==
    /\ Width[Qms] <= Width[Qns] /\ Width[Qus] <= Width[Qns]
    /\ \A v \in 0..(SECOND - 1), q \in Specifier :
           Decimal(v \div Scale[q], Width[q]) = SubSeq(Decimal(v, Width[Qns]), 1, Width[q])

VARIABLES
    formatterState,     \* what the constructor or format_timestamp does next
    format,             \* history: the constructor's argument
    specifier,          \* _additional_format_specifier
    part_1, part_2,     \* _format_part_1 and _2
    ts_1, ts_2,         \* _pre_formatted_ts_1 and _2
    cached,             \* _cached_timestamp
    size,               \* size of safe_strftime's buffer, 0 outside it
    timestamp_ns,       \* argument of format_timestamp, -1 in the constructor
    buffer              \* the string in _formatted_buffer

formatterVars == <<formatterState, format, specifier, part_1, part_2, ts_1, ts_2,
                   cached, size, timestamp_ns, buffer>>

FormatterState == {"new", "thrown", "strftime_1", "strftime_2", "write", "idle",
                   "no_memory"}

\* Never written: not a string.
Unset == <<"Unset">>

FormatterInit ==
    /\ formatterState = "new"
    /\ format = <<>> /\ specifier = None
    /\ part_1 = <<>> /\ part_2 = <<>>
    /\ ts_1 = <<>> /\ ts_2 = <<>>
    /\ cached = 0
    /\ size = 0
    /\ timestamp_ns = -1
    /\ buffer = Unset

-----------------------------------------------------------------------------
(* The constructor *)

Places(f, q) == {k \in 1..Len(f) : f[k] = q}

\* The three searches: a second one of the kind just found throws, and so does
\* one of a kind looked for later.
Throws_OnlyOnMixed(f) ==
    \E q, r \in Specifier : q # r /\ Places(f, q) # {} /\ Places(f, r) # {}
Throws(f) ==
    \E q, r \in Specifier :
        \E k \in Places(f, q), l \in Places(f, r) : k # l

Found(f) == {q \in Specifier : Places(f, q) # {}}

ConstructorThrows(f) ==
    /\ formatterState = "new"
    /\ Throws(f)
    /\ formatterState' = "thrown"
    /\ format' = f
    /\ UNCHANGED <<specifier, part_1, part_2, ts_1, ts_2, cached, size,
                   timestamp_ns, buffer>>

\* The format is split at its specifier, or is all first part, and expanded for
\* the time it is now.
Constructor(f) ==
    /\ formatterState = "new"
    /\ ~Throws(f)
    /\ format' = f
    /\ IF Found(f) = {}
       THEN /\ specifier' = None
            /\ part_1' = f /\ part_2' = <<>>
       ELSE \E q \in Found(f) : \E k \in Places(f, q) :
            /\ specifier' = q
            /\ part_1' = SubSeq(f, 1, k - 1)
            /\ part_2' = SubSeq(f, k + 1, Len(f))
    /\ cached' \in Seconds
    /\ size' = STRFTIME_SIZE
    /\ formatterState' = "strftime_1"
    /\ UNCHANGED <<ts_1, ts_2, timestamp_ns, buffer>>

-----------------------------------------------------------------------------
(* safe_strftime *)

\* strftime writes nothing if the text and its terminator do not fit; an empty
\* text is told apart from that by nobody.
Written(part) ==
    LET len == Len(strftime(part, cached)) IN IF len < size THEN len ELSE 0

\* An empty format is answered without calling strftime.
Returned(part) == part = <<>> \/ Written(part) > 0

Enlarged_Not == size
Enlarged == 2 * size

\* The buffer is doubled for as long as strftime returns 0, or until there is
\* no memory left (std::bad_alloc).
Enlarge(part) ==
    /\ ~Returned(part)
    /\ IF Enlarged <= MaxSize
       THEN size' = Enlarged /\ UNCHANGED formatterState
       ELSE size' = 0 /\ formatterState' = "no_memory"
    /\ UNCHANGED <<format, specifier, part_1, part_2, ts_1, ts_2, cached,
                   timestamp_ns, buffer>>

\* After the last expansion the constructor is done.
AfterExpansion == IF timestamp_ns = -1 THEN "idle" ELSE "write"

Preformat_1 ==
    /\ formatterState = "strftime_1"
    /\ \/ Enlarge(part_1)
       \/ /\ Returned(part_1)
          /\ ts_1' = strftime(part_1, cached)
          /\ IF part_2 = <<>>
             THEN formatterState' = AfterExpansion /\ size' = 0
             ELSE formatterState' = "strftime_2" /\ size' = STRFTIME_SIZE
          /\ UNCHANGED <<format, specifier, part_1, part_2, ts_2, cached,
                         timestamp_ns, buffer>>

Preformat_2 ==
    /\ formatterState = "strftime_2"
    /\ \/ Enlarge(part_2)
       \/ /\ Returned(part_2)
          /\ ts_2' = strftime(part_2, cached)
          /\ formatterState' = AfterExpansion /\ size' = 0
          /\ UNCHANGED <<format, specifier, part_1, part_2, ts_1, cached,
                         timestamp_ns, buffer>>

-----------------------------------------------------------------------------
(* format_timestamp *)

\* The cached second is of any age: entries of several threads are not in order.
IsStale_IfOlder(secs) == secs > cached
IsStale(secs) == secs # cached

FormatTimestamp(t) ==
    /\ formatterState = "idle"
    /\ timestamp_ns' = t
    /\ IF IsStale(t \div SECOND)
       THEN /\ cached' = t \div SECOND
            /\ size' = STRFTIME_SIZE
            /\ formatterState' = "strftime_1"
       ELSE /\ formatterState' = "write"
            /\ UNCHANGED <<cached, size>>
    /\ UNCHANGED <<format, specifier, part_1, part_2, ts_1, ts_2, buffer>>

extracted_ns == timestamp_ns - (timestamp_ns \div SECOND) * SECOND

\* %03u, %06u, %09u
Fraction == Decimal(extracted_ns \div Scale[specifier], Width[specifier])

Truncated(text) ==
    SubSeq(text, 1, IF Len(text) < BUFFER_SIZE THEN Len(text) ELSE BUFFER_SIZE - 1)

\* CFMT_STR into _formatted_buffer, in none of the branches without a specifier.
Write ==
    /\ formatterState = "write"
    /\ buffer' =
          IF specifier = None THEN buffer
          ELSE Truncated(ts_1 \o Fraction \o (IF part_2 = <<>> THEN <<>> ELSE ts_2))
    /\ formatterState' = "idle"
    /\ UNCHANGED <<format, specifier, part_1, part_2, ts_1, ts_2, cached, size,
                   timestamp_ns>>

FormatterStep == Preformat_1 \/ Preformat_2 \/ Write

FormatterNext ==
    \/ \E f \in Formats : ConstructorThrows(f) \/ Constructor(f)
    \/ \E t \in Timestamps : FormatTimestamp(t)
    \/ FormatterStep

FormatterSpec == FormatterInit /\ [][FormatterNext]_formatterVars

-----------------------------------------------------------------------------
(* Properties *)

FormatterTypeOK ==
    /\ formatterState \in FormatterState
    /\ format \in Seq(Piece \cup Specifier)
    /\ specifier \in Specifier \cup {None}
    /\ part_1 \in Seq(Piece) /\ part_2 \in Seq(Piece)
    /\ cached \in Nat
    /\ size \in Nat
    /\ timestamp_ns \in Timestamps \cup {-1}

\* Formatting a timestamp has been asked for and is done.
Answered == formatterState = "idle" /\ timestamp_ns # -1

\* What the buffer holds is the timestamp asked for: date and time of its
\* second, though they may have been expanded for an earlier entry, and as many
\* digits of its fraction as the specifier names, where the format has its only
\* specifier (src/timestamp_formatter.h:28-32).  A format without one is not
\* written at all and is left out here.
TextIsOfTimestamp ==
    Answered /\ Found(format) # {} =>
        LET secs == timestamp_ns \div SECOND
        IN  \E q \in Specifier, k \in 1..Len(format) :
                /\ Places(format, q) = {k} /\ Found(format) = {q}
                /\ buffer = Truncated(
                       strftime(SubSeq(format, 1, k - 1), secs)
                       \o SubSeq(Decimal(timestamp_ns % SECOND, Width[Qns]), 1, Width[q])
                       \o strftime(SubSeq(format, k + 1, Len(format)), secs))

\* Nothing but a part whose expansion is empty, or larger than memory, keeps
\* safe_strftime from finding a buffer large enough.
Expandable ==
    \A part \in {part_1, part_2} : part # <<>> =>
        \A s \in Seconds :
            LET len == Len(strftime(part, s)) IN 0 < len /\ 2 * len <= MaxSize

\* The constructor and format_timestamp return for every expandable format,
\* however much longer its expansion is than the first buffer.
FormattingReturns ==
    (formatterState \in {"strftime_1", "strftime_2", "write"} /\ Expandable)
        ~> (formatterState = "idle")

=============================================================================
