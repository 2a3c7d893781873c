------------------------------- MODULE OutbufArg -------------------------------
(***************************************************************************)
(* OutbufArg (src/constexpr_fmt.h): the bounded output of every conversion. *)
(* It stores what fits in front of a terminator and counts what does not.  *)
(*                                                                         *)
(* CFMT_STR makes one for each call and ends with done(); the sink thread  *)
(* keeps one, resets it for each log entry and hands on a number of bytes  *)
(* it computes itself (src/runtime_logger.cpp:338).                        *)
(*                                                                         *)
(* X_Fault above a definition X is X with a plausible bug, used only to    *)
(* show that the checked properties notice it.                             *)
(***************************************************************************)
EXTENDS Integers, Sequences

CONSTANTS
    Char,       \* what can be written, a '\0' by "%c" included
    NUL,        \* the terminator
    Unset,      \* what the caller's memory holds before
    Counts,     \* the capacities a caller may pass
    Blocks,     \* the texts that are written at once
    Paddings,   \* the lengths asked of writePaddings, negative ones included
    PADSIZE,    \* bytes copied at once by writePaddings
    Limit       \* bound on what is written between two resets

ASSUME OutbufAssumption ==
    /\ NUL \in Char
    /\ Unset \notin Char
    /\ Counts \subseteq Nat
    /\ Blocks \subseteq Seq(Char)
    /\ Paddings \subseteq Int
    /\ PADSIZE \in Nat \ {0}
    /\ Limit \in Nat

VARIABLES
    count,      \* pBufEnd_ - pBufBegind_
    buffer,     \* the caller's memory; buffer[count] lies behind it
    pBuf,       \* pBuf_ - pBufBegind_
    written,    \* written_
    n,          \* what writePaddings has left to copy, 0 outside it
    padding,    \* the character it copies
    finished,   \* done() was the last call
    all         \* history: everything written since the last reset

outbufVars == <<count, buffer, pBuf, written, n, padding, finished, all>>

-----------------------------------------------------------------------------

OutbufInit ==
    /\ count \in Counts
    /\ buffer = [i \in 0..count |-> Unset]
    /\ pBuf = 0
    /\ written = 0
    /\ n = 0
    /\ padding = NUL
    /\ finished = FALSE
    /\ all = <<>>

\* Signed, as the code's comparison is; -1 for a capacity of 0.
Remaining_WithoutTerminator == count - pBuf
Remaining == count - pBuf - 1

Fitting(size) == IF Remaining <= 0 THEN 0
                 ELSE IF size > Remaining THEN Remaining ELSE size

Stored(text, size) ==
    [i \in 0..count |-> IF pBuf <= i /\ i < pBuf + size
                        THEN text[i - pBuf + 1] ELSE buffer[i]]

Filled(size) ==
    [i \in 0..count |-> IF pBuf <= i /\ i < pBuf + size
                        THEN padding ELSE buffer[i]]

MayCall(size) == n = 0 /\ ~finished /\ Len(all) + size <= Limit

\* write(ch), for which a text of one character is written.
WriteChar(ch) ==
    /\ MayCall(1)
    /\ written' = written + 1
    /\ all' = Append(all, ch)
    /\ buffer' = Stored(<<ch>>, Fitting(1))
    /\ pBuf' = pBuf + Fitting(1)
    /\ UNCHANGED <<count, n, padding, finished>>

Counted_OnlyStored(size) == written + Fitting(size)
Counted(size) == written + size

Write(text) ==
    /\ MayCall(Len(text))
    /\ written' = Counted(Len(text))
    /\ all' = all \o text
    /\ buffer' = Stored(text, Fitting(Len(text)))
    /\ pBuf' = pBuf + Fitting(Len(text))
    /\ UNCHANGED <<count, n, padding, finished>>

\* writePaddings up to its copy loop.  A padding that is not positive returns
\* at once, and one that finds no room after it is counted.
BeginPaddings(ch, size) ==
    /\ size > 0
    /\ MayCall(size)
    /\ written' = written + size
    /\ all' = all \o [i \in 1..size |-> ch]
    /\ n' = Fitting(size)
    /\ padding' = ch
    /\ UNCHANGED <<count, buffer, pBuf, finished>>

Chunk_AtLeastOne == PADSIZE
Chunk == IF n > PADSIZE THEN PADSIZE ELSE n

\* One memcpy of the loop, or the one after it.
CopyPadding ==
    /\ n > 0
    /\ buffer' = Filled(Chunk)
    /\ pBuf' = pBuf + Chunk
    /\ n' = n - Chunk
    /\ UNCHANGED <<count, written, padding, finished, all>>

AfterReset_KeepsCount == written
AfterReset == 0

\* The sink thread starts the next log entry in the same buffer.
Reset ==
    /\ n = 0
    /\ pBuf' = 0
    /\ written' = AfterReset
    /\ all' = <<>>
    /\ finished' = FALSE
    /\ UNCHANGED <<count, buffer, n, padding>>

\* The end of CFMT_STR.
Done ==
    /\ n = 0
    /\ ~finished
    /\ buffer' = [buffer EXCEPT ![pBuf] = NUL]
    /\ finished' = TRUE
    /\ UNCHANGED <<count, pBuf, written, n, padding, all>>

OutbufNext ==
    \/ \E ch \in Char : WriteChar(ch)
    \/ \E text \in Blocks : Write(text)
    \/ \E ch \in Char, size \in Paddings : BeginPaddings(ch, size)
    \/ CopyPadding
    \/ Reset
    \/ Done

OutbufSpec == OutbufInit /\ [][OutbufNext]_outbufVars

-----------------------------------------------------------------------------
(* Properties *)

\* The cursor stays inside the caller's memory and leaves room for a terminator.
OutbufTypeOK ==
    /\ count \in Counts
    /\ buffer \in [0..count -> Char \cup {Unset}]
    /\ pBuf \in Nat /\ (count > 0 => pBuf < count) /\ (count = 0 => pBuf = 0)
    /\ written \in Nat
    /\ n \in Nat
    /\ padding \in Char
    /\ finished \in BOOLEAN
    /\ all \in Seq(Char)

\* How many bytes the sink hands to the file.
OutputSize == IF written < count - 1 THEN written ELSE count - 1

HoldsPrefix(size) == \A i \in 0..(size - 1) : buffer[i] = all[i + 1]

\* The size the sink computes from written_ alone covers exactly what was
\* stored, a beginning of the log entry and all of it if it fits: no byte of an
\* earlier entry is in it (src/runtime_logger.cpp:338-341).
SinkOutputsPrefix ==
    n = 0 /\ count > 0 => pBuf = OutputSize /\ HoldsPrefix(OutputSize)

\* "Only when this returned value is non-negative and less than count, the
\* string has been completely written" (src/constexpr_fmt.h:2035): then it is
\* there with its terminator, and otherwise its first count - 1 characters are.
DoneStoresString ==
    finished /\ count > 0 =>
        IF written < count
        THEN written = Len(all) /\ HoldsPrefix(written) /\ buffer[written] = NUL
        ELSE HoldsPrefix(count - 1) /\ buffer[count - 1] = NUL

\* "Max number of characters to store in buffer" (src/constexpr_fmt.h:2039):
\* the memory behind it is untouched, for every count that has room for the
\* terminator, which done() writes without a test.
StoresAtMostCount == count > 0 => buffer[count] = Unset

=============================================================================
