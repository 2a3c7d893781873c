------------------------------ MODULE LogRecord ------------------------------
(***************************************************************************)
(* One log entry from TZ_LOG to the sink thread (src/tz_logger.h, .cpp).   *)
(* TZ_LOG measures the strings among its arguments, reserves an entry,     *)
(* stores the arguments and copies of the strings, and publishes it.  The  *)
(* poll thread moves what is published to the sink as one block.  The sink *)
(* thread walks blocks and entries and converts what it reads there.       *)
(*                                                                         *)
(* The macro names its arguments twice, so each is evaluated once to       *)
(* measure and again to store; the two values may differ.  A cell is one   *)
(* byte: the first byte of a value carries it, the others are padding.     *)
(* The ring and the sink's buffers are modules StagingBuffer, SinkLogger.  *)
(*                                                                         *)
(* X_Fault above a definition X is X with a plausible bug, used only to    *)
(* show that the checked properties notice it.                             *)
(***************************************************************************)
EXTENDS Integers, Sequences, SequencesExt, FiniteSetsExt

CONSTANTS
    Call,               \* the TZ_LOG statements of the program
    SIs,                \* the SpecInfos of each, without the tail
    types,              \* the types of its arguments
    severity,           \* its level
    values,             \* the argument lists it may be called with
    sizeOf,             \* bytes of each type
    OneLogEntrySize, ThreadCheckPointSize,
    MARKUP_SIZEOFWCHAR,
    FORMAT_ARGS_MAXIMUM_SIZE,
    Level,              \* bound: the levels setLogLevel is called with
    MaxPending          \* bound: calls made and not yet formatted

DYNAMIC == -2147483647 - 1
LogLevel == 0..4        \* SILENT_LOG_LEVEL, ERR, WARNING, INFORMATION, DBG
INFORMATION == 3
SpecInfo == [terminal : STRING, long : BOOLEAN, width : Int, prec : Int,
             wFirst : BOOLEAN]
Type == {"int", "double", "size_t", "nullptr_t", "char*", "wchar_t*"}

ASSUME RecordAssumption ==
    /\ Level \subseteq LogLevel /\ "none" \notin Call
    /\ \A c \in Call : severity[c] \in LogLevel \ {0}
    /\ sizeOf \in [Type -> Nat \ {0}]
    /\ {OneLogEntrySize, ThreadCheckPointSize, MARKUP_SIZEOFWCHAR} \subseteq Nat \ {0}
    /\ FORMAT_ARGS_MAXIMUM_SIZE \in Nat /\ MaxPending \in Nat

VARIABLES
    \* the logging thread: its call, what it measured, where it stores
    pState, call, args, arr, bufSize, entry, storage, storage2, si, arg, IDX,
    currentLogLevel,
    \* bytes in the staging buffer, and in the sink's buffer
    published, buffer,
    \* the sink thread
    sState, data, pos, remaining, bufLen, input, SI, T, out,
    \* what the direct conversion prints for each entry not yet formatted
    expected

logVars == <<pState, call, args, arr, bufSize, entry, storage, storage2, si,
             arg, IDX>>
sinkVars == <<sState, data, pos, remaining, bufLen, input, SI, T, out>>
vars == <<logVars, currentLogLevel, published, buffer, sinkVars, expected>>

Pad == <<"pad", 0>>
EndOfText == <<"char", "NUL">>
Padded(cell, size) == [k \in 1..size |-> IF k = 1 THEN cell ELSE Pad]

\* Write cells into the bytes mem, from the place at (counted from 0).
Write(mem, at, cells) ==
    [k \in 1..Len(mem) |->
       IF k - at \in 1..Len(cells) THEN cells[k - at] ELSE mem[k]]

-----------------------------------------------------------------------------
(* What one specification takes from the argument list                     *)

ArgsTaken(spec) ==
    1 + (IF spec.width = DYNAMIC THEN 1 ELSE 0)
      + (IF spec.prec = DYNAMIC THEN 1 ELSE 0)

\* The sum of the first n numbers of a sequence (a running total in the code).
SumOfFirst(numbers, n) ==
    LET sum[k \in 0..n] == IF k = 0 THEN 0 ELSE sum[k - 1] + numbers[k]
    IN  sum[n]

\* The number of the last argument, the one converted, of the k-th SpecInfo.
LastArg(c, k) ==
    SumOfFirst([j \in 1..Len(SIs[c]) |-> ArgsTaken(SIs[c][j])], k)

\* countArgsRequired and argsSize: the arguments that are stored.
NArgs_WithoutStars(c) == Len(SIs[c])
NArgs(c) == LastArg(c, Len(SIs[c]))
ArgsSize(c, n) ==
    SumOfFirst([j \in 1..Len(types[c]) |-> sizeOf[types[c][j]]], n)
kArgsSize(c) == ArgsSize(c, NArgs(c))

\* The conversions '%s' and '%ls' whose argument is the string they expect.
IsText(spec, type) ==
    spec.terminal = "s" /\ type = IF spec.long THEN "wchar_t*" ELSE "char*"
Unit(spec) == IF spec.long THEN MARKUP_SIZEOFWCHAR ELSE 1

\* What TZ_LOG's static checks and its argument types guarantee: at least as
\* many arguments as the format takes, and text where text is expected, with
\* no terminator inside it.
ASSUME CallAssumption ==
    \A c \in Call :
        /\ SIs[c] \in Seq(SpecInfo)
        /\ types[c] \in Seq(Type) /\ Len(types[c]) >= LastArg(c, Len(SIs[c]))
        /\ \A a \in values[c], k \in 1..Len(SIs[c]) :
              IsText(SIs[c][k], types[c][LastArg(c, k)])
                => a[LastArg(c, k)] \in Seq(STRING \ {"NUL"})

StringSize(spec, text) == (Len(text) + 1) * Unit(spec)

\* getSizeForTerminal_s
SizeForTerminal_s(spec, type, value) ==
    IF IsText(spec, type) THEN StringSize(spec, value) ELSE 0

\* The specifications 's' among the first k.
StringsAmong(c, k) ==
    SumOfFirst([j \in 1..Len(SIs[c]) |->
                  IF SIs[c][j].terminal = "s" THEN 1 ELSE 0], k)

\* strSizeArray: one size for each 's', in order.
StrSizeArray(c, a) ==
    [j \in 1..StringsAmong(c, Len(SIs[c])) |->
       LET k == CHOOSE k \in 1..Len(SIs[c]) :
                   SIs[c][k].terminal = "s" /\ StringsAmong(c, k) = j
           n == LastArg(c, k)
       IN  SizeForTerminal_s(SIs[c][k], types[c][n], a[n])]

-----------------------------------------------------------------------------
(* What a conversion prints                                                *)

IsIntegral(type) == type \in {"int", "size_t"}
Width(type, value) == IF IsIntegral(type) THEN value ELSE 0
Precision(type, value) == IF IsIntegral(type) THEN value ELSE -1

\* The types that a conversion of numbers takes; a char is made of any of them.
Numeric(terminal) ==
    CASE terminal = "c" -> {"int", "size_t", "double"}
      [] terminal \in {"a", "A", "e", "E", "f", "F", "g", "G"} -> {"double"}
      [] OTHER -> {"int", "size_t"}

\* converter_single: how it shows an argument that is no string it expects.
Shown(spec, type, value) ==
    CASE spec.terminal = "s" ->
           IF type = "nullptr_t" THEN <<"(null)">> ELSE <<"(ER)">>
      [] spec.terminal = "p" ->
           IF type \in {"nullptr_t", "char*", "wchar_t*"}
           THEN <<"address", value>> ELSE <<"(ER)">>
      [] OTHER ->
           IF type \in Numeric(spec.terminal) THEN <<"number", value>> ELSE <<"(ER)">>

\* Width and precision, given the arguments in front of the converted one.
Conversion(spec, ts, vs, shown) ==
    LET w == IF spec.prec = DYNAMIC /\ ~spec.wFirst THEN 2 ELSE 1
        p == IF spec.width = DYNAMIC /\ spec.wFirst THEN 2 ELSE 1
    IN  [width |-> IF spec.width # DYNAMIC THEN spec.width
                   ELSE Width(ts[w], vs[w]),
         prec  |-> IF spec.prec # DYNAMIC THEN spec.prec
                   ELSE Precision(ts[p], vs[p]),
         shown |-> shown]

\* What CFMT_STR would print at once (converter_impl) for the arguments as
\* they were stored, a string cut to the size measured for it.
Direct(c, a, sizes) ==
    [k \in 1..Len(SIs[c]) |->
       LET spec == SIs[c][k]
           n == LastArg(c, k)
           first == n - ArgsTaken(spec) + 1
       IN  Conversion(spec, SubSeq(types[c], first, n), SubSeq(a, first, n),
             IF IsText(spec, types[c][n])
             THEN LET measured == sizes[StringsAmong(c, k)] \div Unit(spec) - 1
                  IN  <<"text", SubSeq(a[n], 1, Min({measured, Len(a[n])}))>>
             ELSE Shown(spec, types[c][n], a[n]))]

Init ==
    /\ pState = "idle" /\ call = "none" /\ args = <<>> /\ arr = <<>>
    /\ bufSize = 0 /\ entry = <<>> /\ storage = 0 /\ storage2 = 0
    /\ si = 1 /\ arg = 1 /\ IDX = 1
    /\ sState = "idle" /\ data = <<>> /\ pos = 0 /\ remaining = 0
    /\ bufLen = 0 /\ input = 0 /\ SI = 1 /\ T = 1 /\ out = <<>>
    /\ currentLogLevel = INFORMATION
    /\ published = <<>> /\ buffer = <<>> /\ expected = <<>>

\* The locals of a call are gone when it returns, and those of the sink's
\* walk when the buffer is done.
CallReturns ==
    /\ pState' = "idle" /\ call' = "none" /\ args' = <<>> /\ arr' = <<>>
    /\ bufSize' = 0 /\ entry' = <<>> /\ storage' = 0 /\ storage2' = 0
    /\ si' = 1 /\ arg' = 1 /\ IDX' = 1
WalkEnds ==
    /\ sState' = "idle" /\ data' = <<>> /\ pos' = 0 /\ remaining' = 0
    /\ bufLen' = 0 /\ input' = 0 /\ SI' = 1 /\ T' = 1 /\ out' = <<>>

-----------------------------------------------------------------------------
(* The logging thread: TZ_LOG                                              *)

SetLogLevel(level) ==
    /\ currentLogLevel' = level
    /\ UNCHANGED <<logVars, published, buffer, sinkVars, expected>>

\* The arguments are evaluated for the first time, to be measured.
Measure(c, a) ==
    /\ pState = "idle" /\ Len(expected) < MaxPending
    /\ call' = c
    /\ arr' = StrSizeArray(c, a)
    /\ bufSize' = kArgsSize(c) + OneLogEntrySize + SumOfFirst(arr', Len(arr'))
    /\ pState' = "measured"
    /\ UNCHANGED <<args, entry, storage, storage2, si, arg, IDX,
                   currentLogLevel, published, buffer, sinkVars, expected>>

Header(size, status) ==
    Padded(<<"header", [fmtId |-> call, entrySize |-> size, status |-> status]>>,
           OneLogEntrySize)

FitsEntry_Always == TRUE
FitsEntry == bufSize <= FORMAT_ARGS_MAXIMUM_SIZE

\* reserveAlloc(bufSize), and the arguments evaluated again, to be stored.
BeginDump(a) ==
    /\ FitsEntry
    /\ args' = a
    /\ entry' = Header(bufSize, "NORMAL")
                  \o [k \in 1..(bufSize - OneLogEntrySize) |-> Pad]
    /\ storage' = OneLogEntrySize
    /\ storage2' = OneLogEntrySize + kArgsSize(call)
    /\ si' = 1 /\ arg' = 1 /\ IDX' = 1
    /\ pState' = "dumping"
    /\ UNCHANGED <<call, arr, bufSize, currentLogLevel, published, buffer,
                   sinkVars, expected>>

\* The bytes memcpy takes from the text, and the terminator; past the end of
\* a text shorter than measured it reads what happens to be there.
TextCells(spec, text, size) ==
    LET chars == size \div Unit(spec) - 1
        Char(j) == IF j <= Len(text) THEN <<"char", text[j]>>
                   ELSE IF j = Len(text) + 1 THEN EndOfText
                   ELSE <<"char", "?">>
    IN  FlattenSeq([j \in 1..chars |-> Padded(Char(j), Unit(spec))])
          \o Padded(EndOfText, Unit(spec))

Offset(at, at2) == at2 - at

\* storeArg, after the dynamic width and precision in front of it
\* (store_A_Args, store_D_A_Args, store_D_D_A_Args).
StoreArgs ==
    /\ pState = "dumping" /\ si <= Len(SIs[call])
    /\ LET spec == SIs[call][si]
           last == arg + ArgsTaken(spec) - 1
           type == types[call][last]
           raw  == FlattenSeq([j \in 1..(ArgsTaken(spec) - 1) |->
                      Padded(<<"raw", args[arg + j - 1]>>,
                             sizeOf[types[call][arg + j - 1]])])
           at   == storage + Len(raw)
           copy == IsText(spec, type)
           cell == IF copy THEN <<"offset", Offset(at, storage2)>>
                   ELSE <<"raw", args[last]>>
           text == IF copy THEN TextCells(spec, args[last], arr[IDX])
                   ELSE <<>>
       IN  /\ entry' = Write(Write(entry, storage,
                                   raw \o Padded(cell, sizeOf[type])),
                             storage2, text)
           /\ storage' = at + sizeOf[type]
           /\ storage2' = storage2 + (IF copy THEN arr[IDX] ELSE 0)
           /\ arg' = last + 1
           /\ IDX' = IF spec.terminal = "s" THEN IDX + 1 ELSE IDX
    /\ si' = si + 1
    /\ UNCHANGED <<pState, call, args, arr, bufSize, currentLogLevel,
                   published, buffer, sinkVars, expected>>

\* finishAlloc: the entry becomes visible to the poll thread.
Finish ==
    /\ pState = "dumping" /\ si > Len(SIs[call])
    /\ published' = published \o entry
    /\ expected' = Append(expected, <<call, Direct(call, args, arr)>>)
    /\ CallReturns
    /\ UNCHANGED <<currentLogLevel, buffer, sinkVars>>

\* More than the ring may be asked for: only the size is logged.
LogOversize ==
    /\ pState = "measured" /\ ~FitsEntry
    /\ LET size == OneLogEntrySize + sizeOf["size_t"]
       IN  published' = published \o Header(size, "ILLEGAL_ARGS_SIZE")
                          \o Padded(<<"raw", bufSize>>, sizeOf["size_t"])
    /\ expected' = Append(expected, <<call, <<[shown |-> bufSize]>>>>)
    /\ CallReturns
    /\ UNCHANGED <<currentLogLevel, buffer, sinkVars>>

-----------------------------------------------------------------------------
(* The poll thread and the sink thread                                     *)

BlockSize_WithCheckPoint(bytes) == Len(bytes) + ThreadCheckPointSize
BlockSize(bytes) == Len(bytes)

\* SinkLogger::append, appendInternal: a check point, then the block.
AppendBlock ==
    /\ published # <<>>
    /\ buffer' = buffer \o Padded(<<"checkpoint", BlockSize(published)>>,
                                  ThreadCheckPointSize)
                        \o published
    /\ published' = <<>>
    /\ UNCHANGED <<logVars, currentLogLevel, sinkVars, expected>>

TakeBuffer ==
    /\ sState = "idle" /\ buffer # <<>>
    /\ data' = buffer /\ buffer' = <<>>
    /\ pos' = 0 /\ bufLen' = Len(buffer) /\ remaining' = 0
    /\ sState' = "block"
    /\ UNCHANGED <<logVars, currentLogLevel, published, input, SI, T, out,
                   expected>>

Cell(at) == IF at < Len(data) THEN data[at + 1] ELSE Pad
CheckPointAt(at) == IF Cell(at)[1] = "checkpoint" THEN Cell(at)[2] ELSE 0

\* while (bufLen > 0)
NextBlock ==
    /\ sState = "block"
    /\ \/ /\ bufLen > 0
          /\ remaining' = CheckPointAt(pos)
          /\ bufLen' = bufLen - (CheckPointAt(pos) + ThreadCheckPointSize)
          /\ pos' = pos + ThreadCheckPointSize
          /\ sState' = "entry"
          /\ UNCHANGED <<data, input, SI, T, out>>
       \/ /\ ~(bufLen > 0)
          /\ WalkEnds
    /\ UNCHANGED <<logVars, currentLogLevel, published, buffer, expected>>

IsEntry(at) == Cell(at)[1] = "header"
EntryAt(at) == Cell(at)[2]

\* while (remaining > 0): what convertFN_ is given, or the oversize report.
NextEntry ==
    /\ sState = "entry"
    /\ \/ /\ remaining > 0 /\ IsEntry(pos)
          /\ input' = pos + OneLogEntrySize
          /\ IF EntryAt(pos).status = "NORMAL"
             THEN out' = <<>> /\ sState' = "convert"
             ELSE /\ out' = <<[shown |-> Cell(input')[2]]>>
                  /\ sState' = "entryDone"
       \/ /\ ~(remaining > 0)
          /\ sState' = "block"
          /\ UNCHANGED <<input, out>>
    /\ SI' = 1 /\ T' = 1
    /\ UNCHANGED <<logVars, currentLogLevel, published, buffer, data, pos,
                   remaining, bufLen, expected>>

\* The characters from a position to the NUL.
TextAt(at, unit) ==
    LET end == Min({j \in 0..Len(data) :
                      at + j * unit >= Len(data)
                        \/ Cell(at + j * unit) = EndOfText})
    IN  [j \in 1..end |-> Cell(at + (j - 1) * unit)[2]]

\* _ARG, which turns an offset back into a pointer for every string type,
\* and converter_single, which follows it only if it expects that type.
Fetched(spec, type, at) ==
    IF IsText(spec, type)
    THEN IF Cell(at)[1] = "offset"
         THEN <<"text", TextAt(at + Cell(at)[2], Unit(spec))>>
         ELSE <<"wild">>
    ELSE Shown(spec, type, Cell(at)[2])

FormatorWidthFirst_Always(spec) == TRUE
FormatorWidthFirst(spec) == spec.wFirst

\* formator_A_args, formator_D_A_args, formator_D_D_A_args
Formator ==
    /\ sState = "convert"
    /\ SI <= Len(SIs[EntryAt(pos).fmtId])
    /\ LET c == EntryAt(pos).fmtId
           spec == SIs[c][SI]
           last == T + ArgsTaken(spec) - 1
           At(n) == input + ArgsSize(c, n - 1) - ArgsSize(c, T - 1)
           both == spec.width = DYNAMIC /\ spec.prec = DYNAMIC
           w == IF both /\ ~FormatorWidthFirst(spec) THEN T + 1 ELSE T
           p == IF both /\ FormatorWidthFirst(spec) THEN T + 1 ELSE T
       IN  /\ out' = Append(out,
                [width |-> IF spec.width # DYNAMIC THEN spec.width
                           ELSE Width(types[c][w], Cell(At(w))[2]),
                 prec  |-> IF spec.prec # DYNAMIC THEN spec.prec
                           ELSE Precision(types[c][p], Cell(At(p))[2]),
                 shown |-> Fetched(spec, types[c][last], At(last))])
           /\ input' = At(last + 1)
           /\ T' = last + 1
    /\ SI' = SI + 1
    /\ UNCHANGED <<logVars, currentLogLevel, published, buffer, sState, data,
                   pos, remaining, bufLen, expected>>

FormatorEnds ==
    /\ sState = "convert"
    /\ SI > Len(SIs[EntryAt(pos).fmtId])
    /\ sState' = "entryDone"
    /\ UNCHANGED <<logVars, currentLogLevel, published, buffer, data, pos,
                   remaining, bufLen, input, SI, T, out, expected>>

\* The entry is written out; go on by its entrySize.
EntryDone ==
    /\ sState = "entryDone"
    /\ pos' = pos + EntryAt(pos).entrySize
    /\ remaining' = remaining - EntryAt(pos).entrySize
    /\ expected' = Tail(expected)
    /\ sState' = "entry"
    /\ input' = 0 /\ SI' = 1 /\ T' = 1 /\ out' = <<>>
    /\ UNCHANGED <<logVars, currentLogLevel, published, buffer, data, bufLen>>

-----------------------------------------------------------------------------
Log ==
    \/ \E c \in Call : \E a \in values[c] : Measure(c, a)
    \/ pState = "measured" /\ \E a \in values[call] : BeginDump(a)
    \/ StoreArgs
    \/ Finish
    \/ LogOversize

Sink ==
    \/ TakeBuffer
    \/ NextBlock
    \/ NextEntry
    \/ Formator
    \/ FormatorEnds
    \/ EntryDone

Next ==
    \/ \E level \in Level : SetLogLevel(level)
    \/ Log
    \/ AppendBlock
    \/ Sink

Spec == Init /\ [][Next]_vars

-----------------------------------------------------------------------------
(* Properties *)

\* An entry is as long as the space reserved for it, which is no more than
\* the ring can be asked for.
TypeOK ==
    /\ pState \in {"idle", "measured", "dumping"}
    /\ pState = "dumping" =>
         Len(entry) = bufSize /\ bufSize <= FORMAT_ARGS_MAXIMUM_SIZE
    /\ Len(expected) \in 0..MaxPending
    /\ pos >= 0 /\ remaining >= 0 /\ bufLen >= 0

\* TZ_LOG's assert (522): the arguments fill their part of the entry and the
\* strings theirs, neither running into the other or past the reservation,
\* though the strings were measured on an earlier evaluation.
RecordFits ==
    pState = "dumping" =>
        /\ storage <= OneLogEntrySize + kArgsSize(call)
        /\ storage2 <= bufSize
        /\ si > Len(SIs[call]) =>
             /\ storage = OneLogEntrySize + kArgsSize(call)
             /\ storage2 = bufSize

\* The sink's two nested walks, by block and by entrySize, stay in step:
\* every step lands on a check point or on an entry that lies wholly inside
\* its block, and the blocks end where the buffer ends.
WalkLandsOnEntries ==
    /\ sState = "block" => /\ pos + bufLen = Len(data)
                           /\ bufLen > 0 => Cell(pos)[1] = "checkpoint"
    /\ sState = "entry" => /\ pos + remaining + bufLen = Len(data)
                           /\ remaining > 0 => IsEntry(pos)
    /\ sState \in {"convert", "entryDone"} =>
           EntryAt(pos).entrySize <= remaining

\* What the sink prints for an entry, from bytes that were moved twice and
\* whose strings are found by offsets, is what CFMT_STR would have printed at
\* the call, in the order of the calls; and no argument stored under one
\* type is followed as a pointer under another.
SinkPrintsWhatWasLogged ==
    sState = "entryDone" => Head(expected) = <<EntryAt(pos).fmtId, out>>

\* "Sets the minimum log level new NANO_LOG messages will have to meet before
\* they are saved. Anything lower will be dropped" (runtime_logger.cpp:463);
\* the level it stores is read by nobody.
LowerLevelsAreDropped ==
    [][published' # published /\ Len(published') > Len(published)
         => severity[call] <= currentLogLevel]_vars
=============================================================================
