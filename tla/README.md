# Verification of the constexpr-format logger

TLA+ models, TLC runs and TLAPS proofs for the logging library in `src/`: a
header-only compile-time `printf` (`constexpr_fmt.h`), and on top of it an
asynchronous logger (`tz_logger.h`, `runtime_logger.h/.cpp`) in the style of
NanoLog, with a muduo-style double-buffered back end.

## 1. The system

```
 logging threads                      poll thread            sink thread
 TZ_LOG -> StagingBuffer (one each) -> poll_ -> SinkLogger::append
                                                   currentBuffer_, nextBuffer_,
                                                   buffers_  ----> threadFunc
                                                             <----  spare buffers
```

| component | state | operations | correct when |
|---|---|---|---|
| `StagingBuffer` (`runtime_logger.h:405-660`) | `_producerPos`, `_endOfRecordedSpace`, `_minFreeSpace`, `_consumerPos`, `_storage` | producer: `reserveProducerSpace`, `finishReservation`; consumer: `peek`, `consume` | nothing readable is overwritten; bytes leave in order, none lost, entries whole across the wrap; a blocked call gets its space |
| `SinkLogger` (`runtime_logger.h:683-752`, `.cpp:32-389`) | `currentBuffer_`, `nextBuffer_`, `buffers_`, `newBufferCount_`, `running_`; locals `newBuffer1/2`, `buffersToWrite` | `append`, `threadFunc`, `stop` | blocks are formatted once, in order; spare buffers balance; memory is bounded; a partly filled buffer is flushed; `stop` returns |
| `RuntimeLogger` (`runtime_logger.h`, `.cpp:392-558`) | `threadBuffers` under `bufferMutex`, thread-local `stagingBuffer`, `bgThreadShouldExit` | `ensureStagingBufferAllocated`, `reserveAlloc`, `finishAlloc`, `~StagingBufferDestroyer`, `poll_`, `~RuntimeLogger` | the registry is exact; no deleted buffer is used; no thread starves; an ended thread's buffer is freed, and only when empty; shutdown returns |
| `TZ_LOG` front end (`tz_logger.h`, `tz_type.h`) | none of its own | records type, sizes, arguments and copies of strings in one entry | the entry fits the space reserved, and the sink reads back what was written |
| format analysis (`constexpr_fmt.h`) | compile-time constants | `getOneSpec`, `storeOneChar`, `squeezeSoundSize`, `count*` | the scanners agree on where a specification ends, and on how many there are |
| `OutbufArg`, `CFMT_STR` (`constexpr_fmt.h`) | buffer, capacity, cursor | `write`, `writePaddings`, `flush` ... | never writes past the capacity, always ends with a terminator |
| number conversion (`constexpr_fmt.h`) | none | `formatDec/Oct/Hex/Duble`, `converter_*` | digits, sign, prefix, precision and width as `printf` |
| `TimestampFormatter` (`timestamp_formatter.*`) | format split at its specifier, cached second and its texts | constructor, `format_timestamp` | the text is that of the timestamp asked for, whatever is cached |
| `TSCNS` (`runtime_logger.h`) | base, rate and offset of the cycle counter | `init`, `calibrate`, `syncTime`, `tsc2ns` | close to the system clock, closer the longer it was calibrated |
| portability (`portability.*`) | none | wrappers; `safe_strftime` | grows its buffer until the text fits |
| attributes, `tz_error.h`, `tz_type.h`, CMake | none | | |
| demo (`constexpr_fmt.cpp`) | none | `main` | |

How they interact: a logging thread shares one ring with the poll thread and
nothing else but the registry's mutex; the poll thread calls `SinkLogger::append`
directly, which copies out of the ring and `consume`s in pieces; the sink thread
shares two buffers, a queue and a counter with the poll thread under `mutex_`.
Nothing is persisted and nothing is sent over a network, so crash recovery and
message loss do not occur. What is hard here is the interleaving of three kinds
of thread, entries of several threads that reach the sink out of the order of
their times, positions that are cached and used after they have moved, the exact
boundary between a full and an empty ring, lost wakeups, and destruction racing
everything else. `PROJECT.json` lists the hazards at their lines.

## 2. Modules

| module | models | |
|---|---|---|
| `FifoQueue` | what each queue promises its two ends | abstract specification |
| `StagingBuffer` | one ring, its producer and its consumer | implements `FifoQueue` |
| `SinkLogger` | the exchange of buffers, its three threads | implements `FifoQueue` |
| `RuntimeLogger` | threads, registry, poll loop, destruction | |
| `LogRecord` | one entry from `TZ_LOG` to the sink's output, and the log level | |
| `FormatString` | the compile-time scanners and the expansion they drive | |
| `Conversion` | one conversion: integers, floating point, pointers, characters, strings | |
| `Tscns` | the cycle counter, its calibration and its conversion to nanoseconds | |
| `TimestampFormatter` | the constructor, `format_timestamp` and `safe_strftime` | |
| `LogTime` | the time of a line, from the counter to the text | composes `Tscns` and `TimestampFormatter` |
| `OutbufArg` | bounded output with a terminator | |
| `MC...` | the small instance of each | TLC |
| `StagingBufferProofs`, `SinkLoggerProofs`, `RuntimeLoggerProofs`, `LogRecordProofs`, `FormatStringProofs`, `ConversionProofs`, `LogTimeProofs` | theorems (`ConversionProofs` also those of `OutbufArg`, `LogTimeProofs` those of `Tscns` and `TimestampFormatter`) | TLAPS |
| `DataLemmas` | lemmas on sequences, recursion over the naturals and folds, used by the theorems | TLAPS |

`StagingBuffer`, `SinkLogger` and `RuntimeLogger` are about threads and abstract
an entry to its length or to one unit; the others are sequential and are about
what is in an entry and what becomes of it. `LogRecord` takes over where
`StagingBuffer`'s `Fill` stops, and `FormatString` and `Conversion` are the two
halves of what `LogRecord` calls a conversion. `LogTime` is about the time in
front of a line, which `LogRecord` leaves out.

The variables have the names of the fields and locals they stand for; `pState`,
`cState`, `aState`, `sState`, `tState`, `mState` are program counters of the
threads. Definitions named `X_Fault` just above a definition `X` are `X` with a
plausible bug. No specification uses them; substituting one for `X` must break
the property that `PROJECT.json` pairs it with, which shows that the property
notices that bug.

### StagingBuffer

One action is at most one load or store of a shared position: the slow loop of
`reserveProducerSpace` is `LoadConsumerPos`, then `UseTail`, `MarkEnd`, `Wrap` or
`UseGap`; `peek` is `LoadProducerPos`, then `PeekEnd`, `PeekRollOver` or
`PeekStraight`; `appendInternal` is `CopyChunk` and `Consume`, once per
`RELEASE_THRESHOLD` bytes. `Fill` is the whole of what `TZ_LOG` writes: those
bytes are not shared until `finishReservation` publishes them, which `NoOverwrite`
establishes. `minFreeSpace`, which the code assigns several times in a turn of
the loop, is private to the producer, so only its last value in an action
matters.

The shared accesses are modelled as sequentially consistent though some are
`relaxed`. Each position has a single writer, which reads its own value; the
accesses across threads are an acquire load of a release store; and
`_endOfRecordedSpace`, which is stored relaxed, is stored before the release
store of `_producerPos` whose acquire load made the consumer follow it. A byte is
abstracted to the entry it belongs to and its offset there. `_shouldDeallocate`
is in `RuntimeLogger`; `setName` changes only a label and is left out.

### SinkLogger

A critical section of `mutex_` is one action, except in `append` where the sink
thread's `newBufferCount_.store(0)`, made without the mutex, can fall between
allocating a buffer and counting it (`AllocateBuffer`, `AppendAllocated`). The
wait on `cond_` ends by notification, timeout or spuriously; a notification is
lost when the sink thread does not wait. A block with its checkpoint is one atom
with a size. Not modelled: `append`'s `blocking = false`, which no caller passes;
how an entry becomes text; and the output file, because the `fwrite` at
`runtime_logger.cpp:341` is commented out -- "formatted" is where it would be.

### RuntimeLogger

A staging buffer is here the number of entries published in it, and `append` is
one step; both are refined by the modules above. The locals of `poll_` are
variables because the loop releases `bufferMutex` around `append` and threads
register in between; `visited` is a history of the buffers peeked at in a scan, by
which `CursorIsStable` says that erasing one makes the scan pass over none.
`bgThreadShouldExit` is read without a lock. `~RuntimeLogger` may run while threads
log: the singleton's destructor does not wait for them. `setLogLevel` is in
`LogRecord`; `setLogCB` stores a value no code reads and is left out.

### LogRecord

Memory is a sequence of cells, one for each byte: the first cell of an object
holds its abstract value, the rest are `Pad`. `Measure` and `BeginDump` are the
two evaluations of the macro's arguments, each of which may give other strings.
`StoreArgs` is one instantiation of `storeArg` with the dynamic width and
precision in front of it; `Finish` and `LogOversize` publish. The ring is reduced
to the bytes between publication and `AppendBlock`, which writes the check point
`appendInternal` writes. The sink's walk over blocks and entries is `NextBlock`,
`NextEntry`, `EntryDone`; `Formator` reads the arguments of one specification
back. `expected` is a history variable: for each entry what `CFMT_STR` would have
printed at the call; of a conversion it keeps which types it takes (`Shown`), the text
is `Conversion`'s. Not modelled: time stamps, file names, the prefix of a line,
and `%n` arguments, through which the sink would write after the call.

### FormatString

A format is a sequence of characters, positions count from 0 as in the code.
Each scanner (`countValidSpecInfos`, `squeezeSoundSize`, `storeOneChar`,
`getOneSpec`, `countArgsRequired`) has an operator of its name; what they scan
alike is shared (`NextPercent`, `SkipModifiers`, and `Scan`, the loop from one `%` to
the next). `Scan` stands for three loops of the code, so a disagreement between them
cannot appear here; what is checked is that `storeOneChar` and an independent reading
agree with it. The loops are recursive functions, one turn after the other. The state machine is the
expansion: `Convert` writes the text in front of a specification and converts its
arguments, `WriteTail` the rest. `Reference` reads the format once, from left to
right, and knows nothing of positions in the squeezed string.

### Conversion

`Begin` is the head of `converter_single` (width, precision, flags, the text
proper; `given` is what it is called with), then one action for each part of a field in the order of the code. The
casts keep their width (`Bits`); `uintmax_t` is a residue modulo `2^MaxBits`.
`formatBase` is `formatDec`, `formatOct` and `formatHex`, which differ in the base
of their two-digit table. A double is a decimal fraction, so that rounding is
exact; `to_chars` is the library's and defined by what C says of `printf`, while
the choices the code makes around it are the code's: which style `%#g` takes
(`Style`), what is cut off at `MAXFRACT` and made up of zeros (`Leftover`), where
those zeros go (`LeftoverAt`), the point that `#` asks for and the buffer the text
must fit (`formatDuble`). `Reference` lays the field out as the C standard does and
shares none of this: width, precision and `-` are those asked for (`AskedWidth`,
`AskedPrecision`, `LeftJustified`), not what `Begin` made of them. What converts is the
code's rule (`Convertible`): `%p` takes a `char*` too and prints its address, `%c` any
number and prints the character of its integral part (`ToInt`); the rest is `(ER)`.
Not modelled: `%a`, `%n`, wide characters (`%lc`, `%ls`). What is undefined is no input:
a dynamic width of `INT_MIN`, whose negation overflows, a number for `%c` whose integral
part is no `int`, the 0 flag for `%c` and `%s`. `%.0d` of 0 prints a zero, unlike C's empty
field, and `%p` prints all of a pointer's digits; no document of the repository says
which, and `PrintsAsPrintf` takes the code's side.

### Tscns

Time is counted in cycles; the system clock advances by `NsPerCycle` with each.
`ReadTscFirst` and `ReadPair` are the loop of `syncTime`, with a nondeterministic
delay in front of every reading of a clock; `InitKnownRate` and `InitBase` are the
two ways of `init`; `CalibrateAgain` and `CalibrateEnds` are the loop of
`calibrate`; `Recalibrate` and `InitAgain` call them again later. A `double` is an exact quotient
(`tsc_ghz_inv` is a record of its two parts), so the rounding of the rate, which
grows with the distance from the base, is left out. Left out too is a system clock
that is set: a step back between `init` and `calibrate` makes the unsigned
difference at `runtime_logger.h:178` enormous and ends the wait at once.
`delayed_tsc` and `gap` are history variables.

### TimestampFormatter

A format is a sequence of tokens, `strftime` a constant operator: what a piece
expands to in a given second is of no interest, that it is this second's is. The
constructor's three searches throw on a second specifier of any kind (`Throws`) and
otherwise split the format; `Preformat_1` and `Preformat_2` are one call of
`strftime` in `safe_strftime` each, with `Enlarge` doubling the buffer;
`FormatTimestamp` compares with the cached second, `Write` is the `CFMT_STR` into
`_formatted_buffer`. `MaxSize` stands for the memory there is: `Enlarge` beyond it
is the `bad_alloc` that ends the loop of an empty expansion.

### LogTime

Both are static objects of `runtime_logger.cpp`: the singleton, with the formatter
in its sink, is defined before `TimeIniter`, so the formatter is constructed first
and calibration follows (`Construct`, `Calibrate`). An entry is stamped up to
`Ages` cycles before its line is formatted, and those of several threads arrive out
of order, so the second asked for may be before the cached one.

### OutbufArg

One action for each member function, and one for each `memcpy` of `writePaddings`'
loop (`CopyPadding`). `buffer[count]` stands for the byte behind the caller's
memory, `all` is a history variable. The sink uses `Reset` and `OutputSize`,
`CFMT_STR` uses `Done`. `setBufPtr`, `setWrittenNum` and `getAvailableSize` are
called from nowhere and are left out. `OutbufInit`, `OutbufNext`, `OutbufSpec` and
`OutbufTypeOK` carry the prefix because `ConversionProofs` extends both modules.

## 3. Runs

| run | bounds | question | result |
|---|---|---|---|
| `staging` | ring of 6 bytes, entries of 1, 2, 3; chunks of 2; 729,000 states | are both threads' private conclusions safe, is the ring a FIFO of whole entries, does a blocked call return, is what is published copied? | yes |
| `sink` | buffers of 6, blocks of 2 and 5, one supplementary buffer; 393,000 states | do the spares balance, is memory bounded, are blocks formatted once and in order; does a blocked append return, is a partly filled buffer flushed, does `stop` return? | yes |
| `logger` | 2 threads, 2 entries each, 2 idle scans; 62,800 states | is the registry exact, is anything used after it is deleted, does a scan pass over a buffer? Does a thread starve, is a buffer leaked, does the join return? | yes, no, no; no, no, yes |
| `lost_with_buffer` | 2 threads, 1 entry | is a buffer freed only when emptied? | **no** |
| `exit_undrained` | 2 threads, 1 entry | does the loop run while I/O is outstanding? | **no** |
| `record` | 4 call sites, 2 entries in flight, entries of up to 13 bytes; 1.1 million states | is an entry as long as reserved, does the sink print what was logged? | yes |
| `levels_dropped` | the same | are calls below the minimum level dropped? | **no** |
| `format` | every format of up to 5 characters of 10 kinds, of 7 of 4 kinds; 280,000 states | do the scanners agree with one reading of the format? | yes |
| `conversion` | integer types of 8, 16, 20 bits, boundary values, decimal fractions around every change of style and rounding, strings, characters, pointers, every kind of argument with `%c`, `%s`, `%p`; 917,000 states | is the field `printf`'s? | yes, but for the exceptions below |
| `prefix_zeros` | the same | does `0x` come before the zeros? | **no** |
| `outbuf` | buffers of 0, 1, 2, 5, 6 bytes, 7 characters; 191,000 states | is the longest fitting beginning stored, and its size computed right? | yes |
| `log_time` | 2 tries, 1 or 2 cycles before a reading, 2 ages, buffers of 2 to 16; 944,000 states | is the clock as close as its readings allow, is the text that of the time asked for, does formatting return? | yes |

Why the bounds are enough. A ring of 6 with entries of up to half of it reaches
every branch with every relation between the two positions, the end mark and the
size, and with peeks that end inside the ring and copies in one or more chunks;
the positions return to zero, so longer runs repeat these states. In the sink two
spare buffers, one supplementary buffer and the reset that lets a second one be
allocated cover every length of the queue relative to the two buffers the
refill needs; the large block makes a buffer more than 0.8 full, the small one
does not. In the logger two threads give a buffer before or after the cursor while
the other registers, and a deletion in front of another buffer; a third one adds
nothing the theorems on the registry, proved for any set of threads, do not cover.
These runs are closed (no counter needs an artificial bound). The logging
threads register once, as the code has it.

In `record` the call sites together use every way an argument can be stored (raw,
string of either width, dynamic width and precision in both orders, a type that
does not match its conversion), the arguments differ between the two evaluations in
both directions, and two entries in flight (`MaxPending`) make blocks of several
entries and buffers of several blocks. In `format` five characters hold two
specifications or a malformed one between text, seven the longest dynamic
specification between others. In `conversion` the widths are scaled: 20 bits take three
table lookups in base 10 and in base 16, the loop being entered twice, and each type
contributes the values around its ends. `MAXFRACT`, the text buffer and the default
precision are scaled too, so that precisions lie on both sides of each; the
fractions include ties, numbers that round up to another power of ten, and both ends
of the range in which `%g` uses no exponent. In `log_time` a second is 1000
nanoseconds and a cycle 270, so seconds change every few cycles, calibration has to
wait for more than one synchronisation and can be repeated, with the old base or a
new one; the first buffer of `safe_strftime` is too small for some expansions and `_formatted_buffer` for some
texts. `MaxCycle` is where `init` and `calibrate` stop being called; the formulas are checked
for counter values up to twice that. In `outbuf` the paddings lie on both sides of
`PADSIZE` and of what fits; `Limit` bounds the text between two resets above the
largest buffer.

Fairness. `FairSpec` says that a thread keeps running once it is in a call
(weak fairness on the steps of the poll thread, of the sink thread, and of a
logging call in progress), nothing more: no thread is made to log, to exit, or
to destroy the logger. `bufferMutex` is not assumed fair: the poll thread
leaves it unlocked over a whole step of its own, and weak fairness on the
waiting thread is enough only for what is claimed (no liveness is claimed for
registration). The sink's wait has strong fairness on its timeout: it may be cut
short by notifications and spurious wakeups any number of times, but not for
ever, which is what `wait_for` with a one-second interval gives. In `LogTime` a call
of the formatter goes on (weak fairness); nobody has to make one.

## 4. Findings

*An entry can be lost with its buffer* (`FreedWhenEmptied`). `poll_` peeks an
empty buffer (`runtime_logger.cpp:505`) and only then reads `_shouldDeallocate`
(535). A thread that publishes its last entry and ends between the two has its
buffer deleted with the entry in it. The comment at `runtime_logger.h:636-639`
says the buffer is cleaned up once emptied. Peeking again after the flag is seen
would close it.

*The loop ends with outstanding I/O* (`LoopEndsDrained`). The comment at
`runtime_logger.cpp:482-484` says the loop runs while there is outstanding I/O;
its condition is the exit flag only, so what is staged when the logger is
destroyed is never appended. (`~SinkLogger` likewise leaves what is in
`currentBuffer_` and `buffers_` unformatted; no comment promises otherwise, and
`HeldIsFormatted` excepts it.)

*The log level is ignored* (`LowerLevelsAreDropped`). `setLogLevel`
(`runtime_logger.cpp:474`) stores a level that no code reads; its comment at 463
says anything lower will be dropped.

*Zeros come before `0x`* (`PrefixBeforeZeros`). With `#` the prefix is put in front
of the digits (`constexpr_fmt.h:1567-1574`) before the zeros of the 0 flag (1836) or
of the precision (1846) are written: `%#.5x` of 255 gives `00xff`, and `%#08x` puts
its zeros in front of the prefix too. The comment at 1755-1759 has the prefix first.
`PrintsAsPrintf` is stated for all other fields.

Observations that no run refutes a document with, but that the properties had to
take into account:

- `PrintsAsPrintf` excepts four fields of floating point (`FloatIsSpecial`). Digits
  beyond `MAXFRACT` are zeros. `%#g` chooses its style by the exponent before rounding
  (`constexpr_fmt.h:1649-1665`), so a number that rounds up to the next power of ten
  can get the other style or a digit too many. A text of `%g` longer than its buffer is
  dropped, the field keeps its padding only. A negative zero is not below 0.0, so its
  sign stays in the text and comes after a sign flag or the zeros of the 0 flag.
- `TextIsOfTimestamp` excepts formats without a specifier: `format_timestamp` has no
  branch for them (`timestamp_formatter.cpp:153-184`), so `_formatted_buffer` is never
  written and the line gets whatever it holds, zeros at first.
- `FormattingReturns` excepts parts whose expansion is empty: `strftime` returns 0 for
  them, as it does when the buffer is too small, and `safe_strftime` doubles its buffer
  until there is no memory.

## 5. Proofs

All theorems hold for every value of the constants under the modules' named
assumptions: a positive buffer size and threshold; entries smaller than the ring
(the code reserves at most half of it); blocks smaller than a sink buffer; a
positive capacity and number of idle scans; texts that are sequences of characters;
a positive number of tries, rate and delay; units whose digits are the leading ones
of the nanoseconds; call sites with at least as many arguments as their format
takes (a `static_assert` of `TZ_LOG`) and strings, with no terminator inside them, where
their types say so (`CallAssumption`); formats without one (`FormatAssumption`); integer
types no wider than `intmax_t`, a positive default precision and `MAXFRACT` (6, and 60
and 309, in the code), and calls without the inputs that section 2 leaves out
(`ConversionAssumption`). The two theorems of `LogTime` about the
formatter also say `Nat \subseteq Timestamps`: nothing in the code bounds the counter,
the set `Timestamps` exists so that TLC can enumerate it.
Most have the shape `Spec => []P`, from `Init => P`, one step per action, and PTL;
the refinements have one step per action too, which maps to a step of `FifoQueue`
or to none.

*StagingBuffer.* `PositionsConsistent` is inductive with the type invariant. It
says what each thread may still believe of a position it read earlier:
`ProducerViewHolds` and `ConsumerViewHolds` bound the cached copies by the
current positions, `MinFreeIsLowerBound` says the producer's private free space
is never more than what is contiguous and free, `EndIsAhead` keeps `peek`'s
unsigned subtraction from underflowing, `BlockIsPublished` keeps the block under
copy inside the published bytes. `WriterNeverOverwrites` (the bytes given to a
writer are disjoint from everything readable) and `AssertionsHold`
(`finishReservation`'s two asserts) follow from it. Without the strict `<` that
leaves a byte free, full would look like empty and none of it is inductive.

`ImplementsFifo` maps the bytes between the two positions, across the wrap, to the
abstract queue (`Entries`, written as one function of the positions, `Ring`). What has
to be carried is `FilledHoldsEntry`: the reserved bytes hold the entry from `Fill`
until `finishReservation` puts them. Publication appends, a copied chunk is a
beginning of the queue, `consume` drops what was taken, and everything else,
the wrap included, leaves the queue as it is.

`BlocksAreWhole` says a peeked block holds whole entries though the producer
publishes while the consumer peeks. Its invariant is said of `Entries`:
`WholeEntries` (a byte is followed by the next of its entry, or by another entry
where its own ends) and `EntryEndsAtMarks` (an entry also ends at the marked end of a
wrapped ring, and wherever the producer stood when `peek` copied its position,
however far it has moved since).

*SinkLogger.* Types and `BuffersHaveRoom` (no block overruns a buffer) are inductive
alone. The asserts need `SpareIsOwed` -- `nextBuffer_` is missing only while the queue is not empty, so
the swap that gives a spare away also takes a buffer in exchange.
`QueueIsBounded` needs the lemma invariant `QueueIsCounted`: `newBufferCount_` is
reset without the mutex, after the queue was swapped out, so between two swaps up
to the maximum can be allocated before the reset and again after it; the
invariant states by phase of the sink thread how far the queue may be ahead of
the count.

`ImplementsFifo` maps the blocks in the buffers under format, in the queue and in the
current buffer, in this order, to the abstract queue. With `QueuedHoldBlocks` (a
buffer enters the queue only with something in it) the exchange of buffers moves
blocks between the three places and never past each other, whatever the lengths.

*LogRecord.* `EntriesAreFilled` (`RecordFits`, the assert at the end of `TZ_LOG`): the
macro evaluates its arguments twice and the two evaluations may differ, yet the
entry is filled to the byte. `Measured` says what the sizes are after the first
evaluation, `Dumping` where the two cursors stand after `si - 1` specifications: the
lower one behind the arguments taken so far, the upper one at the sum of the sizes of
the strings so far, as measured. The sums (`SumOfFirst`) are recursive functions;
`SumProperties` is the recursion, and monotony follows from it.

`WalkStaysOnEntries`: the sink's two nested walks, by block length and by `entrySize`,
stay in step with what was written. `EntriesIn` and `BlocksIn` say that a range of
cells divides into entries, or into check points with their blocks, by a function that
gives the boundaries. `EntriesAreCounted` divides the three places an entry can be in
(the ring, the sink's buffer, the data under the walk), and the numbers of entries add
up to the length of `expected`; `WalkPlace` puts the walk on a boundary; `PendingBound`
is the bound on calls in flight. Publishing appends an entry, `AppendBlock` closes a
block, each step of the walk passes one boundary. `TypeCorrect` follows.

`PrintsWhatWasLogged` (`SinkPrintsWhatWasLogged`) says what the sink prints from an
entry's bytes is what `converter_impl` makes of the caller's arguments, call by call.
The contents are carried with the boundaries: `ArgsStored` says which cells hold the
arguments of a specification, and its text behind the offset, and `ArgsWriting` that
`storeArg` puts them there and harms none of the specifications before it. A published
entry satisfies `EntryOf` for its call, and `EntriesIn` and `BlocksIn` name the place of
that call in `expected`, so moving the bytes twice keeps both the contents and the
order (`HoldsCarried`, `EntriesCarried`). While an entry is converted, `Converting` puts
`input` at the next argument and makes what is printed so far a beginning of what is
expected; `ConversionRead` is one step of `formator`, and `TextRead` one text: the
first terminator behind the offset is the one `memcpy` was followed by, since a text
holds none itself.

*FormatString.* The state machine is simple (`ExpansionInv`: the next argument is the
one behind those the SpecInfos so far have taken); the work is in the scanners. `Scan`
is brought to the form of a recursion (`ScanRecursion`), whose turns keep `ScanInv`:
every specification found lies behind the last one, in the string without the invalid
ones as in the format, and what has been left out lies between them. Hence `Segments`,
and `SegmentsStayInside`. `storeOneChar` knows neither SpecInfos nor that scan: called
with a position of the squeezed string and the offset so far, it finds a character.
`StoreStep` shows that it stays in step: the position it reads is always in the gap in
front of the specification the scan would find next, or inside that one when it is
valid (`InGap`), and its offset is what the scan has left out (`InStep`), which never
exceeds `InvalidSize` (`InvalidGrows`); so every character up to `TailEnd` is one of the
format's, and no NUL is written as text (`TypeCorrect`). `ArgumentsCounted` is the
recursion of `countArgsRequired` unfolded along the expansion (`ArgsBeforeRecursion`,
`ConversionTakesRequired`).

`ExpansionMeansFormat` (`ExpansionIsReference`) compares all of this with one reading of
the format, character by character, that knows no offsets, cursors or wrapping counters
(`Reference`). It has three parts. One specification: `Learnt` says what `getOneSpec`
has understood after its turns over some modifiers -- the flags, the sign, and what the
last setter of width, precision and length says, where a number, `.*`, `hh` or `ll` is
one token of several characters. One lemma per turn of the switch (`TurnOnBlank` to
`TurnOnTerminal`), one per kind of token (`ZeroRead` to `SingleRead`), and `Advance`
carry it to the terminal; `SpecMeaning` concludes that the conversion made of the
SpecInfo is the one the text means, also when two dynamic settings stand in either order.
The format: the scan's turns keep `ReadInv`, by which what the reading has put out is
what the specifications found so far, with the text that `storeOneChar` gives between
them, will make the program write; `StoreRun` and `StoreDropped` move `storeOneChar`
over the text and over an invalid specification, and `FormatRead` is the end of the
scan. The program: `WrittenInv` keeps `outbuf` equal to what has been read up to the
current SpecInfo, which begins the whole (`Begins`).

*Conversion.* `formatBase` looks up two digits at a time; `PairsWriteDigits` says that
it writes the shortest representation of every number in every base of the code. Both
are recursions by division (`DescentExists`: such a function exists, `DivisionInduction`
is the induction that goes with it), and a turn of the one is two of the other
(`DivisionByPairs`). The invariant of the specification is `Layout` (`FieldIsItsParts`):
what `Begin` prepares is the text, sign and flags of the pair under conversion
(`Prepared`), and at every `pc` the output is the parts written so far, each of them a
function of what was prepared (`Written`). The type invariant follows
(`ConversionTypes`): an integer is never without a digit.

`ConversionPrintsAsPrintf` is `PrintsAsPrintf` itself, for every argument, a `char*` for
`%p`, a number for `%c` and one that does not convert included, with every combination
of flags and every width and precision as they were given. `Prepared` holds the bridge
(`AsAsked`): what `Begin` normalised is what was asked for. At "done" the output
is every part of the field in order, so what is left is to compare those parts with the
standard's. Integers: `MagnitudeIsValue` takes the casts through two's complement to what
the argument is worth in its type, for all widths; `IntegerBody` finds the reference's
digits behind the prefix and the zeros of the precision, `OctalPrefix` the one zero that
may be a prefix or a digit.

Finite floating point: the reference writes as many digits as were asked for, the code
asks `std::to_chars` for `MAXFRACT` of them at most, edits the text and makes the rest
up of zeros. `PrintfFloatIs` says that both choose the same style and precision, `%g`
included; `FloatTextIs` what the text is after `formatDuble` has put in the point of
`#`, in front of an exponent if there is one; `ExponentFound` that the search for the
exponent, where the zeros go, finds it. `LeftoverIsZeros` is the heart: when `MAXFRACT`
cuts off nothing but zeros, more digits are the same digits and zeros. It goes down the
definitions, one lemma for each: the rounded quotient (`RoundScales`), its digits
(`DigitsScale`), the point among them (`PointScales`), the two styles (`FixedScales`,
`ScientificScales`). `FiniteField` puts the text together, up to the sign of a negative
zero. `std::to_chars` stays what the model makes of it, an external definition.

`PartsInOrder` (`FieldOrder`, and `FiniteOrder` for a negative zero) and
`FieldIsReference` compare the order in which the code writes the parts with the
standard's, the blanks and zeros being as many in both (`ZerosPad`).

*OutbufArg.* The invariant, `OutbufInv`, rests on `CursorAccounts`: the cursor and what `writePaddings`
has still to copy add up to as much of everything written as fits in front of the
terminator. With `StoredSoFar` and `PaddingIsOwed` (what is still to copy is what
was counted) it is inductive through the copy loop for every `PADSIZE`, and gives
what both users rely on (`StringStored`, `SinkOutput`) and that nothing behind the
buffer is touched (`NothingBehind`, for every capacity but 0, where `done()` writes
the terminator without a test).

*RuntimeLogger.* `RegistryExact`, `NeverUsedAfterFree` and `CursorStable` rest on
each other: the poll thread deletes only a flagged buffer, a flag is set only by
an owner that will not touch its buffer again (`OwnersAgree`), and registration
only appends, so the index the poll thread keeps over its unlock still names the
buffer it peeked. Facts on `Append` and `RemoveAt` come from `SequenceTheorems`
and local lemmas.

*TimestampFormatter.* `TextCorrect` needs three facts carried from the constructor on:
the parts are what stands before and after the only specifier (`SplitAtSpecifier`),
each text is its part's expansion in the cached second once it has been made
(`PartsExpanded`; an empty second part never is), and from the first call on the
cached second is the last timestamp's (`CacheIsOfTimestamp`). `strftime` is any
operator and timestamps come in any order, so the proof covers what the run's few
seconds only suggest.

*Tscns.* The invariant keeps every system-clock reading strictly between two of the
counter (`ReadingsInOrder`) and every reading of a calibration after the base
(`LaterThanBase`). From the first follows `SyncTight`: choosing the try with the
closest counter readings, which exists because differences are natural numbers
(`BestExists`), bounds the error of the pair; from the second `TscnsTypeCorrect`:
`calibrate` never divides by zero.

`ClockClose` is the bound on every conversion made later. `RateInForce` remembers of
which two pairs the rate in force is the quotient, and that each was tight when it was
read. A converted time lies on the line through the two pairs, so its error is their
errors weighted by the distances (`WeightedErrors`): between the two it is no more
than the larger (`ErrorBetween`), beyond them it grows with the distance over the
length of the calibration (`ErrorBeyond`). The products of unknowns this needs are
taken one at a time (`ProductOrder`, `Distributes`, `QuotientBounds`), the provers
having no nonlinear arithmetic.

*LogTime.* Both components' invariants hold of the composition, since each of its
steps is a step of one and a stutter of the other (`ClockSteps`, `FormatterSteps`), and
an entry's stamp is a natural number (`EntryHasTimestamp`). Hence `LineTypeCorrect`,
`LineTextCorrect` and `LineClockClose`: the three properties hold of the time of a line,
whatever the ages of the entries.

*DataLemmas.* The library's induction theorems cannot be used with the installed
provers. Induction over the naturals is here a statement about a set (a set that
contains 0 and the successors of its members contains every number, by the least
number it does not contain), recursion a statement about a step function
(`NatRecursion`: beginnings of every length exist and agree). `FlattenSeq`, a fold of
the community modules, is brought to this form (`FlattenRecursion`, `FlattenAppend`).

Only model-checked: the liveness properties (temporal reasoning under fairness is out
of TLAPS's reach here). Every invariant, action property and refinement that a passing
run checks is also a theorem, listed in `PROJECT.json`.

## 6. What is left, in order

1. A composition of ring, registry and sink: an entry's way from `TZ_LOG` to the
   formatter, with shutdown, replacing the one-unit buffers of `RuntimeLogger`.
2. `RuntimeLogger`: a thread that logs again from a destructor after its buffer was
   flagged, and gets a second buffer.

The project holds 12 runs and 40 checked properties; a new question takes the place
of a weaker one or joins an existing run.

Not modelled: `%a`, `%n` and wide characters (more of the same conversions, an
argument written through, a library call), the rounding of the clock's rate in
floating point, the wrappers of `portability.*` other than `safe_strftime` and the
attribute macros (no state), the demo program.
