---------------------------- MODULE StagingBuffer ----------------------------
(***************************************************************************)
(* RuntimeLogger::StagingBuffer (src/runtime_logger.h): the lock-free ring *)
(* of bytes between one logging thread (the producer, through TZ_LOG) and  *)
(* the poll thread (the consumer, through peek / appendInternal).          *)
(*                                                                         *)
(* One action is at most one load or store of a shared position, so every  *)
(* interleaving of the two threads is a behaviour.  A relaxed access is    *)
(* modelled as sequentially consistent: each thread is the only writer of  *)
(* its own position, and _endOfRecordedSpace is stored before the          *)
(* release-store of _producerPos the consumer acquires.                    *)
(*                                                                         *)
(* A byte is abstracted to the entry it belongs to and its offset there.   *)
(*                                                                         *)
(* X_Fault above a definition X is X with a plausible bug, used only to    *)
(* show that the checked properties notice it.                             *)
(***************************************************************************)
EXTENDS Integers, Sequences

CONSTANTS
    STAGING_BUFFER_SIZE,    \* bytes of _storage
    RELEASE_THRESHOLD,      \* most bytes the consumer frees in one consume()
    Entry,                  \* the log entries the producer may write
    entrySize,              \* bytes of each entry (OneLogEntry plus arguments)
    NoEntry                 \* owner of a byte never written

ASSUME SizeAssumption ==
    /\ STAGING_BUFFER_SIZE \in Nat \ {0}
    /\ RELEASE_THRESHOLD \in Nat \ {0}

\* TZ_LOG reserves at most half the buffer; less than all of it is enough.
ASSUME EntryAssumption ==
    /\ entrySize \in [Entry -> 1..(STAGING_BUFFER_SIZE - 1)]
    /\ NoEntry \notin Entry

VARIABLES
    \* shared, written by the producer
    producerPos, endOfRecordedSpace, storage,
    \* shared, written by the consumer
    consumerPos,
    \* producer only
    minFreeSpace, pState, request, blocking, cachedConsumerPos,
    \* consumer only: remaining is what is left of the block being copied
    cState, cachedProducerPos, remaining, copied

producerVars == <<minFreeSpace, pState, request, blocking, cachedConsumerPos>>
consumerVars == <<cState, cachedProducerPos, remaining, copied>>
vars == <<producerPos, endOfRecordedSpace, storage, consumerPos,
          producerVars, consumerVars>>

Index    == 0..(STAGING_BUFFER_SIZE - 1)
Byte     == [entry : Entry \cup {NoEntry}, off : Nat]
Bytes(e) == [k \in 1..entrySize[e] |-> [entry |-> e, off |-> k - 1]]

ProducerState ==
    {"idle", "blocked", "loaded", "wrapping", "reserved", "filled"}
ConsumerState == {"idle", "loaded", "peeked", "copied"}

Init ==
    /\ producerPos = 0
    /\ endOfRecordedSpace = STAGING_BUFFER_SIZE
    /\ storage = [i \in Index |-> [entry |-> NoEntry, off |-> 0]]
    /\ consumerPos = 0
    /\ minFreeSpace = STAGING_BUFFER_SIZE
    /\ pState = "idle" /\ request \in Entry /\ blocking = TRUE
    /\ cachedConsumerPos = 0
    /\ cState = "idle" /\ cachedProducerPos = 0
    /\ remaining = 0 /\ copied = <<>>

-----------------------------------------------------------------------------
(* The producer: reserveProducerSpace, the caller's writes, finishReservation *)

need == entrySize[request]

\* Space suffices only with a byte to spare: full must not look like empty.
Suffices_NotStrict(bytes, free) == bytes <= free
Suffices(bytes, free) == bytes < free

\* reserveProducerSpace, fast path when the known free space suffices; else
\* the slow loop.  (Its notify_all only shortens the poll thread's sleep.)
Reserve(e, b) ==
    /\ pState = "idle"
    /\ request' = e /\ blocking' = b
    /\ pState' = IF Suffices(entrySize[e], minFreeSpace)
               THEN "reserved" ELSE "blocked"
    /\ UNCHANGED <<producerPos, endOfRecordedSpace, storage, consumerPos,
                   minFreeSpace, cachedConsumerPos, consumerVars>>

\* Head of the slow loop: a consistent copy of _consumerPos.
LoadConsumerPos ==
    /\ pState = "blocked"
    /\ cachedConsumerPos' = consumerPos
    /\ pState' = "loaded"
    /\ UNCHANGED <<producerPos, endOfRecordedSpace, storage, consumerPos,
                   minFreeSpace, request, blocking, consumerVars>>

\* End of one turn of the loop that found free bytes: leave it with the
\* space, give up (the non-blocking test mode), or turn again.
EndOfTurn_KeepsOldCopy(free) ==
    /\ minFreeSpace' = free
    /\ pState' = IF Suffices(need, free) THEN "reserved"
                 ELSE IF blocking THEN "loaded" ELSE "idle"
EndOfTurn(free) ==
    /\ minFreeSpace' = free
    /\ pState' = IF Suffices(need, free) THEN "reserved"
                 ELSE IF blocking THEN "blocked" ELSE "idle"

\* The consumer is behind: the tail of the storage is free and large enough.
UseTail ==
    /\ pState = "loaded"
    /\ cachedConsumerPos <= producerPos
    /\ Suffices(need, STAGING_BUFFER_SIZE - producerPos)
    /\ EndOfTurn(STAGING_BUFFER_SIZE - producerPos)
    /\ UNCHANGED <<producerPos, endOfRecordedSpace, storage, consumerPos,
                   request, blocking, cachedConsumerPos, consumerVars>>

EndMark_NotMoved == endOfRecordedSpace
EndMark == producerPos

MayWrap_Always == TRUE
MayWrap == cachedConsumerPos # 0

\* The tail is too small: record where the data ends; wrap only if the
\* consumer has left position 0, for otherwise full would look like empty.
MarkEnd ==
    /\ pState = "loaded"
    /\ cachedConsumerPos <= producerPos
    /\ ~Suffices(need, STAGING_BUFFER_SIZE - producerPos)
    /\ endOfRecordedSpace' = EndMark
    /\ IF MayWrap
       THEN /\ minFreeSpace' = STAGING_BUFFER_SIZE - producerPos
            /\ pState' = "wrapping"
       ELSE EndOfTurn(STAGING_BUFFER_SIZE - producerPos)
    /\ UNCHANGED <<producerPos, storage, consumerPos,
                   request, blocking, cachedConsumerPos, consumerVars>>

Wrap ==
    /\ pState = "wrapping"
    /\ producerPos' = 0
    /\ EndOfTurn(cachedConsumerPos)
    /\ UNCHANGED <<endOfRecordedSpace, storage, consumerPos,
                   request, blocking, cachedConsumerPos, consumerVars>>

\* The consumer is ahead: the bytes up to it are free.
UseGap ==
    /\ pState = "loaded"
    /\ cachedConsumerPos > producerPos
    /\ EndOfTurn(cachedConsumerPos - producerPos)
    /\ UNCHANGED <<producerPos, endOfRecordedSpace, storage, consumerPos,
                   request, blocking, cachedConsumerPos, consumerVars>>

\* TZ_LOG writes the entry into the bytes it was given: as many as it
\* reserved.
WrittenIndex_Short == producerPos..(producerPos + need - 2)
WrittenIndex == producerPos..(producerPos + need - 1)

Fill ==
    /\ pState = "reserved"
    /\ storage' = [i \in Index |->
                     IF i \in WrittenIndex
                     THEN [entry |-> request, off |-> i - producerPos]
                     ELSE storage[i]]
    /\ pState' = "filled"
    /\ UNCHANGED <<producerPos, endOfRecordedSpace, consumerPos,
                   minFreeSpace, request, blocking, cachedConsumerPos,
                   consumerVars>>

FreeAfter_NotReduced(bytes) == minFreeSpace
FreeAfter(bytes) == minFreeSpace - bytes

FinishReservation ==
    /\ pState = "filled"
    /\ producerPos' = producerPos + need
    /\ minFreeSpace' = FreeAfter(need)
    /\ pState' = "idle"
    /\ UNCHANGED <<endOfRecordedSpace, storage, consumerPos,
                   request, blocking, cachedConsumerPos, consumerVars>>

-----------------------------------------------------------------------------
(* The consumer: peek, then appendInternal's copy and consume, piecewise   *)

\* peek: its own position does not change; a consistent copy of the other.
LoadProducerPos ==
    /\ cState = "idle"
    /\ cachedProducerPos' = producerPos
    /\ cState' = "loaded"
    /\ UNCHANGED <<producerPos, endOfRecordedSpace, storage, consumerPos,
                   producerVars, remaining, copied>>

\* peek returns: a block to copy, or nothing.
PeekReturns(bytes) ==
    /\ remaining' = bytes
    /\ cState' = IF bytes = 0 THEN "idle" ELSE "peeked"

\* The producer has wrapped and the end of the storage still holds data.
PeekEnd ==
    /\ cState = "loaded"
    /\ cachedProducerPos < consumerPos
    /\ endOfRecordedSpace # consumerPos
    /\ PeekReturns(endOfRecordedSpace - consumerPos)
    /\ UNCHANGED <<producerPos, endOfRecordedSpace, storage, consumerPos,
                   producerVars, cachedProducerPos, copied>>

\* The producer has wrapped and the end is drained: roll over to 0.
PeekRollOver_StaysAtEnd ==
    /\ cState = "loaded"
    /\ cachedProducerPos < consumerPos
    /\ endOfRecordedSpace = consumerPos
    /\ PeekReturns(0)
    /\ UNCHANGED <<producerPos, endOfRecordedSpace, storage, consumerPos,
                   producerVars, cachedProducerPos, copied>>
PeekRollOver ==
    /\ cState = "loaded"
    /\ cachedProducerPos < consumerPos
    /\ endOfRecordedSpace = consumerPos
    /\ consumerPos' = 0
    /\ PeekReturns(cachedProducerPos)
    /\ UNCHANGED <<producerPos, endOfRecordedSpace, storage,
                   producerVars, cachedProducerPos, copied>>

PeekStraight ==
    /\ cState = "loaded"
    /\ cachedProducerPos >= consumerPos
    /\ PeekReturns(cachedProducerPos - consumerPos)
    /\ UNCHANGED <<producerPos, endOfRecordedSpace, storage, consumerPos,
                   producerVars, cachedProducerPos, copied>>

\* appendInternal copies at most RELEASE_THRESHOLD bytes into the sink ...
CopyChunk ==
    /\ cState = "peeked"
    /\ LET bytesToCopy == IF RELEASE_THRESHOLD < remaining
                          THEN RELEASE_THRESHOLD ELSE remaining
       IN  copied' = [k \in 1..bytesToCopy |-> storage[consumerPos + k - 1]]
    /\ cState' = "copied"
    /\ UNCHANGED <<producerPos, endOfRecordedSpace, storage, consumerPos,
                   producerVars, cachedProducerPos, remaining>>

\* ... and hands them back to the producer with consume().
Consume ==
    /\ cState = "copied"
    /\ consumerPos' = consumerPos + Len(copied)
    /\ PeekReturns(remaining - Len(copied))
    /\ UNCHANGED <<producerPos, endOfRecordedSpace, storage,
                   producerVars, cachedProducerPos, copied>>

-----------------------------------------------------------------------------
ProducerStep ==
    \/ LoadConsumerPos
    \/ UseTail
    \/ MarkEnd
    \/ Wrap
    \/ UseGap
    \/ Fill
    \/ FinishReservation

Consumer ==
    \/ LoadProducerPos
    \/ PeekEnd
    \/ PeekRollOver
    \/ PeekStraight
    \/ CopyChunk
    \/ Consume

Next ==
    \/ \E e \in Entry, b \in BOOLEAN : Reserve(e, b)
    \/ ProducerStep
    \/ Consumer

Spec == Init /\ [][Next]_vars

\* A logging call, once begun, keeps running; the poll thread never stops.
\* No thread is made to log.
FairSpec == Spec /\ WF_vars(ProducerStep) /\ WF_vars(Consumer)

-----------------------------------------------------------------------------
(* Properties *)

\* Positions stay inside the storage; program counters and locals are typed.
TypeOK ==
    /\ producerPos \in Index /\ consumerPos \in Index
    /\ endOfRecordedSpace \in 0..STAGING_BUFFER_SIZE
    /\ storage \in [Index -> Byte]
    /\ minFreeSpace \in 0..STAGING_BUFFER_SIZE
    /\ pState \in ProducerState /\ request \in Entry /\ blocking \in BOOLEAN
    /\ cachedConsumerPos \in Index
    /\ cState \in ConsumerState /\ cachedProducerPos \in Index
    /\ remaining \in 0..(STAGING_BUFFER_SIZE - 1)
    /\ copied \in Seq(Byte)

\* The producer has wrapped to the front and the consumer has not followed.
Wrapped == producerPos < consumerPos

\* While the producer is wrapped the marked end is at or after the consumer
\* (so peek's unsigned end - consumerPos never underflows).
EndIsAhead == Wrapped => consumerPos <= endOfRecordedSpace

\* _minFreeSpace never promises more than what is contiguous and free.
MinFreeIsLowerBound ==
    producerPos + minFreeSpace
        <= IF Wrapped THEN consumerPos ELSE STAGING_BUFFER_SIZE

\* A reservation is backed by known free space, with a byte to spare.
ReservationFits == pState \in {"reserved", "filled"} => need < minFreeSpace

\* What the producer concluded from its copy of _consumerPos still holds.
ProducerViewHolds ==
    /\ pState \in {"loaded", "wrapping"} =>
         IF cachedConsumerPos <= producerPos
         THEN ~Wrapped /\ cachedConsumerPos <= consumerPos
         ELSE Wrapped => cachedConsumerPos <= consumerPos
    /\ pState = "wrapping" =>
         /\ 0 < cachedConsumerPos /\ cachedConsumerPos <= producerPos
         /\ endOfRecordedSpace = producerPos

\* What the consumer concluded from its copy of _producerPos still holds.
ConsumerViewHolds ==
    cState = "loaded" =>
        IF cachedProducerPos < consumerPos
        THEN cachedProducerPos <= producerPos /\ Wrapped
        ELSE cachedProducerPos
                <= IF Wrapped THEN endOfRecordedSpace ELSE producerPos

\* The block being copied lies inside the published bytes, and the chunk
\* just copied is part of it.
BlockIsPublished ==
    /\ cState \in {"peeked", "copied"} =>
         /\ 0 < remaining
         /\ consumerPos + remaining
              <= IF Wrapped THEN endOfRecordedSpace ELSE producerPos
    /\ cState = "copied" => 0 < Len(copied) /\ Len(copied) <= remaining

\* The end mark a wrapped consumer will follow is inside the storage.
EndIsInside == Wrapped => endOfRecordedSpace < STAGING_BUFFER_SIZE

\* The inductive invariant: the two threads' private conclusions stay true
\* however their steps interleave.
PositionsConsistent ==
    /\ EndIsAhead
    /\ EndIsInside
    /\ MinFreeIsLowerBound
    /\ ReservationFits
    /\ ProducerViewHolds
    /\ ConsumerViewHolds
    /\ BlockIsPublished

\* The bytes published and not yet handed back, and those being written.
PublishedIndex ==
    IF Wrapped THEN consumerPos..(endOfRecordedSpace - 1)
                        \cup 0..(producerPos - 1)
    ELSE consumerPos..(producerPos - 1)
ReservedIndex ==
    IF pState \in {"reserved", "filled"}
    THEN producerPos..(producerPos + need - 1) ELSE {}

\* A writer never touches a byte the consumer may still be reading: the
\* region given to TZ_LOG is inside the storage and disjoint from everything
\* published and not handed back by consume().
NoOverwrite ==
    /\ ReservedIndex \cap PublishedIndex = {}
    /\ ReservedIndex \subseteq Index

\* The two assertions of finishReservation (498, 503) cannot fire.
FinishAsserts ==
    pState = "filled" =>
        /\ need < minFreeSpace
        /\ producerPos + need < STAGING_BUFFER_SIZE

Segment(from, to) == [k \in 1..(to - from) |-> storage[from + k - 1]]

\* The published bytes in the order they were logged.
Published ==
    IF Wrapped
    THEN Segment(consumerPos, endOfRecordedSpace) \o Segment(0, producerPos)
    ELSE Segment(consumerPos, producerPos)

\* The part of them the consumer has not copied yet.
Unread ==
    IF cState = "copied"
    THEN SubSeq(Published, Len(copied) + 1, Len(Published))
    ELSE Published

StartsEntry(byte) == byte.off = 0
EndsEntry(byte) == byte.entry \in Entry /\ byte.off = entrySize[byte.entry] - 1
Follows(byte, next) ==
    IF EndsEntry(byte) THEN StartsEntry(next)
    ELSE next.entry = byte.entry /\ next.off = byte.off + 1

\* The sink walks a block from its first byte by the entrySize fields, so a
\* peeked block must begin with an entry, end with one, and hold entries
\* byte for byte in between -- also when the ring has wrapped.
BlocksHoldWholeEntries ==
    /\ \A i \in 1..(Len(Published) - 1) :
           Follows(Published[i], Published[i + 1])
    /\ Published # <<>> =>
         /\ cState \in {"idle", "loaded"} => StartsEntry(Published[1])
         /\ cState \in {"peeked", "copied"} => EndsEntry(Published[remaining])
         /\ EndsEntry(Published[Len(Published)])

\* The ring is a FIFO queue of entries: bytes leave in the order they were
\* logged, none lost, duplicated or torn, whatever the interleaving.
Fifo == INSTANCE FifoQueue WITH
            Batch <- {Bytes(e) : e \in Entry},
            queue <- Unread,
            taken <- copied
FifoSpec == Fifo!Spec

\* A logging call that blocks on a full ring gets its space in the end, as
\* long as the poll thread keeps running.
BlockedCallReturns ==
    (pState = "blocked" /\ blocking) ~> (pState = "reserved")

\* Published bytes are copied to the sink in the end, also the first bytes
\* after a wrap.
PublishedIsCopied == (Unread # <<>>) ~> (cState = "copied")
=============================================================================
