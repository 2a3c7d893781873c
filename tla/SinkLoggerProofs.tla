--------------------------- MODULE SinkLoggerProofs ---------------------------
(***************************************************************************)
(* For every buffer capacity, supplementary maximum and block sizes: the   *)
(* assertions of threadFunc hold, no buffer overflows, the queue of        *)
(* buffers is bounded, and the sink is a FIFO queue of blocks.             *)
(***************************************************************************)
EXTENDS SinkLogger, DataLemmas, TLAPS

MaxNew == SUPPLEMENTARY_SINKBUFFER_MAXIMUM_SIZE

\* A supplementary buffer is allocated before it is counted.
Uncounted == IF aState = "counting" THEN 1 ELSE 0
NextUsed  == IF nextBuffer = NoBuffer THEN 1 ELSE 0

\* mutex_ is held from allocation to count, so the new buffer stays empty
\* and the count below its maximum (the sink thread can only reset it).
AllocationOpen ==
    aState = "counting" => currentBuffer = Empty /\ newBufferCount < MaxNew

\* Between swap and reset every queued buffer is nextBuffer_ or counted;
\* the reset forgives what was counted so far, once.
QueueIsCounted ==
    Len(buffers) <= NextUsed + newBufferCount + Uncounted
                      + IF sState \in {"format", "reset"} THEN 0 ELSE MaxNew

WrittenIsBounded == Len(buffersToWrite) <= 2 * MaxNew + 2

IndInv ==
    /\ TypeOK
    /\ ThreadFuncAsserts
    /\ SpareIsOwed
    /\ BuffersHaveRoom
    /\ AllocationOpen
    /\ QueueIsCounted
    /\ WrittenIsBounded

\* A moved-from pointer is not a buffer.
LEMMA EmptyBuffer == Empty \in Buffer /\ NoBuffer \notin Buffer /\ Empty # NoBuffer
  <1>1. <<>> \in Seq(Block)
    OBVIOUS
  <1>2. Empty \in Buffer
    BY <1>1 DEF Empty, Buffer
  <1>3. NoBuffer \notin Buffer
    BY ONLY SinkAssumption DEF Buffer
  <1> QED BY ONLY <1>2, <1>3

\* Appending a block that fits leaves a buffer with room.
LEMMA AppendKeepsRoom ==
    ASSUME NEW buf \in Buffer, NEW b \in Block, Fits(buf, b)
    PROVE  /\ AppendInternal(buf, b) \in Buffer
           /\ AppendInternal(buf, b).length < LARGE_BUFFER
  <1> DEFINE new == AppendInternal(buf, b)
  <1>1. buf.blocks \in Seq(Block) /\ buf.length \in Nat
    BY DEF Buffer
  <1>2. blockSize[b] \in 1..(LARGE_BUFFER - 1)
    BY SinkAssumption
  <1>3. Append(buf.blocks, b) \in Seq(Block)
    BY <1>1
  <1>4. buf.length + blockSize[b] \in Nat
    BY <1>1, <1>2, SinkAssumption
  <1>5. new \in Buffer
    BY <1>3, <1>4 DEF Buffer, AppendInternal
  <1>6. new.length < LARGE_BUFFER
    BY <1>1, <1>2, SinkAssumption DEF AppendInternal, Fits
  <1> QED BY <1>5, <1>6

\* Any block fits into an empty buffer.
LEMMA EmptyFits == ASSUME NEW b \in Block PROVE Fits(Empty, b)
  BY SinkAssumption DEF Fits, Empty

\* A buffer with room, queued behind buffers with room.
LEMMA QueueKeepsRoom ==
    ASSUME NEW bufs \in Seq(Buffer), NEW buf \in Buffer,
           \A i \in 1..Len(bufs) : bufs[i].length < LARGE_BUFFER,
           buf.length < LARGE_BUFFER
    PROVE  /\ Append(bufs, buf) \in Seq(Buffer)
           /\ Len(Append(bufs, buf)) = Len(bufs) + 1
           /\ \A i \in 1..Len(Append(bufs, buf)) :
                  Append(bufs, buf)[i].length < LARGE_BUFFER
  OBVIOUS

LEMMA InitEstablishes == Init => IndInv
  <1> SUFFICES ASSUME Init PROVE IndInv
    OBVIOUS
  <1> USE SinkAssumption, EmptyBuffer DEF Init
  <1>1. TypeOK
    BY DEF TypeOK, AppendState, SinkState
  <1>2. ThreadFuncAsserts /\ SpareIsOwed
    BY DEF ThreadFuncAsserts, SpareIsOwed
  <1>3. BuffersHaveRoom
    BY DEF BuffersHaveRoom, Empty
  <1>4. AllocationOpen /\ QueueIsCounted /\ WrittenIsBounded
    BY DEF AllocationOpen, QueueIsCounted, WrittenIsBounded, NextUsed,
           Uncounted, MaxNew
  <1> QED BY <1>1, <1>2, <1>3, <1>4 DEF IndInv

\* The steps of append.
LEMMA AppendPreserves == IndInv /\ AppendStep => IndInv'
  <1> SUFFICES ASSUME IndInv, AppendStep PROVE IndInv'
    OBVIOUS
  <1> USE SinkAssumption, EmptyBuffer
      DEF IndInv, TypeOK, AppendState, SinkState, ThreadFuncAsserts, Missing,
          SpareIsOwed, AllocationOpen, QueueIsCounted, WrittenIsBounded,
          NextUsed, Uncounted, MaxNew, NotifySink, SinkAfterNotify, sinkVars
  <1>1. CASE AppendCurrent
    <2>1. currentBuffer' \in Buffer /\ currentBuffer'.length < LARGE_BUFFER
      BY <1>1, AppendKeepsRoom DEF AppendCurrent
    <2> QED BY <1>1, <2>1 DEF AppendCurrent, BuffersHaveRoom
  <1>2. CASE AppendNext
    <2>1. currentBuffer' \in Buffer /\ currentBuffer'.length < LARGE_BUFFER
      BY <1>2, AppendKeepsRoom, EmptyFits DEF AppendNext
    <2>2. /\ buffers' \in Seq(Buffer) /\ Len(buffers') = Len(buffers) + 1
          /\ \A i \in 1..Len(buffers') : buffers'[i].length < LARGE_BUFFER
      BY <1>2, QueueKeepsRoom DEF AppendNext, BuffersHaveRoom
    <2>3. BuffersHaveRoom'
      BY <2>1, <2>2 DEF BuffersHaveRoom
    <2> QED BY <1>2, <2>1, <2>2, <2>3 DEF AppendNext
  <1>3. CASE AllocateBuffer
    <2>1. /\ buffers' \in Seq(Buffer) /\ Len(buffers') = Len(buffers) + 1
          /\ \A i \in 1..Len(buffers') : buffers'[i].length < LARGE_BUFFER
      BY <1>3, QueueKeepsRoom DEF AllocateBuffer, BuffersHaveRoom
    <2>2. BuffersHaveRoom'
      BY <1>3, <2>1 DEF AllocateBuffer, BuffersHaveRoom, Empty
    <2> QED BY <1>3, <2>1, <2>2 DEF AllocateBuffer, MayAllocate
  <1>4. CASE AppendAllocated
    <2>1. currentBuffer' \in Buffer /\ currentBuffer'.length < LARGE_BUFFER
      BY <1>4, AppendKeepsRoom, EmptyFits DEF AppendAllocated, CountAllocated
    <2>2. BuffersHaveRoom'
      BY <1>4, <2>1 DEF AppendAllocated, BuffersHaveRoom
    <2> QED BY <1>4, <2>1, <2>2 DEF AppendAllocated, CountAllocated
  <1>5. CASE AllBuffersFull
    BY <1>5 DEF AllBuffersFull, BuffersHaveRoom
  <1>6. CASE BackOff
    BY <1>6 DEF BackOff, BuffersHaveRoom
  <1>7. CASE Retry
    BY <1>7 DEF Retry, BuffersHaveRoom
  <1> QED BY <1>1, <1>2, <1>3, <1>4, <1>5, <1>6, <1>7 DEF AppendStep

\* The steps of threadFunc; the swap is where the buffers change hands.
LEMMA SinkPreserves ==
    IndInv /\ (SinkStep \/ Timeout \/ SpuriousWakeup) => IndInv'
  <1> SUFFICES ASSUME IndInv, SinkStep \/ Timeout \/ SpuriousWakeup
               PROVE  IndInv'
    OBVIOUS
  <1> USE SinkAssumption, EmptyBuffer
      DEF IndInv, TypeOK, AppendState, SinkState, ThreadFuncAsserts, Missing,
          SpareIsOwed, AllocationOpen, QueueIsCounted, WrittenIsBounded,
          NextUsed, Uncounted, MaxNew, appendVars
  <1>1. CASE CheckRunning
    BY <1>1 DEF CheckRunning, BuffersHaveRoom
  <1>2. CASE BeginWait
    BY <1>2 DEF BeginWait, BuffersHaveRoom
  <1>3. CASE Collect
    <2> USE <1>3 DEF Collect, MutexFree, NextAfterSwap
    <2>1. newBuffer1 = Empty /\ newBuffer2 = Empty /\ buffersToWrite = <<>>
      OBVIOUS
    <2>2. Len(buffers) <= 2 * MaxNew + 1
      OBVIOUS
    <2>3. CASE TakesCurrent
      <3>1. /\ buffersToWrite' \in Seq(Buffer)
            /\ Len(buffersToWrite') = Len(buffers) + 1
        BY <2>3, QueueKeepsRoom DEF BuffersHaveRoom
      <3>2. BuffersHaveRoom'
        BY <2>1, <2>3 DEF BuffersHaveRoom, Empty
      <3> QED BY <2>1, <2>2, <2>3, <3>1, <3>2
    <2>4. CASE ~TakesCurrent
      <3>1. BuffersHaveRoom'
        BY <2>1, <2>4 DEF BuffersHaveRoom
      <3> QED BY <2>1, <2>2, <2>4, <3>1
    <2> QED BY <2>3, <2>4
  <1>4. CASE Format
    BY <1>4 DEF Format, Kept, BuffersHaveRoom
  <1>5. CASE ResetCount
    BY <1>5 DEF ResetCount, BuffersHaveRoom
  <1>6. CASE Refill
    BY <1>6 DEF Refill, BuffersHaveRoom
  <1>7. CASE Timeout
    BY <1>7 DEF Timeout, EndWait, BuffersHaveRoom
  <1>8. CASE SpuriousWakeup
    BY <1>8 DEF SpuriousWakeup, EndWait, BuffersHaveRoom
  <1> QED BY <1>1, <1>2, <1>3, <1>4, <1>5, <1>6, <1>7, <1>8 DEF SinkStep

LEMMA StepPreserves == IndInv /\ [Next]_vars => IndInv'
  <1> SUFFICES ASSUME IndInv, [Next]_vars PROVE IndInv'
    OBVIOUS
  <1> USE DEF IndInv, TypeOK, AppendState, SinkState, ThreadFuncAsserts,
          Missing, SpareIsOwed, AllocationOpen, QueueIsCounted,
          WrittenIsBounded, NextUsed, Uncounted, MaxNew, BuffersHaveRoom,
          NotifySink, SinkAfterNotify, appendVars, sinkVars
  <1>1. ASSUME NEW b \in Block, Call(b) PROVE IndInv'
    BY <1>1 DEF Call
  <1>2. CASE AppendStep
    BY ONLY <1>2, IndInv, AppendPreserves
  <1>3. CASE SinkStep \/ Timeout \/ SpuriousWakeup
    BY ONLY <1>3, IndInv, SinkPreserves
  <1>4. CASE PollThreadExits
    BY <1>4 DEF PollThreadExits
  <1>5. CASE StopStep
    <2>1. CASE Stop
      BY <2>1 DEF Stop
    <2>2. CASE StopNotify
      BY <2>2 DEF StopNotify
    <2>3. CASE Join
      BY <2>3 DEF Join
    <2> QED BY <1>5, <2>1, <2>2, <2>3 DEF StopStep
  <1>6. CASE UNCHANGED vars
    BY <1>6 DEF vars
  <1>7. CASE Joined
    BY <1>7, <1>6 DEF Joined
  <1> QED
    BY <1>1, <1>2, <1>3, <1>4, <1>5, <1>6, <1>7 DEF Next

\* The buffers, the count and the program counters always have their types.
THEOREM TypeCorrect == Spec => []TypeOK
  <1>1. IndInv => TypeOK
    BY DEF IndInv
  <1> QED BY <1>1, InitEstablishes, StepPreserves, PTL DEF Spec

\* threadFunc's assertions on its spare and written buffers never fail.
THEOREM AssertionsHold == Spec => []ThreadFuncAsserts
  <1>1. IndInv => ThreadFuncAsserts
    BY DEF IndInv
  <1> QED BY <1>1, InitEstablishes, StepPreserves, PTL DEF Spec

\* append takes nextBuffer_ only by queueing a buffer the sink thread owes a
\* spare for, so the sink thread never sleeps while append lacks buffers.
THEOREM SparesBalance == Spec => []SpareIsOwed
  <1>1. IndInv => SpareIsOwed
    BY DEF IndInv
  <1> QED BY <1>1, InitEstablishes, StepPreserves, PTL DEF Spec

\* SinkBuffer::append's assertion holds: no block overruns its buffer.
THEOREM NoOverrun == Spec => []BuffersHaveRoom
  <1>1. IndInv => BuffersHaveRoom
    BY DEF IndInv
  <1> QED BY <1>1, InitEstablishes, StepPreserves, PTL DEF Spec

\* The queue of buffers is bounded although newBufferCount_ is reset outside
\* mutex_ and while the queue is not empty.
THEOREM QueueBound == Spec => []QueueIsBounded
  <1>1. IndInv => QueueIsBounded
    BY SinkAssumption
    DEF IndInv, TypeOK, QueueIsBounded, QueueIsCounted, WrittenIsBounded,
        AllocationOpen, NextUsed, Uncounted, MaxNew
  <1> QED BY <1>1, InitEstablishes, StepPreserves, PTL DEF Spec

-----------------------------------------------------------------------------
(* The blocks of a queue of buffers                                         *)

\* The blocks of a queue, and of a queue with one more buffer.
LEMMA BlocksOfQueue ==
    ASSUME NEW bufs \in Seq(Buffer), NEW buf \in Buffer
    PROVE  /\ Blocks(bufs) \in Seq(Block)
           /\ Blocks(Append(bufs, buf)) = Blocks(bufs) \o buf.blocks
  <1> DEFINE ss == [i \in 1..Len(bufs) |-> bufs[i].blocks]
             st == [i \in 1..Len(Append(bufs, buf)) |-> Append(bufs, buf)[i].blocks]
  <1>1. /\ Len(bufs) \in Nat /\ \A i \in 1..Len(bufs) : bufs[i] \in Buffer
        /\ Append(bufs, buf) \in Seq(Buffer)
        /\ Len(Append(bufs, buf)) = Len(bufs) + 1
        /\ \A i \in 1..Len(bufs) : Append(bufs, buf)[i] = bufs[i]
        /\ Append(bufs, buf)[Len(bufs) + 1] = buf
    OBVIOUS
  <1>2. /\ buf.blocks \in Seq(Block)
        /\ \A i \in 1..Len(bufs) : bufs[i].blocks \in Seq(Block)
    BY <1>1 DEF Buffer
  <1>3. /\ ss \in Seq(Seq(Block)) /\ Len(ss) = Len(bufs)
        /\ \A i \in 1..Len(ss) : ss[i] = bufs[i].blocks
    <2> DEFINE Q == Seq(Block)
    <2> HIDE DEF Q
    <2>1. ss \in [1..Len(bufs) -> Q]
      BY <1>2 DEF Q
    <2>2. ss \in Seq(Q) /\ Len(ss) = Len(bufs)
      <3> HIDE DEF ss
      <3> QED BY <1>1, <2>1
    <2> QED BY <2>2 DEF Q
  <1>4. /\ Append(ss, buf.blocks) \in Seq(Seq(Block))
        /\ Len(Append(ss, buf.blocks)) = Len(ss) + 1
        /\ \A i \in 1..Len(ss) : Append(ss, buf.blocks)[i] = ss[i]
        /\ Append(ss, buf.blocks)[Len(ss) + 1] = buf.blocks
    <2> DEFINE Q == Seq(Block)
    <2>1. ss \in Seq(Q) /\ buf.blocks \in Q
      BY <1>2, <1>3
    <2> HIDE DEF Q, ss
    <2>2. /\ Append(ss, buf.blocks) \in Seq(Q)
          /\ Len(Append(ss, buf.blocks)) = Len(ss) + 1
          /\ \A i \in 1..Len(ss) : Append(ss, buf.blocks)[i] = ss[i]
          /\ Append(ss, buf.blocks)[Len(ss) + 1] = buf.blocks
      BY <2>1
    <2> QED BY <2>2 DEF Q
  <1>5. st = Append(ss, buf.blocks)
    <2> DEFINE Q == Seq(Block)
               u == Append(ss, buf.blocks)
    <2>1. u \in Seq(Q) /\ Len(u) = Len(bufs) + 1
      BY <1>3, <1>4
    <2>2. \A i \in 1..(Len(bufs) + 1) : u[i] = Append(bufs, buf)[i].blocks
      <3> SUFFICES ASSUME NEW i \in 1..(Len(bufs) + 1)
                   PROVE  u[i] = Append(bufs, buf)[i].blocks
        OBVIOUS
      <3>1. CASE i \in 1..Len(bufs)
        BY <1>1, <1>3, <1>4, <3>1
      <3>2. CASE i = Len(bufs) + 1
        BY <1>1, <1>3, <1>4, <3>2
      <3> QED BY <1>1, <3>1, <3>2
    <2> HIDE DEF u, Q
    <2>3. u = [i \in 1..(Len(bufs) + 1) |-> u[i]]
      BY <2>1
    <2>4. u = st
      BY <1>1, <2>2, <2>3
    <2> QED BY <2>4 DEF u
  <1> HIDE DEF ss, st
  <1>6. /\ FlattenSeq(ss) \in Seq(Block)
        /\ FlattenSeq(Append(ss, buf.blocks)) = FlattenSeq(ss) \o buf.blocks
    BY <1>2, <1>3, FlattenAppend, Zenon
  <1> QED BY <1>5, <1>6 DEF Blocks, ss, st

\* An empty queue has no blocks.
LEMMA BlocksOfNone == Blocks(<<>>) = <<>>
  <1>1. [i \in 1..Len(<<>>) |-> <<>>[i].blocks] = <<>>
    OBVIOUS
  <1> QED BY <1>1, FlattenEmpty DEF Blocks

-----------------------------------------------------------------------------
(* The sink is a FIFO queue of blocks                                       *)

\* A buffer is queued, and swapped out, only with something in it: so a pass
\* of the sink thread always formats something.
QueuedHoldBlocks ==
    /\ currentBuffer.blocks = <<>> => currentBuffer.length = 0
    /\ buffers # <<>> => Blocks(buffers) # <<>>
    /\ sState = "format" => Blocks(buffersToWrite) # <<>>

\* The sequences Held is made of, in order.
Writing == IF sState = "format" THEN Blocks(buffersToWrite) ELSE <<>>
Queued  == Blocks(buffers)
Current == currentBuffer.blocks

LEMMA PartsAreSequences ==
    ASSUME IndInv
    PROVE  /\ Writing \in Seq(Block) /\ Queued \in Seq(Block) /\ Current \in Seq(Block)
           /\ Held = Writing \o Queued \o Current
  <1>1. buffers \in Seq(Buffer) /\ buffersToWrite \in Seq(Buffer) /\ currentBuffer \in Buffer
    BY DEF IndInv, TypeOK
  <1>2. Blocks(buffers) \in Seq(Block) /\ Blocks(buffersToWrite) \in Seq(Block)
    BY <1>1, EmptyBuffer, BlocksOfQueue
  <1>3. currentBuffer.blocks \in Seq(Block)
    BY <1>1 DEF Buffer
  <1>4. <<>> \in Seq(Block)
    OBVIOUS
  <1> QED BY <1>2, <1>3, <1>4 DEF Held, Writing, Queued, Current

\* A buffer without blocks has room for any block, and is not full.
LEMMA FullHoldsBlocks ==
    ASSUME IndInv, QueuedHoldBlocks
    PROVE  /\ \A b \in Block : ~Fits(currentBuffer, b) => Current # <<>>
           /\ TakesCurrent => Current # <<>>
  <1>1. ASSUME NEW b \in Block, Current = <<>> PROVE Fits(currentBuffer, b)
    BY <1>1, SinkAssumption DEF QueuedHoldBlocks, Fits, Current
  <1>2. ASSUME Current = <<>> PROVE ~TakesCurrent
    BY <1>2, SinkAssumption DEF QueuedHoldBlocks, TakesCurrent, Current
  <1> QED BY <1>1, <1>2

\* Queueing the current buffer moves its blocks behind those queued.
LEMMA QueueCurrent ==
    ASSUME IndInv
    PROVE  /\ Blocks(Append(buffers, currentBuffer)) = Queued \o Current
           /\ Current # <<>> => Blocks(Append(buffers, currentBuffer)) # <<>>
  <1>1. buffers \in Seq(Buffer) /\ currentBuffer \in Buffer
    BY DEF IndInv, TypeOK
  <1>2. Blocks(Append(buffers, currentBuffer)) = Queued \o Current
    BY <1>1, BlocksOfQueue DEF Queued, Current
  <1> QED BY <1>2, PartsAreSequences, ConcatEqualIffEmpty, ConcatSimplifications!concIsEmpty

LEMMA QueuedHoldBlocksStep ==
    ASSUME IndInv, IndInv', QueuedHoldBlocks, [Next]_vars
    PROVE  QueuedHoldBlocks'
  <1>1. ASSUME UNCHANGED <<currentBuffer, buffers, buffersToWrite>>,
               sState' = "format" => sState = "format"
        PROVE  QueuedHoldBlocks'
    BY <1>1 DEF QueuedHoldBlocks
  <1>2. ASSUME sState' = "format" => sState = "format", buffersToWrite' = buffersToWrite
        PROVE  sState' = "format" => Blocks(buffersToWrite') # <<>>
    BY <1>2 DEF QueuedHoldBlocks
  <1>3. ASSUME NEW buf \in Buffer, NEW b \in Block
        PROVE  AppendInternal(buf, b).blocks # <<>>
    <2>1. buf.blocks \in Seq(Block)
      BY DEF Buffer
    <2> QED BY <2>1, AppendProperties DEF AppendInternal
  <1>4. /\ currentBuffer \in Buffer /\ logline \in Block
        /\ nextBuffer # NoBuffer => nextBuffer = Empty
    BY DEF IndInv, TypeOK, SpareIsOwed
  <1>5. ASSUME NEW b \in Block, Call(b) PROVE QueuedHoldBlocks'
    BY <1>1, <1>5 DEF Call, sinkVars
  <1>6. CASE AppendCurrent
    <2>1. currentBuffer'.blocks # <<>>
      BY <1>3, <1>4, <1>6 DEF AppendCurrent
    <2> QED BY <1>2, <1>6, <2>1 DEF AppendCurrent, sinkVars, QueuedHoldBlocks
  <1>7. CASE AppendNext
    <2>1. currentBuffer'.blocks # <<>>
      BY <1>3, <1>4, <1>7, EmptyBuffer DEF AppendNext
    <2>2. Blocks(buffers') # <<>>
      BY <1>4, <1>7, FullHoldsBlocks, QueueCurrent DEF AppendNext
    <2>3. /\ buffersToWrite' = buffersToWrite
          /\ sState' = "format" => sState = "format"
      BY <1>7 DEF AppendNext, NotifySink, SinkAfterNotify
    <2> QED BY <1>2, <2>1, <2>2, <2>3 DEF QueuedHoldBlocks
  <1>8. CASE AllocateBuffer
    <2>1. Blocks(buffers') # <<>>
      BY <1>4, <1>8, FullHoldsBlocks, QueueCurrent DEF AllocateBuffer
    <2> QED BY <1>2, <1>8, <2>1 DEF AllocateBuffer, sinkVars, QueuedHoldBlocks, Empty
  <1>9. CASE AppendAllocated
    <2>1. currentBuffer'.blocks # <<>>
      BY <1>3, <1>4, <1>9 DEF AppendAllocated
    <2>2. /\ UNCHANGED <<buffers, buffersToWrite>>
          /\ sState' = "format" => sState = "format"
      BY <1>9 DEF AppendAllocated, NotifySink, SinkAfterNotify
    <2> QED BY <1>2, <2>1, <2>2 DEF QueuedHoldBlocks
  <1>10. CASE AllBuffersFull \/ Retry \/ BackOff
    BY <1>1, <1>10 DEF AllBuffersFull, Retry, BackOff, NotifySink, SinkAfterNotify, sinkVars
  <1>11. CASE Collect
    <2>1. newBuffer1 = Empty /\ buffersToWrite = <<>>
      BY <1>11 DEF Collect, IndInv, ThreadFuncAsserts
    <2>2. buffers' = <<>> /\ (sState' = "format" => buffersToWrite' # <<>>)
      BY <1>11, <2>1 DEF Collect
    <2>3. CASE TakesCurrent
      <3>1. buffersToWrite' = Append(buffers, currentBuffer) /\ currentBuffer' = Empty
        BY <1>11, <2>1, <2>3 DEF Collect
      <3>2. Blocks(buffersToWrite') # <<>>
        BY <2>3, <3>1, FullHoldsBlocks, QueueCurrent
      <3> QED BY <2>2, <3>1, <3>2 DEF QueuedHoldBlocks, Empty
    <2>4. CASE ~TakesCurrent
      <3>1. buffersToWrite' = buffers /\ currentBuffer' = currentBuffer
        BY <1>11, <2>4 DEF Collect
      <3> QED BY <2>2, <3>1 DEF QueuedHoldBlocks
    <2> QED BY <2>3, <2>4
  <1>12. CASE Format
    BY <1>12 DEF Format, QueuedHoldBlocks
  <1>13. CASE Refill
    BY <1>13 DEF Refill, QueuedHoldBlocks
  <1>14. CASE CheckRunning \/ BeginWait \/ ResetCount \/ Timeout \/ SpuriousWakeup
    BY <1>1, <1>14 DEF CheckRunning, BeginWait, ResetCount, Timeout, SpuriousWakeup, EndWait
  <1>15. CASE PollThreadExits \/ StopStep \/ Joined \/ UNCHANGED vars
    BY <1>1, <1>15
    DEF PollThreadExits, StopStep, Stop, StopNotify, Join, Joined, NotifySink, SinkAfterNotify,
        sinkVars, vars
  <1> QED
    BY <1>5, <1>6, <1>7, <1>8, <1>9, <1>10, <1>11, <1>12, <1>13, <1>14, <1>15
    DEF Next, AppendStep, SinkStep

\* The parts of Held in the next state.
LEMMA PartsAreSequencesNext ==
    ASSUME IndInv'
    PROVE  /\ Writing' \in Seq(Block) /\ Queued' \in Seq(Block) /\ Current' \in Seq(Block)
           /\ Held' = Writing' \o Queued' \o Current'
  <1>1. /\ buffers' \in Seq(Buffer) /\ buffersToWrite' \in Seq(Buffer)
        /\ currentBuffer' \in Buffer
    BY DEF IndInv, TypeOK
  <1>2. Blocks(buffers') \in Seq(Block) /\ Blocks(buffersToWrite') \in Seq(Block)
    BY <1>1, EmptyBuffer, BlocksOfQueue
  <1>3. currentBuffer'.blocks \in Seq(Block)
    BY <1>1 DEF Buffer
  <1>4. <<>> \in Seq(Block)
    OBVIOUS
  <1> QED BY <1>2, <1>3, <1>4 DEF Held, Writing, Queued, Current

\* Three runs of blocks, taken together either way.
LEMMA BlocksRegroup ==
    ASSUME NEW x \in Seq(Block), NEW y \in Seq(Block), NEW z \in Seq(Block)
    PROVE  (x \o y) \o z = x \o (y \o z)
  BY ConcatAssociative, SMT

\* No blocks on either side make no difference.
LEMMA NoBlocksAround ==
    ASSUME NEW x \in Seq(Block)
    PROVE  x \o <<>> = x /\ <<>> \o x = x
  BY ConcatEmptySeq

\* append puts its block behind everything held, in whichever buffer it finds.
LEMMA AppendPuts ==
    ASSUME IndInv, IndInv', AppendCurrent \/ AppendNext \/ AppendAllocated
    PROVE  Fifo!Put(<<logline>>) /\ logline \in Block
  <1>1. logline \in Block /\ currentBuffer \in Buffer
    BY DEF IndInv, TypeOK
  <1>2. formatted' = formatted /\ Writing' = Writing
    BY DEF AppendCurrent, AppendNext, AppendAllocated, NotifySink, SinkAfterNotify, sinkVars,
           Writing
  <1>3. Held' = Held \o <<logline>>
    <2> DEFINE W == Writing
               Q == Queued
               C == Current
               s == <<logline>>
    <2>1. /\ W \in Seq(Block) /\ Q \in Seq(Block) /\ C \in Seq(Block) /\ s \in Seq(Block)
          /\ Held = W \o Q \o C
      BY <1>1, PartsAreSequences
    <2>2. CASE AppendCurrent \/ AppendAllocated
      <3>1. Queued' = Q /\ Current' = C \o s
        <4>1. buffers' = buffers /\ currentBuffer' = AppendInternal(currentBuffer, logline)
          BY <2>2 DEF AppendCurrent, AppendAllocated
        <4>2. Current' = Append(Current, logline)
          BY <4>1 DEF AppendInternal, Current
        <4>3. Append(Current, logline) = Current \o <<logline>>
          BY <1>1, <2>1, AppendIsConcat
        <4> QED BY <4>1, <4>2, <4>3 DEF Queued
      <3>2. Held' = (W \o Q) \o (C \o s)
        BY <1>2, <3>1, PartsAreSequencesNext
      <3> HIDE DEF W, Q, C, s
      <3> DEFINE wq == W \o Q
      <3>3. wq \in Seq(Block)
        BY <2>1
      <3> HIDE DEF wq
      <3>4. wq \o (C \o s) = (wq \o C) \o s
        <4>1. C \in Seq(Block) /\ s \in Seq(Block)
          BY <2>1
        <4> QED BY <3>3, <4>1, BlocksRegroup, Zenon
      <3> QED BY <2>1, <3>2, <3>4 DEF s, wq
    <2>3. CASE AppendNext
      <3>1. Current' = s
        <4>1. nextBuffer = Empty /\ currentBuffer' = AppendInternal(nextBuffer, logline)
          BY <2>3 DEF AppendNext, IndInv, SpareIsOwed
        <4> QED BY <4>1 DEF AppendInternal, Empty, Current
      <3>2. Queued' = Q \o C
        BY <2>3, QueueCurrent DEF AppendNext, Queued
      <3>3. Held' = W \o (Q \o C) \o s
        BY <1>2, <3>1, <3>2, PartsAreSequencesNext
      <3> HIDE DEF W, Q, C, s
      <3>4. W \o (Q \o C) = (W \o Q) \o C
        <4>1. W \in Seq(Block) /\ Q \in Seq(Block) /\ C \in Seq(Block)
          BY <2>1
        <4> QED BY <4>1, BlocksRegroup, Zenon
      <3> QED BY <2>1, <3>3, <3>4 DEF s
    <2> QED BY <2>2, <2>3
  <1> QED BY <1>1, <1>2, <1>3 DEF Fifo!Put

\* Queueing a full buffer and starting an empty one moves no block.
LEMMA AllocateKeeps ==
    ASSUME IndInv, IndInv', AllocateBuffer
    PROVE  Held' = Held
  <1> DEFINE W == Writing
             Q == Queued
             C == Current
  <1>1. W \in Seq(Block) /\ Q \in Seq(Block) /\ C \in Seq(Block) /\ Held = W \o Q \o C
    BY PartsAreSequences
  <1>2. Writing' = W /\ Queued' = Q \o C /\ Current' = <<>>
    BY QueueCurrent DEF AllocateBuffer, sinkVars, Writing, Queued, Current, Empty
  <1>3. Held' = W \o (Q \o C) \o <<>>
    BY <1>2, PartsAreSequencesNext
  <1> HIDE DEF W, Q, C
  <1>4. W \o (Q \o C) = (W \o Q) \o C /\ W \o (Q \o C) \in Seq(Block)
    <2>1. W \o (Q \o C) = (W \o Q) \o C
      <3>1. W \in Seq(Block) /\ Q \in Seq(Block) /\ C \in Seq(Block)
        BY <1>1
      <3> QED BY <3>1, BlocksRegroup, Zenon
    <2> QED BY <1>1, <2>1
  <1> QED BY <1>1, <1>3, <1>4, ConcatEmptySeq

\* The swap of the queue under mutex_ moves no block either: what was queued
\* is what will be written, and the rest stays behind it.
LEMMA CollectKeeps ==
    ASSUME IndInv, IndInv', Collect
    PROVE  Held' = Held
  <1> DEFINE Q == Queued
             C == Current
  <1>1. Q \in Seq(Block) /\ C \in Seq(Block) /\ <<>> \in Seq(Block) /\ Held = <<>> \o Q \o C
    BY PartsAreSequences DEF Collect, Writing
  <1>2. /\ newBuffer1 = Empty /\ buffersToWrite = <<>>
        /\ buffers' = <<>>
        /\ sState' = IF buffersToWrite' = <<>> THEN "head" ELSE "format"
    BY DEF Collect, IndInv, ThreadFuncAsserts
  <1>3. Queued' = <<>>
    BY <1>2, BlocksOfNone DEF Queued
  <1>4. Writing' = Blocks(buffersToWrite')
    BY <1>2, BlocksOfNone DEF Writing
  <1>5. Held' = Blocks(buffersToWrite') \o <<>> \o Current'
    BY <1>3, <1>4, PartsAreSequencesNext
  <1>6. CASE TakesCurrent
    <2>1. /\ buffersToWrite' = Append(buffers, currentBuffer) /\ currentBuffer' = Empty
      BY <1>2, <1>6 DEF Collect
    <2>2. Blocks(buffersToWrite') = Q \o C /\ Current' = <<>>
      BY <2>1, QueueCurrent DEF Current, Empty
    <2>3. Held' = (Q \o C) \o <<>> \o <<>>
      BY <1>5, <2>2
    <2> HIDE DEF Q, C
    <2>4. Q \in Seq(Block) /\ C \in Seq(Block) /\ Q \o C \in Seq(Block)
      BY <1>1
    <2>5. (Q \o C) \o <<>> = Q \o C /\ <<>> \o Q = Q
      BY <2>4, NoBlocksAround, Zenon
    <2> QED BY <1>1, <2>3, <2>5
  <1>7. CASE ~TakesCurrent
    <2>1. buffersToWrite' = buffers /\ currentBuffer' = currentBuffer
      BY <1>7 DEF Collect
    <2>2. Held' = Q \o <<>> \o C
      BY <1>5, <2>1 DEF Queued, Current
    <2> HIDE DEF Q, C
    <2>3. Q \in Seq(Block) /\ C \in Seq(Block)
      BY <1>1
    <2>4. Q \o <<>> = Q /\ <<>> \o Q = Q
      BY ONLY <2>3, NoBlocksAround, Zenon
    <2> QED BY <1>1, <2>2, <2>4
  <1> QED BY <1>6, <1>7

\* Formatting takes what is being written, a non-empty prefix of the queue.
LEMMA FormatTakes ==
    ASSUME IndInv, IndInv', QueuedHoldBlocks, Format
    PROVE  \E k \in 1..Len(Held) : Fifo!Take(k)
  <1> DEFINE W == Writing
             R == Queued \o Current
             k == Len(W)
  <1>1. W \in Seq(Block) /\ R \in Seq(Block) /\ Held = W \o R
    <2>1. /\ Writing \in Seq(Block) /\ Queued \in Seq(Block) /\ Current \in Seq(Block)
          /\ Held = Writing \o Queued \o Current
      BY PartsAreSequences
    <2>2. Writing \o Queued \o Current = Writing \o (Queued \o Current)
      <3>1. Writing \in Seq(Block) /\ Queued \in Seq(Block) /\ Current \in Seq(Block)
        BY <2>1
      <3> QED BY <3>1, BlocksRegroup, Zenon
    <2> QED BY <2>1, <2>2
  <1>2. W # <<>> /\ formatted' = W
    BY DEF Format, Written, Writing, QueuedHoldBlocks
  <1>3. Held' = R
    <2>1. Writing' = <<>> /\ Queued' = Queued /\ Current' = Current
      BY DEF Format, Writing, Queued, Current
    <2>2. Held' = <<>> \o Queued \o Current
      BY <2>1, PartsAreSequencesNext
    <2> QED BY <2>2, PartsAreSequences, ConcatEmptySeq
  <1> HIDE DEF W, R
  <1>4. /\ W \o R \in Seq(Block) /\ Len(W \o R) = Len(W) + Len(R)
        /\ \A i \in 1..Len(W) + Len(R) :
             (W \o R)[i] = IF i <= Len(W) THEN W[i] ELSE R[i - Len(W)]
    BY <1>1, ConcatProperties
  <1>5. Len(W) \in Nat \ {0} /\ Len(R) \in Nat
    BY <1>1, <1>2, EmptySeq
  <1>6. W = SubSeq(W \o R, 1, Len(W))
    <2>1. \A i \in 1..Len(W) : W[i] = (W \o R)[1 + i - 1]
      BY <1>4, <1>5
    <2>2. /\ 1 \in Nat /\ Len(W) \in Nat /\ 1 <= 1 /\ 1 <= Len(W) + 1
          /\ Len(W) <= Len(W \o R) /\ Len(W) = Len(W) - 1 + 1
      BY <1>4, <1>5
    <2> QED BY <1>1, <1>4, <2>1, <2>2, IsSubSeq, Zenon
  <1>7. R = SubSeq(W \o R, Len(W) + 1, Len(W \o R))
    <2>1. \A i \in 1..Len(R) : R[i] = (W \o R)[(Len(W) + 1) + i - 1]
      <3> SUFFICES ASSUME NEW i \in 1..Len(R)
                   PROVE  R[i] = (W \o R)[(Len(W) + 1) + i - 1]
        OBVIOUS
      <3>1. PICK j \in 1..(Len(W) + Len(R)) : j = Len(W) + i
        BY <1>5
      <3>2. (Len(W) + 1) + i - 1 = j /\ j - Len(W) = i /\ ~(j <= Len(W))
        BY <1>5, <3>1
      <3> QED BY <1>4, <3>2
    <2>2. /\ Len(W) + 1 \in Nat /\ Len(W \o R) \in Nat /\ 1 <= Len(W) + 1
          /\ Len(W) + 1 <= Len(W \o R) + 1
          /\ Len(W \o R) <= Len(W \o R) /\ Len(R) = Len(W \o R) - (Len(W) + 1) + 1
      BY <1>4, <1>5
    <2> QED BY <1>1, <1>4, <2>1, <2>2, IsSubSeq, Zenon
  <1>8. k \in 1..Len(Held)
    BY <1>1, <1>4, <1>5
  <1> QED BY <1>1, <1>2, <1>3, <1>6, <1>7, <1>8 DEF Fifo!Take

\* Every step of the sink is a step of the abstract queue or none at all.
LEMMA FifoStep ==
    ASSUME IndInv, IndInv', QueuedHoldBlocks, [Next]_vars
    PROVE  [Fifo!Next]_(Fifo!vars)
  <1>1. CASE AppendCurrent \/ AppendNext \/ AppendAllocated
    BY <1>1, AppendPuts DEF Fifo!Next
  <1>2. CASE Format
    BY <1>2, FormatTakes DEF Fifo!Next
  <1>3. CASE AllocateBuffer \/ Collect
    BY <1>3, AllocateKeeps, CollectKeeps DEF AllocateBuffer, Collect, sinkVars, Fifo!vars
  <1>4. ASSUME UNCHANGED <<currentBuffer, buffers, buffersToWrite, formatted>>,
               sState' = "format" <=> sState = "format"
        PROVE  UNCHANGED Fifo!vars
    BY <1>4 DEF Held, Fifo!vars
  <1>5. ASSUME NEW b \in Block, Call(b) PROVE UNCHANGED Fifo!vars
    BY <1>4, <1>5 DEF Call, sinkVars
  <1>6. CASE AllBuffersFull \/ Retry \/ BackOff
    BY <1>4, <1>6 DEF AllBuffersFull, Retry, BackOff, NotifySink, SinkAfterNotify, sinkVars
  <1>7. CASE CheckRunning \/ BeginWait \/ ResetCount \/ Timeout \/ SpuriousWakeup
    BY <1>4, <1>7 DEF CheckRunning, BeginWait, ResetCount, Timeout, SpuriousWakeup, EndWait
  <1>8. CASE Refill
    BY <1>8 DEF Refill, Held, Fifo!vars
  <1>9. CASE PollThreadExits \/ StopStep \/ Joined \/ UNCHANGED vars
    BY <1>4, <1>9
    DEF PollThreadExits, StopStep, Stop, StopNotify, Join, Joined, NotifySink, SinkAfterNotify,
        sinkVars, vars
  <1> QED
    BY <1>1, <1>2, <1>3, <1>5, <1>6, <1>7, <1>8, <1>9 DEF Next, AppendStep, SinkStep

\* The sink is a FIFO queue of blocks: append puts one block at the end, one
\* pass of threadFunc formats all it swapped out, oldest first, and the
\* exchange of buffers between the two is invisible.
THEOREM ImplementsFifo == Spec => FifoSpec
  <1>1. Init => IndInv /\ QueuedHoldBlocks
    BY InitEstablishes DEF Init, QueuedHoldBlocks, Empty
  <1>2. IndInv /\ QueuedHoldBlocks /\ [Next]_vars => (IndInv /\ QueuedHoldBlocks)'
    BY StepPreserves, QueuedHoldBlocksStep
  <1>3. Init => Fifo!Init
    <2> SUFFICES ASSUME Init PROVE Fifo!Init
      OBVIOUS
    <2>1. Held = <<>> \o <<>> \o <<>>
      BY BlocksOfNone DEF Init, Held, Empty
    <2> QED BY <2>1 DEF Init, Fifo!Init
  <1>4. IndInv /\ IndInv' /\ QueuedHoldBlocks /\ [Next]_vars => [Fifo!Next]_(Fifo!vars)
    BY FifoStep
  <1> QED BY <1>1, <1>2, <1>3, <1>4, PTL DEF Spec, FifoSpec, Fifo!Spec
=============================================================================
