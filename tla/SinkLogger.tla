------------------------------ MODULE SinkLogger ------------------------------
(***************************************************************************)
(* RuntimeLogger::SinkLogger (src/runtime_logger.h, .cpp): the double      *)
(* buffer between the poll thread, which appends blocks of staged log      *)
(* bytes, and the sink thread, which formats them.  The poll thread fills  *)
(* currentBuffer_; full buffers queue up in buffers_; the sink thread      *)
(* swaps that queue out under mutex_ and gives empty buffers back.         *)
(*                                                                         *)
(* A critical section of mutex_ is one action, except where the code steps *)
(* outside the mutex's protection (newBufferCount_ is reset without it).   *)
(* A block, with its ThreadCheckPoint, is one atom with a size.  append's  *)
(* blocking = false, which nothing passes, is left out.                    *)
(*                                                                         *)
(* X_Fault above a definition X is X with a plausible bug, used only to    *)
(* show that the checked properties notice it.                             *)
(***************************************************************************)
EXTENDS Naturals, Sequences, SequencesExt

CONSTANTS
    LARGE_BUFFER,                           \* capacity of one buffer
    SUPPLEMENTARY_SINKBUFFER_MAXIMUM_SIZE,  \* extra buffers between resets
    Block,                                  \* what the poll thread appends
    blockSize,                              \* its bytes, checkpoint included
    NoBuffer                                \* a moved-from unique_ptr

ASSUME SinkAssumption ==
    /\ LARGE_BUFFER \in Nat \ {0}
    /\ SUPPLEMENTARY_SINKBUFFER_MAXIMUM_SIZE \in Nat
    /\ blockSize \in [Block -> 1..(LARGE_BUFFER - 1)]
    /\ NoBuffer \notin [blocks : Seq(Block), length : Nat]

VARIABLES
    \* protected by mutex_
    currentBuffer, nextBuffer, buffers,
    \* atomics
    newBufferCount, running,
    \* the poll thread, in append
    aState, logline,
    \* the sink thread, in threadFunc; formatted is what its last pass wrote
    sState, newBuffer1, newBuffer2, buffersToWrite, formatted,
    \* the thread that destroys the logger
    mState

appendVars == <<aState, logline>>
sinkVars == <<sState, newBuffer1, newBuffer2, buffersToWrite, formatted>>
vars == <<currentBuffer, nextBuffer, buffers, newBufferCount, running,
          appendVars, sinkVars, mState>>

Buffer == [blocks : Seq(Block), length : Nat]
Empty  == [blocks |-> <<>>, length |-> 0]

\* append: strictly more room than the block and its checkpoint take.
Fits(buf, b) == LARGE_BUFFER - buf.length > blockSize[b]

\* appendInternal: checkpoint and bytes go to the end of the buffer.
AppendInternal(buf, b) ==
    [blocks |-> Append(buf.blocks, b), length |-> buf.length + blockSize[b]]

AppendState == {"idle", "try", "counting", "backoff", "sleeping", "exited"}
SinkState == {"head", "lock", "waiting", "woken", "timedout",
              "format", "reset", "refill", "done"}

Init ==
    /\ currentBuffer = Empty /\ nextBuffer = Empty /\ buffers = <<>>
    /\ newBufferCount = 0 /\ running = TRUE
    /\ aState = "idle" /\ logline \in Block
    /\ sState = "head" /\ newBuffer1 = Empty /\ newBuffer2 = Empty
    /\ buffersToWrite = <<>> /\ formatted = <<>>
    /\ mState = "running"

\* mutex_ is held over two actions only in append, and not while it sleeps.
MutexFree_HeldAsleep == aState \notin {"counting", "backoff", "sleeping"}
MutexFree == aState # "counting"

\* cond_.notify_all(): lost unless the sink thread is waiting.
SinkAfterNotify == IF sState = "waiting" THEN "woken" ELSE sState
NotifySink ==
    /\ sState' = SinkAfterNotify
    /\ UNCHANGED <<newBuffer1, newBuffer2, buffersToWrite, formatted>>

-----------------------------------------------------------------------------
(* The poll thread: append                                                 *)

Call(b) ==
    /\ aState = "idle"
    /\ aState' = "try" /\ logline' = b
    /\ UNCHANGED <<currentBuffer, nextBuffer, buffers, newBufferCount,
                   running, sinkVars, mState>>

AppendCurrent ==
    /\ aState = "try"
    /\ Fits(currentBuffer, logline)
    /\ currentBuffer' = AppendInternal(currentBuffer, logline)
    /\ aState' = "idle"
    /\ UNCHANGED <<nextBuffer, buffers, newBufferCount, running, logline,
                   sinkVars, mState>>

\* currentBuffer_ is full: queue it and continue in nextBuffer_.
AppendNext ==
    /\ aState = "try"
    /\ ~Fits(currentBuffer, logline)
    /\ nextBuffer # NoBuffer
    /\ buffers' = Append(buffers, currentBuffer)
    /\ currentBuffer' = AppendInternal(nextBuffer, logline)
    /\ nextBuffer' = NoBuffer
    /\ aState' = "idle"
    /\ NotifySink
    /\ UNCHANGED <<newBufferCount, running, logline, mState>>

MayAllocate_NotStrict ==
    newBufferCount <= SUPPLEMENTARY_SINKBUFFER_MAXIMUM_SIZE
MayAllocate == newBufferCount < SUPPLEMENTARY_SINKBUFFER_MAXIMUM_SIZE

\* No nextBuffer_ either: allocate a supplementary buffer if the count
\* allows it ...
AllocateBuffer ==
    /\ aState = "try"
    /\ ~Fits(currentBuffer, logline)
    /\ nextBuffer = NoBuffer
    /\ MayAllocate
    /\ buffers' = Append(buffers, currentBuffer)
    /\ currentBuffer' = Empty
    /\ aState' = "counting"
    /\ UNCHANGED <<nextBuffer, newBufferCount, running, logline, sinkVars,
                   mState>>

CountAllocated_Forgotten == newBufferCount
CountAllocated == newBufferCount + 1

\* ... and, with mutex_ still held, count it and append.
AppendAllocated ==
    /\ aState = "counting"
    /\ newBufferCount' = CountAllocated
    /\ currentBuffer' = AppendInternal(currentBuffer, logline)
    /\ aState' = "idle"
    /\ NotifySink
    /\ UNCHANGED <<nextBuffer, buffers, running, logline, mState>>

\* No room anywhere: release mutex_, notify, sleep 100 ms, try again.
AllBuffersFull ==
    /\ aState = "try"
    /\ ~Fits(currentBuffer, logline)
    /\ nextBuffer = NoBuffer
    /\ ~MayAllocate
    /\ aState' = "backoff"
    /\ UNCHANGED <<currentBuffer, nextBuffer, buffers, newBufferCount,
                   running, logline, sinkVars, mState>>

BackOff ==
    /\ aState = "backoff"
    /\ aState' = "sleeping"
    /\ NotifySink
    /\ UNCHANGED <<currentBuffer, nextBuffer, buffers, newBufferCount,
                   running, logline, mState>>

Retry ==
    /\ aState = "sleeping"
    /\ aState' = "try"
    /\ UNCHANGED <<currentBuffer, nextBuffer, buffers, newBufferCount,
                   running, logline, sinkVars, mState>>

-----------------------------------------------------------------------------
(* The sink thread: threadFunc                                             *)

CheckRunning ==
    /\ sState = "head"
    /\ sState' = IF running THEN "lock" ELSE "done"
    /\ UNCHANGED <<currentBuffer, nextBuffer, buffers, newBufferCount,
                   running, appendVars, newBuffer1, newBuffer2,
                   buffersToWrite, formatted, mState>>

\* Nothing queued: wait_for(flushInterval_), which releases mutex_.
BeginWait ==
    /\ sState = "lock" /\ MutexFree
    /\ buffers = <<>>
    /\ sState' = "waiting"
    /\ UNCHANGED <<currentBuffer, nextBuffer, buffers, newBufferCount,
                   running, appendVars, newBuffer1, newBuffer2,
                   buffersToWrite, formatted, mState>>

\* The wait ends without a notification: by timeout, or spuriously.
EndWait(how) ==
    /\ sState = "waiting"
    /\ sState' = how
    /\ UNCHANGED <<currentBuffer, nextBuffer, buffers, newBufferCount,
                   running, appendVars, newBuffer1, newBuffer2,
                   buffersToWrite, formatted, mState>>

Timeout_Never == FALSE
Timeout == EndWait("timedout")
SpuriousWakeup == EndWait("woken")

\* currentBuffer_ joins the queue when more than 0.8 full, or after a
\* timeout when it holds anything at all.
TakesCurrent_IgnoresTimeout == 5 * currentBuffer.length > 4 * LARGE_BUFFER
TakesCurrent ==
    IF sState = "timedout" THEN currentBuffer.length > 0
    ELSE 5 * currentBuffer.length > 4 * LARGE_BUFFER

\* What becomes of nextBuffer_, and of the spare that may replace it.
NextAfterSwap == IF nextBuffer = NoBuffer THEN newBuffer2 ELSE nextBuffer

\* With mutex_ held: swap the queue out and hand the spare buffers over.
Collect ==
    /\ \/ sState = "lock" /\ buffers # <<>>
       \/ sState \in {"woken", "timedout"}
    /\ MutexFree
    /\ IF TakesCurrent
       THEN /\ buffersToWrite' = Append(buffers, currentBuffer)
            /\ currentBuffer' = newBuffer1
            /\ newBuffer1' = NoBuffer
       ELSE /\ buffersToWrite' = buffers
            /\ UNCHANGED <<currentBuffer, newBuffer1>>
    /\ buffers' = buffersToWrite
    /\ nextBuffer' = NextAfterSwap
    /\ newBuffer2' = IF nextBuffer = NoBuffer THEN NoBuffer ELSE newBuffer2
    /\ sState' = IF buffersToWrite' = <<>> THEN "head" ELSE "format"
    /\ UNCHANGED <<newBufferCount, running, appendVars, formatted, mState>>

\* The blocks of a sequence of buffers, in order.
Blocks(bufs) == FlattenSeq([i \in 1..Len(bufs) |-> bufs[i].blocks])

\* resize(2): the buffers kept to replace the spares.
Kept_One(bufs) == SubSeq(bufs, 1, 1)
Kept(bufs) == IF Len(bufs) > 2 THEN SubSeq(bufs, 1, 2) ELSE bufs

\* Every block of every buffer is formatted, before the buffers are dropped.
Written_OfKept(bufs) == Blocks(Kept(bufs))
Written(bufs) == Blocks(bufs)

Format ==
    /\ sState = "format"
    /\ formatted' = Written(buffersToWrite)
    /\ buffersToWrite' = Kept(buffersToWrite)
    /\ sState' = "reset"
    /\ UNCHANGED <<currentBuffer, nextBuffer, buffers, newBufferCount,
                   running, appendVars, newBuffer1, newBuffer2, mState>>

\* newBufferCount_.store(0), without mutex_: append may be counting.
ResetCount ==
    /\ sState = "reset"
    /\ newBufferCount' = 0
    /\ sState' = "refill"
    /\ UNCHANGED <<currentBuffer, nextBuffer, buffers, running, appendVars,
                   newBuffer1, newBuffer2, buffersToWrite, formatted, mState>>

\* How many spare buffers the last swap gave away.
Missing == (IF newBuffer1 = NoBuffer THEN 1 ELSE 0)
               + (IF newBuffer2 = NoBuffer THEN 1 ELSE 0)

\* Take the spares back from the written buffers, reset, free the rest.
\* A missing buffer at back() is the assertion failing: it stays missing.
Refill ==
    /\ sState = "refill"
    /\ newBuffer1' = IF newBuffer1 = NoBuffer /\ Len(buffersToWrite) >= 1
                     THEN Empty ELSE newBuffer1
    /\ newBuffer2' = IF newBuffer2 = NoBuffer /\ Len(buffersToWrite) >= Missing
                     THEN Empty ELSE newBuffer2
    /\ buffersToWrite' = <<>>
    /\ sState' = "head"
    /\ UNCHANGED <<currentBuffer, nextBuffer, buffers, newBufferCount,
                   running, appendVars, formatted, mState>>

-----------------------------------------------------------------------------
(* Destruction: ~RuntimeLogger joins the poll thread, then ~SinkLogger     *)
(* stops and joins the sink thread.                                        *)

PollThreadExits ==
    /\ aState = "idle"
    /\ aState' = "exited"
    /\ UNCHANGED <<currentBuffer, nextBuffer, buffers, newBufferCount,
                   running, logline, sinkVars, mState>>

Stop ==
    /\ mState = "running" /\ aState = "exited"
    /\ running' = FALSE
    /\ mState' = "stopped"
    /\ UNCHANGED <<currentBuffer, nextBuffer, buffers, newBufferCount,
                   appendVars, sinkVars>>

StopNotify ==
    /\ mState = "stopped"
    /\ mState' = "joining"
    /\ NotifySink
    /\ UNCHANGED <<currentBuffer, nextBuffer, buffers, newBufferCount,
                   running, appendVars>>

Join ==
    /\ mState = "joining" /\ sState = "done"
    /\ mState' = "joined"
    /\ UNCHANGED <<currentBuffer, nextBuffer, buffers, newBufferCount,
                   running, appendVars, sinkVars>>

Joined == mState = "joined" /\ UNCHANGED vars

-----------------------------------------------------------------------------
AppendStep ==
    \/ AppendCurrent
    \/ AppendNext
    \/ AllocateBuffer
    \/ AppendAllocated
    \/ AllBuffersFull
    \/ BackOff
    \/ Retry

SinkStep ==
    \/ CheckRunning
    \/ BeginWait
    \/ Collect
    \/ Format
    \/ ResetCount
    \/ Refill

StopStep ==
    \/ Stop
    \/ StopNotify
    \/ Join

Next ==
    \/ \E b \in Block : Call(b)
    \/ AppendStep
    \/ SinkStep
    \/ Timeout
    \/ SpuriousWakeup
    \/ PollThreadExits
    \/ StopStep
    \/ Joined

Spec == Init /\ [][Next]_vars

\* Every thread keeps running, and a wait that is begun again and again is
\* once not cut short: wait_for's timeout passes.  No caller must append or
\* exit.
FairSpec ==
    /\ Spec
    /\ WF_vars(AppendStep)
    /\ WF_vars(SinkStep)
    /\ SF_vars(Timeout)
    /\ WF_vars(StopStep)

-----------------------------------------------------------------------------
(* Properties *)

\* Buffers are buffers, a moved-from one only where the code leaves one; the
\* supplementary count never passes its maximum.
TypeOK ==
    /\ currentBuffer \in Buffer
    /\ nextBuffer \in Buffer \cup {NoBuffer}
    /\ buffers \in Seq(Buffer) /\ buffersToWrite \in Seq(Buffer)
    /\ newBufferCount \in 0..SUPPLEMENTARY_SINKBUFFER_MAXIMUM_SIZE
    /\ running \in BOOLEAN
    /\ aState \in AppendState /\ logline \in Block
    /\ sState \in SinkState
    /\ newBuffer1 \in {Empty, NoBuffer} /\ newBuffer2 \in {Empty, NoBuffer}
    /\ mState \in {"running", "stopped", "joining", "joined"}

\* The assertions of threadFunc (200-202, 360, 367): both spare buffers are
\* there and empty whenever the loop starts over, and the written buffers
\* are enough to replace the spares given away.
ThreadFuncAsserts ==
    /\ sState \in {"head", "lock", "waiting", "woken", "timedout"} =>
           newBuffer1 = Empty /\ newBuffer2 = Empty /\ buffersToWrite = <<>>
    /\ sState \in {"format", "reset", "refill"} =>
           Len(buffersToWrite) >= Missing /\ buffersToWrite # <<>>

\* When append has used up nextBuffer_ the queue is not empty, so the sink
\* thread does not sleep on it: the spare it hands over it gets back.
SpareIsOwed ==
    /\ nextBuffer = NoBuffer => buffers # <<>>
    /\ nextBuffer # NoBuffer => nextBuffer = Empty

\* No buffer is ever filled to its last byte (SinkBuffer::append's assert).
BuffersHaveRoom ==
    /\ currentBuffer.length < LARGE_BUFFER
    /\ \A i \in 1..Len(buffers) : buffers[i].length < LARGE_BUFFER

\* The supplementary buffers are bounded, though the count is reset between
\* two swaps of the queue: at most twice the maximum and nextBuffer_ queue
\* up, and the sink thread adds currentBuffer_ to what it writes.
QueueIsBounded ==
    /\ Len(buffers) <= 2 * SUPPLEMENTARY_SINKBUFFER_MAXIMUM_SIZE + 1
    /\ Len(buffersToWrite) <= 2 * SUPPLEMENTARY_SINKBUFFER_MAXIMUM_SIZE + 2

\* Everything appended and not yet formatted, oldest first.
Held ==
    (IF sState = "format" THEN Blocks(buffersToWrite) ELSE <<>>)
        \o Blocks(buffers) \o currentBuffer.blocks

\* Blocks are formatted in the order they were appended, none lost or
\* written twice, through every exchange of buffers.
Fifo == INSTANCE FifoQueue WITH
            Batch <- {<<b>> : b \in Block},
            queue <- Held,
            taken <- formatted
FifoSpec == Fifo!Spec

\* An append that finds every buffer full succeeds in the end.
BlockedAppendReturns == (aState = "backoff") ~> (aState = "idle")

\* What was appended is formatted in the end, even when the buffer never
\* fills up (the flush interval), unless the logger is stopped first.
HeldIsFormatted == (Held # <<>>) ~> (sState = "reset" \/ ~running)

\* stop() returns: its notification may come just before the sink thread
\* waits and be lost, but the wait is bounded.
StopReturns == (mState = "stopped") ~> (mState = "joined")
=============================================================================
