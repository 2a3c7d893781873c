---------------------------- MODULE RuntimeLogger ----------------------------
(***************************************************************************)
(* RuntimeLogger (src/runtime_logger.h, .cpp): the threads that log, the   *)
(* registry of their staging buffers, the poll thread that scans it, and   *)
(* the singleton's destruction.                                            *)
(*                                                                         *)
(* A thread's StagingBuffer is the number of entries published in it (the  *)
(* ring itself is module StagingBuffer), and handing a block to the sink   *)
(* is one step (the sink is module SinkLogger).  A thread is identified    *)
(* with its buffer: each creates one, since its stagingBuffer pointer is   *)
(* cleared only when the thread ends.                                      *)
(*                                                                         *)
(* X_Fault above a definition X is X with a plausible bug, used only to    *)
(* show that the checked properties notice it.                             *)
(***************************************************************************)
EXTENDS Integers, Sequences, SequencesExt

CONSTANTS
    Thread,                             \* threads that may log
    Capacity,                           \* entries a staging buffer holds
    NUMBER_OF_CHECKS_WITH_EMPTY_BUF,    \* idle scans before sleeping
    NoThread

ASSUME LoggerAssumption ==
    /\ Capacity \in Nat \ {0}
    /\ NUMBER_OF_CHECKS_WITH_EMPTY_BUF \in Nat \ {0}
    /\ NoThread \notin Thread

VARIABLES
    \* the logging threads
    tState,
    \* staging buffers: allocated, flagged _shouldDeallocate, entries published
    allocated, shouldDeallocate, staged,
    \* the registry, protected by bufferMutex
    threadBuffers,
    \* the poll thread in poll_, with its locals
    pState, i, sb, peekBytes, bytesWritten, count,
    \* a history of the buffers it has peeked at in this scan
    visited,
    \* destruction of the singleton
    bgThreadShouldExit, mState

bufferVars == <<allocated, shouldDeallocate, staged>>
pollVars == <<pState, i, sb, peekBytes, bytesWritten, count, visited>>
exitVars == <<bgThreadShouldExit, mState>>
vars == <<tState, bufferVars, threadBuffers, pollVars, exitVars>>

ThreadState == {"new", "locking", "allocating", "registering", "ready",
                "reserving", "writing", "exited"}
PollState == {"top", "lock", "scan", "check", "append", "relock", "sleep",
              "waiting", "done"}

Init ==
    /\ tState = [t \in Thread |-> "new"]
    /\ allocated = {} /\ shouldDeallocate = {}
    /\ staged = [t \in Thread |-> 0]
    /\ threadBuffers = <<>>
    /\ pState = "top" /\ i = 1 /\ sb = NoThread /\ peekBytes = 0
    /\ bytesWritten = 0 /\ count = 0 /\ visited = {}
    /\ bgThreadShouldExit = FALSE /\ mState = "running"

\* bufferMutex: the poll thread holds it while it scans; the logging threads
\* hold it for one step.
BufferMutexFree == pState \notin {"scan", "check"}

-----------------------------------------------------------------------------
(* A logging thread                                                        *)

Advance(t, from, to) ==
    /\ tState[t] = from
    /\ tState' = [tState EXCEPT ![t] = to]
    /\ UNCHANGED <<pollVars, exitVars>>

\* The first use (TZ_LOG, preallocate, setThreadName): the thread has no
\* stagingBuffer, so ensureStagingBufferAllocated begins ...
FirstUse(t) ==
    /\ Advance(t, "new", "locking")
    /\ UNCHANGED <<bufferVars, threadBuffers>>

\* ... takes bufferMutex and releases it at once ...
LockUnlock(t) ==
    /\ BufferMutexFree
    /\ Advance(t, "locking", "allocating")
    /\ UNCHANGED <<bufferVars, threadBuffers>>

\* ... allocates without it ...
Allocate(t) ==
    /\ Advance(t, "allocating", "registering")
    /\ allocated' = allocated \cup {t}
    /\ UNCHANGED <<shouldDeallocate, staged, threadBuffers>>

\* ... and locks again to publish the buffer.
Registry_InFront(t) == <<t>> \o threadBuffers
Registry(t) == Append(threadBuffers, t)

Register(t) ==
    /\ BufferMutexFree
    /\ Advance(t, "registering", "ready")
    /\ threadBuffers' = Registry(t)
    /\ UNCHANGED bufferVars

\* TZ_LOG calls reserveAlloc ...
BeginLog(t) ==
    /\ Advance(t, "ready", "reserving")
    /\ UNCHANGED <<bufferVars, threadBuffers>>

HasSpace_NotStrict(t) == staged[t] <= Capacity
HasSpace(t) == staged[t] < Capacity

\* ... which returns once the ring has space, ...
Reserved(t) ==
    /\ HasSpace(t)
    /\ Advance(t, "reserving", "writing")
    /\ UNCHANGED <<bufferVars, threadBuffers>>

\* ... and finishAlloc publishes the entry.
FinishAlloc(t) ==
    /\ Advance(t, "writing", "ready")
    /\ staged' = [staged EXCEPT ![t] = @ + 1]
    /\ UNCHANGED <<allocated, shouldDeallocate, threadBuffers>>

\* The thread ends: ~StagingBufferDestroyer flags the buffer.
FlaggedWith_Nothing(t) == shouldDeallocate
FlaggedWith(t) == shouldDeallocate \cup {t}

ThreadExits(t) ==
    /\ Advance(t, "ready", "exited")
    /\ shouldDeallocate' = FlaggedWith(t)
    /\ UNCHANGED <<allocated, staged, threadBuffers>>

ThreadNeverLogs(t) ==
    /\ Advance(t, "new", "exited")
    /\ UNCHANGED <<bufferVars, threadBuffers>>

-----------------------------------------------------------------------------
(* The poll thread: poll_                                                  *)

\* while (!bgThreadShouldExit), read without a lock.
PollTop ==
    /\ pState = "top"
    /\ pState' = IF bgThreadShouldExit THEN "done" ELSE "lock"
    /\ bytesWritten' = IF bgThreadShouldExit THEN bytesWritten ELSE 0
    /\ UNCHANGED <<tState, bufferVars, threadBuffers, exitVars,
                   i, sb, peekBytes, count, visited>>

FirstIndex_KeepsOld == i
FirstIndex == 1

PollLock ==
    /\ pState = "lock"
    /\ pState' = "scan" /\ i' = FirstIndex /\ visited' = {}
    /\ UNCHANGED <<tState, bufferVars, threadBuffers, exitVars,
                   sb, peekBytes, bytesWritten, count>>

\* peek at the i-th buffer.  Work: unlock to append it.  When the ring has
\* wrapped peek returns only the part up to the end.
PollPeek ==
    /\ pState = "scan"
    /\ i <= Len(threadBuffers)
    /\ sb' = threadBuffers[i] /\ visited' = visited \cup {sb'}
    /\ IF staged[sb'] = 0
       THEN peekBytes' = 0 /\ pState' = "check" /\ UNCHANGED count
       ELSE /\ peekBytes' \in 1..staged[sb']
            /\ pState' = "append" /\ count' = 0
    /\ UNCHANGED <<tState, bufferVars, threadBuffers, exitVars,
                   i, bytesWritten>>

\* sink_.append copies the block and hands its space back.
PollAppend ==
    /\ pState = "append"
    /\ staged' = [staged EXCEPT ![sb] = @ - peekBytes]
    /\ bytesWritten' = bytesWritten + peekBytes
    /\ pState' = "relock"
    /\ UNCHANGED <<tState, allocated, shouldDeallocate, threadBuffers,
                   exitVars, i, sb, peekBytes, count, visited>>

PollRelock ==
    /\ pState = "relock"
    /\ pState' = "scan" /\ i' = i + 1
    /\ UNCHANGED <<tState, bufferVars, threadBuffers, exitVars,
                   sb, peekBytes, bytesWritten, count, visited>>

CanDelete_Always(b) == TRUE
CanDelete(b) == b \in shouldDeallocate

Erased_Nothing(k) == threadBuffers
Erased(k) == RemoveAt(threadBuffers, k)

\* The next buffer has moved up to the index of the deleted one.
AfterErase_NextIndex == i + 1
AfterErase == i

\* The peek found nothing: delete the buffer if its thread has ended.
PollCheckCanDelete ==
    /\ pState = "check"
    /\ IF CanDelete(sb)
       THEN /\ allocated' = allocated \ {sb}
            /\ threadBuffers' = Erased(i)
            /\ i' = AfterErase
       ELSE /\ i' = i + 1
            /\ UNCHANGED <<allocated, threadBuffers>>
    /\ pState' = "scan"
    /\ UNCHANGED <<tState, shouldDeallocate, staged, exitVars,
                   sb, peekBytes, bytesWritten, count, visited>>

\* End of a scan: sleep after so many scans in a row without work.
PollScanned ==
    /\ pState = "scan"
    /\ i > Len(threadBuffers)
    /\ count' = IF bytesWritten = 0 THEN count + 1 ELSE count
    /\ pState' = IF bytesWritten = 0
                    /\ count' >= NUMBER_OF_CHECKS_WITH_EMPTY_BUF
                 THEN "waiting" ELSE "top"
    /\ UNCHANGED <<tState, bufferVars, threadBuffers, exitVars,
                   i, sb, peekBytes, bytesWritten, visited>>

\* workAdded.wait_for ends: notified, spuriously, or after 1 ms.
WaitEnds_OnlyNotified == \E t \in Thread : tState[t] = "reserving"
WaitEnds == TRUE

PollWakes ==
    /\ pState = "waiting" /\ WaitEnds
    /\ count' = 0
    /\ pState' = "top"
    /\ UNCHANGED <<tState, bufferVars, threadBuffers, exitVars,
                   i, sb, peekBytes, bytesWritten, visited>>

-----------------------------------------------------------------------------
(* ~RuntimeLogger, at any time: the other threads are not waited for.      *)

SetShouldExit ==
    /\ mState = "running"
    /\ bgThreadShouldExit' = TRUE
    /\ mState' = "joining"
    /\ UNCHANGED <<tState, bufferVars, threadBuffers, pollVars>>

JoinPollThread ==
    /\ mState = "joining" /\ pState = "done"
    /\ mState' = "joined"
    /\ UNCHANGED <<tState, bufferVars, threadBuffers, pollVars,
                   bgThreadShouldExit>>

\* The process ends with the singleton, whatever the threads were doing.
Joined == mState = "joined" /\ UNCHANGED vars

-----------------------------------------------------------------------------
LogStep(t) ==
    \/ LockUnlock(t)
    \/ Allocate(t)
    \/ Register(t)
    \/ Reserved(t)
    \/ FinishAlloc(t)

ThreadNext(t) ==
    \/ FirstUse(t)
    \/ LogStep(t)
    \/ BeginLog(t)
    \/ ThreadExits(t)
    \/ ThreadNeverLogs(t)

PollStep ==
    \/ PollTop
    \/ PollLock
    \/ PollPeek
    \/ PollAppend
    \/ PollRelock
    \/ PollCheckCanDelete
    \/ PollScanned
    \/ PollWakes

Next ==
    \/ \E t \in Thread : ThreadNext(t)
    \/ PollStep
    \/ SetShouldExit
    \/ JoinPollThread
    \/ Joined

Spec == Init /\ [][Next]_vars

\* The poll thread and a call in progress keep running, and so does the
\* destructor's join.  bufferMutex need not be fair: only weak fairness.
FairSpec ==
    /\ Spec
    /\ WF_vars(PollStep)
    /\ \A t \in Thread : WF_vars(LogStep(t))
    /\ WF_vars(JoinPollThread)

-----------------------------------------------------------------------------
(* Properties *)

\* No buffer holds more entries than fit, the cursor and the idle count stay
\* in their ranges, and the registry holds threads' buffers only.
TypeOK ==
    /\ tState \in [Thread -> ThreadState]
    /\ allocated \subseteq Thread /\ shouldDeallocate \subseteq Thread
    /\ staged \in [Thread -> 0..Capacity]
    /\ threadBuffers \in Seq(Thread)
    /\ pState \in PollState
    /\ i \in Nat \ {0} /\ sb \in Thread \cup {NoThread}
    /\ peekBytes \in 0..Capacity
    /\ bytesWritten \in Nat
    /\ count \in 0..NUMBER_OF_CHECKS_WITH_EMPTY_BUF
    /\ bgThreadShouldExit \in BOOLEAN
    /\ mState \in {"running", "joining", "joined"}

\* The registry lists every live buffer exactly once, except one whose
\* thread is still about to push it: nothing is leaked, scanned twice, or
\* left dangling in the vector.
RegistryIsExact ==
    /\ \A m, n \in 1..Len(threadBuffers) :
           threadBuffers[m] = threadBuffers[n] => m = n
    /\ \A t \in Thread :
           (\E n \in 1..Len(threadBuffers) : threadBuffers[n] = t)
               <=> t \in allocated /\ tState[t] # "registering"

\* No thread touches a deleted buffer: not its owner while it can still log
\* or exit, nor the poll thread between its unlock and its relock.
NoUseAfterFree ==
    /\ \A t \in Thread :
           tState[t] \in {"registering", "ready", "reserving", "writing"}
               => t \in allocated
    /\ pState \in {"append", "check"} => sb \in allocated

\* The poll thread still stands at the buffer it peeked, though threads
\* registered theirs while it appended without the lock, and what it peeked
\* is still there; and the scan has passed no buffer without a look at it,
\* though buffers are erased from the vector it walks through.
CursorIsStable ==
    /\ pState \in {"append", "relock", "check"} =>
           i <= Len(threadBuffers) /\ threadBuffers[i] = sb
    /\ pState = "append" => peekBytes <= staged[sb] /\ peekBytes > 0
    /\ pState \in {"scan", "append", "relock", "check"} =>
           \A n \in 1..Len(threadBuffers) :
               n < i \/ (n = i /\ pState # "scan") => threadBuffers[n] \in visited

\* Published entries are taken by the poll thread in the end, however busy
\* the other threads keep it, unless it is told to exit or the buffer goes.
StagedIsTaken ==
    \A t \in Thread :
        (t \in allocated /\ staged[t] > 0 /\ tState[t] # "registering")
            ~> \/ pState = "append" /\ sb = t
               \/ t \notin allocated
               \/ bgThreadShouldExit

\* The buffer of a thread that ended is freed in the end.
ExitedIsFreed ==
    \A t \in Thread :
        (tState[t] = "exited" /\ t \in allocated) ~> (t \notin allocated \/ bgThreadShouldExit)

\* The destructor's join returns, also when the flag is set just before the
\* poll thread goes to sleep.
ShutdownReturns == (mState = "joining") ~> (mState = "joined")

\* "Should be cleaned up once the buffer has been emptied by the compression
\* thread" (runtime_logger.h:636-639): no entry is lost with its buffer.
FreedWhenEmptied ==
    [][\A t \in Thread :
         t \in allocated /\ t \notin allocated' => staged[t] = 0]_vars

\* "The loop will run so long as it's not shutdown or there's outstanding
\* I/O" (runtime_logger.cpp:484): it is not left while entries are staged.
LoopEndsDrained ==
    [][pState = "top" /\ pState' = "done" =>
         \A n \in 1..Len(threadBuffers) : staged[threadBuffers[n]] = 0]_vars
=============================================================================
