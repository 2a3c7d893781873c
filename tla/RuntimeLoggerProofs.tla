------------------------- MODULE RuntimeLoggerProofs -------------------------
(***************************************************************************)
(* For every set of threads and every capacity: the registry of staging    *)
(* buffers stays exact, no deleted buffer is used, and the poll thread's   *)
(* cursor survives the registrations it lets in while it appends and the   *)
(* deletions it makes, none of which lets it pass a buffer unseen.         *)
(***************************************************************************)
EXTENDS RuntimeLogger, SequenceTheorems, TLAPS

\* A buffer exists only once its thread has allocated it, and is flagged
\* only when that thread has ended.
OwnersAgree ==
    /\ \A t \in Thread :
           tState[t] \in {"new", "locking", "allocating"} => t \notin allocated
    /\ \A t \in shouldDeallocate : tState[t] = "exited"

\* A reservation's space stays free until it is published.
WritingHasSpace ==
    \A t \in Thread : tState[t] = "writing" => staged[t] < Capacity

CountIsBelow == pState # "waiting" => count < NUMBER_OF_CHECKS_WITH_EMPTY_BUF

IndInv ==
    /\ TypeOK
    /\ RegistryIsExact
    /\ NoUseAfterFree
    /\ CursorIsStable
    /\ OwnersAgree
    /\ WritingHasSpace
    /\ CountIsBelow

\* What is left after one element is removed from a sequence.
LEMMA RemoveAtProperties ==
    ASSUME NEW S, NEW s \in Seq(S), NEW k \in 1..Len(s)
    PROVE  /\ RemoveAt(s, k) \in Seq(S)
           /\ Len(RemoveAt(s, k)) = Len(s) - 1
           /\ \A j \in 1..(Len(s) - 1) :
                  RemoveAt(s, k)[j] = IF j < k THEN s[j] ELSE s[j + 1]
  <1> DEFINE a == SubSeq(s, 1, k - 1)
             b == SubSeq(s, k + 1, Len(s))
  <1>1. \A j \in 1..Len(s) : s[j] \in S
    BY ElementOfSeq
  <1>2. Len(s) \in Nat /\ k \in Nat
    BY LenProperties
  <1>3. a \in Seq(S) /\ Len(a) = k - 1 /\ \A j \in 1..(k - 1) : a[j] = s[j]
    <2>1. \A j \in 1..(k - 1) : s[j] \in S
      BY <1>1, <1>2
    <2> QED BY <1>2, <2>1, SubSeqProperties
  <1>4. /\ b \in Seq(S) /\ Len(b) = Len(s) - k
        /\ \A j \in 1..(Len(s) - k) : b[j] = s[k + j]
    <2>1. \A j \in (k + 1)..Len(s) : s[j] \in S
      BY <1>1, <1>2
    <2>2. /\ b \in Seq(S)
          /\ Len(b) = IF k + 1 <= Len(s) THEN Len(s) - (k + 1) + 1 ELSE 0
          /\ \A j \in 1..(Len(s) - (k + 1) + 1) : b[j] = s[k + 1 + j - 1]
      BY <1>2, <2>1, SubSeqProperties
    <2> QED BY <1>2, <2>2
  <1>5. RemoveAt(s, k) = a \o b
    BY DEF RemoveAt
  <1> HIDE DEF a, b
  <1>6. /\ a \o b \in Seq(S) /\ Len(a \o b) = Len(a) + Len(b)
        /\ \A j \in 1..(Len(a) + Len(b)) :
               (a \o b)[j] = IF j <= Len(a) THEN a[j] ELSE b[j - Len(a)]
    BY <1>3, <1>4, ConcatProperties
  <1>7. ASSUME NEW j \in 1..(Len(s) - 1)
        PROVE  (a \o b)[j] = IF j < k THEN s[j] ELSE s[j + 1]
    <2>1. CASE j < k
      BY <1>2, <1>3, <1>4, <1>6, <2>1
    <2>2. CASE j >= k
      <3>1. (a \o b)[j] = b[j - (k - 1)]
        BY <1>2, <1>3, <1>4, <1>6, <2>2
      <3>2. j - (k - 1) \in 1..(Len(s) - k)
        BY <1>2, <2>2
      <3>3. b[j - (k - 1)] = s[k + (j - (k - 1))]
        BY <1>4, <3>2
      <3>4. k + (j - (k - 1)) = j + 1
        BY <1>2
      <3> QED BY <2>2, <3>1, <3>3, <3>4
    <2>3. j < k \/ j >= k
      BY <1>2
    <2> QED BY ONLY <2>1, <2>2, <2>3
  <1> QED BY <1>2, <1>3, <1>4, <1>5, <1>6, <1>7

LEMMA InitEstablishes == Init => IndInv
  <1> SUFFICES ASSUME Init PROVE IndInv
    OBVIOUS
  <1> USE LoggerAssumption DEF Init
  <1>1. TypeOK
    <2>1. tState \in [Thread -> ThreadState]
      BY DEF ThreadState
    <2>2. staged \in [Thread -> 0..Capacity]
      OBVIOUS
    <2>3. threadBuffers \in Seq(Thread)
      BY EmptySeq
    <2>4. pState \in PollState /\ count \in 0..NUMBER_OF_CHECKS_WITH_EMPTY_BUF
      BY DEF PollState
    <2>5. /\ allocated \subseteq Thread /\ shouldDeallocate \subseteq Thread
          /\ i \in Nat \ {0} /\ sb \in Thread \cup {NoThread}
          /\ peekBytes \in 0..Capacity /\ bytesWritten \in Nat
      OBVIOUS
    <2>6. /\ bgThreadShouldExit \in BOOLEAN
          /\ mState \in {"running", "joining", "joined"}
      OBVIOUS
    <2> QED BY ONLY <2>1, <2>2, <2>3, <2>4, <2>5, <2>6 DEF TypeOK
  <1>2. RegistryIsExact
    BY DEF RegistryIsExact
  <1>3. NoUseAfterFree /\ CursorIsStable
    BY DEF NoUseAfterFree, CursorIsStable
  <1>4. OwnersAgree /\ WritingHasSpace /\ CountIsBelow
    BY DEF OwnersAgree, WritingHasSpace, CountIsBelow
  <1> QED BY <1>1, <1>2, <1>3, <1>4 DEF IndInv

\* The buffer under the cursor is registered, so it is live.
LEMMA CursorInRange ==
    ASSUME TypeOK, RegistryIsExact, NEW n \in 1..Len(threadBuffers)
    PROVE  /\ threadBuffers[n] \in Thread
           /\ threadBuffers[n] \in allocated
           /\ staged[threadBuffers[n]] \in 0..Capacity
  <1>1. threadBuffers[n] \in Thread
    BY ElementOfSeq DEF TypeOK
  <1> QED BY <1>1 DEF TypeOK, RegistryIsExact

\* The steps of a logging thread preserve the invariant; only Register
\* changes the registry, and it appends behind the cursor.
LEMMA ThreadPreserves ==
    ASSUME IndInv, NEW t \in Thread, ThreadNext(t)
    PROVE  IndInv'
  <1> USE DEF ThreadNext, LogStep, Advance, pollVars, exitVars, bufferVars,
          FirstUse, LockUnlock, BeginLog, ThreadNeverLogs, Allocate,
          Reserved, FinishAlloc, ThreadExits, HasSpace, FlaggedWith, Registry
  <1>1. tState' \in [Thread -> ThreadState]
    BY DEF IndInv, TypeOK, ThreadState, Register
  <1>2. staged' \in [Thread -> 0..Capacity]
    BY LoggerAssumption DEF IndInv, TypeOK, WritingHasSpace, Register
  <1>3. /\ threadBuffers' \in Seq(Thread)
        /\ Len(threadBuffers') \in {Len(threadBuffers), Len(threadBuffers) + 1}
        /\ \A n \in 1..Len(threadBuffers) :
               threadBuffers'[n] = threadBuffers[n]
    <2>1. threadBuffers \in Seq(Thread) /\ Len(threadBuffers) \in Nat
      BY LenProperties DEF IndInv, TypeOK
    <2>2. CASE Register(t)
      <3>1. threadBuffers' = Append(threadBuffers, t)
        BY <2>2 DEF Register
      <3> QED BY ONLY <2>1, <3>1, t \in Thread, AppendProperties
    <2>3. CASE ~Register(t)
      <3>1. threadBuffers' = threadBuffers
        BY <2>3
      <3> QED BY ONLY <2>1, <3>1
    <2> QED BY ONLY <2>2, <2>3
  <1>4. TypeOK'
    <2>1. allocated' \subseteq Thread /\ shouldDeallocate' \subseteq Thread
      BY DEF IndInv, TypeOK, Register
    <2>2. UNCHANGED <<pollVars, exitVars>>
      BY DEF Register
    <2> QED BY <1>1, <1>2, <1>3, <2>1, <2>2 DEF IndInv, TypeOK
  <1>5. RegistryIsExact'
    <2>1. CASE Register(t)
      <3>1. /\ Len(threadBuffers') = Len(threadBuffers) + 1
            /\ threadBuffers'[Len(threadBuffers) + 1] = t
        BY <2>1, AppendProperties DEF IndInv, TypeOK, Register
      <3>2. \A n \in 1..Len(threadBuffers) : threadBuffers[n] # t
        BY <2>1 DEF IndInv, TypeOK, RegistryIsExact, Register
      <3>3. \A m, n \in 1..Len(threadBuffers') :
                threadBuffers'[m] = threadBuffers'[n] => m = n
        <4>1. \A n \in 1..Len(threadBuffers') :
                  n \in 1..Len(threadBuffers) \/ n = Len(threadBuffers) + 1
          BY <3>1, LenProperties DEF IndInv, TypeOK
        <4> QED BY <1>3, <3>1, <3>2, <4>1 DEF IndInv, RegistryIsExact
      <3>4. ASSUME NEW u \in Thread
            PROVE  (\E n \in 1..Len(threadBuffers') : threadBuffers'[n] = u)
                     <=> u \in allocated' /\ tState'[u] # "registering"
        <4>1. (\E n \in 1..Len(threadBuffers') : threadBuffers'[n] = u)
                <=> u = t \/ \E n \in 1..Len(threadBuffers) :
                                 threadBuffers[n] = u
          <5>1. \A n \in 1..Len(threadBuffers') :
                    n \in 1..Len(threadBuffers) \/ n = Len(threadBuffers) + 1
            BY <3>1, LenProperties DEF IndInv, TypeOK
          <5>2. /\ Len(threadBuffers) + 1 \in 1..Len(threadBuffers')
                /\ 1..Len(threadBuffers) \subseteq 1..Len(threadBuffers')
            BY <3>1, LenProperties DEF IndInv, TypeOK
          <5> QED BY <1>3, <3>1, <5>1, <5>2
        <4>2. t \in allocated
          BY <2>1 DEF IndInv, NoUseAfterFree, Register
        <4> QED
          BY <2>1, <4>1, <4>2 DEF IndInv, TypeOK, RegistryIsExact, Register
      <3> QED BY <3>3, <3>4 DEF RegistryIsExact
    <2>2. CASE Allocate(t)
      BY <2>2 DEF IndInv, TypeOK, RegistryIsExact, OwnersAgree
    <2>3. CASE ~Register(t) /\ ~Allocate(t)
      <3>1. threadBuffers' = threadBuffers /\ allocated' = allocated
        BY <2>3
      <3>2. \A u \in Thread :
                tState'[u] = "registering" <=> tState[u] = "registering"
        BY <2>3 DEF IndInv, TypeOK
      <3> QED BY <3>1, <3>2 DEF IndInv, RegistryIsExact
    <2> QED BY <2>1, <2>2, <2>3
  <1>6. NoUseAfterFree'
    BY DEF IndInv, TypeOK, NoUseAfterFree, Register
  <1>7. CursorIsStable'
    <2>1. UNCHANGED pollVars
      BY DEF Register
    <2>2. pState = "append" => peekBytes <= staged'[sb]
      <3> SUFFICES ASSUME pState = "append" PROVE peekBytes <= staged'[sb]
        OBVIOUS
      <3>1. sb \in Thread /\ peekBytes <= staged[sb]
        BY CursorInRange DEF IndInv, TypeOK, CursorIsStable
      <3>2. staged[sb] <= staged'[sb]
        BY <3>1, LoggerAssumption DEF IndInv, TypeOK, Register
      <3> QED BY <1>2, <3>1, <3>2, LoggerAssumption DEF IndInv, TypeOK
    <2>3. pState \in {"append", "relock", "check"} =>
              i <= Len(threadBuffers') /\ threadBuffers'[i] = sb
      BY <1>3, LenProperties DEF IndInv, TypeOK, CursorIsStable
    <2>4. ASSUME pState \in {"scan", "append", "relock", "check"},
                 NEW n \in 1..Len(threadBuffers'),
                 n < i \/ (n = i /\ pState # "scan")
          PROVE  threadBuffers'[n] \in visited
      <3>1. n \in 1..Len(threadBuffers) => threadBuffers'[n] \in visited
        BY ONLY <1>3, <2>4, IndInv DEF IndInv, CursorIsStable
      <3>2. CASE Register(t)
        <4>1. pState \in {"append", "relock"}
          BY ONLY <2>4, <3>2 DEF Register, BufferMutexFree
        <4>2. i <= Len(threadBuffers) /\ i \in Nat
          BY ONLY <4>1, IndInv DEF IndInv, TypeOK, CursorIsStable
        <4>3. n \in 1..Len(threadBuffers)
          BY ONLY <2>4, <4>2, IndInv, LenProperties DEF IndInv, TypeOK
        <4> QED BY ONLY <3>1, <4>3
      <3>3. CASE ~Register(t)
        <4>1. threadBuffers' = threadBuffers
          BY <3>3
        <4> QED BY ONLY <2>4, <3>1, <4>1
      <3> QED BY ONLY <3>2, <3>3
    <2>5. UNCHANGED <<pState, i, sb, peekBytes, visited>>
      BY ONLY <2>1 DEF pollVars
    <2> QED BY ONLY <2>2, <2>3, <2>4, <2>5, IndInv DEF IndInv, CursorIsStable
  <1>8. OwnersAgree'
    BY DEF IndInv, TypeOK, OwnersAgree, Register
  <1>9. WritingHasSpace'
    BY DEF IndInv, TypeOK, WritingHasSpace, Register
  <1>10. CountIsBelow'
    BY DEF IndInv, CountIsBelow, Register
  <1> QED BY <1>4, <1>5, <1>6, <1>7, <1>8, <1>9, <1>10 DEF IndInv

\* Deleting the buffer under the cursor removes exactly it from the registry.
LEMMA DeletePreserves ==
    ASSUME IndInv, PollCheckCanDelete, sb \in shouldDeallocate
    PROVE  IndInv'
  <1> USE DEF PollCheckCanDelete, CanDelete, Erased, AfterErase, exitVars
  <1> DEFINE left == Len(threadBuffers) - 1
  <1>1. i \in 1..Len(threadBuffers) /\ threadBuffers[i] = sb /\ sb \in Thread
    BY LenProperties DEF IndInv, TypeOK, CursorIsStable
  <1>2. Len(threadBuffers) \in Nat
    BY LenProperties DEF IndInv, TypeOK
  <1>3. /\ threadBuffers' \in Seq(Thread) /\ Len(threadBuffers') = left
        /\ \A j \in 1..left :
               threadBuffers'[j] = IF j < i THEN threadBuffers[j]
                                   ELSE threadBuffers[j + 1]
    <2>1. threadBuffers \in Seq(Thread)
      BY DEF IndInv, TypeOK
    <2>2. threadBuffers' = RemoveAt(threadBuffers, i)
      OBVIOUS
    <2> QED BY ONLY <1>1, <2>1, <2>2, RemoveAtProperties
  <1>4. TypeOK'
    BY <1>3 DEF IndInv, TypeOK, PollState
  <1>5. \A m, n \in 1..left : threadBuffers'[m] = threadBuffers'[n] => m = n
    <2> SUFFICES ASSUME NEW m \in 1..left, NEW n \in 1..left,
                        threadBuffers'[m] = threadBuffers'[n]
                 PROVE  m = n
      OBVIOUS
    <2> DEFINE old(j) == IF j < i THEN j ELSE j + 1
    <2>1. /\ old(m) \in 1..Len(threadBuffers)
          /\ old(n) \in 1..Len(threadBuffers)
      BY <1>2
    <2>2. threadBuffers[old(m)] = threadBuffers[old(n)]
      BY <1>3
    <2>3. old(m) = old(n)
      BY <2>1, <2>2 DEF IndInv, RegistryIsExact
    <2> QED BY <1>1, <1>2, <2>3
  <1>6. ASSUME NEW t \in Thread
        PROVE  (\E n \in 1..left : threadBuffers'[n] = t)
                 <=> t # sb /\ \E n \in 1..Len(threadBuffers) :
                                   threadBuffers[n] = t
    <2>1. ASSUME NEW n \in 1..left, threadBuffers'[n] = t
          PROVE  t # sb /\ \E m \in 1..Len(threadBuffers) :
                               threadBuffers[m] = t
      <3> DEFINE m == IF n < i THEN n ELSE n + 1
      <3>1. m \in 1..Len(threadBuffers) /\ m # i
        BY <1>1, <1>2
      <3>2. threadBuffers[m] = t
        BY <1>3, <2>1
      <3>3. t # sb
        BY <1>1, <3>1, <3>2 DEF IndInv, RegistryIsExact
      <3> QED BY <3>1, <3>2, <3>3
    <2>2. ASSUME NEW n \in 1..Len(threadBuffers), threadBuffers[n] = t, t # sb
          PROVE  \E m \in 1..left : threadBuffers'[m] = t
      <3>1. CASE n < i
        <4>1. n \in 1..left /\ threadBuffers'[n] = t
          BY <1>1, <1>2, <1>3, <2>2, <3>1
        <4> QED BY <4>1
      <3>2. CASE n > i
        <4>1. n - 1 \in 1..left /\ ~(n - 1 < i) /\ (n - 1) + 1 = n
          BY <1>1, <1>2, <3>2
        <4>2. threadBuffers'[n - 1] = t
          BY <1>3, <2>2, <4>1
        <4> QED BY <4>1, <4>2
      <3>3. n # i
        BY <1>1, <2>2
      <3> QED BY <1>1, <1>2, <3>1, <3>2, <3>3
    <2> QED BY <2>1, <2>2
  <1>7. RegistryIsExact'
    <2>1. ASSUME NEW t \in Thread
          PROVE  (\E n \in 1..left : threadBuffers'[n] = t)
                   <=> t \in allocated' /\ tState'[t] # "registering"
      BY <1>6 DEF IndInv, RegistryIsExact
    <2> QED BY <1>3, <1>5, <2>1 DEF RegistryIsExact
  <1>8. NoUseAfterFree' /\ OwnersAgree'
    BY <1>1 DEF IndInv, TypeOK, NoUseAfterFree, OwnersAgree
  <1>9. WritingHasSpace' /\ CountIsBelow'
    BY DEF IndInv, WritingHasSpace, CountIsBelow
  <1>10. CursorIsStable'
    <2>1. i' = i /\ pState' = "scan" /\ visited' = visited /\ i \in Nat
      BY <1>1 DEF AfterErase
    <2>2. ASSUME NEW n \in 1..left, n < i PROVE threadBuffers'[n] \in visited
      <3>1. n \in 1..Len(threadBuffers) /\ threadBuffers'[n] = threadBuffers[n]
        BY ONLY <1>2, <1>3, <2>1, <2>2
      <3>2. pState = "check"
        OBVIOUS
      <3> QED BY ONLY <2>2, <3>1, <3>2, IndInv DEF IndInv, CursorIsStable
    <2> QED BY ONLY <1>3, <2>1, <2>2 DEF CursorIsStable
  <1> QED BY <1>4, <1>7, <1>8, <1>9, <1>10 DEF IndInv

\* Behind the buffer it stands at, the scan goes on to the next.
LEMMA CursorAdvances ==
    ASSUME IndInv, pState \in {"relock", "check"}, pState' = "scan", i' = i + 1,
           threadBuffers' = threadBuffers, visited' = visited
    PROVE  CursorIsStable'
  <1>1. i \in Nat
    BY DEF IndInv, TypeOK
  <1>2. ASSUME NEW n \in 1..Len(threadBuffers), n < i + 1
        PROVE  threadBuffers[n] \in visited
    <2>1. Len(threadBuffers) \in Nat
      BY LenProperties DEF IndInv, TypeOK
    <2>2. n < i \/ n = i
      BY ONLY <1>1, <1>2, <2>1
    <2> QED BY ONLY <1>2, <2>2, IndInv, pState \in {"relock", "check"}
            DEF IndInv, CursorIsStable
  <1> QED BY <1>2 DEF CursorIsStable

\* The other steps of poll_ leave the registry as it is.
LEMMA PollPreserves == IndInv /\ PollStep => IndInv'
  <1> SUFFICES ASSUME IndInv, PollStep PROVE IndInv'
    OBVIOUS
  <1> USE LoggerAssumption
      DEF IndInv, TypeOK, PollState, OwnersAgree, WritingHasSpace,
          CountIsBelow, NoUseAfterFree, CursorIsStable, exitVars, bufferVars
  <1>1. CASE PollTop
    <2>1. TypeOK'
      BY <1>1 DEF PollTop
    <2>2. RegistryIsExact'
      BY <1>1 DEF PollTop, RegistryIsExact
    <2>3. OwnersAgree' /\ WritingHasSpace' /\ CountIsBelow'
      BY <1>1 DEF PollTop
    <2>4. NoUseAfterFree' /\ CursorIsStable'
      BY <1>1 DEF PollTop
    <2> HIDE DEF TypeOK, OwnersAgree, WritingHasSpace, CountIsBelow,
                 NoUseAfterFree, CursorIsStable
    <2> QED BY <2>1, <2>2, <2>3, <2>4
  <1>2. CASE PollLock
    BY <1>2 DEF PollLock, FirstIndex, RegistryIsExact
  <1>3. CASE PollPeek
    <2>1. /\ sb' \in Thread /\ sb' \in allocated
          /\ staged[sb'] \in 0..Capacity
      BY <1>3, CursorInRange, LenProperties DEF PollPeek
    <2>2. peekBytes' \in 0..Capacity
      BY <1>3, <2>1 DEF PollPeek
    <2>3. TypeOK'
      BY <1>3, <2>1, <2>2 DEF PollPeek
    <2>4. RegistryIsExact'
      BY <1>3 DEF PollPeek, RegistryIsExact
    <2>5. CursorIsStable'
      BY <1>3, <2>1, <2>2 DEF PollPeek
    <2> QED BY <1>3, <2>1, <2>3, <2>4, <2>5 DEF PollPeek
  <1>4. CASE PollAppend
    <2>1. sb \in Thread /\ staged[sb] \in 0..Capacity
      BY <1>4, CursorInRange, LenProperties DEF PollAppend
    <2>2. /\ staged' \in [Thread -> 0..Capacity]
          /\ \A t \in Thread : staged'[t] <= staged[t]
      BY <1>4, <2>1 DEF PollAppend
    <2>3. RegistryIsExact'
      BY <1>4 DEF PollAppend, RegistryIsExact
    <2>4. TypeOK'
      BY <1>4, <2>2 DEF PollAppend
    <2>5. WritingHasSpace'
      BY <1>4, <2>2 DEF PollAppend
    <2>6. NoUseAfterFree' /\ CursorIsStable' /\ OwnersAgree' /\ CountIsBelow'
      BY <1>4 DEF PollAppend
    <2> QED BY <2>3, <2>4, <2>5, <2>6
  <1>5. CASE PollRelock
    <2>1. TypeOK' /\ OwnersAgree' /\ WritingHasSpace' /\ CountIsBelow'
      BY <1>5 DEF PollRelock
    <2>2. RegistryIsExact' /\ NoUseAfterFree'
      BY <1>5 DEF PollRelock, RegistryIsExact
    <2>3. CursorIsStable'
      BY ONLY <1>5, IndInv, CursorAdvances DEF PollRelock
    <2> HIDE DEF TypeOK, OwnersAgree, WritingHasSpace, CountIsBelow,
                 NoUseAfterFree, CursorIsStable
    <2> QED BY <2>1, <2>2, <2>3
  <1>6. CASE PollCheckCanDelete
    <2>1. CASE sb \in shouldDeallocate
      BY ONLY <1>6, <2>1, IndInv, DeletePreserves
    <2>2. CASE sb \notin shouldDeallocate
      <3>1. /\ pState = "check" /\ pState' = "scan" /\ i' = i + 1
            /\ UNCHANGED <<tState, allocated, shouldDeallocate, staged, visited,
                           threadBuffers, sb, peekBytes, bytesWritten, count,
                           bgThreadShouldExit, mState>>
        BY <1>6, <2>2 DEF PollCheckCanDelete, CanDelete
      <3>2. TypeOK'
        BY <3>1
      <3>3. RegistryIsExact'
        BY <3>1 DEF RegistryIsExact
      <3>4. NoUseAfterFree'
        BY <3>1
      <3>6. CursorIsStable'
        BY ONLY <3>1, IndInv, CursorAdvances
      <3>5. OwnersAgree' /\ WritingHasSpace' /\ CountIsBelow'
        BY <3>1
      <3> HIDE DEF TypeOK, OwnersAgree, WritingHasSpace, CountIsBelow,
                   NoUseAfterFree, CursorIsStable
      <3> QED BY <3>2, <3>3, <3>4, <3>5, <3>6
    <2> QED BY ONLY <2>1, <2>2
  <1>7. CASE PollScanned
    BY <1>7 DEF PollScanned, RegistryIsExact
  <1>8. CASE PollWakes
    BY <1>8 DEF PollWakes, RegistryIsExact
  <1> QED
    BY ONLY PollStep, <1>1, <1>2, <1>3, <1>4, <1>5, <1>6, <1>7, <1>8
    DEF PollStep

LEMMA StepPreserves == IndInv /\ [Next]_vars => IndInv'
  <1> SUFFICES ASSUME IndInv, [Next]_vars PROVE IndInv'
    OBVIOUS
  <1>1. ASSUME NEW t \in Thread, ThreadNext(t) PROVE IndInv'
    BY <1>1, ThreadPreserves
  <1>2. CASE PollStep
    BY <1>2, PollPreserves
  <1>3. CASE SetShouldExit \/ JoinPollThread \/ Joined \/ UNCHANGED vars
    <2> USE <1>3 DEF SetShouldExit, JoinPollThread, Joined, vars, bufferVars,
                     pollVars, exitVars, IndInv
    <2>1. TypeOK'
      BY DEF TypeOK
    <2>2. RegistryIsExact'
      BY DEF RegistryIsExact
    <2>3. NoUseAfterFree' /\ CursorIsStable'
      BY DEF NoUseAfterFree, CursorIsStable
    <2>4. OwnersAgree' /\ WritingHasSpace' /\ CountIsBelow'
      BY DEF OwnersAgree, WritingHasSpace, CountIsBelow
    <2> QED BY <2>1, <2>2, <2>3, <2>4
  <1> QED BY <1>1, <1>2, <1>3 DEF Next

\* The registry, the counters and the program counters have their types; a
\* staging buffer never holds more than its capacity.
THEOREM TypeCorrect == Spec => []TypeOK
  <1>1. IndInv => TypeOK
    BY DEF IndInv
  <1> QED BY <1>1, InitEstablishes, StepPreserves, PTL DEF Spec

\* threadBuffers lists every live registered buffer exactly once, through
\* concurrent registration and deletion during the scan.
THEOREM RegistryExact == Spec => []RegistryIsExact
  <1>1. IndInv => RegistryIsExact
    BY DEF IndInv
  <1> QED BY <1>1, InitEstablishes, StepPreserves, PTL DEF Spec

\* Neither a logging thread nor the poll thread uses a deleted buffer.
THEOREM NeverUsedAfterFree == Spec => []NoUseAfterFree
  <1>1. IndInv => NoUseAfterFree
    BY DEF IndInv
  <1> QED BY <1>1, InitEstablishes, StepPreserves, PTL DEF Spec

\* poll_'s index and pointer agree after it dropped and retook bufferMutex, and no
\* scan passes a buffer it did not peek at, whatever it erases on the way.
THEOREM CursorStable == Spec => []CursorIsStable
  <1>1. IndInv => CursorIsStable
    BY DEF IndInv
  <1> QED BY <1>1, InitEstablishes, StepPreserves, PTL DEF Spec
=============================================================================
