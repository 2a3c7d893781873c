------------------------- MODULE StagingBufferProofs -------------------------
(***************************************************************************)
(* For every ring size, threshold and set of entries: the positions of the *)
(* two threads stay consistent, the producer never writes a byte the       *)
(* consumer may read, finishReservation's assertions hold, the ring is a   *)
(* FIFO queue of entries, and every peeked block holds whole entries.      *)
(***************************************************************************)
EXTENDS StagingBuffer, DataLemmas, TLAPS

IndInv == TypeOK /\ PositionsConsistent

\* Entry sizes are positive and smaller than the ring.
LEMMA NeedBounds ==
    ASSUME TypeOK
    PROVE  need \in 1..(STAGING_BUFFER_SIZE - 1)
  BY EntryAssumption DEF TypeOK, need

\* The initial state satisfies the inductive invariant.
LEMMA InitEstablishes == Init => IndInv
  <1> SUFFICES ASSUME Init PROVE IndInv
    OBVIOUS
  <1>1. TypeOK
    BY SizeAssumption
    DEF Init, TypeOK, Index, Byte, ProducerState, ConsumerState
  <1>2. PositionsConsistent
    BY SizeAssumption
    DEF Init, PositionsConsistent, EndIsAhead, EndIsInside, Wrapped,
        MinFreeIsLowerBound, ReservationFits, ProducerViewHolds,
        ConsumerViewHolds, BlockIsPublished
  <1> QED BY <1>1, <1>2 DEF IndInv

\* Every step preserves the types; positions stay inside because a
\* reservation keeps a byte to spare and a block ends where data ends.
LEMMA TypeStep == IndInv /\ [Next]_vars => TypeOK'
  <1> SUFFICES ASSUME IndInv, [Next]_vars PROVE TypeOK'
    OBVIOUS
  <1> USE SizeAssumption, EntryAssumption, NeedBounds
      DEF IndInv, TypeOK, Index, ProducerState, ConsumerState, Suffices
  <1>1. ASSUME NEW e \in Entry, NEW b \in BOOLEAN, Reserve(e, b) PROVE TypeOK'
    BY <1>1 DEF Reserve, consumerVars
  <1>2. CASE LoadConsumerPos
    BY <1>2 DEF LoadConsumerPos, consumerVars
  <1>3. CASE UseTail
    BY <1>3 DEF UseTail, EndOfTurn, consumerVars
  <1>4. CASE MarkEnd
    BY <1>4 DEF MarkEnd, EndMark, MayWrap, EndOfTurn, consumerVars
  <1>5. CASE Wrap
    BY <1>5 DEF Wrap, EndOfTurn, consumerVars
  <1>6. CASE UseGap
    BY <1>6 DEF UseGap, EndOfTurn, consumerVars
  <1>7. CASE Fill
    <2>1. storage' \in [Index -> Byte]
      <3> SUFFICES ASSUME NEW i \in Index
                   PROVE  storage'[i] \in Byte
        BY <1>7 DEF Fill
      <3> QED BY <1>7 DEF Fill, Byte, WrittenIndex
    <2> QED BY <1>7, <2>1 DEF Fill, consumerVars
  <1>8. CASE FinishReservation
    <2>1. pState = "filled" /\ producerPos' = producerPos + need
          /\ minFreeSpace' = minFreeSpace - need /\ pState' = "idle"
      BY <1>8 DEF FinishReservation, FreeAfter
    <2>2. /\ UNCHANGED <<endOfRecordedSpace, storage, consumerPos, request,
                         blocking, cachedConsumerPos, cState, cachedProducerPos,
                         remaining, copied>>
      BY <1>8 DEF FinishReservation, consumerVars
    <2>3. need \in Nat /\ need < minFreeSpace
      BY <2>1 DEF PositionsConsistent, ReservationFits
    <2>4. /\ producerPos \in Nat /\ minFreeSpace \in Nat /\ consumerPos \in Nat
          /\ consumerPos < STAGING_BUFFER_SIZE
      OBVIOUS
    <2>5. producerPos + minFreeSpace <= STAGING_BUFFER_SIZE
      BY <2>4 DEF PositionsConsistent, MinFreeIsLowerBound, Wrapped
    <2>6. producerPos + need \in 0..(STAGING_BUFFER_SIZE - 1)
          /\ minFreeSpace - need \in 0..STAGING_BUFFER_SIZE
      BY <2>3, <2>4, <2>5, SizeAssumption
    <2> HIDE DEF need
    <2> QED BY <2>1, <2>2, <2>6
  <1>9. CASE LoadProducerPos
    BY <1>9 DEF LoadProducerPos, producerVars
  <1>10. CASE PeekEnd
    BY <1>10 DEF PeekEnd, PeekReturns, producerVars, PositionsConsistent,
                 EndIsAhead, ConsumerViewHolds, EndIsInside, Wrapped
  <1>11. CASE PeekRollOver
    BY <1>11 DEF PeekRollOver, PeekReturns, producerVars
  <1>12. CASE PeekStraight
    BY <1>12 DEF PeekStraight, PeekReturns, producerVars
  <1>13. CASE CopyChunk
    <2>1. copied' \in Seq(Byte)
      BY <1>13 DEF CopyChunk, PositionsConsistent, BlockIsPublished,
                   EndIsInside, Wrapped
    <2> QED BY <1>13, <2>1 DEF CopyChunk, producerVars
  <1>14. CASE Consume
    BY <1>14 DEF Consume, PeekReturns, producerVars, PositionsConsistent,
                 BlockIsPublished, EndIsInside, Wrapped
  <1>15. CASE UNCHANGED vars
    BY <1>15 DEF vars, producerVars, consumerVars
  <1> QED
    BY <1>1, <1>2, <1>3, <1>4, <1>5, <1>6, <1>7, <1>8, <1>9, <1>10, <1>11,
       <1>12, <1>13, <1>14, <1>15 DEF Next, ProducerStep, Consumer

\* Every step preserves the agreement of the two threads' private views.
LEMMA PositionsStep == IndInv /\ [Next]_vars => PositionsConsistent'
  <1> SUFFICES ASSUME IndInv, [Next]_vars PROVE PositionsConsistent'
    OBVIOUS
  <1> USE SizeAssumption, EntryAssumption, NeedBounds
      DEF IndInv, TypeOK, Index, ProducerState, ConsumerState,
          PositionsConsistent, EndIsAhead, EndIsInside, Wrapped,
          MinFreeIsLowerBound, ReservationFits, ProducerViewHolds,
          ConsumerViewHolds, BlockIsPublished, need, Suffices
  <1>1. ASSUME NEW e \in Entry, NEW b \in BOOLEAN, Reserve(e, b)
        PROVE  PositionsConsistent'
    BY <1>1 DEF Reserve, consumerVars
  <1>2. CASE LoadConsumerPos
    BY <1>2 DEF LoadConsumerPos, consumerVars
  <1>3. CASE UseTail
    BY <1>3 DEF UseTail, EndOfTurn, consumerVars
  <1>4. CASE MarkEnd
    BY <1>4 DEF MarkEnd, EndMark, MayWrap, EndOfTurn, consumerVars
  <1>5. CASE Wrap
    BY <1>5 DEF Wrap, EndOfTurn, consumerVars
  <1>6. CASE UseGap
    BY <1>6 DEF UseGap, EndOfTurn, consumerVars
  <1>7. CASE Fill
    BY <1>7 DEF Fill, consumerVars
  <1>8. CASE FinishReservation
    <2>1. pState = "filled" /\ producerPos' = producerPos + need
          /\ minFreeSpace' = minFreeSpace - need /\ pState' = "idle"
      BY <1>8 DEF FinishReservation, FreeAfter
    <2>2. UNCHANGED <<endOfRecordedSpace, consumerPos, cachedConsumerPos, cState,
                      cachedProducerPos, remaining, copied>>
      BY <1>8 DEF FinishReservation, consumerVars
    <2>3. need \in Nat /\ need < minFreeSpace
      BY <2>1
    <2>4. /\ producerPos \in Nat /\ minFreeSpace \in Nat /\ consumerPos \in Nat
          /\ cachedProducerPos \in Nat /\ remaining \in Nat
          /\ endOfRecordedSpace \in Nat
      OBVIOUS
    <2> HIDE DEF need
    <2>5. /\ producerPos' \in Nat /\ producerPos <= producerPos'
          /\ producerPos' + minFreeSpace' = producerPos + minFreeSpace
          /\ minFreeSpace' > 0
      BY <2>1, <2>3, <2>4
    <2>6. Wrapped' <=> Wrapped
      BY <2>1, <2>2, <2>3, <2>4
    <2> HIDE DEF Wrapped
    <2>7. MinFreeIsLowerBound'
      BY <2>2, <2>5, <2>6
    <2>8. ReservationFits' /\ ProducerViewHolds'
      BY <2>1
    <2>9. EndIsAhead' /\ EndIsInside'
      BY <2>2, <2>6
    <2>10. ConsumerViewHolds'
      BY <2>2, <2>4, <2>5, <2>6
    <2>11. BlockIsPublished'
      BY <2>2, <2>4, <2>5, <2>6
    <2> QED BY <2>7, <2>8, <2>9, <2>10, <2>11
  <1>9. CASE LoadProducerPos
    BY <1>9 DEF LoadProducerPos, producerVars
  <1>10. CASE PeekEnd
    BY <1>10 DEF PeekEnd, PeekReturns, producerVars
  <1>11. CASE PeekRollOver
    BY <1>11 DEF PeekRollOver, PeekReturns, producerVars
  <1>12. CASE PeekStraight
    BY <1>12 DEF PeekStraight, PeekReturns, producerVars
  <1>13. CASE CopyChunk
    BY <1>13 DEF CopyChunk, producerVars
  <1>14. CASE Consume
    BY <1>14 DEF Consume, PeekReturns, producerVars
  <1>15. CASE UNCHANGED vars
    BY <1>15 DEF vars, producerVars, consumerVars
  <1> QED
    BY <1>1, <1>2, <1>3, <1>4, <1>5, <1>6, <1>7, <1>8, <1>9, <1>10, <1>11,
       <1>12, <1>13, <1>14, <1>15 DEF Next, ProducerStep, Consumer

\* The positions, program counters and buffers always have their types.
THEOREM TypeCorrect == Spec => []TypeOK
  <1>1. Init => IndInv
    BY InitEstablishes
  <1>2. IndInv /\ [Next]_vars => IndInv'
    BY TypeStep, PositionsStep DEF IndInv
  <1>3. IndInv => TypeOK
    BY DEF IndInv
  <1> QED BY <1>1, <1>2, <1>3, PTL DEF Spec

\* reserveProducerSpace and peek work from copies of each other's position;
\* the conclusions each draws stay true while it acts on them.
THEOREM PositionsAgree == Spec => []PositionsConsistent
  <1>1. Init => IndInv
    BY InitEstablishes
  <1>2. IndInv /\ [Next]_vars => IndInv'
    BY TypeStep, PositionsStep DEF IndInv
  <1>3. IndInv => PositionsConsistent
    BY DEF IndInv
  <1> QED BY <1>1, <1>2, <1>3, PTL DEF Spec

\* The bytes a logging call writes are never bytes the poll thread may still
\* read: no data race on _storage, for every interleaving.
THEOREM WriterNeverOverwrites == Spec => []NoOverwrite
  <1>1. IndInv => NoOverwrite
    <2> SUFFICES ASSUME IndInv PROVE NoOverwrite
      OBVIOUS
    <2> USE SizeAssumption, NeedBounds
        DEF IndInv, TypeOK, Index, PositionsConsistent, EndIsAhead,
            EndIsInside, Wrapped, MinFreeIsLowerBound, ReservationFits
    <2>1. ReservedIndex \cap PublishedIndex = {}
      BY DEF ReservedIndex, PublishedIndex
    <2>2. ReservedIndex \subseteq Index
      BY DEF ReservedIndex
    <2> QED BY <2>1, <2>2 DEF NoOverwrite
  <1>2. Spec => []IndInv
    BY TypeCorrect, PositionsAgree, PTL DEF IndInv
  <1> QED BY <1>1, <1>2, PTL

\* The assertions nbytes < _minFreeSpace and currentProducerPos + nbytes <
\* STAGING_BUFFER_SIZE of finishReservation hold in every execution.
THEOREM AssertionsHold == Spec => []FinishAsserts
  <1>1. IndInv => FinishAsserts
    BY SizeAssumption, NeedBounds
    DEF IndInv, TypeOK, Index, PositionsConsistent, EndIsAhead, EndIsInside,
        Wrapped, MinFreeIsLowerBound, ReservationFits, FinishAsserts
  <1>2. Spec => []IndInv
    BY TypeCorrect, PositionsAgree, PTL DEF IndInv
  <1> QED BY <1>1, <1>2, PTL

-----------------------------------------------------------------------------
(* The published bytes as one sequence, whatever the positions: cp, ep and  *)
(* pp stand for consumerPos, endOfRecordedSpace and producerPos, so that    *)
(* the lemmas hold in a state and in its successor.                         *)

RingLen(cp, ep, pp) == IF pp < cp THEN (ep - cp) + pp ELSE pp - cp
RingAt(cp, ep, pp, i) ==
    IF pp < cp /\ ep - cp < i THEN i - (ep - cp) - 1 ELSE cp + i - 1
Ring(st, cp, ep, pp) ==
    [i \in 1..RingLen(cp, ep, pp) |-> st[RingAt(cp, ep, pp, i)]]
SegmentOf(st, from, to) == [k \in 1..(to - from) |-> st[from + k - 1]]


\* The ring holds bytes of the storage, at indices inside it.
LEMMA RingElements ==
    ASSUME NEW st \in [Index -> Byte], NEW cp \in Index, NEW pp \in Index,
           NEW ep \in 0..STAGING_BUFFER_SIZE, pp < cp => cp <= ep
    PROVE  /\ RingLen(cp, ep, pp) \in Nat
           /\ \A i \in 1..RingLen(cp, ep, pp) :
                 /\ RingAt(cp, ep, pp, i) \in Index
                 /\ Ring(st, cp, ep, pp)[i] = st[RingAt(cp, ep, pp, i)]
           /\ Ring(st, cp, ep, pp) \in Seq(Byte)
           /\ Len(Ring(st, cp, ep, pp)) = RingLen(cp, ep, pp)
  <1>1. RingLen(cp, ep, pp) \in Nat
    BY SizeAssumption DEF RingLen, Index
  <1>2. ASSUME NEW i \in 1..RingLen(cp, ep, pp)
        PROVE  RingAt(cp, ep, pp, i) \in Index
    BY SizeAssumption DEF RingLen, RingAt, Index
  <1>3. Ring(st, cp, ep, pp) \in [1..RingLen(cp, ep, pp) -> Byte]
    BY <1>2 DEF Ring
  <1>4. Ring(st, cp, ep, pp) \in Seq(Byte) /\ Len(Ring(st, cp, ep, pp)) = RingLen(cp, ep, pp)
    BY <1>1, <1>3
  <1> QED BY <1>1, <1>2, <1>4 DEF Ring

\* Read from the consumer's position the ring is one or two segments.
LEMMA RingIsSegments ==
    ASSUME NEW st \in [Index -> Byte], NEW cp \in Index, NEW pp \in Index,
           NEW ep \in 0..STAGING_BUFFER_SIZE, pp < cp => cp <= ep
    PROVE  Ring(st, cp, ep, pp)
             = IF pp < cp THEN SegmentOf(st, cp, ep) \o SegmentOf(st, 0, pp)
               ELSE SegmentOf(st, cp, pp)
  <1>1. CASE ~(pp < cp)
    BY <1>1, SizeAssumption DEF Ring, RingLen, RingAt, SegmentOf, Index
  <1>2. CASE pp < cp
    <2> DEFINE s == SegmentOf(st, cp, ep)
               t == SegmentOf(st, 0, pp)
               r == Ring(st, cp, ep, pp)
    <2>1. s \in [1..(ep - cp) -> Byte] /\ ep - cp \in Nat
      BY <1>2, SizeAssumption DEF SegmentOf, Index
    <2>2. t \in [1..pp -> Byte] /\ pp \in Nat
      BY <1>2, SizeAssumption DEF SegmentOf, Index
    <2>3. /\ s \in Seq(Byte) /\ Len(s) = ep - cp
          /\ t \in Seq(Byte) /\ Len(t) = pp
      BY <2>1, <2>2
    <2>4. RingLen(cp, ep, pp) = (ep - cp) + pp
      BY <1>2 DEF RingLen
    <2>5. /\ r \in Seq(Byte) /\ Len(r) = (ep - cp) + pp
          /\ \A i \in 1..(ep - cp) + pp : r[i] = st[RingAt(cp, ep, pp, i)]
      BY <2>4, RingElements
    <2> HIDE DEF r
    <2>6. ASSUME NEW i \in 1..(ep - cp) PROVE r[i] = s[i]
      <3>1. RingAt(cp, ep, pp, i) = cp + i - 1 /\ i \in 1..(ep - cp) + pp
        BY <1>2, SizeAssumption DEF RingAt, Index
      <3> QED BY <2>5, <3>1 DEF SegmentOf
    <2>7. ASSUME NEW i \in 1..pp PROVE r[(ep - cp) + i] = t[i]
      <3>1. /\ RingAt(cp, ep, pp, (ep - cp) + i) = i - 1
            /\ (ep - cp) + i \in 1..(ep - cp) + pp
        BY <1>2, SizeAssumption DEF RingAt, Index
      <3>2. t[i] = st[i - 1]
        BY SizeAssumption DEF SegmentOf, Index
      <3> QED BY <2>5, <3>1, <3>2
    <2> HIDE DEF s, t
    <2>8. /\ Len(r) = Len(s) + Len(t)
          /\ \A i \in 1..Len(s) : r[i] = s[i]
          /\ \A i \in 1..Len(t) : r[Len(s) + i] = t[i]
      BY <2>3, <2>5, <2>6, <2>7
    <2>9. r = s \o t
      BY <2>3, <2>5, <2>8, IsConcat, Zenon
    <2> QED BY <1>2, <2>9 DEF r, s, t
  <1> QED BY <1>1, <1>2

\* The published bytes as one ring.
Entries == Ring(storage, consumerPos, endOfRecordedSpace, producerPos)
Held    == RingLen(consumerPos, endOfRecordedSpace, producerPos)
At(i)   == RingAt(consumerPos, endOfRecordedSpace, producerPos, i)

\* Published, as a sequence whose length and elements are known.
LEMMA EntriesArePublished ==
    ASSUME IndInv
    PROVE  /\ Published = Entries
           /\ Held \in Nat
           /\ Entries \in Seq(Byte) /\ Len(Entries) = Held
           /\ \A i \in 1..Held : At(i) \in Index /\ Entries[i] = storage[At(i)]
  <1>1. /\ storage \in [Index -> Byte]
        /\ consumerPos \in Index /\ producerPos \in Index
        /\ endOfRecordedSpace \in 0..STAGING_BUFFER_SIZE
        /\ producerPos < consumerPos => consumerPos <= endOfRecordedSpace
    BY DEF IndInv, TypeOK, PositionsConsistent, EndIsAhead, Wrapped
  <1>2. Published = Entries
    BY <1>1, RingIsSegments
    DEF Published, Entries, Segment, SegmentOf, Wrapped
  <1> QED BY <1>1, <1>2, RingElements DEF Entries, Held, At

\* The same in the next state.
LEMMA EntriesArePublishedNext ==
    ASSUME IndInv'
    PROVE  /\ Published' = Entries'
           /\ Held' \in Nat
           /\ Entries' \in Seq(Byte) /\ Len(Entries') = Held'
           /\ \A i \in 1..Held' : At(i)' \in Index /\ Entries'[i] = storage'[At(i)']
  <1>1. /\ storage' \in [Index -> Byte]
        /\ consumerPos' \in Index /\ producerPos' \in Index
        /\ endOfRecordedSpace' \in 0..STAGING_BUFFER_SIZE
        /\ producerPos' < consumerPos' => consumerPos' <= endOfRecordedSpace'
    BY DEF IndInv, TypeOK, PositionsConsistent, EndIsAhead, Wrapped
  <1>2. Published' = Entries'
    BY <1>1, RingIsSegments
    DEF Published, Entries, Segment, SegmentOf, Wrapped
  <1> QED BY <1>1, <1>2, RingElements DEF Entries, Held, At

\* Only finishReservation and consume change what is published: Fill writes
\* outside it, and wrapping and rolling over rename positions only.
LEMMA EntriesKept ==
    ASSUME IndInv, IndInv', [Next]_vars
    PROVE  Entries' = Entries \/ FinishReservation \/ Consume
  <1>1. ASSUME UNCHANGED <<storage, consumerPos, endOfRecordedSpace, producerPos>>
        PROVE  Entries' = Entries
    BY <1>1 DEF Entries, Ring, RingLen, RingAt
  <1>2. ASSUME NEW e \in Entry, NEW b \in BOOLEAN, Reserve(e, b)
        PROVE  Entries' = Entries
    BY <1>1, <1>2 DEF Reserve
  <1>3. CASE LoadConsumerPos
    BY <1>1, <1>3 DEF LoadConsumerPos
  <1>4. CASE UseTail
    BY <1>1, <1>4 DEF UseTail
  <1>5. CASE UseGap
    BY <1>1, <1>5 DEF UseGap
  <1>6. CASE LoadProducerPos
    BY <1>1, <1>6 DEF LoadProducerPos
  <1>7. CASE PeekEnd
    BY <1>1, <1>7 DEF PeekEnd
  <1>8. CASE PeekStraight
    BY <1>1, <1>8 DEF PeekStraight
  <1>9. CASE CopyChunk
    BY <1>1, <1>9 DEF CopyChunk
  <1>10. CASE UNCHANGED vars
    BY <1>1, <1>10 DEF vars
  <1>11. ASSUME Held' = Held,
                \A i \in 1..Held : storage'[At(i)'] = storage[At(i)]
         PROVE  Entries' = Entries
    <2>1. /\ Entries \in Seq(Byte) /\ Len(Entries) = Held
          /\ \A i \in 1..Held : Entries[i] = storage[At(i)]
      BY EntriesArePublished
    <2>2. /\ Entries' \in Seq(Byte) /\ Len(Entries') = Held'
          /\ \A i \in 1..Held' : Entries'[i] = storage'[At(i)']
      BY EntriesArePublishedNext
    <2>3. \A i \in 1..Len(Entries') : Entries'[i] = Entries[i]
      BY <1>11, <2>1, <2>2
    <2> QED BY <1>11, <2>1, <2>2, <2>3, SeqEqual
  <1>12. CASE MarkEnd
    <2>1. ~(producerPos < consumerPos) /\ UNCHANGED <<producerPos, consumerPos, storage>>
      BY <1>12
      DEF MarkEnd, IndInv, PositionsConsistent, ProducerViewHolds, Wrapped, TypeOK, Index
    <2> QED BY <1>11, <2>1 DEF Held, At, RingLen, RingAt
  <1>13. CASE Wrap
    <2>1. /\ ~(producerPos < consumerPos) /\ endOfRecordedSpace = producerPos
          /\ 0 < consumerPos
          /\ UNCHANGED <<endOfRecordedSpace, consumerPos, storage>>
          /\ producerPos' = 0
      BY <1>13
      DEF Wrap, IndInv, PositionsConsistent, ProducerViewHolds, Wrapped, TypeOK, Index
    <2>2. producerPos \in Nat /\ consumerPos \in Nat
      BY SizeAssumption DEF IndInv, TypeOK, Index
    <2>3. Held' = Held
      BY <2>1, <2>2 DEF Held, RingLen
    <2>4. \A i \in 1..Held : At(i)' = At(i)
      BY <2>1, <2>2 DEF Held, At, RingLen, RingAt
    <2> QED BY <1>11, <2>1, <2>3, <2>4
  <1>14. CASE PeekRollOver
    <2>1. /\ producerPos < consumerPos /\ endOfRecordedSpace = consumerPos
          /\ UNCHANGED <<endOfRecordedSpace, producerPos, storage>>
          /\ consumerPos' = 0
      BY <1>14
      DEF PeekRollOver, IndInv, PositionsConsistent, ConsumerViewHolds, Wrapped, TypeOK, Index
    <2>2. producerPos \in Nat /\ consumerPos \in Nat
      BY SizeAssumption DEF IndInv, TypeOK, Index
    <2>3. Held' = Held
      BY <2>1, <2>2 DEF Held, RingLen
    <2>4. \A i \in 1..Held : At(i)' = At(i)
      BY <2>1, <2>2 DEF Held, At, RingLen, RingAt
    <2> QED BY <1>11, <2>1, <2>3, <2>4
  <1>15. CASE Fill
    <2>1. /\ UNCHANGED <<endOfRecordedSpace, producerPos, consumerPos>>
          /\ pState = "reserved"
          /\ storage' = [i \in Index |->
                     IF i \in WrittenIndex
                     THEN [entry |-> request, off |-> i - producerPos]
                     ELSE storage[i]]
      BY <1>15 DEF Fill
    <2>2. Held' = Held /\ \A i \in 1..Held : At(i)' = At(i)
      BY <2>1 DEF Held, At, RingLen, RingAt
    <2>3. \A i \in 1..Held : At(i) \in Index /\ At(i) \notin WrittenIndex
      <3> SUFFICES ASSUME NEW i \in 1..Held
                   PROVE  At(i) \in Index /\ At(i) \notin WrittenIndex
        OBVIOUS
      <3>1. At(i) \in Index
        BY EntriesArePublished
      <3>2. need < minFreeSpace
        BY <2>1 DEF IndInv, PositionsConsistent, ReservationFits
      <3>3. /\ need \in Nat /\ minFreeSpace \in Nat /\ producerPos \in Nat
            /\ consumerPos \in Nat /\ endOfRecordedSpace \in Nat
        BY NeedBounds, SizeAssumption DEF IndInv, TypeOK, Index
      <3>4. producerPos < consumerPos => producerPos + minFreeSpace <= consumerPos
        BY DEF IndInv, PositionsConsistent, MinFreeIsLowerBound, Wrapped
      <3>5. producerPos < consumerPos => consumerPos <= endOfRecordedSpace
        BY DEF IndInv, PositionsConsistent, EndIsAhead, Wrapped
      <3> HIDE DEF need
      <3>6. At(i) \notin WrittenIndex
        BY <3>2, <3>3, <3>4, <3>5 DEF At, Held, RingAt, RingLen, WrittenIndex
      <3> QED BY <3>1, <3>6
    <2>4. \A i \in 1..Held : storage'[At(i)'] = storage[At(i)]
      BY <2>1, <2>2, <2>3
    <2> QED BY <1>11, <2>2, <2>4
  <1> QED
    BY <1>2, <1>3, <1>4, <1>5, <1>6, <1>7, <1>8, <1>9, <1>10, <1>12, <1>13, <1>14, <1>15
    DEF Next, ProducerStep, Consumer

\* Between the caller's writes and finishReservation the reserved bytes hold
\* exactly the entry.
FilledHoldsEntry ==
    pState = "filled" =>
        \A k \in 1..need :
            storage[producerPos + k - 1] = [entry |-> request, off |-> k - 1]

\* Every step preserves it: only Fill writes, and nothing else moves the
\* reservation while it is filled.
LEMMA FilledStep ==
    ASSUME IndInv, IndInv', FilledHoldsEntry, [Next]_vars
    PROVE  FilledHoldsEntry'
  <1>1. ASSUME pState' # "filled" PROVE FilledHoldsEntry'
    BY <1>1 DEF FilledHoldsEntry
  <1>2. ASSUME UNCHANGED <<storage, producerPos, pState, request>>
        PROVE  FilledHoldsEntry'
    BY <1>2 DEF FilledHoldsEntry, need
  <1>3. CASE Fill
    <2>1. /\ UNCHANGED <<producerPos, request>>
          /\ storage' = [i \in Index |->
                     IF i \in WrittenIndex
                     THEN [entry |-> request, off |-> i - producerPos]
                     ELSE storage[i]]
      BY <1>3 DEF Fill
    <2>2. need \in Nat /\ producerPos \in Nat /\ minFreeSpace \in Nat
      BY NeedBounds, SizeAssumption DEF IndInv, TypeOK, Index
    <2>3. need < minFreeSpace /\ producerPos + minFreeSpace <= STAGING_BUFFER_SIZE
      BY <1>3, SizeAssumption
      DEF Fill, IndInv, PositionsConsistent, ReservationFits, MinFreeIsLowerBound, Wrapped, TypeOK, Index
    <2>4. need' = need
      BY <2>1 DEF need
    <2> HIDE DEF need
    <2>5. ASSUME NEW k \in 1..need
          PROVE  storage'[producerPos + k - 1] = [entry |-> request, off |-> k - 1]
      <3>1. producerPos + k - 1 \in Index /\ producerPos + k - 1 \in WrittenIndex
        BY <2>2, <2>3, SizeAssumption DEF Index, WrittenIndex
      <3>2. (producerPos + k - 1) - producerPos = k - 1
        BY <2>2
      <3> QED BY <2>1, <3>1, <3>2
    <2> QED BY <2>1, <2>4, <2>5 DEF FilledHoldsEntry
  <1>4. ASSUME NEW e \in Entry, NEW b \in BOOLEAN, Reserve(e, b)
        PROVE  pState' # "filled"
    BY <1>4 DEF Reserve
  <1>5. CASE LoadConsumerPos \/ UseTail \/ MarkEnd \/ Wrap \/ UseGap \/ FinishReservation
    BY <1>1, <1>5 DEF LoadConsumerPos, UseTail, MarkEnd, Wrap, UseGap, FinishReservation, EndOfTurn
  <1>6. CASE Consumer \/ UNCHANGED vars
    BY <1>2, <1>6
    DEF Consumer, LoadProducerPos, PeekEnd, PeekRollOver, PeekStraight, CopyChunk, Consume,
        vars, producerVars
  <1> QED BY <1>1, <1>3, <1>4, <1>5, <1>6 DEF Next, ProducerStep

\* finishReservation publishes the entry behind everything published so far.
LEMMA FinishAppends ==
    ASSUME IndInv, IndInv', FilledHoldsEntry, FinishReservation
    PROVE  /\ Held' = Held + need
           /\ \A i \in 1..Held : Entries'[i] = Entries[i]
           /\ \A k \in 1..need :
                 Entries'[Held + k] = [entry |-> request, off |-> k - 1]
  <1>1. /\ producerPos' = producerPos + need
        /\ UNCHANGED <<endOfRecordedSpace, consumerPos, storage, request>>
        /\ pState = "filled"
    BY DEF FinishReservation
  <1>2. /\ need \in Nat \ {0} /\ producerPos \in Nat /\ minFreeSpace \in Nat
        /\ consumerPos \in Nat /\ endOfRecordedSpace \in Nat
    BY NeedBounds, SizeAssumption DEF IndInv, TypeOK, Index
  <1>3. /\ need < minFreeSpace
        /\ producerPos < consumerPos =>
             producerPos + minFreeSpace <= consumerPos /\ consumerPos <= endOfRecordedSpace
    BY <1>1 DEF IndInv, PositionsConsistent, ReservationFits, MinFreeIsLowerBound, EndIsAhead, Wrapped
  <1> HIDE DEF need
  <1>4. Held' = Held + need
    BY <1>1, <1>2, <1>3 DEF Held, RingLen
  <1>5. \A i \in 1..Held : At(i)' = At(i)
    BY <1>1, <1>2, <1>3 DEF At, RingAt, Held, RingLen
  <1>6. \A i \in (Held + 1)..(Held + need) : At(i)' = producerPos + (i - Held) - 1
    BY <1>1, <1>2, <1>3 DEF At, RingAt, Held, RingLen
  <1>7. /\ Held \in Nat
        /\ \A i \in 1..Held : Entries[i] = storage[At(i)]
        /\ \A i \in 1..Held' : Entries'[i] = storage'[At(i)']
    BY EntriesArePublished, EntriesArePublishedNext
  <1>8. ASSUME NEW i \in 1..Held PROVE Entries'[i] = Entries[i]
    BY <1>1, <1>2, <1>4, <1>5, <1>7
  <1>9. ASSUME NEW k \in 1..need
        PROVE  Entries'[Held + k] = [entry |-> request, off |-> k - 1]
    <2>1. PICK i \in (Held + 1)..(Held + need) : i = Held + k
      BY <1>2, <1>7
    <2>2. Entries'[i] = storage'[producerPos + (i - Held) - 1]
      BY <1>2, <1>4, <1>6, <1>7
    <2>3. producerPos + (i - Held) - 1 = producerPos + k - 1
      BY <1>2, <1>7, <2>1
    <2>4. storage[producerPos + k - 1] = [entry |-> request, off |-> k - 1]
      BY <1>1 DEF FilledHoldsEntry
    <2> QED BY <1>1, <2>1, <2>2, <2>3, <2>4
  <1> QED BY <1>4, <1>8, <1>9

\* consume hands back the first Len(copied) published bytes.
LEMMA ConsumeDrops ==
    ASSUME IndInv, IndInv', Consume
    PROVE  /\ Len(copied) \in 1..remaining /\ remaining <= Held
           /\ Held' = Held - Len(copied)
           /\ \A i \in 1..Held' : Entries'[i] = Entries[i + Len(copied)]
  <1>1. /\ consumerPos' = consumerPos + Len(copied)
        /\ UNCHANGED <<endOfRecordedSpace, producerPos, storage>>
        /\ cState = "copied"
    BY DEF Consume
  <1>2. /\ remaining \in Nat /\ producerPos \in Nat
        /\ consumerPos \in Nat /\ endOfRecordedSpace \in Nat
        /\ Len(copied) \in Nat
    BY SizeAssumption DEF IndInv, TypeOK, Index
  <1>3. /\ 0 < Len(copied) /\ Len(copied) <= remaining
        /\ consumerPos + remaining <=
             IF producerPos < consumerPos THEN endOfRecordedSpace ELSE producerPos
    BY <1>1 DEF IndInv, PositionsConsistent, BlockIsPublished, Wrapped
  <1> DEFINE c == Len(copied)
  <1> HIDE DEF c
  <1>4. /\ consumerPos' = consumerPos + c /\ c \in 1..remaining
    BY <1>1, <1>2, <1>3 DEF c
  <1>5. remaining <= Held /\ Held' = Held - c
    BY <1>1, <1>2, <1>3, <1>4 DEF Held, RingLen
  <1>6. \A i \in 1..Held' : At(i)' = At(i + c)
    BY <1>1, <1>2, <1>3, <1>4 DEF At, RingAt, Held, RingLen
  <1>7. /\ Held \in Nat
        /\ \A i \in 1..Held : Entries[i] = storage[At(i)]
        /\ \A i \in 1..Held' : Entries'[i] = storage'[At(i)']
    BY EntriesArePublished, EntriesArePublishedNext
  <1>8. ASSUME NEW i \in 1..Held' PROVE Entries'[i] = Entries[i + c]
    BY ONLY <1>1, <1>2, <1>4, <1>5, <1>6, <1>7
  <1> QED BY <1>4, <1>5, <1>8 DEF c

\* What the abstract queue holds: the published bytes, less the chunk that is
\* copied but not handed back.
LEMMA UnreadIsSuffix ==
    ASSUME IndInv
    PROVE  /\ cState # "copied" => Unread = Entries
           /\ cState = "copied" =>
                /\ Unread = SubSeq(Entries, Len(copied) + 1, Held)
                /\ Len(copied) \in 1..Held
  <1>1. Published = Entries /\ Len(Entries) = Held
    BY EntriesArePublished
  <1>2. cState = "copied" => Len(copied) \in 1..Held
    <2> SUFFICES ASSUME cState = "copied" PROVE Len(copied) \in 1..Held
      OBVIOUS
    <2>1. /\ remaining \in Nat /\ producerPos \in Nat /\ Len(copied) \in Nat
          /\ consumerPos \in Nat /\ endOfRecordedSpace \in Nat
      BY SizeAssumption DEF IndInv, TypeOK, Index
    <2>2. /\ 0 < Len(copied) /\ Len(copied) <= remaining
          /\ consumerPos + remaining <=
               IF producerPos < consumerPos THEN endOfRecordedSpace ELSE producerPos
      BY DEF IndInv, PositionsConsistent, BlockIsPublished, Wrapped
    <2> QED BY <2>1, <2>2 DEF Held, RingLen
  <1> QED BY <1>1, <1>2 DEF Unread

\* The same in the next state.
LEMMA UnreadIsSuffixNext ==
    ASSUME IndInv'
    PROVE  /\ cState' # "copied" => Unread' = Entries'
           /\ cState' = "copied" =>
                Unread' = SubSeq(Entries', Len(copied') + 1, Held')
  <1>1. Published' = Entries' /\ Len(Entries') = Held'
    BY EntriesArePublishedNext
  <1> QED BY <1>1 DEF Unread

\* finishReservation puts one entry, whole, at the end of the queue.
LEMMA FinishPuts ==
    ASSUME IndInv, IndInv', FilledHoldsEntry, FinishReservation
    PROVE  Fifo!Put(Bytes(request)) /\ request \in Entry
  <1> DEFINE B == Bytes(request)
  <1>1. request \in Entry /\ need \in Nat \ {0} /\ need = entrySize[request]
    BY NeedBounds DEF IndInv, TypeOK, need
  <1>2. B \in [1..need -> Byte]
    BY <1>1 DEF Bytes, Byte
  <1>3. /\ B \in Seq(Byte) /\ Len(B) = need
        /\ \A k \in 1..need : B[k] = [entry |-> request, off |-> k - 1]
    <2>1. \A k \in 1..need : B[k] = [entry |-> request, off |-> k - 1]
      BY <1>1 DEF Bytes
    <2> HIDE DEF B, need
    <2>2. B \in Seq(Byte) /\ Len(B) = need
      BY <1>1, <1>2
    <2> QED BY <2>1, <2>2
  <1>4. /\ Held \in Nat /\ Entries \in Seq(Byte) /\ Len(Entries) = Held
        /\ Held' \in Nat /\ Entries' \in Seq(Byte) /\ Len(Entries') = Held'
    BY EntriesArePublished, EntriesArePublishedNext
  <1>5. /\ Held' = Held + need
        /\ \A i \in 1..Held : Entries'[i] = Entries[i]
        /\ \A k \in 1..need : Entries'[Held + k] = B[k]
    BY <1>3, FinishAppends
  <1>6. UNCHANGED <<cState, copied>>
    BY DEF FinishReservation, consumerVars
  <1> HIDE DEF B, need
  <1>7. Unread' = Unread \o B
    <2>1. CASE cState # "copied"
      <3>1. Unread = Entries /\ Unread' = Entries'
        BY <1>6, <2>1, UnreadIsSuffix, UnreadIsSuffixNext
      <3>2. Entries' = Entries \o B
        <4>1. /\ Len(Entries') = Len(Entries) + Len(B)
              /\ \A i \in 1..Len(Entries) : Entries'[i] = Entries[i]
              /\ \A i \in 1..Len(B) : Entries'[Len(Entries) + i] = B[i]
          BY <1>3, <1>4, <1>5
        <4> QED BY <1>3, <1>4, <4>1, IsConcat, Zenon
      <3> QED BY <3>1, <3>2
    <2>2. CASE cState = "copied"
      <3> DEFINE c == Len(copied)
                 old == SubSeq(Entries, c + 1, Held)
                 new == SubSeq(Entries', c + 1, Held')
      <3>1. Unread = old /\ Unread' = new /\ c \in 1..Held
        BY <1>6, <2>2, UnreadIsSuffix, UnreadIsSuffixNext
      <3> HIDE DEF c
      <3>2. /\ old \in Seq(Byte) /\ Len(old) = Held - c
            /\ \A i \in 1..(Held - c) : old[i] = Entries[c + i]
        BY <1>4, <3>1, SuffixProperties
      <3>3. /\ new \in Seq(Byte) /\ Len(new) = Held' - c
            /\ \A i \in 1..(Held' - c) : new[i] = Entries'[c + i]
        <4>1. c \in 0..Len(Entries')
          BY <1>1, <1>4, <1>5, <3>1
        <4>2. Entries' \in Seq(Byte) /\ Held' = Len(Entries')
          BY <1>4
        <4>3. PICK e, h : e = Entries' /\ h = Held'
          OBVIOUS
        <4>4. /\ SubSeq(e, c + 1, h) \in Seq(Byte) /\ Len(SubSeq(e, c + 1, h)) = h - c
              /\ \A i \in 1..(h - c) : SubSeq(e, c + 1, h)[i] = e[c + i]
          BY <4>1, <4>2, <4>3, SuffixProperties
        <4>5. new = SubSeq(e, c + 1, h)
          BY <4>3
        <4> HIDE DEF new
        <4> QED BY <4>3, <4>4, <4>5
      <3> HIDE DEF old, new
      <3>4. /\ Len(new) = Len(old) + Len(B)
            /\ \A i \in 1..Len(old) : new[i] = old[i]
            /\ \A i \in 1..Len(B) : new[Len(old) + i] = B[i]
        <4>1. Len(new) = Len(old) + Len(B)
          BY <1>1, <1>3, <1>4, <1>5, <3>1, <3>2, <3>3
        <4>2. ASSUME NEW i \in 1..Len(old) PROVE new[i] = old[i]
          <5>1. /\ Held \in Nat /\ Held' \in Nat /\ Held <= Held'
                /\ c \in Nat /\ i \in 1..(Held - c)
            BY <1>1, <1>4, <1>5, <3>1, <3>2
          <5>2. i \in 1..(Held' - c) /\ i \in 1..(Held - c) /\ c + i \in 1..Held
            BY <5>1, IndexCarried, Zenon
          <5> QED BY <5>2, <3>2, <3>3, <1>5
        <4>3. ASSUME NEW i \in 1..Len(B) PROVE new[Len(old) + i] = B[i]
          <5>1. /\ (Held - c) + i \in 1..(Held' - c)
                /\ c + ((Held - c) + i) = Held + i
            BY <1>1, <1>3, <1>4, <1>5, <3>1
          <5>2. new[(Held - c) + i] = Entries'[Held + i]
            BY <3>3, <5>1
          <5>3. Entries'[Held + i] = B[i]
            BY <1>3, <1>5
          <5> QED BY <3>2, <5>2, <5>3
        <4> QED BY <4>1, <4>2, <4>3
      <3>5. new = old \o B
        BY <1>3, <3>2, <3>3, <3>4, IsConcat, Zenon
      <3> QED BY <3>1, <3>5
    <2> QED BY <2>1, <2>2
  <1> QED BY <1>1, <1>6, <1>7 DEF Fifo!Put, B

\* Copying a chunk takes a non-empty prefix of the queue.
LEMMA CopyTakes ==
    ASSUME IndInv, IndInv', CopyChunk
    PROVE  \E k \in 1..Len(Unread) : Fifo!Take(k)
  <1> DEFINE k == IF RELEASE_THRESHOLD < remaining
                  THEN RELEASE_THRESHOLD ELSE remaining
  <1>1. /\ cState = "peeked" /\ cState' = "copied"
        /\ copied' = [i \in 1..k |-> storage[consumerPos + i - 1]]
        /\ UNCHANGED <<producerPos, endOfRecordedSpace, storage, consumerPos>>
    BY DEF CopyChunk
  <1>2. /\ remaining \in Nat /\ producerPos \in Nat
        /\ consumerPos \in Nat /\ endOfRecordedSpace \in Nat
        /\ storage \in [Index -> Byte] /\ copied' \in Seq(Byte)
    BY SizeAssumption DEF IndInv, TypeOK, Index
  <1>3. /\ 0 < remaining
        /\ consumerPos + remaining <=
             IF producerPos < consumerPos THEN endOfRecordedSpace ELSE producerPos
    BY <1>1 DEF IndInv, PositionsConsistent, BlockIsPublished, Wrapped
  <1>4. k \in 1..remaining
    BY <1>2, <1>3, SizeAssumption
  <1>5. k \in 1..Held
    BY <1>2, <1>3, <1>4 DEF Held, RingLen
  <1>6. \A i \in 1..k : At(i) = consumerPos + i - 1
    BY <1>2, <1>3, <1>4 DEF At, RingAt
  <1>7. /\ Held \in Nat /\ Entries \in Seq(Byte) /\ Len(Entries) = Held
        /\ \A i \in 1..Held : Entries[i] = storage[At(i)]
    BY EntriesArePublished
  <1>8. Len(copied') = k /\ \A i \in 1..k : copied'[i] = storage[consumerPos + i - 1]
    BY <1>1, <1>4
  <1> HIDE DEF k
  <1>9. Unread = Entries /\ Unread' = SubSeq(Entries', Len(copied') + 1, Held')
    BY <1>1, UnreadIsSuffix, UnreadIsSuffixNext
  <1>10. Entries' = Entries /\ Held' = Held
    BY <1>1 DEF Entries, Held, Ring, RingLen, RingAt
  <1>11. copied' = SubSeq(Entries, 1, k)
    <2>1. \A i \in 1..Len(copied') : copied'[i] = Entries[1 + i - 1]
      BY <1>4, <1>5, <1>6, <1>7, <1>8
    <2>2. k \in Nat /\ 1 \in Nat
      BY <1>5
    <2>3. 1 <= 1 /\ 1 <= k + 1
      BY <2>2
    <2>4. k <= Len(Entries)
      BY <1>5, <1>7
    <2>5. Len(copied') = k - 1 + 1
      BY <1>8, <2>2
    <2>6. Entries \in Seq(Byte)
      BY <1>7
    <2>7. copied' \in Seq(Byte)
      BY <1>2
    <2> QED BY <2>1, <2>2, <2>3, <2>4, <2>5, <2>6, <2>7, IsSubSeq, Zenon
  <1>12. Unread' = SubSeq(Unread, k + 1, Len(Unread))
    BY <1>7, <1>8, <1>9, <1>10
  <1> QED BY <1>5, <1>7, <1>9, <1>11, <1>12 DEF Fifo!Take

\* Handing the chunk back is invisible to the queue.
LEMMA ConsumeKeeps ==
    ASSUME IndInv, IndInv', Consume
    PROVE  Unread' = Unread /\ copied' = copied
  <1>1. cState = "copied" /\ cState' # "copied" /\ copied' = copied
    BY DEF Consume, PeekReturns
  <1>2. Unread' = Entries' /\ Unread = SubSeq(Entries, Len(copied) + 1, Held)
    BY <1>1, UnreadIsSuffix, UnreadIsSuffixNext
  <1> DEFINE c == Len(copied)
  <1>3. /\ c \in 1..Held /\ Held' = Held - c
        /\ \A i \in 1..Held' : Entries'[i] = Entries[i + c]
    BY <1>1, ConsumeDrops, UnreadIsSuffix
  <1>4. /\ Held \in Nat /\ Entries \in Seq(Byte) /\ Len(Entries) = Held
        /\ Entries' \in Seq(Byte) /\ Len(Entries') = Held'
    BY EntriesArePublished, EntriesArePublishedNext
  <1> HIDE DEF c
  <1>5. Entries' = SubSeq(Entries, c + 1, Held)
    <2>1. ASSUME NEW i \in 1..Len(Entries')
          PROVE  Entries'[i] = Entries[(c + 1) + i - 1]
      <3>1. Held \in Nat /\ c \in 1..Held /\ i \in 1..Held'
        BY <1>3, <1>4
      <3>2. Held' = Held - c
        BY <1>3
      <3>3. i \in Nat /\ (c + 1) + i - 1 = i + c
        BY <3>1, <3>2
      <3> QED BY <1>3, <3>1, <3>3, Zenon
    <2>2. Held \in Nat /\ c \in 1..Held
      BY <1>3, <1>4
    <2>3. c + 1 \in Nat /\ 1 <= c + 1 /\ c + 1 <= Held + 1
      BY <2>2
    <2>4. Held <= Len(Entries)
      BY <1>4, <2>2
    <2>5. Len(Entries') = Held - (c + 1) + 1
      BY <1>3, <1>4, <2>2
    <2>6. Entries \in Seq(Byte)
      BY <1>4
    <2>7. Entries' \in Seq(Byte)
      BY <1>4
    <2> QED BY <2>1, <2>2, <2>3, <2>4, <2>5, <2>6, <2>7, IsSubSeq, Zenon
  <1> QED BY <1>1, <1>2, <1>5 DEF c

\* Every step of the ring is a step of the abstract queue or none at all.
LEMMA FifoStep ==
    ASSUME IndInv, IndInv', FilledHoldsEntry, [Next]_vars
    PROVE  [Fifo!Next]_(Fifo!vars)
  <1>1. CASE FinishReservation
    BY <1>1, FinishPuts DEF Fifo!Next
  <1>2. CASE CopyChunk
    BY <1>2, CopyTakes DEF Fifo!Next
  <1>3. CASE Consume
    BY <1>3, ConsumeKeeps DEF Fifo!vars
  <1>4. ASSUME ~FinishReservation, ~CopyChunk, ~Consume
        PROVE  UNCHANGED <<Unread, copied>>
    <2>1. Entries' = Entries
      BY <1>4, EntriesKept
    <2>2. /\ copied' = copied
          /\ cState' = "copied" <=> cState = "copied"
      BY <1>4
      DEF Next, ProducerStep, Consumer, Reserve, LoadConsumerPos, UseTail, MarkEnd, Wrap, UseGap, Fill,
          LoadProducerPos, PeekEnd, PeekRollOver, PeekStraight, PeekReturns, consumerVars, vars
    <2>3. Held' = Held
      BY <2>1, EntriesArePublished, EntriesArePublishedNext
    <2> QED BY <2>1, <2>2, <2>3, UnreadIsSuffix, UnreadIsSuffixNext
  <1> QED BY <1>1, <1>2, <1>3, <1>4 DEF Fifo!vars

\* The ring is a FIFO queue of entries: TZ_LOG's finishReservation puts one
\* entry whole, appendInternal takes bytes from the front, and no other step
\* of either thread, in any order, is visible to the queue.
THEOREM ImplementsFifo == Spec => FifoSpec
  <1>1. Init => IndInv /\ FilledHoldsEntry
    BY InitEstablishes DEF Init, FilledHoldsEntry
  <1>2. IndInv /\ FilledHoldsEntry /\ [Next]_vars => (IndInv /\ FilledHoldsEntry)'
    BY TypeStep, PositionsStep, FilledStep DEF IndInv
  <1>3. Init => Fifo!Init
    BY SizeAssumption DEF Init, Fifo!Init, Unread, Published, Wrapped, Segment
  <1>4. IndInv /\ IndInv' /\ FilledHoldsEntry /\ [Next]_vars => [Fifo!Next]_(Fifo!vars)
    BY FifoStep
  <1> QED BY <1>1, <1>2, <1>3, <1>4, PTL DEF Spec, FifoSpec, Fifo!Spec

-----------------------------------------------------------------------------
\* BlocksHoldWholeEntries, said of Entries.
WholeEntries ==
    /\ \A i \in 1..(Held - 1) : Follows(Entries[i], Entries[i + 1])
    /\ 0 < Held =>
         /\ cState \in {"idle", "loaded"} => StartsEntry(Entries[1])
         /\ cState \in {"peeked", "copied"} => EndsEntry(Entries[remaining])
         /\ EndsEntry(Entries[Held])

\* What it takes to be inductive: an entry also ends at the marked end of a
\* wrapped ring, and wherever the producer stood when peek copied its
\* position, however far it has moved since.
EntryEndsAtMarks ==
    /\ producerPos < consumerPos /\ consumerPos < endOfRecordedSpace =>
         EndsEntry(Entries[endOfRecordedSpace - consumerPos])
    /\ cState = "loaded" /\ consumerPos < cachedProducerPos =>
         EndsEntry(Entries[cachedProducerPos - consumerPos])
    /\ cState = "loaded" /\ cachedProducerPos < consumerPos
       /\ 0 < cachedProducerPos =>
         EndsEntry(Entries[(endOfRecordedSpace - consumerPos)
                              + cachedProducerPos])

BoundaryInv == WholeEntries /\ EntryEndsAtMarks

\* Said of Published it is the property the runs check.
LEMMA BoundaryImpliesBlocks ==
    IndInv /\ BoundaryInv => BlocksHoldWholeEntries
  <1> SUFFICES ASSUME IndInv, BoundaryInv PROVE BlocksHoldWholeEntries
    OBVIOUS
  <1>1. /\ Published = Entries /\ Len(Entries) = Held
        /\ Held \in Nat /\ Entries \in Seq(Byte)
    BY EntriesArePublished
  <1>2. Entries # <<>> => 0 < Held
    BY <1>1, EmptySeq
  <1> QED
    BY <1>1, <1>2 DEF BoundaryInv, WholeEntries, BlocksHoldWholeEntries

\* The numbers the steps below are about.
LEMMA PositionsAreNumbers ==
    ASSUME IndInv
    PROVE  /\ consumerPos \in Nat /\ producerPos \in Nat
           /\ endOfRecordedSpace \in Nat /\ cachedProducerPos \in Nat
           /\ remaining \in Nat /\ Held \in Nat
           /\ Held = IF producerPos < consumerPos
                     THEN (endOfRecordedSpace - consumerPos) + producerPos
                     ELSE producerPos - consumerPos
           /\ producerPos < consumerPos => consumerPos <= endOfRecordedSpace
           /\ cState \in ConsumerState
           /\ cState = "loaded" =>
                IF cachedProducerPos < consumerPos
                THEN cachedProducerPos <= producerPos /\ producerPos < consumerPos
                ELSE cachedProducerPos <= IF producerPos < consumerPos
                                          THEN endOfRecordedSpace ELSE producerPos
           /\ cState \in {"peeked", "copied"} =>
                /\ 0 < remaining
                /\ consumerPos + remaining
                     <= IF producerPos < consumerPos
                        THEN endOfRecordedSpace ELSE producerPos
  <1>1. /\ consumerPos \in Nat /\ producerPos \in Nat
        /\ endOfRecordedSpace \in Nat /\ cachedProducerPos \in Nat
        /\ remaining \in Nat /\ Held \in Nat /\ cState \in ConsumerState
    BY SizeAssumption, EntriesArePublished DEF IndInv, TypeOK, Index
  <1>2. Held = IF producerPos < consumerPos
               THEN (endOfRecordedSpace - consumerPos) + producerPos
               ELSE producerPos - consumerPos
    BY DEF Held, RingLen
  <1> QED
    BY <1>1, <1>2
    DEF IndInv, PositionsConsistent, EndIsAhead, ConsumerViewHolds, BlockIsPublished, Wrapped

\* Steps that change neither the published bytes nor the marks.
LEMMA BoundaryKept ==
    ASSUME BoundaryInv, Entries' = Entries, Held' = Held,
           UNCHANGED <<producerPos, consumerPos, endOfRecordedSpace,
                       cState, cachedProducerPos, remaining>>
    PROVE  BoundaryInv'
  BY DEF BoundaryInv, WholeEntries, EntryEndsAtMarks

\* Wrapping turns the end of the data into a marked end.
LEMMA BoundaryProducerMoves ==
    ASSUME IndInv, IndInv', BoundaryInv, Entries' = Entries, Held' = Held,
           MarkEnd \/ Wrap
    PROVE  BoundaryInv'
  <1>1. /\ ~(producerPos < consumerPos)
        /\ UNCHANGED <<consumerPos, cState, cachedProducerPos, remaining>>
    BY DEF MarkEnd, Wrap, IndInv, PositionsConsistent, ProducerViewHolds, Wrapped,
           TypeOK, Index, consumerVars
  <1>2. WholeEntries'
    BY <1>1 DEF BoundaryInv, WholeEntries
  <1>3. CASE MarkEnd
    <2>1. producerPos' = producerPos
      BY <1>3 DEF MarkEnd
    <2>2. EntryEndsAtMarks'
      BY <1>1, <2>1, PositionsAreNumbers DEF BoundaryInv, EntryEndsAtMarks
    <2> QED BY <1>2, <2>2 DEF BoundaryInv
  <1>4. CASE Wrap
    <2>1. producerPos' = 0 /\ endOfRecordedSpace = producerPos
          /\ endOfRecordedSpace' = endOfRecordedSpace
      BY <1>4 DEF Wrap, IndInv, PositionsConsistent, ProducerViewHolds
    <2>2. Held = endOfRecordedSpace - consumerPos
      BY <1>1, <2>1, PositionsAreNumbers
    <2>3. EntryEndsAtMarks'
      BY <1>1, <2>1, <2>2, PositionsAreNumbers
      DEF BoundaryInv, WholeEntries, EntryEndsAtMarks
    <2> QED BY <1>2, <2>3 DEF BoundaryInv
  <1> QED BY <1>3, <1>4

\* peek's block ends where the producer stood or at the marked end.
LEMMA BoundaryConsumerMoves ==
    ASSUME IndInv, IndInv', BoundaryInv, Entries' = Entries, Held' = Held,
           LoadProducerPos \/ PeekEnd \/ PeekRollOver \/ PeekStraight \/ CopyChunk
    PROVE  BoundaryInv'
  <1>1. /\ \A i \in 1..(Held - 1) : Follows(Entries[i], Entries[i + 1])
        /\ 0 < Held => EndsEntry(Entries[Held])
    BY DEF BoundaryInv, WholeEntries
  <1>2. CASE LoadProducerPos
    <2>1. /\ cState = "idle" /\ cState' = "loaded" /\ cachedProducerPos' = producerPos
          /\ UNCHANGED <<producerPos, consumerPos, endOfRecordedSpace>>
      BY <1>2 DEF LoadProducerPos
    <2>2. WholeEntries'
      BY <2>1 DEF BoundaryInv, WholeEntries
    <2>3. EntryEndsAtMarks'
      BY <1>1, <2>1, PositionsAreNumbers DEF BoundaryInv, EntryEndsAtMarks
    <2> QED BY <2>2, <2>3 DEF BoundaryInv
  <1>3. CASE PeekEnd
    <2>1. /\ cState = "loaded" /\ cState' = "peeked"
          /\ remaining' = endOfRecordedSpace - consumerPos
          /\ endOfRecordedSpace # consumerPos /\ producerPos < consumerPos
          /\ UNCHANGED <<producerPos, consumerPos, endOfRecordedSpace>>
      BY <1>3, PositionsAreNumbers DEF PeekEnd, PeekReturns
    <2>2. EndsEntry(Entries[remaining'])
      BY <2>1, PositionsAreNumbers DEF BoundaryInv, EntryEndsAtMarks
    <2>3. WholeEntries'
      BY <1>1, <2>1, <2>2 DEF WholeEntries
    <2>4. EntryEndsAtMarks'
      BY <2>1 DEF BoundaryInv, EntryEndsAtMarks
    <2> QED BY <2>3, <2>4 DEF BoundaryInv
  <1>4. CASE PeekRollOver
    <2>1. /\ cState = "loaded" /\ remaining' = cachedProducerPos
          /\ cState' = IF cachedProducerPos = 0 THEN "idle" ELSE "peeked"
          /\ endOfRecordedSpace = consumerPos /\ cachedProducerPos < consumerPos
          /\ consumerPos' = 0
          /\ UNCHANGED <<producerPos, endOfRecordedSpace>>
      BY <1>4 DEF PeekRollOver, PeekReturns
    <2>2. cState' = "peeked" => EndsEntry(Entries[remaining'])
      BY <2>1, PositionsAreNumbers DEF BoundaryInv, EntryEndsAtMarks
    <2>3. WholeEntries'
      BY <1>1, <2>1, <2>2 DEF BoundaryInv, WholeEntries
    <2>4. EntryEndsAtMarks'
      BY <2>1, PositionsAreNumbers DEF EntryEndsAtMarks
    <2> QED BY <2>3, <2>4 DEF BoundaryInv
  <1>5. CASE PeekStraight
    <2>1. /\ cState = "loaded" /\ remaining' = cachedProducerPos - consumerPos
          /\ cState' = IF cachedProducerPos - consumerPos = 0 THEN "idle" ELSE "peeked"
          /\ cachedProducerPos >= consumerPos
          /\ UNCHANGED <<producerPos, consumerPos, endOfRecordedSpace>>
      BY <1>5 DEF PeekStraight, PeekReturns
    <2>2. cState' = "peeked" => EndsEntry(Entries[remaining'])
      BY <2>1, PositionsAreNumbers DEF BoundaryInv, EntryEndsAtMarks
    <2>3. WholeEntries'
      BY <1>1, <2>1, <2>2 DEF BoundaryInv, WholeEntries
    <2>4. EntryEndsAtMarks'
      BY <2>1 DEF BoundaryInv, EntryEndsAtMarks
    <2> QED BY <2>3, <2>4 DEF BoundaryInv
  <1>6. CASE CopyChunk
    <2>1. /\ cState = "peeked" /\ cState' = "copied" /\ remaining' = remaining
          /\ UNCHANGED <<producerPos, consumerPos, endOfRecordedSpace>>
      BY <1>6 DEF CopyChunk
    <2> QED BY <2>1 DEF BoundaryInv, WholeEntries, EntryEndsAtMarks
  <1> QED BY <1>2, <1>3, <1>4, <1>5, <1>6

\* consume hands back the front of a block: the rest still begins inside or
\* at the start of an entry and ends where the block ended.
LEMMA BoundaryConsume ==
    ASSUME IndInv, IndInv', BoundaryInv, Consume
    PROVE  BoundaryInv'
  <1> DEFINE c == Len(copied)
  <1>1. /\ c \in 1..remaining /\ remaining <= Held /\ Held' = Held - c
        /\ \A i \in 1..Held' : Entries'[i] = Entries[i + c]
    BY ConsumeDrops
  <1>2. /\ cState = "copied" /\ consumerPos' = consumerPos + c
        /\ remaining' = remaining - c
        /\ cState' = IF remaining - c = 0 THEN "idle" ELSE "peeked"
        /\ UNCHANGED <<producerPos, endOfRecordedSpace>>
    BY DEF Consume, PeekReturns
  <1>3. /\ \A i \in 1..(Held - 1) : Follows(Entries[i], Entries[i + 1])
        /\ 0 < Held => EndsEntry(Entries[Held]) /\ EndsEntry(Entries[remaining])
    BY <1>2 DEF BoundaryInv, WholeEntries
  <1>4. c \in Nat /\ remaining \in Nat /\ Held \in Nat
    BY <1>1, PositionsAreNumbers
  <1> HIDE DEF c
  <1>5. \A i \in 1..(Held' - 1) : Follows(Entries'[i], Entries'[i + 1])
    <2> SUFFICES ASSUME NEW i \in 1..(Held' - 1)
                 PROVE  Follows(Entries'[i], Entries'[i + 1])
      OBVIOUS
    <2>1. i \in 1..Held' /\ i + 1 \in 1..Held' /\ i + c \in 1..(Held - 1)
      BY <1>1, <1>4
    <2>2. Entries'[i] = Entries[i + c] /\ Entries'[i + 1] = Entries[(i + c) + 1]
      BY <1>1, <1>4, <2>1
    <2> QED BY <1>3, <2>1, <2>2
  <1>6. 0 < Held' => EndsEntry(Entries'[Held'])
    BY <1>1, <1>3, <1>4
  <1>7. 0 < Held' /\ cState' = "peeked" => EndsEntry(Entries'[remaining'])
    BY <1>1, <1>2, <1>3, <1>4
  <1>8. 0 < Held' /\ cState' = "idle" => StartsEntry(Entries'[1])
    <2> SUFFICES ASSUME 0 < Held', cState' = "idle" PROVE StartsEntry(Entries'[1])
      OBVIOUS
    <2>1. c = remaining /\ c \in 1..(Held - 1)
      BY <1>1, <1>2, <1>4
    <2>2. EndsEntry(Entries[c]) /\ Follows(Entries[c], Entries[c + 1])
      BY <1>3, <1>4, <2>1
    <2>3. Entries'[1] = Entries[c + 1]
      BY <1>1, <1>4, <2>1
    <2> QED BY <2>2, <2>3 DEF Follows
  <1>9. WholeEntries'
    BY <1>2, <1>5, <1>6, <1>7, <1>8 DEF WholeEntries
  <1>10. EntryEndsAtMarks'
    <2>1. cState' # "loaded"
      BY <1>2
    <2>2. ASSUME producerPos' < consumerPos', consumerPos' < endOfRecordedSpace'
          PROVE  EndsEntry(Entries'[endOfRecordedSpace' - consumerPos'])
      <3>1. producerPos < consumerPos /\ consumerPos < endOfRecordedSpace
        BY <1>1, <1>2, <1>4, <2>2, PositionsAreNumbers
      <3>2. EndsEntry(Entries[endOfRecordedSpace - consumerPos])
        BY <3>1 DEF BoundaryInv, EntryEndsAtMarks
      <3>3. /\ endOfRecordedSpace' - consumerPos' \in 1..Held'
            /\ (endOfRecordedSpace' - consumerPos') + c = endOfRecordedSpace - consumerPos
        BY <1>1, <1>2, <1>4, <2>2, <3>1, PositionsAreNumbers
      <3> QED BY <1>1, <3>2, <3>3
    <2> QED BY <2>1, <2>2 DEF EntryEndsAtMarks
  <1> QED BY <1>9, <1>10 DEF BoundaryInv

\* finishReservation adds a whole entry behind a whole entry.
LEMMA BoundaryFinish ==
    ASSUME IndInv, IndInv', FilledHoldsEntry, BoundaryInv, FinishReservation
    PROVE  BoundaryInv'
  <1>1. /\ Held' = Held + need
        /\ \A i \in 1..Held : Entries'[i] = Entries[i]
        /\ \A k \in 1..need :
              Entries'[Held + k] = [entry |-> request, off |-> k - 1]
    BY FinishAppends
  <1>2. /\ need \in Nat \ {0} /\ request \in Entry /\ need = entrySize[request]
    BY NeedBounds DEF IndInv, TypeOK, need
  <1>3. /\ producerPos' = producerPos + need
        /\ UNCHANGED <<consumerPos, endOfRecordedSpace, cState, cachedProducerPos, remaining>>
    BY DEF FinishReservation, consumerVars
  <1>4. /\ \A i \in 1..(Held - 1) : Follows(Entries[i], Entries[i + 1])
        /\ 0 < Held =>
             /\ cState \in {"idle", "loaded"} => StartsEntry(Entries[1])
             /\ cState \in {"peeked", "copied"} => EndsEntry(Entries[remaining])
             /\ EndsEntry(Entries[Held])
    BY DEF BoundaryInv, WholeEntries
  <1>5. Held \in Nat
    BY PositionsAreNumbers
  <1>6. Held > 0 => 1 \in 1..Held /\ Held \in 1..Held
    BY <1>5
  <1> HIDE DEF need
  <1>7. EndsEntry(Entries'[Held'])
    <2>1. Entries'[Held + need] = [entry |-> request, off |-> need - 1]
      BY <1>1, <1>2
    <2> QED BY <1>1, <1>2, <2>1 DEF EndsEntry
  <1>8. StartsEntry(Entries'[Held + 1])
    <2>1. Entries'[Held + 1] = [entry |-> request, off |-> 1 - 1]
      BY <1>1, <1>2
    <2> QED BY <2>1 DEF StartsEntry
  <1>9. \A i \in 1..(Held' - 1) : Follows(Entries'[i], Entries'[i + 1])
    <2> SUFFICES ASSUME NEW i \in 1..(Held' - 1)
                 PROVE  Follows(Entries'[i], Entries'[i + 1])
      OBVIOUS
    <2>1. CASE i < Held
      <3>1. i \in 1..(Held - 1) /\ i \in 1..Held /\ i + 1 \in 1..Held
        BY <1>5, <2>1
      <3> QED BY <1>1, <1>4, <3>1
    <2>2. CASE i = Held
      <3>1. EndsEntry(Entries'[i])
        BY <1>1, <1>4, <1>5, <2>2
      <3> QED BY <1>8, <2>2, <3>1 DEF Follows
    <2>3. CASE i > Held
      <3>1. /\ i - Held \in 1..(need - 1) /\ i = Held + (i - Held)
            /\ i + 1 = Held + (i - Held + 1)
            /\ i - Held \in 1..need /\ i - Held + 1 \in 1..need
        BY <1>1, <1>2, <1>5, <2>3
      <3>2. /\ Entries'[i] = [entry |-> request, off |-> i - Held - 1]
            /\ Entries'[i + 1] = [entry |-> request, off |-> i - Held]
        BY <1>1, <1>2, <1>5, <3>1
      <3>3. i - Held - 1 # need - 1 /\ i - Held = (i - Held - 1) + 1
        BY <1>2, <1>5, <3>1
      <3> QED BY <1>2, <3>2, <3>3 DEF Follows, EndsEntry
    <2> QED BY <1>5, <2>1, <2>2, <2>3
  <1>10. cState' \in {"idle", "loaded"} => StartsEntry(Entries'[1])
    BY <1>1, <1>3, <1>4, <1>5, <1>8
  <1>11. cState' \in {"peeked", "copied"} => EndsEntry(Entries'[remaining'])
    BY <1>1, <1>3, <1>4, <1>5, PositionsAreNumbers
  <1>12. WholeEntries'
    BY <1>7, <1>9, <1>10, <1>11 DEF WholeEntries
  <1>13. \A i \in 1..Held : EndsEntry(Entries[i]) => EndsEntry(Entries'[i])
    BY <1>1
  <1>14. EntryEndsAtMarks'
    <2>1. ASSUME producerPos' < consumerPos', consumerPos' < endOfRecordedSpace'
          PROVE  EndsEntry(Entries'[endOfRecordedSpace' - consumerPos'])
      <3>1. /\ producerPos < consumerPos /\ consumerPos < endOfRecordedSpace
            /\ endOfRecordedSpace - consumerPos \in 1..Held
        BY <1>2, <1>3, <2>1, PositionsAreNumbers
      <3> QED BY <1>3, <1>13, <3>1 DEF BoundaryInv, EntryEndsAtMarks
    <2>2. ASSUME cState' = "loaded", consumerPos' < cachedProducerPos'
          PROVE  EndsEntry(Entries'[cachedProducerPos' - consumerPos'])
      <3>1. cachedProducerPos - consumerPos \in 1..Held
        BY <1>3, <2>2, PositionsAreNumbers
      <3> QED BY <1>3, <1>13, <2>2, <3>1 DEF BoundaryInv, EntryEndsAtMarks
    <2>3. ASSUME cState' = "loaded", cachedProducerPos' < consumerPos', 0 < cachedProducerPos'
          PROVE  EndsEntry(Entries'[(endOfRecordedSpace' - consumerPos') + cachedProducerPos'])
      <3>1. (endOfRecordedSpace - consumerPos) + cachedProducerPos \in 1..Held
        BY <1>3, <2>3, PositionsAreNumbers
      <3> QED BY <1>3, <1>13, <2>3, <3>1 DEF BoundaryInv, EntryEndsAtMarks
    <2> QED BY <2>1, <2>2, <2>3 DEF EntryEndsAtMarks
  <1> QED BY <1>12, <1>14 DEF BoundaryInv

\* Every step keeps entries whole.
LEMMA BoundaryStep ==
    ASSUME IndInv, IndInv', FilledHoldsEntry, BoundaryInv, [Next]_vars
    PROVE  BoundaryInv'
  <1>1. CASE FinishReservation
    BY <1>1, BoundaryFinish
  <1>2. CASE Consume
    BY <1>2, BoundaryConsume
  <1>3. ASSUME ~FinishReservation, ~Consume PROVE BoundaryInv'
    <2>1. Entries' = Entries /\ Held' = Held
      BY <1>3, EntriesKept, EntriesArePublished, EntriesArePublishedNext
    <2>2. CASE MarkEnd \/ Wrap
      BY <2>1, <2>2, BoundaryProducerMoves
    <2>3. CASE LoadProducerPos \/ PeekEnd \/ PeekRollOver \/ PeekStraight \/ CopyChunk
      BY <2>1, <2>3, BoundaryConsumerMoves
    <2>4. ASSUME ~(MarkEnd \/ Wrap),
                 ~(LoadProducerPos \/ PeekEnd \/ PeekRollOver \/ PeekStraight \/ CopyChunk)
          PROVE  BoundaryInv'
      <3>1. UNCHANGED <<producerPos, consumerPos, endOfRecordedSpace,
                        cState, cachedProducerPos, remaining>>
        BY <1>3, <2>4
        DEF Next, ProducerStep, Consumer, Reserve, LoadConsumerPos, UseTail, UseGap, Fill,
            consumerVars, vars
      <3> QED BY <2>1, <3>1, BoundaryKept
    <2> QED BY <2>2, <2>3, <2>4
  <1> QED BY <1>1, <1>2, <1>3

\* Every block peek returns begins with an entry and ends with one, and holds
\* entries byte for byte in between, so appendInternal and the sink can walk
\* it by entrySize, for every ring size, threshold and entry sizes.
THEOREM BlocksAreWhole == Spec => []BlocksHoldWholeEntries
  <1>1. Init => IndInv /\ FilledHoldsEntry /\ BoundaryInv
    <2>1. Init => Held = 0 /\ cState = "idle" /\ producerPos = 0 /\ consumerPos = 0
      BY DEF Init, Held, RingLen
    <2>2. Init => BoundaryInv
      BY <2>1 DEF BoundaryInv, WholeEntries, EntryEndsAtMarks
    <2> QED BY <2>2, InitEstablishes DEF Init, FilledHoldsEntry
  <1>2. IndInv /\ FilledHoldsEntry /\ BoundaryInv /\ [Next]_vars
          => (IndInv /\ FilledHoldsEntry /\ BoundaryInv)'
    BY TypeStep, PositionsStep, FilledStep, BoundaryStep DEF IndInv
  <1> QED BY <1>1, <1>2, BoundaryImpliesBlocks, PTL DEF Spec
=============================================================================
