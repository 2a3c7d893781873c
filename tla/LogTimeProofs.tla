---------------------------- MODULE LogTimeProofs ----------------------------
(***************************************************************************)
(* The time of a log line, for every clock, calibration, format and order  *)
(* of entries: calibration divides by a positive number of cycles, the     *)
(* clock is as close to the system's as its readings allow, the formatter  *)
(* is only asked for times there are, and its text is that of the time     *)
(* asked for.                                                              *)
(***************************************************************************)
EXTENDS LogTime, DataLemmas, TLAPS

-----------------------------------------------------------------------------
(* The clock *)

\* The system clock was read between two readings of the counter.
ReadBetween(j) ==
    \E s \in Nat : tscs[j - 1] < s /\ s < tscs[j] /\ nses[j] = s * NsPerCycle

ReadingsInOrder ==
    /\ \A j \in 0..i : tscs[j] <= cycle
    /\ \A j \in 1..i : ReadBetween(j)

\* What a calibration reads is later than the base it is compared with.
LaterThanBase ==
    /\ clockState # "init" => base_tsc <= cycle
    /\ clockState = "calibrate" => \A j \in 0..i : base_tsc < tscs[j]
    /\ clockState = "ready" => i = -1

ClockInv ==
    /\ TscnsTypeOK
    /\ ReadingsInOrder
    /\ LaterThanBase
    /\ SyncIsTight

-----------------------------------------------------------------------------

\* Scaling keeps order.
LEMMA ProductOrder ==
    ASSUME NEW a \in Int, NEW b \in Int, NEW k \in Nat \ {0}, a < b
    PROVE  k * a < k * b
  OBVIOUS

\* syncTime finds its tightest try.
LEMMA BestExists ==
    ASSUME tscs \in [0..N -> Nat], \A j \in 1..N : tscs[j - 1] < tscs[j]
    PROVE  /\ best \in 1..N
           /\ \A m \in 1..N : Gap(best) <= Gap(m)
  <1>0. N \in Nat \ {0}
    BY TscnsAssumption
  <1>1. \A j \in 1..N : Gap(j) \in Nat
    BY <1>0 DEF Gap
  <1>2. PICK g \in {Gap(j) : j \in 1..N} : \A h \in {Gap(j) : j \in 1..N} : g <= h
    <2>1. {Gap(j) : j \in 1..N} \in SUBSET Nat
      BY <1>1
    <2>2. Gap(1) \in {Gap(j) : j \in 1..N}
      BY <1>0
    <2> HIDE DEF Gap
    <2> QED BY <2>1, <2>2, NatHasLeast
  <1>3. PICK j \in {m \in 1..N : Gap(m) = g} : \A l \in {m \in 1..N : Gap(m) = g} : j <= l
    <2>1. {m \in 1..N : Gap(m) = g} \in SUBSET Nat
      BY <1>0
    <2>2. {m \in 1..N : Gap(m) = g} # {}
      BY <1>2
    <2> QED BY <2>1, <2>2, NatHasLeast
  <1>4. j \in 1..N /\ Gap(j) = g
    BY <1>3
  <1>5. \A m \in 1..N : Gap(j) <= Gap(m)
    BY <1>2, <1>4
  <1>6. \A m \in 1..(j - 1) : Gap(j) < Gap(m)
    <2> TAKE m \in 1..(j - 1)
    <2>1. m \in 1..N /\ ~(j <= m)
      BY <1>0, <1>4
    <2>2. Gap(m) # g
      BY <1>3, <2>1
    <2> QED BY <1>1, <1>4, <1>5, <2>1, <2>2
  <1>7. \E b \in 1..N : /\ \A m \in 1..N : Gap(b) <= Gap(m)
                        /\ \A m \in 1..(b - 1) : Gap(b) < Gap(m)
    BY <1>4, <1>5, <1>6
  <1> HIDE DEF Gap
  <1> QED BY <1>7 DEF best

\* The two clocks of a complete synchronisation are as close as its best try.
LEMMA SyncResult ==
    ASSUME TscnsTypeOK, ReadingsInOrder, i = N
    PROVE  /\ best \in 1..N /\ Gap(best) \in Nat
           /\ tsc \in Nat /\ ns \in Nat
           /\ tscs[best - 1] <= tsc /\ tsc <= cycle
           /\ -(NsPerCycle * Gap(best)) < 2 * (ns - NsPerCycle * tsc)
           /\ 2 * (ns - NsPerCycle * tsc) < NsPerCycle * Gap(best)
  <1>0. N \in Nat \ {0} /\ NsPerCycle \in Nat \ {0}
    BY TscnsAssumption
  <1>1. tscs \in [0..N -> Nat] /\ nses \in [1..N -> Nat] /\ cycle \in Nat
    BY DEF TscnsTypeOK
  <1>2. \A j \in 1..N : tscs[j - 1] < tscs[j]
    <2> TAKE j \in 1..N
    <2>1. tscs[j - 1] \in Nat /\ tscs[j] \in Nat
      BY <1>0, <1>1
    <2> QED BY <2>1 DEF ReadingsInOrder, ReadBetween
  <1>3. best \in 1..N
    BY <1>1, <1>2, BestExists
  <1> DEFINE a == tscs[best - 1]
             b == tscs[best]
  <1>4. a \in Nat /\ b \in Nat /\ a < b /\ b <= cycle
    BY <1>0, <1>1, <1>2, <1>3 DEF ReadingsInOrder
  <1>5. PICK s \in Nat : a < s /\ s < b /\ ns = s * NsPerCycle
    <2>1. ReadBetween(best)
      BY <1>3 DEF ReadingsInOrder
    <2> QED BY <2>1 DEF ReadBetween, ns
  <1>6. tsc = (b + a) \div 2 /\ Gap(best) = b - a
    BY DEF tsc, Gap
  <1>7. a <= tsc /\ tsc < b /\ tsc \in Nat /\ Gap(best) \in Nat
    <2> HIDE DEF a, b
    <2> QED BY <1>4, <1>6
  <1>8. -(b - a) < 2 * (s - tsc) /\ 2 * (s - tsc) < b - a
    <2> HIDE DEF a, b
    <2> QED BY <1>4, <1>5, <1>6, <1>7
  <1>9. ns \in Nat /\ 2 * (ns - NsPerCycle * tsc) = NsPerCycle * (2 * (s - tsc))
    <2> DEFINE c == tsc
    <2>1. c \in Nat /\ ns = s * NsPerCycle
      BY <1>5, <1>7
    <2> HIDE DEF c
    <2>2. ns \in Nat /\ 2 * (ns - NsPerCycle * c) = NsPerCycle * (2 * (s - c))
      BY <1>0, <2>1
    <2> QED BY <2>2 DEF c
  <1>10. /\ NsPerCycle * (-Gap(best)) < NsPerCycle * (2 * (s - tsc))
         /\ NsPerCycle * (2 * (s - tsc)) < NsPerCycle * Gap(best)
    <2> DEFINE g == Gap(best)
               e == 2 * (s - tsc)
    <2>1. g \in Int /\ e \in Int /\ -g < e /\ e < g
      BY <1>6, <1>7, <1>8
    <2> HIDE DEF g, e
    <2>2. NsPerCycle * (-g) < NsPerCycle * e /\ NsPerCycle * e < NsPerCycle * g
      BY <1>0, <2>1, ProductOrder
    <2> QED BY <2>2 DEF g, e
  <1>11. NsPerCycle * (-Gap(best)) = -(NsPerCycle * Gap(best))
    <2> HIDE DEF Gap, best
    <2> QED BY <1>0, <1>7
  <1>12. tscs[best - 1] <= tsc /\ tsc <= cycle
    BY <1>1, <1>4, <1>7
  <1> QED BY <1>3, <1>7, <1>9, <1>10, <1>11, <1>12

-----------------------------------------------------------------------------

LEMMA ClockInitInv == TscnsInit => ClockInv
  <1> SUFFICES ASSUME TscnsInit PROVE ClockInv
    OBVIOUS
  <1> USE TscnsAssumption DEF TscnsInit
  <1>1. TscnsTypeOK
    BY DEF TscnsTypeOK, Sync
  <1>2. ReadingsInOrder
    BY DEF ReadingsInOrder
  <1> QED BY <1>1, <1>2 DEF ClockInv, LaterThanBase, SyncIsTight

LEMMA ClockStutterInv ==
    ASSUME ClockInv, UNCHANGED tscnsVars
    PROVE  ClockInv'
  BY DEF ClockInv, tscnsVars, TscnsTypeOK, ReadingsInOrder, ReadBetween, LaterThanBase,
         SyncIsTight, rdsysns

LEMMA ReadTscFirstInv ==
    ASSUME ClockInv, ReadTscFirst
    PROVE  ClockInv'
  <1> USE TscnsAssumption DEF ReadTscFirst, clockVars, rdtsc
  <1>1. PICK d \in Delays : cycle' = cycle + d
    OBVIOUS
  <1>2. /\ cycle \in Nat /\ d \in Nat \ {0} /\ cycle' \in Nat /\ cycle < cycle'
        /\ tscs \in [0..N -> Nat] /\ base_tsc \in Nat /\ N \in Nat \ {0}
    BY <1>1 DEF ClockInv, TscnsTypeOK
  <1>3. TscnsTypeOK'
    BY <1>2 DEF ClockInv, TscnsTypeOK
  <1>4. ReadingsInOrder'
    BY <1>2 DEF ReadingsInOrder
  <1>5. LaterThanBase'
    BY <1>2 DEF ClockInv, LaterThanBase, Sync
  <1>6. SyncIsTight'
    BY DEF ClockInv, SyncIsTight, rdsysns
  <1> QED BY <1>3, <1>4, <1>5, <1>6 DEF ClockInv

LEMMA ReadPairInv ==
    ASSUME ClockInv, ReadPair
    PROVE  ClockInv'
  <1>1. PICK d \in Delays, e \in Delays :
            /\ nses' = [nses EXCEPT ![i + 1] = rdsysns(cycle + d)]
            /\ tscs' = [tscs EXCEPT ![i + 1] = cycle + d + e]
            /\ cycle' = cycle + d + e
    BY DEF ReadPair, rdtsc
  <1>2. /\ i \in 0..(N - 1) /\ i' = i + 1 /\ clockState \in Sync
        /\ UNCHANGED <<clockState, base_tsc, base_ns, tsc_ghz_inv, ns_offset, delayed_tsc, gap>>
    BY DEF ReadPair, clockVars
  <1>3. /\ N \in Nat \ {0} /\ NsPerCycle \in Nat
        /\ d \in Nat \ {0} /\ e \in Nat \ {0}
    BY TscnsAssumption
  <1>4. /\ cycle \in Nat /\ base_tsc \in Nat
        /\ tscs \in [0..N -> Nat] /\ nses \in [1..N -> Nat]
    BY DEF ClockInv, TscnsTypeOK
  <1>5. /\ cycle + d \in Nat /\ cycle' \in Nat /\ cycle < cycle + d /\ cycle + d < cycle'
    BY <1>1, <1>3, <1>4
  <1>6. rdsysns(cycle + d) = (cycle + d) * NsPerCycle /\ rdsysns(cycle + d) \in Nat
    BY <1>5, <1>3 DEF rdsysns
  <1>7. /\ tscs' \in [0..N -> Nat] /\ nses' \in [1..N -> Nat]
        /\ tscs'[i + 1] = cycle' /\ nses'[i + 1] = rdsysns(cycle + d)
        /\ \A j \in 0..i : tscs'[j] = tscs[j]
        /\ \A j \in 1..i : nses'[j] = nses[j]
    <2> HIDE DEF rdsysns
    <2> QED BY <1>1, <1>2, <1>3, <1>4, <1>5, <1>6
  <1>8. TscnsTypeOK'
    <2>1. i' \in -1..N
      BY <1>2, <1>3
    <2>2. /\ clockState \in Sync \cup {"ready"}
          /\ base_ns \in Nat /\ delayed_tsc \in Nat
          /\ tsc_ghz_inv \in [ns : Nat, cycles : Nat \ {0}]
          /\ ns_offset \in Int /\ gap \in [Sync -> Nat]
      BY DEF ClockInv, TscnsTypeOK
    <2> QED BY <1>2, <1>4, <1>5, <1>7, <2>1, <2>2 DEF TscnsTypeOK
  <1>9. \A j \in 0..i : tscs[j] <= cycle
    BY DEF ClockInv, ReadingsInOrder
  <1>10. ReadingsInOrder'
    <2>1. \A j \in 0..i' : tscs'[j] <= cycle'
      <3> SUFFICES ASSUME NEW j \in 0..i' PROVE tscs'[j] <= cycle'
        OBVIOUS
      <3>1. CASE j = i + 1
        BY <1>5, <1>7, <3>1
      <3>2. CASE j # i + 1
        <4>1. j \in 0..i /\ j \in 0..N
          BY <1>2, <1>3, <3>2
        <4>2. tscs[j] \in Nat /\ tscs[j] <= cycle /\ tscs'[j] = tscs[j]
          BY <1>4, <1>7, <1>9, <4>1
        <4> QED BY <1>5, <1>3, <1>4, <4>2
      <3> QED BY <3>1, <3>2
    <2>2. \A j \in 1..i' : ReadBetween(j)'
      <3> SUFFICES ASSUME NEW j \in 1..i' PROVE ReadBetween(j)'
        OBVIOUS
      <3>1. CASE j = i + 1
        <4>1. j - 1 = i /\ i \in 0..i /\ i \in 0..N
          BY <1>2, <1>3, <3>1
        <4>2. tscs'[j - 1] = tscs[i] /\ tscs[i] \in Nat /\ tscs[i] <= cycle
          BY <1>4, <1>7, <1>9, <4>1
        <4>3. tscs'[j] = cycle' /\ nses'[j] = (cycle + d) * NsPerCycle
          BY <1>6, <1>7, <3>1
        <4>4. tscs'[j - 1] < cycle + d /\ cycle + d < tscs'[j]
          BY <1>5, <1>4, <1>3, <4>2, <4>3
        <4> QED BY <1>5, <4>3, <4>4 DEF ReadBetween
      <3>2. CASE j # i + 1
        <4>1. j \in 1..i /\ j \in 0..i /\ j - 1 \in 0..i
          BY <1>2, <3>2
        <4>2. tscs'[j - 1] = tscs[j - 1] /\ tscs'[j] = tscs[j] /\ nses'[j] = nses[j]
          BY <1>7, <4>1
        <4>3. ReadBetween(j)
          BY <4>1 DEF ClockInv, ReadingsInOrder
        <4> QED BY <4>2, <4>3 DEF ReadBetween
      <3> QED BY <3>1, <3>2
    <2> QED BY <2>1, <2>2 DEF ReadingsInOrder
  <1>11. LaterThanBase'
    <2>1. clockState # "init" => base_tsc <= cycle'
      BY <1>5, <1>3, <1>4 DEF ClockInv, LaterThanBase
    <2>2. ASSUME clockState = "calibrate", NEW j \in 0..i' PROVE base_tsc < tscs'[j]
      <3>1. CASE j = i + 1
        BY <1>5, <1>3, <1>4, <1>7, <2>1, <2>2, <3>1 DEF ClockInv, LaterThanBase
      <3>2. CASE j # i + 1
        <4>1. j \in 0..i
          BY <1>2, <3>2
        <4> QED BY <1>7, <2>2, <4>1 DEF ClockInv, LaterThanBase
      <3> QED BY <3>1, <3>2
    <2> QED BY <1>2, <2>1, <2>2 DEF LaterThanBase, Sync
  <1>12. SyncIsTight'
    BY <1>2 DEF ClockInv, SyncIsTight, rdsysns
  <1> QED BY <1>8, <1>10, <1>11, <1>12 DEF ClockInv

\* With the locals gone nothing is known of readings.
LEMMA ForgetInv ==
    ASSUME TscnsTypeOK, Forget
    PROVE  /\ tscs' \in [0..N -> Nat] /\ nses' \in [1..N -> Nat] /\ i' \in -1..N
           /\ i' = -1 /\ ReadingsInOrder'
  <1>1. N \in Nat /\ i' = -1
    BY TscnsAssumption DEF Forget
  <1> QED BY <1>1 DEF Forget, ReadingsInOrder

LEMMA OffsetIsInt ==
    ASSUME NEW t \in Nat, NEW n \in Nat, NEW inv \in [ns : Nat, cycles : Nat \ {0}]
    PROVE  Offset(t, n, inv) \in Int
  <1>1. t * inv.ns \in Nat /\ inv.cycles \in Nat \ {0}
    OBVIOUS
  <1> DEFINE p == t * inv.ns
             c == inv.cycles
  <1>2. p \div c \in Int
    <2>1. p \in Nat /\ c \in Nat \ {0}
      BY <1>1
    <2> HIDE DEF p, c
    <2> QED BY <2>1
  <1> QED BY <1>2 DEF Offset, Scaled

\* The first synchronisation of either initialisation.
LEMMA FirstSync ==
    ASSUME ClockInv, i = N, Forget, UNCHANGED cycle,
           base_tsc' = tsc, base_ns' = ns, gap' = [gap EXCEPT !.init = Gap(best)]
    PROVE  /\ base_tsc' \in Nat /\ base_ns' \in Nat /\ gap' \in [Sync -> Nat]
           /\ base_tsc' <= cycle' /\ SyncIsTight'
  <1>1. /\ best \in 1..N /\ Gap(best) \in Nat
        /\ tsc \in Nat /\ ns \in Nat /\ tsc <= cycle
        /\ -(NsPerCycle * Gap(best)) < 2 * (ns - NsPerCycle * tsc)
        /\ 2 * (ns - NsPerCycle * tsc) < NsPerCycle * Gap(best)
    BY SyncResult DEF ClockInv
  <1>2. gap' \in [Sync -> Nat] /\ gap'.init = Gap(best)
    BY <1>1 DEF ClockInv, TscnsTypeOK, Sync
  <1>3. rdsysns(base_tsc)' = NsPerCycle * tsc
    BY <1>1, TscnsAssumption DEF rdsysns
  <1>4. SyncIsTight'
    BY <1>1, <1>2, <1>3 DEF SyncIsTight
  <1> QED BY <1>1, <1>2, <1>4

LEMMA InitKnownRateInv ==
    ASSUME ClockInv, InitKnownRate
    PROVE  ClockInv'
  <1> USE DEF InitKnownRate
  <1>1. /\ base_tsc' \in Nat /\ base_ns' \in Nat /\ gap' \in [Sync -> Nat]
        /\ base_tsc' <= cycle' /\ SyncIsTight'
    BY FirstSync
  <1>2. tsc_ghz_inv' \in [ns : Nat, cycles : Nat \ {0}]
    BY TscnsAssumption
  <1>3. ns_offset' \in Int
    BY <1>1, <1>2, OffsetIsInt
  <1>4. /\ tscs' \in [0..N -> Nat] /\ nses' \in [1..N -> Nat] /\ i' \in -1..N
        /\ i' = -1 /\ ReadingsInOrder'
    BY ForgetInv DEF ClockInv
  <1>5. TscnsTypeOK'
    BY <1>1, <1>2, <1>3, <1>4 DEF ClockInv, TscnsTypeOK
  <1>6. LaterThanBase'
    BY <1>1, <1>4 DEF LaterThanBase
  <1> QED BY <1>1, <1>4, <1>5, <1>6 DEF ClockInv

LEMMA InitBaseInv ==
    ASSUME ClockInv, InitBase
    PROVE  ClockInv'
  <1> USE DEF InitBase
  <1>1. /\ base_tsc' \in Nat /\ base_ns' \in Nat /\ gap' \in [Sync -> Nat]
        /\ base_tsc' <= cycle' /\ SyncIsTight'
    BY FirstSync
  <1>2. /\ tscs' \in [0..N -> Nat] /\ nses' \in [1..N -> Nat] /\ i' \in -1..N
        /\ i' = -1 /\ ReadingsInOrder'
    BY ForgetInv DEF ClockInv
  <1>3. TscnsTypeOK'
    BY <1>1, <1>2 DEF ClockInv, TscnsTypeOK, Sync
  <1>4. LaterThanBase'
    BY <1>1, <1>2 DEF LaterThanBase
  <1> QED BY <1>1, <1>2, <1>3, <1>4 DEF ClockInv

LEMMA CalibrateAgainInv ==
    ASSUME ClockInv, CalibrateAgain
    PROVE  ClockInv'
  <1> USE DEF CalibrateAgain, clockVars
  <1>1. /\ tscs' \in [0..N -> Nat] /\ nses' \in [1..N -> Nat] /\ i' \in -1..N
        /\ i' = -1 /\ ReadingsInOrder'
    BY ForgetInv DEF ClockInv
  <1>2. TscnsTypeOK'
    BY <1>1 DEF ClockInv, TscnsTypeOK
  <1>3. LaterThanBase'
    BY <1>1 DEF ClockInv, LaterThanBase
  <1>4. SyncIsTight'
    BY DEF ClockInv, SyncIsTight, rdsysns
  <1> QED BY <1>1, <1>2, <1>3, <1>4 DEF ClockInv

LEMMA CalibrateEndsInv ==
    ASSUME ClockInv, CalibrateEnds
    PROVE  ClockInv'
  <1> USE DEF CalibrateEnds
  <1>1. /\ best \in 1..N /\ Gap(best) \in Nat
        /\ tsc \in Nat /\ ns \in Nat /\ tscs[best - 1] <= tsc
    BY SyncResult DEF ClockInv
  <1>2. /\ base_tsc \in Nat /\ base_ns \in Nat /\ MinWaitNs \in Nat \ {0}
        /\ tscs \in [0..N -> Nat] /\ N \in Nat \ {0}
    BY TscnsAssumption DEF ClockInv, TscnsTypeOK
  <1>3. base_tsc < tscs[best - 1] /\ tscs[best - 1] \in Nat
    <2>1. best - 1 \in 0..N
      BY <1>1, <1>2
    <2> QED BY <1>2, <2>1 DEF ClockInv, LaterThanBase
  <1>4. tsc - base_tsc \in Nat \ {0} /\ ns - base_ns \in Nat
    <2> HIDE DEF tsc, ns, best
    <2> QED BY <1>1, <1>2, <1>3
  <1>5. tsc_ghz_inv' \in [ns : Nat, cycles : Nat \ {0}]
    BY <1>4
  <1>6. ns_offset' \in Int
    BY <1>2, <1>5, OffsetIsInt
  <1>7. /\ tscs' \in [0..N -> Nat] /\ nses' \in [1..N -> Nat] /\ i' \in -1..N
        /\ i' = -1 /\ ReadingsInOrder'
    BY ForgetInv DEF ClockInv
  <1>8. gap' \in [Sync -> Nat] /\ gap'.init = gap.init
    BY <1>1 DEF ClockInv, TscnsTypeOK, Sync
  <1>9. TscnsTypeOK'
    BY <1>1, <1>5, <1>6, <1>7, <1>8 DEF ClockInv, TscnsTypeOK
  <1>10. LaterThanBase'
    BY <1>7 DEF ClockInv, LaterThanBase
  <1>11. SyncIsTight'
    BY <1>8 DEF ClockInv, SyncIsTight, rdsysns
  <1> QED BY <1>7, <1>9, <1>10, <1>11 DEF ClockInv

LEMMA RecalibrateInv ==
    ASSUME ClockInv, Recalibrate
    PROVE  ClockInv'
  <1> USE DEF Recalibrate, clockVars
  <1>1. TscnsTypeOK'
    BY DEF ClockInv, TscnsTypeOK, Sync
  <1>2. ReadingsInOrder'
    BY DEF ClockInv, ReadingsInOrder, ReadBetween
  <1>3. LaterThanBase'
    BY DEF ClockInv, LaterThanBase
  <1>4. SyncIsTight'
    BY DEF ClockInv, SyncIsTight, rdsysns
  <1> QED BY <1>1, <1>2, <1>3, <1>4 DEF ClockInv

LEMMA InitAgainInv ==
    ASSUME ClockInv, InitAgain
    PROVE  ClockInv'
  <1> USE DEF InitAgain, clockVars
  <1>1. TscnsTypeOK'
    BY DEF ClockInv, TscnsTypeOK, Sync
  <1>2. ReadingsInOrder'
    BY DEF ClockInv, ReadingsInOrder, ReadBetween
  <1> QED BY <1>1, <1>2 DEF ClockInv, LaterThanBase, SyncIsTight

LEMMA ClockStepKeepsInv == ClockInv /\ [TscnsNext]_tscnsVars => ClockInv'
  <1> SUFFICES ASSUME ClockInv, [TscnsNext]_tscnsVars PROVE ClockInv'
    OBVIOUS
  <1>1. CASE ReadTscFirst
    BY <1>1, ReadTscFirstInv
  <1>2. CASE ReadPair
    BY <1>2, ReadPairInv
  <1>3. CASE InitKnownRate
    BY <1>3, InitKnownRateInv
  <1>4. CASE InitBase
    BY <1>4, InitBaseInv
  <1>5. CASE CalibrateAgain
    BY <1>5, CalibrateAgainInv
  <1>6. CASE CalibrateEnds
    BY <1>6, CalibrateEndsInv
  <1>7. CASE Recalibrate
    BY <1>7, RecalibrateInv
  <1>8. CASE InitAgain
    BY <1>8, InitAgainInv
  <1>9. CASE UNCHANGED tscnsVars
    BY <1>9, ClockStutterInv
  <1> QED BY <1>1, <1>2, <1>3, <1>4, <1>5, <1>6, <1>7, <1>8, <1>9 DEF TscnsNext

LEMMA ClockInductive == TscnsSpec => []ClockInv
  BY ClockInitInv, ClockStepKeepsInv, PTL DEF TscnsSpec

\* Whatever is read and however often it is calibrated again, the rate is a
\* quotient with a positive denominator: calibrate never divides by zero
\* (src/runtime_logger.h:169-183).
THEOREM TscnsTypeCorrect == TscnsSpec => []TscnsTypeOK
  BY ClockInductive, PTL DEF ClockInv

\* The pair kept by init is off by less than half of what its tightest try took,
\* for any number of tries: choosing the pair by the distance of its counter
\* readings bounds the error of the system clock's (syncTime,
\* src/runtime_logger.h:214-235).
THEOREM SyncTight == TscnsSpec => []SyncIsTight
  BY ClockInductive, PTL DEF ClockInv

-----------------------------------------------------------------------------
(* How close the clock is                                                  *)

\* The rate is the user's, or lies between two synchronisations, the second as
\* tight as the first.
RateInForce ==
    clockState = "ready" =>
        /\ ns_offset = Offset(base_tsc, base_ns, tsc_ghz_inv)
        /\ \/ /\ delayed_tsc = base_tsc
              /\ tsc_ghz_inv = [ns |-> NsPerCycle, cycles |-> 1]
           \/ /\ tsc_ghz_inv.cycles = delayed_tsc - base_tsc
              /\ LET error == 2 * ((base_ns + tsc_ghz_inv.ns) - NsPerCycle * delayed_tsc)
                 IN  /\ -(NsPerCycle * gap.calibrate) < error
                     /\ error < NsPerCycle * gap.calibrate

LEMMA RateInForceKept ==
    ASSUME ClockInv, RateInForce, [TscnsNext]_tscnsVars
    PROVE  RateInForce'
  <1>1. CASE ReadTscFirst \/ ReadPair \/ CalibrateAgain
    <2>1. clockState' \in Sync
      BY <1>1 DEF ReadTscFirst, ReadPair, CalibrateAgain, Sync
    <2> QED BY <2>1 DEF RateInForce, Sync
  <1>2. CASE InitBase \/ Recalibrate \/ InitAgain
    <2>1. clockState' \in Sync
      BY <1>2 DEF InitBase, Recalibrate, InitAgain, Sync
    <2> QED BY <2>1 DEF RateInForce, Sync
  <1>3. CASE InitKnownRate
    BY <1>3 DEF InitKnownRate, RateInForce, Offset, Scaled
  <1>4. CASE CalibrateEnds
    <2>1. /\ Gap(best) \in Nat /\ tsc \in Nat /\ ns \in Nat
          /\ -(NsPerCycle * Gap(best)) < 2 * (ns - NsPerCycle * tsc)
          /\ 2 * (ns - NsPerCycle * tsc) < NsPerCycle * Gap(best)
      BY <1>4, SyncResult DEF CalibrateEnds, ClockInv
    <2>2. /\ base_ns' = base_ns /\ base_tsc' = base_tsc /\ delayed_tsc' = tsc
          /\ tsc_ghz_inv' = [ns |-> ns - base_ns, cycles |-> tsc - base_tsc]
          /\ ns_offset' = Offset(base_tsc, base_ns, tsc_ghz_inv')
          /\ gap' = [gap EXCEPT !.calibrate = Gap(best)]
      BY <1>4 DEF CalibrateEnds
    <2>3. gap'.calibrate = Gap(best) /\ base_ns \in Nat
      BY <2>2 DEF ClockInv, TscnsTypeOK, Sync
    <2>4. ns_offset' = Offset(base_tsc', base_ns', tsc_ghz_inv')
      BY <2>2
    <2>5. tsc_ghz_inv'.cycles = delayed_tsc' - base_tsc'
      BY <2>2
    <2>6. base_ns' + tsc_ghz_inv'.ns = ns
      BY <2>1, <2>2, <2>3
    <2>7. 2 * ((base_ns' + tsc_ghz_inv'.ns) - NsPerCycle * delayed_tsc')
            = 2 * (ns - NsPerCycle * tsc)
      BY <2>2, <2>6
    <2> DEFINE error == 2 * ((base_ns + tsc_ghz_inv.ns) - NsPerCycle * delayed_tsc)
    <2>8. /\ -(NsPerCycle * gap'.calibrate) < error'
          /\ error' < NsPerCycle * gap'.calibrate
      BY <2>1, <2>3, <2>7
    <2> HIDE DEF best, tsc, ns
    <2> QED BY <2>4, <2>5, <2>8 DEF RateInForce
  <1>5. CASE UNCHANGED tscnsVars
    BY <1>5 DEF tscnsVars, RateInForce, Offset, Scaled
  <1> QED BY <1>1, <1>2, <1>3, <1>4, <1>5 DEF TscnsNext

\* And only products keep it.
LEMMA ProductOrderBack ==
    ASSUME NEW a \in Int, NEW b \in Int, NEW k \in Nat \ {0}, k * a < k * b
    PROVE  a < b
  <1>1. CASE b < a
    <2>1. k * b < k * a
      BY <1>1, ProductOrder
    <2> QED BY <2>1
  <1>2. CASE a = b
    BY <1>2
  <1> QED BY <1>1, <1>2

LEMMA ProductOrderWeak ==
    ASSUME NEW a \in Int, NEW b \in Int, NEW k \in Nat, a <= b
    PROVE  k * a <= k * b
  <1>1. CASE k = 0 \/ a = b
    BY <1>1
  <1>2. CASE k # 0 /\ a < b
    BY <1>2, ProductOrder
  <1> QED BY <1>1, <1>2

LEMMA Distributes ==
    ASSUME NEW k \in Int, NEW a \in Int, NEW b \in Int, NEW c \in Int, NEW d \in Int
    PROVE  k * (a - b + c - d) = k * a - k * b + k * c - k * d
  OBVIOUS

LEMMA QuotientBounds ==
    ASSUME NEW p \in Int, NEW c \in Nat \ {0}
    PROVE  /\ p \div c \in Int
           /\ c * (p \div c) <= p /\ p < c * (p \div c) + c
  OBVIOUS

\* An error of the clock c cycles, n nanoseconds long, s cycles after its base:
\* the errors of the two synchronisations, weighted by their distances.
LEMMA WeightedErrors ==
    ASSUME NEW R \in Nat, NEW c \in Nat \ {0}, NEW n \in Int,
           NEW tb \in Int, NEW nb \in Int, NEW t \in Int, NEW s \in Int, t = tb + s,
           NEW eb \in Int, eb = nb - R * tb,
           NEW ed \in Int, ed = (nb + n) - R * (tb + c),
           NEW e \in Int, e = (nb - ((tb * n) \div c) + ((t * n) \div c)) - R * t
    PROVE  /\ c * e - c < (c - s) * eb + s * ed
           /\ (c - s) * eb + s * ed < c * e + c
  <1> DEFINE q1 == (tb * n) \div c
             q2 == (t * n) \div c
             X  == (c - s) * eb + s * ed
  <1>1. tb * n \in Int /\ t * n \in Int
    OBVIOUS
  <1>2. /\ q1 \in Int /\ c * q1 <= tb * n /\ tb * n < c * q1 + c
        /\ q2 \in Int /\ c * q2 <= t * n /\ t * n < c * q2 + c
    BY <1>1, QuotientBounds
  <1>3. e = nb - q1 + q2 - R * t
    OBVIOUS
  <1> HIDE DEF q1, q2
  <1>4. c * e = c * nb - c * q1 + c * q2 - c * (R * t)
    <2> DEFINE rt == R * t
    <2>1. rt \in Int /\ q1 \in Int /\ q2 \in Int /\ e = nb - q1 + q2 - rt
      BY <1>2, <1>3
    <2> HIDE DEF rt
    <2>2. c * (nb - q1 + q2 - rt) = c * nb - c * q1 + c * q2 - c * rt
      BY <2>1, Distributes
    <2> QED BY <2>1, <2>2 DEF rt
  <1>5. X = c * nb - tb * n + t * n - c * (R * t)
    <2>1. ed = eb + n - R * c
      OBVIOUS
    <2>2. X = c * eb + s * n - s * (R * c)
      BY <2>1
    <2>3. t * n = tb * n + s * n
      OBVIOUS
    <2>4. c * (R * t) = c * (R * tb) + s * (R * c)
      OBVIOUS
    <2>5. c * eb = c * nb - c * (R * tb)
      OBVIOUS
    <2> QED BY <2>2, <2>3, <2>4, <2>5
  <1>6. X \in Int /\ c * q1 \in Int /\ c * q2 \in Int /\ c * nb \in Int /\ c * (R * t) \in Int
    BY <1>2
  <1> HIDE DEF X
  <1>7. c * e - c < X /\ X < c * e + c
    <2> DEFINE a == c * q1
               b == c * q2
               m == c * nb
               w == c * (R * t)
               k == c * e
               u == tb * n
               v == t * n
    <2>1. /\ a \in Int /\ b \in Int /\ m \in Int /\ w \in Int /\ u \in Int /\ v \in Int
          /\ k = m - a + b - w /\ X = m - u + v - w
          /\ a <= u /\ u < a + c /\ b <= v /\ v < b + c
      BY <1>1, <1>2, <1>4, <1>5, <1>6
    <2> HIDE DEF a, b, m, w, k, u, v
    <2>2. k - c < X /\ X < k + c
      BY <2>1
    <2> QED BY <2>2 DEF k
  <1> QED BY <1>7 DEF X

\* Between the two the weights are a mean, so the error is at most the larger.
LEMMA ErrorBetween ==
    ASSUME NEW c \in Nat \ {0}, NEW s \in 0..c, NEW W \in Int,
           NEW eb \in Int, -W < 2 * eb, 2 * eb < W,
           NEW ed \in Int, -W < 2 * ed, 2 * ed < W
    PROVE  /\ -(c * W) < 2 * ((c - s) * eb + s * ed)
           /\ 2 * ((c - s) * eb + s * ed) < c * W
  <1> DEFINE r == c - s
  <1>1. r \in Nat /\ s \in Nat /\ c = r + s /\ (r # 0 \/ s # 0)
    OBVIOUS
  <1>2. /\ r * (-W) <= r * (2 * eb) /\ r * (2 * eb) <= r * W
        /\ s * (-W) <= s * (2 * ed) /\ s * (2 * ed) <= s * W
    <2> HIDE DEF r
    <2> QED BY <1>1, ProductOrderWeak
  <1>3. /\ r # 0 => r * (-W) < r * (2 * eb) /\ r * (2 * eb) < r * W
        /\ s # 0 => s * (-W) < s * (2 * ed) /\ s * (2 * ed) < s * W
    <2> HIDE DEF r
    <2> QED BY <1>1, ProductOrder
  <1> HIDE DEF r
  <1> DEFINE rw == r * W
             sw == s * W
             re == r * eb
             sd == s * ed
  <1>4. /\ rw \in Int /\ sw \in Int /\ re \in Int /\ sd \in Int
        /\ r * (-W) = -rw /\ s * (-W) = -sw
        /\ r * (2 * eb) = 2 * re /\ s * (2 * ed) = 2 * sd
        /\ c * W = rw + sw
    BY <1>1
  <1>5. -rw <= 2 * re /\ 2 * re <= rw /\ -sw <= 2 * sd /\ 2 * sd <= sw
    BY <1>2, <1>4
  <1>6. /\ r # 0 => -rw < 2 * re /\ 2 * re < rw
        /\ s # 0 => -sw < 2 * sd /\ 2 * sd < sw
    BY <1>3, <1>4
  <1> HIDE DEF rw, sw, re, sd
  <1>7. -(rw + sw) < 2 * (re + sd) /\ 2 * (re + sd) < rw + sw
    BY <1>1, <1>4, <1>5, <1>6
  <1> QED BY <1>4, <1>7 DEF re, sd, r

\* Beyond the second the error of the rate is carried on.
LEMMA ErrorBeyond ==
    ASSUME NEW c \in Nat \ {0}, NEW s \in Nat, c <= s, NEW W \in Int, NEW V \in Int,
           NEW eb \in Int, -V < 2 * eb, 2 * eb < V,
           NEW ed \in Int, -W < 2 * ed, 2 * ed < W
    PROVE  /\ -(c * W + (s - c) * (V + W)) < 2 * ((c - s) * eb + s * ed)
           /\ 2 * ((c - s) * eb + s * ed) < c * W + (s - c) * (V + W)
  <1> DEFINE r == s - c
             d == ed - eb
  <1>1. r \in Nat /\ d \in Int /\ -(V + W) <= 2 * d /\ 2 * d <= V + W
    OBVIOUS
  <1>2. r * (-(V + W)) <= r * (2 * d) /\ r * (2 * d) <= r * (V + W)
    <2> DEFINE U == V + W
    <2>1. U \in Int /\ -U <= 2 * d /\ 2 * d <= U
      BY <1>1
    <2> HIDE DEF r, d, U
    <2>2. r * (-U) <= r * (2 * d) /\ r * (2 * d) <= r * U
      BY <1>1, <2>1, ProductOrderWeak
    <2> QED BY <2>2 DEF U
  <1>3. c * (-W) < c * (2 * ed) /\ c * (2 * ed) < c * W
    BY ProductOrder
  <1>4. (c - s) * eb + s * ed = c * ed + r * d
    OBVIOUS
  <1> HIDE DEF r, d
  <1> DEFINE cw == c * W
             cd == c * ed
             rd == r * d
             rv == r * (V + W)
  <1>5. /\ cw \in Int /\ cd \in Int /\ rd \in Int /\ rv \in Int
        /\ c * (-W) = -cw /\ c * (2 * ed) = 2 * cd
        /\ r * (-(V + W)) = -rv /\ r * (2 * d) = 2 * rd
    BY <1>1
  <1>6. -rv <= 2 * rd /\ 2 * rd <= rv /\ -cw < 2 * cd /\ 2 * cd < cw
    BY <1>2, <1>3, <1>5
  <1> HIDE DEF cw, cd, rd, rv
  <1>7. -(cw + rv) < 2 * (cd + rd) /\ 2 * (cd + rd) < cw + rv
    BY <1>5, <1>6
  <1> QED BY <1>4, <1>7 DEF cw, cd, rd, rv, r

\* Rounding adds one nanosecond.
LEMMA ErrorIsBounded ==
    ASSUME NEW c \in Nat \ {0}, NEW e \in Int, NEW X \in Int, NEW B \in Int,
           c * e - c < X, X < c * e + c, -B < 2 * X, 2 * X < B
    PROVE  c * (2 * ((IF e < 0 THEN -e ELSE e) - 1)) < B
  <1> DEFINE k == c * e
  <1>1. k \in Int /\ k - c < X /\ X < k + c
    OBVIOUS
  <1>2. c * (2 * (e - 1)) = 2 * (k - c) /\ c * (2 * (-e - 1)) = 2 * (-k - c)
    OBVIOUS
  <1> HIDE DEF k
  <1>3. 2 * (k - c) < B /\ 2 * (-k - c) < B
    BY <1>1
  <1>4. c * (2 * (e - 1)) < B /\ c * (2 * (-e - 1)) < B
    BY <1>2, <1>3
  <1> QED BY <1>4

\* What a counter value of the base or later is converted to: a time of the base
\* or later.
LEMMA ReadingOf ==
    ASSUME ClockInv, RateInForce, clockState = "ready", NEW t \in Nat, base_tsc <= t
    PROVE  /\ tsc2ns(t) = base_ns - ((base_tsc * tsc_ghz_inv.ns) \div tsc_ghz_inv.cycles)
                                   + ((t * tsc_ghz_inv.ns) \div tsc_ghz_inv.cycles)
           /\ tsc2ns(t) \in Int /\ base_ns <= tsc2ns(t)
  <1> DEFINE n  == tsc_ghz_inv.ns
             c  == tsc_ghz_inv.cycles
             q1 == (base_tsc * n) \div c
             q2 == (t * n) \div c
             u  == base_tsc * n
             v  == t * n
  <1>1. /\ n \in Nat /\ c \in Nat \ {0} /\ base_tsc \in Nat /\ base_ns \in Nat
    BY DEF ClockInv, TscnsTypeOK
  <1>2. u \in Int /\ v \in Int /\ u <= v
    <2>1. n * base_tsc <= n * t
      BY <1>1, ProductOrderWeak
    <2> QED BY <1>1, <2>1
  <1>3. /\ q1 \in Int /\ c * q1 <= u /\ u < c * q1 + c
        /\ q2 \in Int /\ c * q2 <= v /\ v < c * q2 + c
    BY <1>1, <1>2, QuotientBounds
  <1>4. q1 <= q2
    <2> HIDE DEF q1, q2, u, v, c, n
    <2>1. c * q1 < c * (q2 + 1)
      BY <1>1, <1>2, <1>3
    <2>2. q1 < q2 + 1
      BY <1>1, <1>3, <2>1, ProductOrderBack
    <2> QED BY <1>3, <2>2
  <1>5. tsc2ns(t) = base_ns - q1 + q2
    <2>1. tsc2ns(t) = ns_offset + q2 /\ ns_offset = base_ns - q1
      BY DEF RateInForce, tsc2ns, Scaled, Offset
    <2> HIDE DEF q1, q2
    <2> QED BY <1>1, <1>3, <2>1
  <1>6. tsc2ns(t) \in Int /\ base_ns <= tsc2ns(t)
    <2> HIDE DEF q1, q2
    <2> QED BY <1>1, <1>3, <1>4, <1>5
  <1> QED BY <1>5, <1>6

\* The error of a reading, from the two synchronisations.
LEMMA ReadingIsNear ==
    ASSUME ClockInv, RateInForce, clockState = "ready", NEW t \in Nat, base_tsc <= t
    PROVE  LET worst  == IF gap.init > gap.calibrate THEN gap.init ELSE gap.calibrate
               waited == delayed_tsc - base_tsc
           IN  IF t <= delayed_tsc \/ waited = 0
               THEN 2 * (Error(t) - 1) < NsPerCycle * worst
               ELSE 2 * (Error(t) - 1) * waited
                        < NsPerCycle * (gap.calibrate * waited
                                + (gap.init + gap.calibrate) * (t - delayed_tsc))
  <1> DEFINE R  == NsPerCycle
             g0 == gap.init
             g1 == gap.calibrate
             worst == IF g0 > g1 THEN g0 ELSE g1
             n  == tsc_ghz_inv.ns
             c  == tsc_ghz_inv.cycles
             s  == t - base_tsc
             eb == base_ns - R * base_tsc
             e  == tsc2ns(t) - R * t
  <1>1. /\ R \in Nat \ {0} /\ g0 \in Nat /\ g1 \in Nat /\ n \in Nat /\ c \in Nat \ {0}
        /\ base_tsc \in Nat /\ base_ns \in Nat /\ s \in Nat /\ t = base_tsc + s
        /\ delayed_tsc \in Nat
    BY TscnsAssumption DEF ClockInv, TscnsTypeOK, Sync
  <1>2. worst \in Nat /\ g0 <= worst /\ g1 <= worst
    BY <1>1
  <1>3. eb \in Int /\ -(R * g0) < 2 * eb /\ 2 * eb < R * g0
    <2>1. eb \in Int
      BY <1>1
    <2>2. 2 * (base_ns - rdsysns(base_tsc)) = 2 * eb
      BY <1>1 DEF rdsysns
    <2> QED BY <2>1, <2>2 DEF ClockInv, SyncIsTight
  <1>4. tsc2ns(t) = base_ns - ((base_tsc * n) \div c) + ((t * n) \div c)
    BY ReadingOf
  <1>5. tsc2ns(t) \in Int /\ e \in Int
    <2>1. tsc2ns(t) \in Int
      BY ReadingOf
    <2> QED BY <1>1, <2>1
  <1>6. Error(t) = IF e < 0 THEN -e ELSE e
    BY <1>1, <1>5 DEF Error, rdsysns
  <1>7. CASE delayed_tsc = base_tsc /\ tsc_ghz_inv = [ns |-> R, cycles |-> 1]
    <2>1. n = R /\ c = 1
      BY <1>7
    <2>2. e = eb
      <3>1. (base_tsc * n) \div c = base_tsc * R /\ (t * n) \div c = t * R
        BY <1>1, <2>1
      <3> DEFINE a == base_tsc * R
                 b == t * R
      <3>2. a \in Int /\ b \in Int /\ R * base_tsc = a /\ R * t = b
        BY <1>1
      <3>3. tsc2ns(t) = base_ns - a + b
        BY <1>4, <3>1
      <3> HIDE DEF a, b
      <3>4. e = base_ns - a /\ eb = base_ns - a
        BY <1>1, <3>2, <3>3
      <3> QED BY <3>4
    <2>3. R * g0 <= R * worst /\ R * g0 \in Int /\ R * worst \in Int
      BY <1>1, <1>2, ProductOrderWeak
    <2>4. 2 * (Error(t) - 1) < R * worst
      <3> HIDE DEF eb, e, worst
      <3> QED BY <1>3, <1>6, <2>2, <2>3
    <2> QED BY <1>1, <1>7, <2>4
  <1>8. CASE ~(delayed_tsc = base_tsc /\ tsc_ghz_inv = [ns |-> R, cycles |-> 1])
    <2> DEFINE ed == (base_ns + n) - R * delayed_tsc
               X  == (c - s) * eb + s * ed
    <2>1. /\ c = delayed_tsc - base_tsc
          /\ -(R * g1) < 2 * ed /\ 2 * ed < R * g1
      BY <1>8 DEF RateInForce
    <2>2. ed \in Int /\ delayed_tsc = base_tsc + c
      BY <1>1, <2>1
    <2>3. c * e - c < X /\ X < c * e + c
      <3>1. ed = (base_ns + n) - R * (base_tsc + c)
        BY <2>2
      <3>2. e = (base_ns - ((base_tsc * n) \div c) + ((t * n) \div c)) - R * t
        BY <1>4
      <3>3. eb = base_ns - R * base_tsc
        OBVIOUS
      <3>4. R \in Nat /\ n \in Int /\ base_tsc \in Int /\ base_ns \in Int /\ t \in Int /\ s \in Int
        BY <1>1
      <3> HIDE DEF c, n, s, ed, e, R, eb
      <3> QED BY <1>1, <1>3, <1>5, <2>2, <3>1, <3>2, <3>3, <3>4, WeightedErrors
    <2>4. X \in Int /\ R * worst \in Int /\ R * g0 \in Int /\ R * g1 \in Int
      BY <1>1, <1>2, <1>3, <2>2
    <2>5. CASE t <= delayed_tsc
      <3>1. s \in 0..c
        BY <1>1, <2>2, <2>5
      <3>2. /\ R * g0 <= R * worst /\ R * g1 <= R * worst
        BY <1>1, <1>2, ProductOrderWeak
      <3>3. -(c * (R * worst)) < 2 * X /\ 2 * X < c * (R * worst)
        <4> DEFINE W == R * worst
        <4>1. /\ -W < 2 * eb /\ 2 * eb < W /\ -W < 2 * ed /\ 2 * ed < W
          <5> HIDE DEF eb, ed, worst
          <5> QED BY <1>3, <2>1, <2>2, <2>4, <3>2
        <4> HIDE DEF W, c, s, eb, ed
        <4>2. -(c * W) < 2 * ((c - s) * eb + s * ed) /\ 2 * ((c - s) * eb + s * ed) < c * W
          BY <1>1, <1>3, <2>2, <2>4, <3>1, <4>1, ErrorBetween DEF W
        <4> QED BY <4>2 DEF W
      <3>4. 2 * (Error(t) - 1) < R * worst
        <4> DEFINE W == R * worst
                   E == Error(t)
        <4>1. W \in Int /\ c * W \in Int /\ E \in Int
          BY <1>1, <1>5, <1>6, <2>4
        <4>2. c * (2 * (E - 1)) < c * W
          <5> HIDE DEF W, X, e, c
          <5> QED BY <1>1, <1>5, <1>6, <2>3, <2>4, <3>3, <4>1, ErrorIsBounded DEF W
        <4> HIDE DEF W, E, c
        <4>3. 2 * (E - 1) < W
          BY <1>1, <4>1, <4>2, ProductOrderBack
        <4> QED BY <4>3 DEF W, E
      <3> QED BY <2>5, <3>4
    <2>6. CASE ~(t <= delayed_tsc)
      <3> DEFINE W == R * g1
                 V == R * g0
                 B == c * W + (s - c) * (V + W)
      <3>1. s \in Nat /\ c <= s /\ t - delayed_tsc = s - c
        BY <1>1, <2>2, <2>6
      <3>2. -B < 2 * X /\ 2 * X < B
        <4>1. W \in Int /\ V \in Int /\ -V < 2 * eb /\ 2 * eb < V /\ -W < 2 * ed /\ 2 * ed < W
          BY <1>3, <2>1, <2>4
        <4> HIDE DEF W, V, c, s, eb, ed
        <4>2. /\ -(c * W + (s - c) * (V + W)) < 2 * ((c - s) * eb + s * ed)
              /\ 2 * ((c - s) * eb + s * ed) < c * W + (s - c) * (V + W)
          BY <1>1, <1>3, <2>2, <3>1, <4>1, ErrorBeyond
        <4> QED BY <4>2
      <3>3. B = R * (g1 * c + (g0 + g1) * (t - delayed_tsc))
        <4> DEFINE r == s - c
        <4>1. r \in Int /\ t - delayed_tsc = r
          BY <1>1, <3>1
        <4> HIDE DEF r, c, R, g0, g1
        <4>2. c * (R * g1) + r * (R * g0 + R * g1) = R * (g1 * c + (g0 + g1) * r)
          BY <1>1, <4>1
        <4> QED BY <4>1, <4>2 DEF r
      <3>4. 2 * (Error(t) - 1) * c < B
        <4> DEFINE E == Error(t)
        <4>1. E \in Int /\ B \in Int
          <5>1. W \in Int /\ V \in Int
            BY <2>4
          <5> HIDE DEF W, V, c, s
          <5> QED BY <1>1, <1>5, <1>6, <5>1
        <4>2. c * (2 * (E - 1)) < B
          <5> HIDE DEF B, X, e, c
          <5> QED BY <1>1, <1>5, <1>6, <2>3, <2>4, <3>2, <4>1, ErrorIsBounded
        <4> HIDE DEF B, E, c
        <4>3. 2 * (E - 1) * c < B
          BY <1>1, <4>1, <4>2
        <4> QED BY <4>3 DEF E
      <3>5. delayed_tsc - base_tsc # 0 /\ c = delayed_tsc - base_tsc
        BY <1>1, <2>1
      <3> HIDE DEF B
      <3> QED BY <2>6, <3>3, <3>4, <3>5
    <2> QED BY <2>5, <2>6
  <1> QED BY <1>7, <1>8

\* Every time the clock gives is within the readings' tolerance of the system
\* clock's, and the tolerance grows beyond the second synchronisation in units of
\* the time calibrate waited, for every rate, number of tries, delay and wait
\* (src/runtime_logger.h:145-146, 169-196).
THEOREM ClockClose == TscnsSpec => []ClockIsClose
  <1>1. TscnsInit => RateInForce
    BY DEF TscnsInit, RateInForce
  <1>2. ClockInv /\ RateInForce /\ [TscnsNext]_tscnsVars => RateInForce'
    BY RateInForceKept
  <1>3. ClockInv /\ RateInForce => ClockIsClose
    <2> SUFFICES ASSUME ClockInv, RateInForce, clockState = "ready",
                        NEW t \in base_tsc..(2 * MaxCycle)
                 PROVE  LET worst  == IF gap.init > gap.calibrate
                                      THEN gap.init ELSE gap.calibrate
                            waited == delayed_tsc - base_tsc
                        IN  IF t <= delayed_tsc \/ waited = 0
                            THEN 2 * (Error(t) - 1) < NsPerCycle * worst
                            ELSE 2 * (Error(t) - 1) * waited
                                    < NsPerCycle * (gap.calibrate * waited
                                        + (gap.init + gap.calibrate) * (t - delayed_tsc))
      BY DEF ClockIsClose
    <2>1. t \in Nat /\ base_tsc <= t
      BY TscnsAssumption DEF ClockInv, TscnsTypeOK
    <2> QED BY <2>1, ReadingIsNear
  <1> QED BY <1>1, <1>2, <1>3, ClockInductive, PTL DEF TscnsSpec

-----------------------------------------------------------------------------
(* The formatter *)

Formatting == {"strftime_1", "strftime_2", "write", "idle"}

\* The specifier q at position k is the only one of f.
OnlySpecifier(f, q, k) ==
    q \in Specifier /\ k \in 1..Len(f) /\ Places(f, q) = {k} /\ Found(f) = {q}

\* The parts are what stands before and after the only specifier.
SplitAtSpecifier ==
    formatterState \in Formatting =>
        \/ Found(format) = {}
        \/ \E q \in Specifier, k \in 1..Len(format) :
              /\ OnlySpecifier(format, q, k)
              /\ specifier = q
              /\ part_1 = SubSeq(format, 1, k - 1)
              /\ part_2 = SubSeq(format, k + 1, Len(format))

\* Each text is the expansion of its part at the cached second, once it has been
\* made; an empty second part is never expanded.
PartsExpanded ==
    /\ formatterState \in Formatting \ {"strftime_1"} =>
           ts_1 = strftime(part_1, cached)
    /\ formatterState \in {"write", "idle"} /\ part_2 # <<>> =>
           ts_2 = strftime(part_2, cached)

\* From the first call on the cached second is that of the last timestamp.
CacheIsOfTimestamp ==
    /\ formatterState \in Formatting /\ timestamp_ns # -1 =>
           cached = timestamp_ns \div SECOND
    /\ formatterState = "write" => timestamp_ns # -1
    /\ formatterState = "new" => timestamp_ns = -1

FormatterInv ==
    /\ FormatterTypeOK
    /\ SplitAtSpecifier
    /\ PartsExpanded
    /\ CacheIsOfTimestamp
    /\ TextIsOfTimestamp

-----------------------------------------------------------------------------

\* A format that does not throw has no specifier, or a single one.
LEMMA SingleSpecifier ==
    ASSUME NEW f \in Formats, ~Throws(f),
           NEW q \in Found(f), NEW k \in Places(f, q)
    PROVE  OnlySpecifier(f, q, k)
  <1>1. q \in Specifier /\ k \in 1..Len(f) /\ f[k] = q
    BY DEF Found, Places
  <1>2. \A r \in Specifier : \A l \in Places(f, r) : l = k
    BY <1>1 DEF Throws
  <1>3. Places(f, q) = {k}
    BY <1>1, <1>2
  <1>4. \A r \in Found(f) : r = q
    <2> TAKE r \in Found(f)
    <2>1. PICK l : l \in Places(f, r)
      BY DEF Found
    <2>2. f[l] = r /\ l = k
      BY <1>2, <2>1 DEF Found, Places
    <2> QED BY <1>1, <2>2
  <1>5. Found(f) = {q}
    BY <1>4
  <1> QED BY <1>1, <1>3, <1>5 DEF OnlySpecifier

\* Both parts of a split format consist of pieces.
LEMMA PartsArePieces ==
    ASSUME NEW f \in Formats, NEW q, NEW k, OnlySpecifier(f, q, k)
    PROVE  /\ SubSeq(f, 1, k - 1) \in Seq(Piece)
           /\ SubSeq(f, k + 1, Len(f)) \in Seq(Piece)
  <1>1. f \in Seq(Piece \cup Specifier) /\ k \in 1..Len(f) /\ Len(f) \in Nat
    BY FormatterAssumption DEF OnlySpecifier
  <1>2. \A j \in 1..Len(f) : j # k => f[j] \in Piece
    <2> SUFFICES ASSUME NEW j \in 1..Len(f), f[j] \in Specifier
                 PROVE  j = k
      BY <1>1
    <2>1. j \in Places(f, f[j])
      BY DEF Places
    <2>2. f[j] \in Found(f)
      BY <2>1 DEF Found
    <2> QED BY <2>1, <2>2 DEF OnlySpecifier
  <1>3. SubSeq(f, 1, k - 1) \in Seq(Piece)
    BY <1>1, <1>2
  <1>4. SubSeq(f, k + 1, Len(f)) \in Seq(Piece)
    BY <1>1, <1>2
  <1> QED BY <1>3, <1>4

LEMMA NoSpecifierArePieces ==
    ASSUME NEW f \in Formats, Found(f) = {}
    PROVE  f \in Seq(Piece)
  <1>1. f \in Seq(Piece \cup Specifier) /\ Len(f) \in Nat
    BY FormatterAssumption
  <1>2. \A j \in 1..Len(f) : f[j] \in Piece
    BY <1>1 DEF Found, Places
  <1> QED BY <1>1, <1>2

\* The digits written are the first digits of the fraction.
LEMMA DigitsOfFraction ==
    ASSUME NEW t \in Nat, NEW q \in Specifier
    PROVE  Decimal((t - (t \div SECOND) * SECOND) \div Scale[q], Width[q])
             = SubSeq(Decimal(t % SECOND, Width[Qns]), 1, Width[q])
  <1>1. SECOND \in Nat /\ SECOND > 0
    BY FormatterAssumption
  <1>2. t - (t \div SECOND) * SECOND = t % SECOND
    BY <1>1
  <1>3. t % SECOND \in 0..(SECOND - 1)
    BY <1>1
  <1> QED BY <1>2, <1>3, ScaleAssumption

-----------------------------------------------------------------------------

LEMMA FormatterInitInv == FormatterInit => FormatterInv
  BY FormatterAssumption DEF FormatterInit, FormatterInv, FormatterTypeOK, FormatterState,
     SplitAtSpecifier, Formatting, PartsExpanded, CacheIsOfTimestamp,
     TextIsOfTimestamp, Answered

\* Enlarging the buffer of safe_strftime changes nothing the invariant is about.
LEMMA EnlargeKeepsInv ==
    ASSUME FormatterInv, NEW part, Enlarge(part), formatterState \in {"strftime_1", "strftime_2"}
    PROVE  FormatterInv'
  <1> USE DEF Enlarge
  <1>0. size \in Nat /\ 2 * size \in Nat
    BY DEF FormatterInv, FormatterTypeOK
  <1>1. size' \in Nat /\ formatterState' \in {formatterState, "no_memory"}
    <2>1. CASE Enlarged <= MaxSize
      BY <1>0, <2>1 DEF Enlarged
    <2>2. CASE ~(Enlarged <= MaxSize)
      BY <2>2
    <2> QED BY <2>1, <2>2
  <1>2. FormatterTypeOK'
    BY <1>1 DEF FormatterInv, FormatterTypeOK, FormatterState
  <1>3. SplitAtSpecifier'
    BY <1>1 DEF FormatterInv, SplitAtSpecifier, Formatting
  <1>4. PartsExpanded' /\ CacheIsOfTimestamp'
    BY <1>1 DEF FormatterInv, PartsExpanded, CacheIsOfTimestamp, Formatting
  <1>5. TextIsOfTimestamp'
    BY <1>1 DEF TextIsOfTimestamp, Answered
  <1> QED BY <1>2, <1>3, <1>4, <1>5 DEF FormatterInv

LEMMA ConstructorKeepsInv ==
    ASSUME FormatterInv, NEW f \in Formats, Constructor(f)
    PROVE  FormatterInv'
  <1> USE DEF Constructor
  <1>1. f \in Seq(Piece \cup Specifier)
    BY FormatterAssumption
  <1>2. CASE Found(f) = {}
    <2>1. part_1' \in Seq(Piece) /\ part_2' \in Seq(Piece) /\ specifier' = None
      BY <1>2, NoSpecifierArePieces
    <2>2. FormatterTypeOK'
      BY <1>1, <2>1, FormatterAssumption DEF FormatterInv, FormatterTypeOK, FormatterState
    <2>3. SplitAtSpecifier'
      BY <1>2 DEF SplitAtSpecifier
    <2> QED BY <2>2, <2>3 DEF FormatterInv, FormatterTypeOK, PartsExpanded, CacheIsOfTimestamp,
               TextIsOfTimestamp, Answered, Formatting
  <1>3. CASE Found(f) # {}
    <2>0. PICK q \in Found(f) : \E k \in Places(f, q) :
              /\ specifier' = q
              /\ part_1' = SubSeq(f, 1, k - 1)
              /\ part_2' = SubSeq(f, k + 1, Len(f))
      BY <1>3
    <2>1. PICK k \in Places(f, q) :
              /\ specifier' = q
              /\ part_1' = SubSeq(f, 1, k - 1)
              /\ part_2' = SubSeq(f, k + 1, Len(f))
      BY <2>0
    <2>2. OnlySpecifier(f, q, k)
      BY SingleSpecifier
    <2>3. q \in Specifier /\ k \in 1..Len(f)
      BY <2>2 DEF OnlySpecifier
    <2>4. part_1' \in Seq(Piece) /\ part_2' \in Seq(Piece)
      BY <2>1, <2>2, PartsArePieces
    <2>5. FormatterTypeOK'
      BY <1>1, <2>1, <2>3, <2>4, FormatterAssumption
         DEF FormatterInv, FormatterTypeOK, FormatterState
    <2>6. SplitAtSpecifier'
      BY <2>1, <2>2, <2>3 DEF SplitAtSpecifier
    <2> QED BY <2>5, <2>6 DEF FormatterInv, FormatterTypeOK, PartsExpanded, CacheIsOfTimestamp,
               TextIsOfTimestamp, Answered, Formatting
  <1> QED BY <1>2, <1>3

\* An expansion that fits becomes the text of the first part.
LEMMA Preformat_1KeepsInv == FormatterInv /\ Preformat_1 => FormatterInv'
  <1> SUFFICES ASSUME FormatterInv, Preformat_1 PROVE FormatterInv'
    OBVIOUS
  <1>1. formatterState = "strftime_1"
    BY DEF Preformat_1
  <1>2. CASE Enlarge(part_1)
    BY <1>1, <1>2, EnlargeKeepsInv
  <1>3. CASE ~Enlarge(part_1)
    <2>1. /\ ts_1' = strftime(part_1, cached)
          /\ \/ formatterState' = AfterExpansion /\ size' = 0 /\ part_2 = <<>>
             \/ formatterState' = "strftime_2" /\ size' = STRFTIME_SIZE
          /\ UNCHANGED <<format, specifier, part_1, part_2, ts_2, cached,
                         timestamp_ns, buffer>>
      BY <1>3 DEF Preformat_1
    <2>2. formatterState' \in {"idle", "write", "strftime_2"} /\ size' \in Nat
      BY <2>1, FormatterAssumption DEF AfterExpansion
    <2>3. FormatterTypeOK'
      BY <2>1, <2>2 DEF FormatterInv, FormatterTypeOK, FormatterState
    <2>4. SplitAtSpecifier'
      BY <1>1, <2>1, <2>2 DEF FormatterInv, SplitAtSpecifier, Formatting
    <2>5. PartsExpanded'
      BY <2>1, <2>2 DEF PartsExpanded, AfterExpansion
    <2>6. CacheIsOfTimestamp'
      BY <1>1, <2>1 DEF FormatterInv, CacheIsOfTimestamp, Formatting, AfterExpansion
    <2>7. TextIsOfTimestamp'
      BY <2>1 DEF TextIsOfTimestamp, Answered, AfterExpansion
    <2> QED BY <2>3, <2>4, <2>5, <2>6, <2>7 DEF FormatterInv
  <1> QED BY <1>2, <1>3

LEMMA Preformat_2KeepsInv == FormatterInv /\ Preformat_2 => FormatterInv'
  <1> SUFFICES ASSUME FormatterInv, Preformat_2 PROVE FormatterInv'
    OBVIOUS
  <1>1. formatterState = "strftime_2"
    BY DEF Preformat_2
  <1>2. CASE Enlarge(part_2)
    BY <1>1, <1>2, EnlargeKeepsInv
  <1>3. CASE ~Enlarge(part_2)
    <2>1. /\ ts_2' = strftime(part_2, cached)
          /\ formatterState' = AfterExpansion /\ size' = 0
          /\ UNCHANGED <<format, specifier, part_1, part_2, ts_1, cached,
                         timestamp_ns, buffer>>
      BY <1>3 DEF Preformat_2
    <2>2. formatterState' \in {"idle", "write"} /\ size' \in Nat
      BY <2>1 DEF AfterExpansion
    <2>3. FormatterTypeOK'
      BY <2>1, <2>2 DEF FormatterInv, FormatterTypeOK, FormatterState
    <2>4. SplitAtSpecifier'
      BY <1>1, <2>1, <2>2 DEF FormatterInv, SplitAtSpecifier, Formatting
    <2>5. PartsExpanded'
      BY <1>1, <2>1, <2>2 DEF FormatterInv, PartsExpanded, Formatting
    <2>6. CacheIsOfTimestamp'
      BY <1>1, <2>1 DEF FormatterInv, CacheIsOfTimestamp, Formatting, AfterExpansion
    <2>7. TextIsOfTimestamp'
      BY <2>1 DEF TextIsOfTimestamp, Answered, AfterExpansion
    <2> QED BY <2>3, <2>4, <2>5, <2>6, <2>7 DEF FormatterInv
  <1> QED BY <1>2, <1>3

\* The first part is expanded again unless its second is the cached one.
LEMMA FormatTimestampKeepsInv ==
    ASSUME FormatterInv, NEW t \in Timestamps, FormatTimestamp(t)
    PROVE  FormatterInv'
  <1>1. /\ formatterState = "idle" /\ timestamp_ns' = t
        /\ UNCHANGED <<format, specifier, part_1, part_2, ts_1, ts_2, buffer>>
    BY DEF FormatTimestamp
  <1>2. t \in Nat /\ t # -1 /\ t \div SECOND \in Nat
    <2>1. t \in Nat
      BY FormatterAssumption
    <2>2. t \div SECOND \in Seconds
      BY FormatterAssumption
    <2>3. t \div SECOND \in Nat
      BY <2>2, FormatterAssumption
    <2> QED BY <2>1, <2>3
  <1>3. cached' = t \div SECOND
    BY DEF FormatTimestamp, IsStale
  <1>4. \/ formatterState' = "strftime_1" /\ size' = STRFTIME_SIZE
        \/ formatterState' = "write" /\ UNCHANGED <<cached, size>>
    BY DEF FormatTimestamp
  <1>5. FormatterTypeOK'
    BY <1>1, <1>2, <1>3, <1>4, FormatterAssumption
       DEF FormatterInv, FormatterTypeOK, FormatterState
  <1>6. SplitAtSpecifier'
    BY <1>1, <1>4 DEF FormatterInv, SplitAtSpecifier, Formatting
  <1>7. PartsExpanded'
    BY <1>1, <1>4 DEF FormatterInv, PartsExpanded, Formatting
  <1>8. CacheIsOfTimestamp'
    BY <1>1, <1>2, <1>3, <1>4 DEF CacheIsOfTimestamp
  <1>9. TextIsOfTimestamp'
    BY <1>4 DEF TextIsOfTimestamp, Answered
  <1> QED BY <1>5, <1>6, <1>7, <1>8, <1>9 DEF FormatterInv

\* What is written is the text the timestamp should have.
LEMMA WriteKeepsInv == FormatterInv /\ Write => FormatterInv'
  <1> SUFFICES ASSUME FormatterInv, Write PROVE FormatterInv'
    OBVIOUS
  <1>1. /\ formatterState = "write" /\ formatterState' = "idle"
        /\ UNCHANGED <<format, specifier, part_1, part_2, ts_1, ts_2, cached, size,
                       timestamp_ns>>
    BY DEF Write
  <1>2. FormatterTypeOK' /\ SplitAtSpecifier' /\ PartsExpanded' /\ CacheIsOfTimestamp'
    BY <1>1 DEF FormatterInv, FormatterTypeOK, FormatterState, SplitAtSpecifier,
       PartsExpanded, CacheIsOfTimestamp, Formatting
  <1>3. TextIsOfTimestamp'
    <2> DEFINE secs == timestamp_ns \div SECOND
    <2>1. SUFFICES ASSUME Found(format) # {}
                   PROVE  \E q \in Specifier, k \in 1..Len(format) :
                /\ Places(format, q) = {k} /\ Found(format) = {q}
                /\ buffer' = Truncated(
                       strftime(SubSeq(format, 1, k - 1), secs)
                       \o SubSeq(Decimal(timestamp_ns % SECOND, Width[Qns]), 1, Width[q])
                       \o strftime(SubSeq(format, k + 1, Len(format)), secs))
      BY <1>1 DEF TextIsOfTimestamp
    <2>2. PICK q \in Specifier, k \in 1..Len(format) :
              /\ OnlySpecifier(format, q, k)
              /\ specifier = q
              /\ part_1 = SubSeq(format, 1, k - 1)
              /\ part_2 = SubSeq(format, k + 1, Len(format))
      BY <1>1, <2>1 DEF FormatterInv, SplitAtSpecifier, Formatting
    <2>3. timestamp_ns \in Timestamps /\ timestamp_ns \in Nat /\ cached = secs
      BY <1>1, FormatterAssumption
         DEF FormatterInv, FormatterTypeOK, CacheIsOfTimestamp, Formatting
    <2>4. ts_1 = strftime(part_1, secs)
      BY <1>1, <2>3 DEF FormatterInv, PartsExpanded, Formatting
    <2>5. (IF part_2 = <<>> THEN <<>> ELSE ts_2) = strftime(part_2, secs)
      <3>1. secs \in Seconds
        BY <2>3, FormatterAssumption
      <3>2. CASE part_2 = <<>>
        BY <3>1, <3>2, FormatterAssumption
      <3>3. CASE part_2 # <<>>
        BY <1>1, <2>3, <3>3 DEF FormatterInv, PartsExpanded, Formatting
      <3> QED BY <3>2, <3>3
    <2>6. Fraction = SubSeq(Decimal(timestamp_ns % SECOND, Width[Qns]), 1, Width[q])
      BY <2>2, <2>3, DigitsOfFraction DEF Fraction, extracted_ns
    <2>7. specifier # None
      BY <2>2 DEF None, Specifier, Qms, Qus, Qns
    <2>8. buffer' = Truncated(ts_1 \o Fraction \o (IF part_2 = <<>> THEN <<>> ELSE ts_2))
      BY <2>7 DEF Write
    <2>9. buffer' = Truncated(strftime(part_1, secs)
                \o SubSeq(Decimal(timestamp_ns % SECOND, Width[Qns]), 1, Width[q])
                \o strftime(part_2, secs))
      BY <2>4, <2>5, <2>6, <2>8
    <2> QED BY <2>2, <2>9 DEF OnlySpecifier
  <1> QED BY <1>2, <1>3 DEF FormatterInv

LEMMA FormatterStepKeepsInv == FormatterInv /\ [FormatterNext]_formatterVars => FormatterInv'
  <1> SUFFICES ASSUME FormatterInv, [FormatterNext]_formatterVars PROVE FormatterInv'
    OBVIOUS
  <1>1. ASSUME NEW f \in Formats, ConstructorThrows(f) PROVE FormatterInv'
    BY <1>1, FormatterAssumption DEF ConstructorThrows, FormatterInv, FormatterTypeOK,
       FormatterState, SplitAtSpecifier, PartsExpanded, CacheIsOfTimestamp,
       TextIsOfTimestamp, Answered, Formatting
  <1>2. ASSUME NEW f \in Formats, Constructor(f) PROVE FormatterInv'
    BY <1>2, ConstructorKeepsInv
  <1>3. ASSUME NEW t \in Timestamps, FormatTimestamp(t) PROVE FormatterInv'
    BY <1>3, FormatTimestampKeepsInv
  <1>4. CASE FormatterStep
    BY <1>4, Preformat_1KeepsInv, Preformat_2KeepsInv, WriteKeepsInv DEF FormatterStep
  <1>5. CASE UNCHANGED formatterVars
    BY <1>5 DEF formatterVars, FormatterInv, FormatterTypeOK, SplitAtSpecifier, PartsExpanded,
       CacheIsOfTimestamp, TextIsOfTimestamp, Answered, Formatting
  <1> QED BY <1>1, <1>2, <1>3, <1>4, <1>5 DEF FormatterNext

LEMMA FormatterInductive == FormatterSpec => []FormatterInv
  <1> QED BY FormatterInitInv, FormatterStepKeepsInv, PTL DEF FormatterSpec

\* The constructor and format_timestamp keep the types of the members; no part
\* of a format has a specifier left in it.
THEOREM FormatterTypeCorrect == FormatterSpec => []FormatterTypeOK
  <1>1. FormatterInv => FormatterTypeOK
    BY DEF FormatterInv
  <1> QED BY <1>1, FormatterInductive, PTL

\* format_timestamp returns date, time and fraction of its argument, however
\* old the cached texts are, for every format with a specifier.
THEOREM TextCorrect == FormatterSpec => []TextIsOfTimestamp
  <1>1. FormatterInv => TextIsOfTimestamp
    BY DEF FormatterInv
  <1> QED BY <1>1, FormatterInductive, PTL

-----------------------------------------------------------------------------
(* The line                                                                *)

LineInv == ClockInv /\ RateInForce /\ FormatterInv

\* The clock is only moved by its own steps.
LEMMA ClockSteps == [Next]_logTimeVars => [TscnsNext]_tscnsVars
  BY DEF Next, Construct, Calibrate, FormatEntry, FormatStep, logTimeVars

\* An entry is stamped with a counter value of the base or later, so that the
\* formatter is asked for a time that is no less than the base's.
LEMMA EntryHasTimestamp ==
    ASSUME ClockInv, RateInForce, clockState = "ready",
           NEW age \in Ages, cycle - age >= base_tsc
    PROVE  tsc2ns(cycle - age) \in Nat
  <1> DEFINE t == cycle - age
  <1>1. cycle \in Nat /\ base_tsc \in Nat /\ base_ns \in Nat /\ age \in Nat
    BY LogTimeAssumption DEF ClockInv, TscnsTypeOK
  <1>2. t \in Nat /\ base_tsc <= t
    BY <1>1
  <1> HIDE DEF t
  <1>3. tsc2ns(t) \in Int /\ base_ns <= tsc2ns(t)
    BY <1>2, ReadingOf
  <1>4. tsc2ns(t) \in Nat
    BY <1>1, <1>3
  <1> QED BY <1>4 DEF t

\* The formatter is used as its own specification says.
LEMMA FormatterSteps ==
    ASSUME Nat \subseteq Timestamps, ClockInv, RateInForce, [Next]_logTimeVars
    PROVE  [FormatterNext]_formatterVars
  <1>1. CASE Construct
    BY <1>1 DEF Construct, FormatterNext
  <1>2. CASE Calibrate
    BY <1>2 DEF Calibrate
  <1>3. CASE FormatEntry
    <2>1. PICK age \in Ages : cycle - age >= base_tsc /\ FormatTimestamp(tsc2ns(cycle - age))
      BY <1>3 DEF FormatEntry
    <2>2. tsc2ns(cycle - age) \in Timestamps
      BY <1>3, <2>1, EntryHasTimestamp DEF FormatEntry
    <2> QED BY <2>1, <2>2 DEF FormatterNext
  <1>4. CASE FormatStep
    BY <1>4 DEF FormatStep, FormatterNext
  <1>5. CASE UNCHANGED logTimeVars
    BY <1>5 DEF logTimeVars
  <1> QED BY <1>1, <1>2, <1>3, <1>4, <1>5 DEF Next

LEMMA LineInductive ==
    ASSUME Nat \subseteq Timestamps
    PROVE  Spec => []LineInv
  <1>1. Init => LineInv
    <2> SUFFICES ASSUME Init PROVE LineInv
      OBVIOUS
    <2>1. RateInForce
      BY DEF Init, TscnsInit, RateInForce
    <2> QED BY <2>1, ClockInitInv, FormatterInitInv DEF Init, LineInv
  <1>2. LineInv /\ [Next]_logTimeVars => LineInv'
    <2> SUFFICES ASSUME LineInv, [Next]_logTimeVars PROVE LineInv'
      OBVIOUS
    <2>1. [TscnsNext]_tscnsVars /\ [FormatterNext]_formatterVars
      BY ClockSteps, FormatterSteps DEF LineInv
    <2>2. ClockInv' /\ RateInForce'
      BY <2>1, ClockStepKeepsInv, RateInForceKept DEF LineInv
    <2>3. FormatterInv'
      BY <2>1, FormatterStepKeepsInv DEF LineInv
    <2> QED BY <2>2, <2>3 DEF LineInv
  <1> QED BY <1>1, <1>2, PTL DEF Spec

\* Formatter and clock keep their types when the one works on what the other gives:
\* the sink thread never asks for a time before the clock's base, in particular not
\* for a negative one, whatever the ages of entries and however often the clock is
\* calibrated (src/runtime_logger.cpp:283, 316).  The timestamps are all natural
\* numbers here, as nothing bounds the counter.
THEOREM LineTypeCorrect ==
    ASSUME Nat \subseteq Timestamps
    PROVE  Spec => []TypeOK
  <1>1. LineInv => TypeOK
    BY DEF LineInv, ClockInv, FormatterInv, TypeOK
  <1> QED BY <1>1, LineInductive, PTL

\* The text in front of a line is that of the time computed from the counter value
\* stored with the entry, for all ages and formats with a specifier.
THEOREM LineTextCorrect ==
    ASSUME Nat \subseteq Timestamps
    PROVE  Spec => []TextIsOfTimestamp
  <1>1. LineInv => TextIsOfTimestamp
    BY DEF LineInv, FormatterInv
  <1> QED BY <1>1, LineInductive, PTL

\* The clock a line is stamped with is as close as the clock alone.
THEOREM LineClockClose == Spec => []ClockIsClose
  <1>1. Spec => TscnsSpec
    BY ClockSteps, PTL DEF Spec, TscnsSpec, Init
  <1> QED BY <1>1, ClockClose

=============================================================================
