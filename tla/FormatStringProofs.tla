--------------------------- MODULE FormatStringProofs ---------------------------
(***************************************************************************)
(* The scans of a format agree, for every format: the SpecInfos' offsets   *)
(* lie in the squeezed string and in order, the text that they delimit is  *)
(* the format's own, and the arguments they take are those counted.        *)
(*                                                                         *)
(* The argument follows the code.  Scan's loop is brought to the form of a *)
(* recursion (ScanRecursion) whose turns keep ScanInv: the specifications  *)
(* found lie in order, and what was left out lies between them.            *)
(* storeOneChar, which knows of no SpecInfo, is shown to stay in step with *)
(* that scan (StoreStep), and the count of arguments is the recursion that *)
(* the conversions unfold (ArgsBeforeRecursion).                           *)
(*                                                                         *)
(* That the conversions write what the format says rests on two readings.  *)
(* Each specification alone: getOneSpec's turns learn what the last setter *)
(* of every setting says (Learnt, Advance), so the conversion is the one   *)
(* the text means (SpecMeaning).  The format as a whole: the scan, with    *)
(* storeOneChar beside it, keeps what has been read equal to what will be  *)
(* written (ReadInv), up to the end of the format (FormatRead).            *)
(***************************************************************************)
EXTENDS FormatString, DataLemmas, TLAPS

-----------------------------------------------------------------------------
(* Reading the format                                                      *)

\* The digits, one by one.
LEMMA DigitSet == Digit = {"0", "1", "2", "3", "4", "5", "6", "7", "8", "9"}
  <1>1. DOMAIN DigitChar = 1..10
    BY DEF DigitChar
  <1>2. Digit = {DigitChar[i] : i \in 1..10}
    BY <1>1 DEF Digit, ToSet
  <1>3. ASSUME NEW i \in 1..10 PROVE DigitChar[i] \in {"0", "1", "2", "3", "4", "5", "6", "7", "8", "9"}
    BY DEF DigitChar
  <1>4. /\ DigitChar[1] = "0" /\ DigitChar[2] = "1" /\ DigitChar[3] = "2"
        /\ DigitChar[4] = "3" /\ DigitChar[5] = "4" /\ DigitChar[6] = "5"
        /\ DigitChar[7] = "6" /\ DigitChar[8] = "7" /\ DigitChar[9] = "8"
        /\ DigitChar[10] = "9"
    BY DEF DigitChar
  <1>5. ASSUME NEW c \in {"0", "1", "2", "3", "4", "5", "6", "7", "8", "9"}
        PROVE  \E i \in 1..10 : DigitChar[i] = c
    <2> HIDE DEF DigitChar
    <2> QED BY <1>4
  <1> HIDE DEF DigitChar
  <1> QED BY <1>2, <1>3, <1>5

\* The least of a set of numbers.
LEMMA MinOfSet ==
    ASSUME NEW S \in SUBSET Nat, S # {}
    PROVE  Min(S) \in S /\ \A y \in S : Min(S) <= y
  <1> DEFINE Least(x) == x \in S /\ \A y \in S : x <= y
  <1>1. Min(S) = CHOOSE x : Least(x)
    BY DEF Min
  <1>2. \E x : Least(x)
    BY NatHasLeast
  <1> HIDE DEF Least
  <1>3. Least(CHOOSE x : Least(x))
    BY <1>2
  <1>4. Least(Min(S))
    BY <1>1, <1>3
  <1> QED BY <1>4 DEF Least

\* The format has no terminator but the one behind its end.
LEMMA Characters ==
    ASSUME fmt \in Formats
    PROVE  /\ Len(fmt) \in Nat /\ N = Len(fmt) + 1
           /\ At(Len(fmt)) = NUL
           /\ \A p \in 0..(Len(fmt) - 1) : At(p) \in ToSet(fmt) /\ At(p) # NUL
  <1>1. fmt \in Seq(STRING \ {NUL})
    BY FormatAssumption
  <1>2. Len(fmt) \in Nat
    BY <1>1
  <1>3. ASSUME NEW p \in 0..(Len(fmt) - 1)
        PROVE  At(p) \in ToSet(fmt) /\ At(p) # NUL
    <2>1. p + 1 \in 1..Len(fmt) /\ p < Len(fmt)
      BY <1>2
    <2>2. At(p) = fmt[p + 1]
      BY <2>1 DEF At
    <2>3. fmt[p + 1] # NUL
      BY <1>1, <2>1
    <2>4. fmt[p + 1] \in ToSet(fmt)
      BY <1>1, <2>1 DEF ToSet
    <2> QED BY <2>2, <2>3, <2>4
  <1>4. At(Len(fmt)) = NUL
    BY <1>2 DEF At
  <1> QED BY <1>2, <1>3, <1>4 DEF N

\* The next '%', or the end.
LEMMA PercentFound ==
    ASSUME fmt \in Formats, NEW pos \in 0..Len(fmt)
    PROVE  /\ NextPercent(pos) \in pos..Len(fmt)
           /\ At(NextPercent(pos)) \in {"%", NUL}
           /\ \A p \in pos..Len(fmt) : p < NextPercent(pos) => At(p) # "%"
  <1> DEFINE S == {p \in pos..Len(fmt) : At(p) \in {"%", NUL}}
  <1>1. Len(fmt) \in Nat /\ At(Len(fmt)) = NUL
    BY Characters
  <1>2. S \in SUBSET Nat /\ Len(fmt) \in S
    BY <1>1
  <1>3. NextPercent(pos) = Min(S)
    BY DEF NextPercent
  <1>4. Min(S) \in S /\ \A y \in S : Min(S) <= y
    <2> HIDE DEF S
    <2> QED BY <1>2, MinOfSet
  <1>5. ASSUME NEW p \in pos..Len(fmt), p < Min(S) PROVE At(p) # "%"
    <2>1. Min(S) \in Nat /\ p \in Nat
      BY <1>1, <1>4
    <2>2. p \notin S
      BY <1>4, <1>5, <2>1
    <2> QED BY <2>2
  <1> QED BY <1>3, <1>4, <1>5

\* The character behind the modifiers.
LEMMA ModifiersSkipped ==
    ASSUME fmt \in Formats, NEW pos \in 0..Len(fmt)
    PROVE  /\ SkipModifiers(pos) \in pos..Len(fmt)
           /\ \A p \in pos..Len(fmt) : p < SkipModifiers(pos) => At(p) # "%"
  <1> DEFINE S == {p \in pos..Len(fmt) : At(p) \notin Modifier}
  <1>1. Len(fmt) \in Nat /\ At(Len(fmt)) = NUL
    BY Characters
  <1>2. NUL \notin Modifier /\ "%" \notin Modifier
    BY DigitSet DEF NUL, Modifier, Flag, Length
  <1>3. S \in SUBSET Nat /\ Len(fmt) \in S
    BY <1>1, <1>2
  <1>4. SkipModifiers(pos) = Min(S)
    BY DEF SkipModifiers
  <1>5. Min(S) \in S /\ \A y \in S : Min(S) <= y
    <2> HIDE DEF S
    <2> QED BY <1>3, MinOfSet
  <1>6. ASSUME NEW p \in pos..Len(fmt), p < Min(S) PROVE At(p) # "%"
    <2>1. Min(S) \in Nat /\ p \in Nat
      BY <1>1, <1>5
    <2>2. p \notin S
      BY <1>5, <1>6, <2>1
    <2> QED BY <1>2, <2>2
  <1> QED BY <1>4, <1>5, <1>6

-----------------------------------------------------------------------------
(* The scan                                                                *)

Start(pos) == NextPercent(pos)
Stop(pos) == SkipModifiers(NextPercent(pos) + 1)

\* There is no specification at or behind pos.
NoMore(pos) == pos = N \/ At(Start(pos)) = NUL

\* One turn of the loop.
FirstScan == [pos |-> 0, valid |-> <<>>, invalid |-> 0]
NextScan(scan) ==
    IF NoMore(scan.pos) THEN scan
    ELSE IF At(Stop(scan.pos)) \in Terminal
    THEN [scan EXCEPT
            !.pos = Stop(scan.pos) + 1,
            !.valid = Append(@, [start |-> Start(scan.pos),
                                 stop |-> Stop(scan.pos),
                                 invalid |-> scan.invalid])]
    ELSE [scan EXCEPT !.pos = Stop(scan.pos) + 1,
                      !.invalid = @ + (Stop(scan.pos) - Start(scan.pos))]

ValidSpec == [start : Nat, stop : Nat, invalid : Int]
ScanSet == [pos : 0..N, valid : Seq(ValidSpec), invalid : Int]

\* Where a specification lies.
SpecLies(pos) ==
    /\ Start(pos) \in pos..(Len(fmt) - 1) /\ At(Start(pos)) = "%"
    /\ Stop(pos) \in (Start(pos) + 1)..Len(fmt)
    /\ At(Stop(pos)) \in Terminal => Stop(pos) < Len(fmt)
    /\ \A p \in pos..Len(fmt) :
          p < Stop(pos) /\ p # Start(pos) => At(p) # "%"

\* The scanners find it there.
LEMMA SpecFound ==
    ASSUME fmt \in Formats, NEW pos \in 0..N, ~NoMore(pos)
    PROVE  SpecLies(pos)
  <1>1. /\ Len(fmt) \in Nat /\ N = Len(fmt) + 1 /\ At(Len(fmt)) = NUL
        /\ NUL \notin Terminal
    BY Characters DEF NUL, Terminal
  <1>2. pos \in 0..Len(fmt)
    BY <1>1 DEF NoMore
  <1>3. /\ Start(pos) \in pos..Len(fmt)
        /\ At(Start(pos)) \in {"%", NUL}
        /\ \A p \in pos..Len(fmt) : p < Start(pos) => At(p) # "%"
    BY <1>2, PercentFound DEF Start
  <1>4. At(Start(pos)) = "%" /\ Start(pos) \in pos..(Len(fmt) - 1)
    <2>1. At(Start(pos)) # NUL
      BY DEF NoMore
    <2>2. Start(pos) # Len(fmt)
      BY <1>1, <2>1
    <2> QED BY <1>1, <1>2, <1>3, <2>1, <2>2
  <1>5. Start(pos) + 1 \in 0..Len(fmt)
    BY <1>1, <1>2, <1>4
  <1>6. /\ Stop(pos) \in (Start(pos) + 1)..Len(fmt)
        /\ \A p \in (Start(pos) + 1)..Len(fmt) : p < Stop(pos) => At(p) # "%"
    BY <1>5, ModifiersSkipped DEF Stop, Start
  <1>7. At(Stop(pos)) \in Terminal => Stop(pos) < Len(fmt)
    BY <1>1, <1>5, <1>6
  <1>8. ASSUME NEW p \in pos..Len(fmt), p < Stop(pos), p # Start(pos)
        PROVE  At(p) # "%"
    <2>1. p < Start(pos) \/ p \in (Start(pos) + 1)..Len(fmt)
      BY <1>1, <1>2, <1>4, <1>8
    <2> QED BY <1>3, <1>6, <1>8, <2>1
  <1> QED BY <1>4, <1>6, <1>7, <1>8 DEF SpecLies

\* A turn stays among the scans.
LEMMA NextScanType ==
    ASSUME fmt \in Formats, NEW scan \in ScanSet
    PROVE  NextScan(scan) \in ScanSet
  <1>1. scan.pos \in 0..N /\ scan.valid \in Seq(ValidSpec) /\ scan.invalid \in Int
    BY DEF ScanSet
  <1>2. CASE NoMore(scan.pos)
    BY <1>2 DEF NextScan
  <1>3. CASE ~NoMore(scan.pos)
    <2> DEFINE start == Start(scan.pos)
               stop == Stop(scan.pos)
               spec == [start |-> start, stop |-> stop, invalid |-> scan.invalid]
    <2>1. start \in Nat /\ stop \in Nat /\ stop + 1 \in 0..N
      <3>1. SpecLies(scan.pos)
        BY <1>1, <1>3, SpecFound
      <3>2. Len(fmt) \in Nat /\ N = Len(fmt) + 1
        BY Characters
      <3>3. /\ start \in scan.pos..(Len(fmt) - 1)
            /\ stop \in (start + 1)..Len(fmt)
        BY <3>1 DEF SpecLies
      <3> HIDE DEF start, stop
      <3> QED BY <1>1, <3>2, <3>3
    <2>2. NextScan(scan) =
            IF At(stop) \in Terminal
            THEN [scan EXCEPT !.pos = stop + 1, !.valid = Append(@, spec)]
            ELSE [scan EXCEPT !.pos = stop + 1,
                              !.invalid = @ + (stop - start)]
      BY <1>3 DEF NextScan
    <2> HIDE DEF start, stop
    <2>3. spec \in ValidSpec
      BY <1>1, <2>1 DEF ValidSpec
    <2> HIDE DEF spec
    <2>4. Append(scan.valid, spec) \in Seq(ValidSpec)
      BY <1>1, <2>3
    <2>5. scan.invalid + (stop - start) \in Int
      BY <1>1, <2>1
    <2> QED BY <2>1, <2>2, <2>4, <2>5 DEF ScanSet
  <1> QED BY <1>2, <1>3

\* So does the first.
LEMMA FirstScanType ==
    ASSUME fmt \in Formats
    PROVE  FirstScan \in ScanSet
  <1>1. 0 \in 0..N
    BY Characters
  <1>2. <<>> \in Seq(ValidSpec)
    OBVIOUS
  <1> QED BY <1>1, <1>2 DEF FirstScan, ScanSet

\* The turns of the loop, one after the other.
Turns(g) ==
    /\ g[0] = FirstScan
    /\ \A k \in 1..N : g[k] = NextScan(g[k - 1])
    /\ Scan = g[N]

\* Scan is the recursion that it is written as.
LEMMA ScanRecursion ==
    ASSUME fmt \in Formats
    PROVE  \E g : Turns(g)
  <1> DEFINE step == [x \in Nat \X ScanSet |-> NextScan(x[2])]
             R(h) == h = [k \in 0..N |-> IF k = 0 THEN FirstScan
                                         ELSE NextScan(h[k - 1])]
             c == CHOOSE h : R(h)
  <1>1. N \in Nat /\ N # 0
    BY Characters
  <1>2. step \in [Nat \X ScanSet -> ScanSet]
    BY NextScanType
  <1>3. PICK f : Recursion(f, ScanSet, FirstScan, step)
    <2> HIDE DEF step
    <2> QED BY <1>2, FirstScanType, NatRecursion, Zenon
  <1>4. /\ f[0] = FirstScan
        /\ \A n \in Nat : f[n] \in ScanSet /\ f[n + 1] = step[<<n, f[n]>>]
    BY <1>3 DEF Recursion
  <1>5. ASSUME NEW k \in 1..N PROVE f[k] = NextScan(f[k - 1])
    <2>1. k - 1 \in Nat /\ (k - 1) + 1 = k
      BY <1>1
    <2>2. f[k] = step[<<k - 1, f[k - 1]>>] /\ f[k - 1] \in ScanSet
      BY <1>4, <2>1
    <2>3. <<k - 1, f[k - 1]>> \in Nat \X ScanSet
      BY <2>1, <2>2
    <2> QED BY <2>2, <2>3
  <1> HIDE DEF step
  <1>6. R([k \in 0..N |-> f[k]])
    <2> DEFINE h == [k \in 0..N |-> f[k]]
    <2>1. ASSUME NEW k \in 0..N
          PROVE  h[k] = IF k = 0 THEN FirstScan ELSE NextScan(h[k - 1])
      <3>1. CASE k = 0
        BY <1>4, <3>1
      <3>2. CASE k # 0
        <4>1. k \in 1..N /\ k - 1 \in 0..N
          BY <1>1, <3>2
        <4>2. h[k - 1] = f[k - 1]
          BY <4>1
        <4>3. h[k] = f[k]
          OBVIOUS
        <4> HIDE DEF h
        <4> QED BY <1>5, <3>2, <4>1, <4>2, <4>3
      <3> QED BY <3>1, <3>2
    <2> QED BY <2>1
  <1>7. R(c)
    <2> HIDE DEF R
    <2> QED BY <1>6
  <1>8. Scan = c[N]
    BY DEF Scan, NextScan, FirstScan, NoMore, Start, Stop
  <1> HIDE DEF c
  <1>9. Turns(c)
    <2>1. ASSUME NEW k \in 1..N PROVE c[k] = NextScan(c[k - 1])
      <3>1. k \in 0..N /\ k # 0
        BY <1>1
      <3> QED BY <1>7, <3>1
    <2>2. c[0] = FirstScan
      <3>1. 0 \in 0..N
        BY <1>1
      <3> QED BY <1>7, <3>1
    <2> QED BY <1>8, <2>1, <2>2 DEF Turns
  <1> QED BY <1>9

\* Where the text in front of a valid specification ends in the squeezed
\* string, and where the text behind it begins.
Before(v) == v.start - v.invalid
After(v) == v.stop + 1 - v.invalid

\* What a scan has found lies in order, and what it left out lies between.
SpecInPlace(scan, v) ==
    /\ v.start \in Nat /\ v.stop \in Nat /\ v.invalid \in Nat
    /\ v.start < v.stop /\ v.stop < Len(fmt)
    /\ 0 <= Before(v)
    /\ After(v) <= scan.pos - scan.invalid
    /\ After(v) <= Len(fmt) - scan.invalid

ScanInv(scan) ==
    /\ scan \in ScanSet
    /\ scan.invalid \in 0..Len(fmt) /\ scan.invalid <= scan.pos
    /\ \A i \in 1..Len(scan.valid) : SpecInPlace(scan, scan.valid[i])
    /\ \A i \in 1..(Len(scan.valid) - 1) :
          After(scan.valid[i]) <= Before(scan.valid[i + 1])

\* Arithmetic: with InvalidSize characters left out of L, the n-th of the
\* others that are kept lies inside when it is moved by as many at most.
LEMMA StopInside ==
    ASSUME NEW n \in Nat, NEW invalid \in Nat, NEW L \in Nat, n < L - invalid,
           NEW stop \in Int, NEW start \in Nat, start < stop,
           NEW left, left = stop - n, left <= invalid
    PROVE  stop \in 0..(L - 1)
  OBVIOUS

\* What lies before q lies, moved by o, before the place of q moved by o.
LEMMA ShiftedInside ==
    ASSUME NEW o \in Nat, NEW x \in Nat, o <= x, NEW q \in Nat, x < q,
           NEW end \in Int, q - o <= end
    PROVE  x - o \in 0..end
  OBVIOUS

\* A specifier from start to stop behind pos is left out: what is kept
\* before the end does not shrink, and what is left out fits the string.
LEMMA CountedOut ==
    ASSUME NEW pos \in Nat, NEW out \in Nat, out <= pos, NEW L \in Nat,
           NEW start \in pos..(L - 1), NEW stop \in (start + 1)..L,
           NEW to, to = stop + 1, NEW all, all = out + (stop - start)
    PROVE  /\ all \in 0..L /\ all <= to
           /\ pos - out <= to - all
           /\ pos - out <= L - all
  OBVIOUS

\* Dropping an invalid specification moves what is behind it, nothing else.
LEMMA InvalidInv ==
    ASSUME fmt \in Formats, NEW scan, ScanInv(scan), ~NoMore(scan.pos),
           At(Stop(scan.pos)) \notin Terminal
    PROVE  ScanInv(NextScan(scan))
  <1> DEFINE start == Start(scan.pos)
             stop == Stop(scan.pos)
             next == NextScan(scan)
  <1>1. /\ scan.pos \in 0..N /\ scan.invalid \in 0..Len(fmt)
        /\ scan.invalid <= scan.pos
        /\ Len(fmt) \in Nat /\ N = Len(fmt) + 1
        /\ scan \in ScanSet /\ scan.valid \in Seq(ValidSpec)
    BY Characters DEF ScanInv, ScanSet
  <1>2. SpecLies(scan.pos)
    BY <1>1, SpecFound
  <1>3. start \in scan.pos..(Len(fmt) - 1) /\ stop \in (start + 1)..Len(fmt)
    BY <1>2 DEF SpecLies
  <1>4. /\ next.pos = stop + 1 /\ next.valid = scan.valid
        /\ next.invalid = scan.invalid + (stop - start)
    <2>1. next = [scan EXCEPT !.pos = stop + 1, !.invalid = @ + (stop - start)]
      BY DEF NextScan
    <2> HIDE DEF start, stop, next
    <2> QED BY <1>1, <2>1 DEF ScanSet
  <1>5. next \in ScanSet
    BY <1>1, NextScanType
  <1> HIDE DEF start, stop, next
  <1>6. /\ next.invalid \in 0..Len(fmt) /\ next.invalid <= next.pos
        /\ scan.pos - scan.invalid <= next.pos - next.invalid
        /\ scan.pos - scan.invalid <= Len(fmt) - next.invalid
    <2>1. scan.pos \in Nat /\ scan.invalid \in Nat
      BY <1>1
    <2>2. scan.invalid <= scan.pos /\ Len(fmt) \in Nat
      BY <1>1
    <2> QED BY <1>3, <1>4, <2>1, <2>2, CountedOut, Zenon
  <1>7. next.pos \in Int
    BY <1>1, <1>3, <1>4
  <1>8. ASSUME NEW i \in 1..Len(next.valid)
        PROVE  SpecInPlace(next, next.valid[i])
    <2> DEFINE v == scan.valid[i]
    <2>1. SpecInPlace(scan, v)
      BY <1>4 DEF ScanInv
    <2>2. v = next.valid[i]
      BY <1>4
    <2> HIDE DEF v
    <2>3. /\ v.start \in Nat /\ v.stop \in Nat /\ v.invalid \in Nat
          /\ After(v) <= scan.pos - scan.invalid
      BY <2>1 DEF SpecInPlace
    <2>4. After(v) \in Int
      BY <2>3 DEF After
    <2> DEFINE from == scan.pos - scan.invalid
               to == next.pos - next.invalid
               all == Len(fmt) - next.invalid
    <2>5. from \in Int /\ to \in Int /\ all \in Int
      BY <1>1, <1>6, <1>7
    <2>6. After(v) <= from /\ from <= to /\ from <= all
      BY <1>6, <2>3
    <2>7. After(v) <= to /\ After(v) <= all
      <3> HIDE DEF from, to, all
      <3> QED BY <2>4, <2>5, <2>6
    <2> QED BY <2>1, <2>2, <2>7 DEF SpecInPlace
  <1>9. \A i \in 1..(Len(next.valid) - 1) :
           After(next.valid[i]) <= Before(next.valid[i + 1])
    BY <1>4 DEF ScanInv
  <1>10. ScanInv(next)
    BY <1>5, <1>6, <1>8, <1>9 DEF ScanInv
  <1> QED BY <1>10 DEF next

\* A valid specification starts behind what was scanned before it.
LEMMA ValidInv ==
    ASSUME fmt \in Formats, NEW scan, ScanInv(scan), ~NoMore(scan.pos),
           At(Stop(scan.pos)) \in Terminal
    PROVE  ScanInv(NextScan(scan))
  <1> DEFINE start == Start(scan.pos)
             stop == Stop(scan.pos)
             next == NextScan(scan)
             spec == [start |-> start, stop |-> stop, invalid |-> scan.invalid]
             m == Len(scan.valid)
  <1>1. /\ scan.pos \in 0..N /\ scan.invalid \in 0..Len(fmt)
        /\ scan.invalid <= scan.pos
        /\ Len(fmt) \in Nat /\ N = Len(fmt) + 1
        /\ scan \in ScanSet /\ scan.valid \in Seq(ValidSpec)
    BY Characters DEF ScanInv, ScanSet
  <1>2. SpecLies(scan.pos)
    BY <1>1, SpecFound
  <1>3. /\ start \in scan.pos..(Len(fmt) - 1)
        /\ stop \in (start + 1)..Len(fmt) /\ stop < Len(fmt)
    BY <1>2 DEF SpecLies
  <1>4. /\ next.pos = stop + 1 /\ next.valid = Append(scan.valid, spec)
        /\ next.invalid = scan.invalid
    <2>1. next = [scan EXCEPT !.pos = stop + 1, !.valid = Append(@, spec)]
      BY DEF NextScan
    <2> HIDE DEF start, stop, next, spec
    <2> QED BY <1>1, <2>1 DEF ScanSet
  <1>5. next \in ScanSet
    BY <1>1, NextScanType
  <1>6. /\ spec.start = start /\ spec.stop = stop
        /\ spec.invalid = scan.invalid
    OBVIOUS
  <1>7. /\ m \in Nat /\ Len(next.valid) = m + 1
        /\ next.valid[m + 1] = spec
        /\ \A i \in 1..m : next.valid[i] = scan.valid[i]
    <2> HIDE DEF next, spec
    <2> QED BY <1>1, <1>4
  <1> HIDE DEF start, stop, next, spec
  <1>8. /\ next.invalid \in 0..Len(fmt) /\ next.invalid <= next.pos
        /\ scan.pos - scan.invalid <= next.pos - next.invalid
    BY <1>1, <1>3, <1>4
  <1>9. /\ SpecInPlace(next, spec)
        /\ scan.pos - scan.invalid <= Before(spec)
    <2>1. /\ start \in Nat /\ stop \in Nat /\ scan.invalid \in Nat
          /\ start < stop /\ 0 <= start - scan.invalid
          /\ stop < Len(fmt)
          /\ (stop + 1) - scan.invalid <= Len(fmt) - scan.invalid
          /\ scan.pos - scan.invalid <= start - scan.invalid
      BY <1>1, <1>3
    <2> QED BY <1>4, <1>6, <2>1 DEF SpecInPlace, Before, After
  <1>10. ASSUME NEW i \in 1..m
         PROVE  /\ SpecInPlace(next, scan.valid[i])
                /\ After(scan.valid[i]) <= Before(spec)
    <2> DEFINE v == scan.valid[i]
    <2>1. SpecInPlace(scan, v)
      BY DEF ScanInv
    <2> HIDE DEF v
    <2>3. /\ v.start \in Nat /\ v.stop \in Nat /\ v.invalid \in Nat
          /\ After(v) <= scan.pos - scan.invalid
          /\ After(v) <= Len(fmt) - scan.invalid
      BY <2>1 DEF SpecInPlace
    <2>4. After(v) \in Int
      BY <2>3 DEF After
    <2>5. Before(spec) \in Int
      BY <1>1, <1>3, <1>6 DEF Before
    <2> DEFINE from == scan.pos - scan.invalid
               to == next.pos - next.invalid
               all == Len(fmt) - next.invalid
    <2>6. from \in Int /\ to \in Int /\ all \in Int
      BY <1>1, <1>3, <1>4
    <2>7. /\ After(v) <= from /\ from <= to /\ After(v) <= all
          /\ from <= Before(spec)
      BY <1>4, <1>8, <1>9, <2>3
    <2>8. After(v) <= to /\ After(v) <= all /\ After(v) <= Before(spec)
      <3> HIDE DEF from, to, all
      <3> QED BY <2>4, <2>5, <2>6, <2>7
    <2>9. SpecInPlace(next, v)
      BY <2>1, <2>8 DEF SpecInPlace
    <2> QED BY <2>8, <2>9 DEF v
  <1>11. ASSUME NEW i \in 1..Len(next.valid)
         PROVE  SpecInPlace(next, next.valid[i])
    <2>1. i \in 1..m \/ i = m + 1
      BY <1>7
    <2> HIDE DEF m
    <2> QED BY <1>7, <1>9, <1>10, <2>1
  <1>12. ASSUME NEW i \in 1..(Len(next.valid) - 1)
         PROVE  After(next.valid[i]) <= Before(next.valid[i + 1])
    <2>1. i \in 1..m
      BY <1>7
    <2>2. CASE i = m
      BY <1>7, <1>10, <2>1, <2>2
    <2>3. CASE i # m
      <3>1. i \in 1..(m - 1) /\ i + 1 \in 1..m
        BY <1>7, <2>1, <2>3
      <3>2. After(scan.valid[i]) <= Before(scan.valid[i + 1])
        BY <3>1 DEF ScanInv
      <3> QED BY <1>7, <2>1, <3>1, <3>2
    <2> QED BY <2>2, <2>3
  <1>13. ScanInv(next)
    BY <1>5, <1>8, <1>11, <1>12 DEF ScanInv
  <1> QED BY <1>13 DEF next

\* Either way a turn keeps the order.
LEMMA NextScanInv ==
    ASSUME fmt \in Formats, NEW scan, ScanInv(scan)
    PROVE  ScanInv(NextScan(scan))
  <1>1. CASE NoMore(scan.pos)
    BY <1>1 DEF NextScan
  <1>2. CASE ~NoMore(scan.pos)
    BY <1>2, InvalidInv, ValidInv
  <1> QED BY <1>1, <1>2

\* It holds after every turn.
LEMMA TurnsInv ==
    ASSUME fmt \in Formats, NEW g, Turns(g)
    PROVE  \A k \in 0..N : ScanInv(g[k])
  <1> DEFINE Good == {k \in Nat : k <= N => ScanInv(g[k])}
  <1>1. N \in Nat /\ Len(fmt) \in Nat
    BY Characters
  <1>2. 0 \in Good
    <2>1. g[0] = FirstScan /\ FirstScan \in ScanSet
      BY FirstScanType DEF Turns
    <2>2. ScanInv(FirstScan)
      BY <1>1, <2>1 DEF ScanInv, FirstScan
    <2> QED BY <2>1, <2>2
  <1>3. ASSUME NEW k \in Nat, k \in Good PROVE k + 1 \in Good
    <2> SUFFICES ASSUME k + 1 <= N PROVE ScanInv(g[k + 1])
      OBVIOUS
    <2>1. k <= N /\ k + 1 \in 1..N /\ (k + 1) - 1 = k
      BY <1>1
    <2>2. g[k + 1] = NextScan(g[k])
      BY <2>1 DEF Turns
    <2> QED BY <1>3, <2>1, <2>2, NextScanInv
  <1> HIDE DEF Good
  <1>4. \A k \in Nat : k \in Good
    BY <1>2, <1>3, NatInductionOnSet
  <1> QED BY <1>1, <1>4 DEF Good

\* So it holds of the whole scan.
LEMMA ScanInvHolds ==
    ASSUME fmt \in Formats
    PROVE  ScanInv(Scan)
  <1>1. PICK g : Turns(g)
    BY ScanRecursion
  <1>2. Scan = g[N] /\ N \in 0..N
    BY <1>1, Characters DEF Turns
  <1> QED BY <1>1, <1>2, TurnsInv

\* Something of the string is left: its NUL.
LEMMA InvalidSizeBounds ==
    ASSUME fmt \in Formats
    PROVE  /\ InvalidSize \in 0..Len(fmt)
           /\ squeezeSoundSize \in 1..N
           /\ TailEnd = squeezeSoundSize - 1
  <1>1. ScanInv(Scan)
    BY ScanInvHolds
  <1>2. Len(fmt) \in Nat /\ N = Len(fmt) + 1
    BY Characters
  <1>3. InvalidSize \in 0..Len(fmt)
    BY <1>1 DEF ScanInv, InvalidSize
  <1> QED BY <1>2, <1>3 DEF squeezeSoundSize, TailEnd

\* The texts between the specifications follow one another, in the string
\* without the invalid ones, and the last ends at its NUL.
LEMMA Segments ==
    ASSUME fmt \in Formats, NEW n \in 0..Len(Valid)
    PROVE  /\ Begin(n) \in Nat /\ End(n) \in Nat
           /\ Begin(n) <= End(n) /\ End(n) <= TailEnd
           /\ n < Len(Valid) => End(n) <= Begin(n + 1)
           /\ TailEnd \in Nat /\ TailEnd < squeezeSoundSize
           /\ TailEnd = Len(fmt) - InvalidSize
           /\ Len(Valid) \in Nat
  <1>1. ScanInv(Scan)
    BY ScanInvHolds
  <1>2. /\ Len(fmt) \in Nat /\ N = Len(fmt) + 1
        /\ InvalidSize \in 0..Len(fmt)
        /\ Valid \in Seq(ValidSpec) /\ Len(Valid) \in Nat
    BY <1>1, Characters DEF ScanInv, ScanSet, InvalidSize, Valid
  <1>3. /\ TailEnd \in Nat /\ TailEnd < squeezeSoundSize
        /\ TailEnd = Len(fmt) - InvalidSize
    BY <1>2 DEF TailEnd, squeezeSoundSize
  <1>4. ASSUME NEW i \in 1..Len(Valid)
        PROVE  /\ Before(Valid[i]) \in Nat /\ After(Valid[i]) \in Nat
               /\ Before(Valid[i]) < After(Valid[i])
               /\ After(Valid[i]) <= TailEnd
    <2> DEFINE v == Valid[i]
    <2>1. SpecInPlace(Scan, v)
      BY <1>1 DEF ScanInv, Valid
    <2> HIDE DEF v
    <2>2. /\ Before(v) \in Nat /\ After(v) \in Nat /\ Before(v) < After(v)
      BY <2>1 DEF SpecInPlace, Before, After
    <2>3. After(v) <= TailEnd
      BY <1>3, <2>1 DEF SpecInPlace, InvalidSize
    <2> QED BY <2>2, <2>3 DEF v
  <1>5. ASSUME NEW i \in 1..(Len(Valid) - 1)
        PROVE  After(Valid[i]) <= Before(Valid[i + 1])
    BY <1>1 DEF ScanInv, Valid
  <1>6. ASSUME NEW i \in 0..Len(Valid)
        PROVE  /\ Begin(i) = IF i = 0 THEN 0 ELSE After(Valid[i])
               /\ End(i) = IF i < Len(Valid) THEN Before(Valid[i + 1]) ELSE TailEnd
    BY DEF Begin, End, After, Before
  <1>7. Begin(n) \in Nat /\ End(n) \in Nat /\ End(n) <= TailEnd
    <2>1. Begin(n) \in Nat
      BY <1>2, <1>4, <1>6
    <2>2. CASE n < Len(Valid)
      <3>1. n + 1 \in 1..Len(Valid)
        BY <1>2, <2>2
      <3>2. End(n) = Before(Valid[n + 1])
        BY <1>6, <2>2
      <3>3. /\ Before(Valid[n + 1]) \in Nat /\ After(Valid[n + 1]) \in Nat
            /\ Before(Valid[n + 1]) < After(Valid[n + 1])
            /\ After(Valid[n + 1]) <= TailEnd
        BY <1>4, <3>1
      <3> QED BY <1>3, <2>1, <3>2, <3>3
    <2>3. CASE ~(n < Len(Valid))
      BY <1>3, <1>6, <2>1, <2>3
    <2> QED BY <2>2, <2>3
  <1>8. Begin(n) <= End(n)
    <2>1. CASE n = 0
      BY <1>2, <1>6, <1>7, <2>1
    <2>2. CASE n # 0 /\ n < Len(Valid)
      <3>1. n \in 1..(Len(Valid) - 1)
        BY <1>2, <2>2
      <3> QED BY <1>5, <1>6, <2>2, <3>1
    <2>3. CASE n # 0 /\ ~(n < Len(Valid))
      <3>1. n \in 1..Len(Valid)
        BY <1>2, <2>3
      <3> QED BY <1>4, <1>6, <2>3, <3>1
    <2> QED BY <2>1, <2>2, <2>3
  <1>9. ASSUME n < Len(Valid) PROVE End(n) <= Begin(n + 1)
    <2>1. n + 1 \in 1..Len(Valid) /\ n + 1 \in 0..Len(Valid) /\ n + 1 # 0
      BY <1>2, <1>9
    <2>2. End(n) = Before(Valid[n + 1]) /\ Begin(n + 1) = After(Valid[n + 1])
      BY <1>6, <1>9, <2>1
    <2> QED BY <1>4, <2>1, <2>2
  <1> QED BY <1>2, <1>3, <1>7, <1>8, <1>9

-----------------------------------------------------------------------------
(* The squeezed string                                                     *)

\* The bytes left out so far never fall.
LEMMA InvalidGrows ==
    ASSUME fmt \in Formats, NEW g, Turns(g), NEW m \in 0..N
    PROVE  g[m].invalid <= InvalidSize
  <1> DEFINE Bytes(k) == g[k].invalid
             Good == {k \in Nat : m + k <= N => Bytes(m) <= Bytes(m + k)}
  <1>1. N \in Nat
    BY Characters
  <1>2. ASSUME NEW k \in 0..N
        PROVE  ScanInv(g[k]) /\ Bytes(k) \in Int
    <2>1. ScanInv(g[k])
      BY TurnsInv
    <2> QED BY <2>1, Characters DEF ScanInv
  <1>3. ASSUME NEW k \in 0..N, k + 1 <= N
        PROVE  Bytes(k) <= Bytes(k + 1)
    <2>1. k + 1 \in 1..N /\ (k + 1) - 1 = k
      BY <1>1, <1>3
    <2>2. g[k + 1] = NextScan(g[k])
      BY <2>1 DEF Turns
    <2>3. g[k].pos \in 0..N /\ g[k].invalid \in Int /\ g[k] \in ScanSet
      BY <1>2 DEF ScanInv, ScanSet
    <2>4. CASE NoMore(g[k].pos)
      BY <2>2, <2>3, <2>4 DEF NextScan
    <2>5. CASE ~NoMore(g[k].pos)
      <3> DEFINE start == Start(g[k].pos)
                 stop == Stop(g[k].pos)
      <3>1. SpecLies(g[k].pos)
        BY <2>3, <2>5, SpecFound
      <3>2. start \in Int /\ stop \in Int /\ start < stop
        <4>1. Len(fmt) \in Nat
          BY Characters
        <4>2. start \in g[k].pos..(Len(fmt) - 1) /\ stop \in (start + 1)..Len(fmt)
          BY <3>1 DEF SpecLies
        <4> HIDE DEF start, stop
        <4> QED BY <2>3, <4>1, <4>2
      <3>3. \/ g[k + 1].invalid = g[k].invalid
            \/ g[k + 1].invalid = g[k].invalid + (stop - start)
        <4>1. CASE At(stop) \in Terminal
          BY <2>2, <2>3, <2>5, <4>1 DEF NextScan, ScanSet
        <4>2. CASE At(stop) \notin Terminal
          BY <2>2, <2>3, <2>5, <4>2 DEF NextScan, ScanSet
        <4> QED BY <4>1, <4>2
      <3> HIDE DEF start, stop
      <3> QED BY <2>3, <3>2, <3>3
    <2> QED BY <2>4, <2>5
  <1> HIDE DEF Bytes
  <1>4. \A k \in Nat : k \in Good
    <2>1. 0 \in Good
      <3>1. m + 0 = m /\ Bytes(m) \in Int
        BY <1>1, <1>2
      <3> QED BY <3>1
    <2>2. ASSUME NEW k \in Nat, k \in Good PROVE k + 1 \in Good
      <3> SUFFICES ASSUME m + (k + 1) <= N
                   PROVE  Bytes(m) <= Bytes(m + (k + 1))
        OBVIOUS
      <3>1. /\ m + k \in 0..N /\ m + k <= N /\ m + k + 1 <= N
            /\ m + (k + 1) = m + k + 1 /\ m + k + 1 \in 0..N
        BY <1>1
      <3>2. Bytes(m) <= Bytes(m + k) /\ Bytes(m + k) <= Bytes(m + k + 1)
        BY <1>3, <2>2, <3>1
      <3>3. Bytes(m) \in Int /\ Bytes(m + k) \in Int /\ Bytes(m + k + 1) \in Int
        BY <1>2, <3>1
      <3> QED BY <3>1, <3>2, <3>3
    <2> HIDE DEF Good
    <2> QED BY <2>1, <2>2, NatInductionOnSet
  <1>5. N - m \in Nat /\ m + (N - m) = N
    BY <1>1
  <1>6. Bytes(m) <= Bytes(N)
    <2>1. N - m \in Good
      BY <1>4, <1>5
    <2> QED BY <1>5, <2>1
  <1>7. Bytes(N) = InvalidSize
    BY DEF Turns, InvalidSize, Bytes
  <1> QED BY <1>6, <1>7 DEF Bytes

\* storeOneChar reads position r while the scan is at pos: r is in the text
\* in front of the next specification, or in that one when it is valid.
InGap(pos, r) ==
    /\ pos <= r
    /\ \/ NoMore(pos)
       \/ r <= Start(pos)
       \/ At(Stop(pos)) \in Terminal /\ r <= Stop(pos)

\* The k-th turn of the scan has left out what storeOneChar has, and has come
\* as far.
InStep(g, k, n, offset) ==
    /\ k \in 0..N /\ n \in Nat /\ offset \in Int
    /\ k <= g[k].pos
    /\ g[k].invalid = offset
    /\ InGap(g[k].pos, n + offset)

\* A specification ends right in front of the next gap.
LEMMA GapBegins ==
    ASSUME fmt \in Formats, NEW pos \in 0..N
    PROVE  InGap(pos, pos)
  <1>1. Len(fmt) \in Nat /\ N = Len(fmt) + 1
    BY Characters
  <1>2. CASE pos = N
    BY <1>1, <1>2 DEF InGap, NoMore
  <1>3. CASE pos # N
    <2>1. pos \in 0..Len(fmt)
      BY <1>1, <1>3
    <2>2. NextPercent(pos) \in pos..Len(fmt)
      BY <2>1, PercentFound
    <2>3. pos <= Start(pos)
      BY <1>1, <2>1, <2>2 DEF Start
    <2> QED BY <1>1, <2>3 DEF InGap
  <1> QED BY <1>2, <1>3

\* What a turn of storeOneChar is to do for the n-th character.
Stored(g, n, offset) ==
    /\ storeOneChar(n, offset).char \in ToSet(fmt)
    /\ \E k : InStep(g, k, n + 1, storeOneChar(n, offset).offset)

\* A character that is copied.
LEMMA CharacterCopied ==
    ASSUME fmt \in Formats, NEW g, NEW k, NEW n \in Nat, NEW offset \in Int,
           n + offset \in 0..(Len(fmt) - 1),
           InStep(g, k, n + 1, offset),
           \/ At(n + offset) # "%"
           \/ At(SkipModifiers(n + offset + 1)) \in Terminal
    PROVE  Stored(g, n, offset)
  <1>1. Len(fmt) \in Nat /\ N = Len(fmt) + 1
    BY Characters
  <1>2. n + offset < N
    BY <1>1
  <1>3. storeOneChar(n, offset) = [char |-> At(n + offset), offset |-> offset]
    BY <1>2 DEF storeOneChar
  <1>4. At(n + offset) \in ToSet(fmt)
    BY Characters
  <1> QED BY <1>3, <1>4 DEF Stored

\* A turn of storeOneChar stays in step with the scan.
LEMMA StoreStep ==
    ASSUME fmt \in Formats, NEW g, Turns(g), NEW k, NEW n \in 0..(TailEnd - 1),
           NEW offset, InStep(g, k, n, offset)
    PROVE  Stored(g, n, offset)
  <1> DEFINE pos == g[k].pos
             start == Start(pos)
             stop == Stop(pos)
             r == n + offset
  <1>1. /\ Len(fmt) \in Nat /\ N = Len(fmt) + 1
        /\ InvalidSize \in 0..Len(fmt) /\ TailEnd = Len(fmt) - InvalidSize
        /\ "%" \notin Terminal
    BY Characters, InvalidSizeBounds DEF squeezeSoundSize, TailEnd, Terminal
  <1>2. k \in 0..N /\ n \in Nat /\ offset \in Int
    BY DEF InStep
  <1>3. ScanInv(g[k])
    BY <1>2, TurnsInv
  <1>4. /\ g[k] \in ScanSet /\ pos \in 0..N
        /\ g[k].invalid = offset /\ g[k].invalid \in 0..Len(fmt)
    BY <1>3 DEF ScanInv, ScanSet, InStep
  <1>5. k <= pos /\ pos <= r /\ InGap(pos, r)
    BY DEF InStep, InGap
  <1>6. offset <= InvalidSize
    BY <1>2, <1>4, InvalidGrows
  <1>7. r \in 0..(Len(fmt) - 1) /\ r \in Int
    BY <1>1, <1>2, <1>4, <1>6
  \* When no specification begins here, the scan stays where it is.
  <1>8. ASSUME InGap(pos, r + 1),
               At(r) # "%" \/ At(SkipModifiers(r + 1)) \in Terminal
        PROVE  Stored(g, n, offset)
    <2>1. n + 1 \in Nat /\ n + 1 + offset = r + 1
      BY <1>2
    <2>2. InStep(g, k, n + 1, offset)
      BY <1>2, <1>4, <1>5, <1>8, <2>1 DEF InStep
    <2> QED BY <1>2, <1>7, <1>8, <2>2, CharacterCopied
  <1>9. CASE NoMore(pos)
    <2>1. pos # N
      <3> HIDE DEF pos, r
      <3> QED BY <1>1, <1>5, <1>7
    <2>2. pos \in 0..Len(fmt) /\ At(start) = NUL
      BY <1>1, <1>4, <1>9, <2>1 DEF NoMore
    <2>3. /\ start \in pos..Len(fmt)
          /\ \A p \in pos..Len(fmt) : p < start => At(p) # "%"
      BY <2>2, PercentFound DEF Start
    <2>4. start = Len(fmt)
      <3>1. start \notin 0..(Len(fmt) - 1)
        BY <2>2, Characters
      <3> HIDE DEF start, pos
      <3> QED BY <1>1, <2>2, <2>3, <3>1
    <2>5. r \in pos..Len(fmt) /\ r < start /\ pos <= r + 1
      <3> HIDE DEF pos, r, start
      <3> QED BY <1>1, <1>4, <1>5, <1>7, <2>4
    <2>6. At(r) # "%"
      BY <2>3, <2>5
    <2>7. InGap(pos, r + 1)
      BY <1>9, <2>5 DEF InGap
    <2> QED BY <1>8, <2>6, <2>7
  <1>10. CASE ~NoMore(pos)
    <2>1. SpecLies(pos)
      BY <1>4, <1>10, SpecFound
    <2>2. /\ start \in pos..(Len(fmt) - 1) /\ At(start) = "%"
          /\ stop \in (start + 1)..Len(fmt)
          /\ At(stop) \in Terminal => stop < Len(fmt)
          /\ \A p \in pos..Len(fmt) : p < stop /\ p # start => At(p) # "%"
      BY <2>1 DEF SpecLies
    <2>3. stop = SkipModifiers(start + 1)
      BY DEF Stop, Start
    <2>4. r <= start \/ (At(stop) \in Terminal /\ r <= stop)
      BY <1>5, <1>10 DEF InGap
    <2>5. /\ start \in Int /\ stop \in Int /\ pos \in Int
          /\ r \in pos..Len(fmt) /\ pos <= r + 1
      <3> HIDE DEF pos, r, start, stop
      <3> QED BY <1>1, <1>4, <1>5, <1>7, <2>2
    <2>6. CASE r < start
      <3>1. r < stop /\ r # start /\ r + 1 <= start
        <4> HIDE DEF pos, r, start, stop
        <4> QED BY <1>7, <2>2, <2>5, <2>6
      <3>2. At(r) # "%"
        BY <2>2, <2>5, <3>1
      <3>3. InGap(pos, r + 1)
        BY <2>5, <3>1 DEF InGap
      <3> QED BY <1>8, <3>2, <3>3
    <2>7. CASE At(stop) \in Terminal /\ start <= r /\ r < stop
      <3>1. r + 1 <= stop
        <4> HIDE DEF pos, r, start, stop
        <4> QED BY <1>7, <2>5, <2>7
      <3>2. At(r) # "%" \/ At(SkipModifiers(r + 1)) \in Terminal
        <4>1. CASE r = start
          BY <2>3, <2>7, <4>1
        <4>2. CASE r # start
          BY <2>2, <2>5, <2>7, <4>2
        <4> QED BY <4>1, <4>2
      <3>3. InGap(pos, r + 1)
        BY <2>5, <2>7, <3>1 DEF InGap
      <3> QED BY <1>8, <3>2, <3>3
    \* At the end of a specification the scan takes its next turn.
    <2>8. ASSUME r = stop \/ (r = start /\ At(stop) \notin Terminal)
          PROVE  /\ k + 1 \in 0..N /\ g[k + 1] = NextScan(g[k])
                 /\ k + 1 <= stop + 1 /\ stop + 1 \in 0..N
                 /\ InGap(stop + 1, stop + 1)
      <3>1. /\ k + 1 \in 0..N /\ k + 1 \in 1..N /\ (k + 1) - 1 = k
            /\ k + 1 <= stop + 1 /\ stop + 1 \in 0..N
        <4> HIDE DEF pos, r, start, stop
        <4> QED BY <1>1, <1>2, <1>4, <1>5, <1>7, <2>2, <2>5, <2>8
      <3>2. g[k + 1] = NextScan(g[k])
        BY <3>1 DEF Turns
      <3>3. InGap(stop + 1, stop + 1)
        BY <3>1, GapBegins
      <3> QED BY <3>1, <3>2, <3>3
    <2>9. CASE At(stop) \in Terminal /\ r = stop
      <3>1. g[k + 1].pos = stop + 1 /\ g[k + 1].invalid = offset
        BY <1>4, <1>10, <2>8, <2>9 DEF NextScan, ScanSet
      <3>2. n + 1 \in Nat /\ n + 1 + offset = stop + 1
        BY <1>2, <2>9
      <3>3. InStep(g, k + 1, n + 1, offset)
        <4>1. k + 1 \in 0..N /\ k + 1 <= stop + 1 /\ InGap(stop + 1, stop + 1)
          BY <2>8, <2>9
        <4> HIDE DEF stop
        <4> QED BY <1>2, <3>1, <3>2, <4>1 DEF InStep
      <3>4. At(r) # "%"
        BY <1>1, <2>9
      <3> QED BY <1>2, <1>7, <3>3, <3>4, CharacterCopied
    <2>10. CASE At(stop) \notin Terminal /\ r = start
      <3> DEFINE left == stop - n
      <3>1. n + left = stop /\ n + 1 + left = stop + 1 /\ left \in Int
        <4> HIDE DEF stop
        <4> QED BY <1>2, <2>5
      <3>2. g[k + 1].pos = stop + 1 /\ g[k + 1].invalid = left
        <4>1. /\ g[k + 1].pos = stop + 1
              /\ g[k + 1].invalid = offset + (stop - start)
          BY <1>4, <1>10, <2>8, <2>10 DEF NextScan, ScanSet
        <4>2. offset + (stop - start) = left
          <5>1. start = n + offset
            BY <2>10
          <5> HIDE DEF stop, start
          <5> QED BY <1>2, <2>5, <5>1
        <4> QED BY <4>1, <4>2
      <3>3. left <= InvalidSize
        BY <2>8, <2>10, <3>2, InvalidGrows
      <3>4. stop \in 0..(Len(fmt) - 1)
        <4>1. left = stop - n /\ stop \in Int /\ n \in Nat
          BY <1>2, <2>5
        <4>2. InvalidSize \in Nat /\ Len(fmt) \in Nat /\ n < Len(fmt) - InvalidSize
          BY <1>1, <1>2
        <4>3. start < stop /\ start \in Nat
          <5> HIDE DEF stop, start, pos
          <5> QED BY ONLY <1>1, <1>4, <2>2, <2>5
        <4> HIDE DEF stop, start, pos, left
        <4> QED BY <3>3, <4>1, <4>2, <4>3, StopInside, Zenon
      <3>5. storeOneChar(n, offset) = [char |-> At(stop), offset |-> left]
        <4>1. r < N
          BY <1>1, <1>7
        <4>2. At(r) = "%" /\ SkipModifiers(r + 1) = stop
          BY <2>2, <2>3, <2>10
        <4>3. SkipModifiers(n + offset + 1) = stop
          BY <4>2
        <4>4. storeOneChar(n, offset) = [char |-> At(n + left), offset |-> left]
          <5> HIDE DEF stop
          <5> QED BY <2>10, <4>1, <4>2, <4>3 DEF storeOneChar
        <4> QED BY <3>1, <4>4
      <3>6. InStep(g, k + 1, n + 1, left)
        <4>1. k + 1 \in 0..N /\ k + 1 <= stop + 1 /\ InGap(stop + 1, stop + 1)
          BY <2>8, <2>10
        <4>2. n + 1 \in Nat
          BY <1>2
        <4> HIDE DEF stop, left
        <4> QED BY <3>1, <3>2, <4>1, <4>2 DEF InStep
      <3>7. At(stop) \in ToSet(fmt)
        BY <3>4, Characters
      <3> HIDE DEF left
      <3> QED BY <3>5, <3>6, <3>7 DEF Stored
    <2>11. r < start \/ start <= r
      <3> HIDE DEF r, start
      <3> QED BY <1>7, <2>5
    <2>12. r < stop \/ stop <= r
      <3> HIDE DEF r, stop
      <3> QED BY <1>7, <2>5
    <2>13. start <= r /\ r <= start => r = start
      <3> HIDE DEF r, start
      <3> QED BY <1>7, <2>5
    <2>14. stop <= r /\ r <= stop => r = stop
      <3> HIDE DEF r, stop
      <3> QED BY <1>7, <2>5
    <2>15. r = start => r < stop
      <3> HIDE DEF r, start, stop
      <3> QED BY <2>2, <2>5
    <2> HIDE DEF r, start, stop, pos
    <2> QED BY <2>4, <2>6, <2>7, <2>9, <2>10, <2>11, <2>12, <2>13, <2>14, <2>15
  <1> QED BY <1>9, <1>10

\* The calls of storeOneChar that fill kfmtArr.
Stores(c) ==
    /\ \A n \in 0..N :
          c[n] = storeOneChar(n, IF n = 0 THEN 0 ELSE c[n - 1].offset)
    /\ \A n \in 0..(squeezeSoundSize - 1) : kfmtArr[n] = c[n].char

\* storeOneChar's offset never goes below zero.
LEMMA OffsetType ==
    ASSUME fmt \in Formats, NEW n \in Nat, NEW offset \in Nat
    PROVE  storeOneChar(n, offset).offset \in Nat
  <1>1. Len(fmt) \in Nat /\ N = Len(fmt) + 1 /\ At(Len(fmt)) = NUL /\ NUL # "%"
    BY Characters DEF NUL
  <1>2. CASE n + offset < N /\ At(n + offset) = "%"
                            /\ At(SkipModifiers(n + offset + 1)) \notin Terminal
    <2> DEFINE stop == SkipModifiers(n + offset + 1)
    <2>1. n + offset + 1 \in 0..Len(fmt)
      <3>1. n + offset # Len(fmt)
        BY <1>1, <1>2
      <3> QED BY <1>1, <1>2, <3>1
    <2>2. stop \in (n + offset + 1)..Len(fmt)
      BY <2>1, ModifiersSkipped
    <2>3. storeOneChar(n, offset).offset = stop - n
      BY <1>2 DEF storeOneChar
    <2> HIDE DEF stop
    <2> QED BY <1>1, <2>2, <2>3
  <1>3. CASE ~(n + offset < N /\ At(n + offset) = "%"
                              /\ At(SkipModifiers(n + offset + 1)) \notin Terminal)
    BY <1>3 DEF storeOneChar
  <1> QED BY <1>2, <1>3

\* kfmtArr is filled by such calls.
LEMMA StoreRecursion ==
    ASSUME fmt \in Formats
    PROVE  \E c : Stores(c)
  <1> DEFINE step == [x \in Nat \X Nat |-> storeOneChar(x[1], x[2]).offset]
             R(h) == h = [n \in 0..N |->
                            storeOneChar(n, IF n = 0 THEN 0 ELSE h[n - 1].offset)]
             c == CHOOSE h : R(h)
  <1>1. N \in Nat /\ squeezeSoundSize \in 1..N
    BY Characters, InvalidSizeBounds
  <1>2. step \in [Nat \X Nat -> Nat]
    BY OffsetType
  <1>3. PICK f : Recursion(f, Nat, 0, step)
    <2> HIDE DEF step
    <2> QED BY <1>2, NatRecursion, Zenon
  <1>4. /\ f[0] = 0
        /\ \A n \in Nat : f[n] \in Nat /\ f[n + 1] = step[<<n, f[n]>>]
    BY <1>3 DEF Recursion
  <1>5. ASSUME NEW n \in 1..N
        PROVE  f[n] = storeOneChar(n - 1, f[n - 1]).offset
    <2>1. n - 1 \in Nat /\ (n - 1) + 1 = n
      BY <1>1
    <2>2. f[n] = step[<<n - 1, f[n - 1]>>] /\ f[n - 1] \in Nat
      BY <1>4, <2>1
    <2>3. <<n - 1, f[n - 1]>> \in Nat \X Nat
      BY <2>1, <2>2
    <2> QED BY <2>2, <2>3
  <1> HIDE DEF step
  <1>6. R([n \in 0..N |-> storeOneChar(n, f[n])])
    <2> DEFINE h == [n \in 0..N |-> storeOneChar(n, f[n])]
    <2>1. ASSUME NEW n \in 0..N
          PROVE  f[n] = IF n = 0 THEN 0 ELSE h[n - 1].offset
      <3>1. CASE n = 0
        BY <1>4, <3>1
      <3>2. CASE n # 0
        <4>1. n \in 1..N /\ n - 1 \in 0..N
          BY <1>1, <3>2
        <4>2. h[n - 1] = storeOneChar(n - 1, f[n - 1])
          BY <4>1
        <4> HIDE DEF h
        <4> QED BY <1>5, <3>2, <4>1, <4>2
      <3> QED BY <3>1, <3>2
    <2>2. \A n \in 0..N :
             storeOneChar(n, f[n])
               = storeOneChar(n, IF n = 0 THEN 0 ELSE h[n - 1].offset)
      <3> HIDE DEF h
      <3> QED BY <2>1
    <2> QED BY <2>2
  <1>7. R(c)
    <2> HIDE DEF R
    <2> QED BY <1>6
  <1>8. kfmtArr = [n \in 0..(squeezeSoundSize - 1) |-> c[n].char]
    BY DEF kfmtArr
  <1> HIDE DEF c
  <1>9. \A n \in 0..N :
           c[n] = storeOneChar(n, IF n = 0 THEN 0 ELSE c[n - 1].offset)
    BY <1>7
  <1>10. Stores(c)
    BY <1>8, <1>9 DEF Stores
  <1> QED BY <1>10

\* Every character of the squeezed string in front of its NUL is one of the
\* format's.
LEMMA SqueezedText ==
    ASSUME fmt \in Formats, NEW n \in 0..(TailEnd - 1)
    PROVE  kRTStr[n] \in ToSet(fmt)
  <1>1. /\ Len(fmt) \in Nat /\ N = Len(fmt) + 1
        /\ squeezeSoundSize \in 1..N /\ TailEnd = squeezeSoundSize - 1
    BY Characters, InvalidSizeBounds
  <1>2. CASE ~(squeezeSoundSize < N)
    <2>1. n \in 0..(N - 1) /\ n \in 0..(Len(fmt) - 1)
      BY <1>1, <1>2
    <2>2. kRTStr[n] = At(n)
      BY <1>2, <2>1 DEF kRTStr
    <2> QED BY <2>1, <2>2, Characters
  <1>3. CASE squeezeSoundSize < N
    <2>1. PICK g : Turns(g)
      BY ScanRecursion
    <2>2. PICK c : Stores(c)
      BY StoreRecursion
    <2> DEFINE Offset(i) == IF i = 0 THEN 0 ELSE c[i - 1].offset
               Good == {i \in Nat : i <= TailEnd => \E k : InStep(g, k, i, Offset(i))}
    <2>3. ASSUME NEW i \in 0..(TailEnd - 1)
          PROVE  /\ c[i] = storeOneChar(i, Offset(i))
                 /\ Offset(i + 1) = c[i].offset
                 /\ kfmtArr[i] = c[i].char
      <3>1. i \in 0..N /\ i \in 0..(squeezeSoundSize - 1)
            /\ i + 1 # 0 /\ (i + 1) - 1 = i
        BY <1>1
      <3> QED BY <2>2, <3>1 DEF Stores
    <2>4. 0 \in Good
      <3>1. g[0].pos = 0 /\ g[0].invalid = 0
        BY <2>1 DEF Turns, FirstScan
      <3>2. InGap(0, 0)
        BY <1>1, GapBegins
      <3>3. InStep(g, 0, 0, 0)
        BY <1>1, <3>1, <3>2 DEF InStep
      <3> QED BY <3>3
    <2> HIDE DEF Offset
    <2>5. ASSUME NEW i \in Nat, i \in Good PROVE i + 1 \in Good
      <3> SUFFICES ASSUME i + 1 <= TailEnd
                   PROVE  \E k : InStep(g, k, i + 1, Offset(i + 1))
        OBVIOUS
      <3>1. i <= TailEnd /\ i \in 0..(TailEnd - 1)
        BY <1>1
      <3>2. PICK k : InStep(g, k, i, Offset(i))
        BY <2>5, <3>1
      <3>3. Stored(g, i, Offset(i))
        BY <2>1, <3>1, <3>2, StoreStep
      <3>4. storeOneChar(i, Offset(i)).offset = Offset(i + 1)
        BY <2>3, <3>1
      <3> QED BY <3>3, <3>4 DEF Stored
    <2> HIDE DEF Good
    <2>6. \A i \in Nat : i \in Good
      BY <2>4, <2>5, NatInductionOnSet
    <2>7. n \in Nat /\ n <= TailEnd
      BY <1>1
    <2>8. PICK k : InStep(g, k, n, Offset(n))
      BY <2>6, <2>7 DEF Good
    <2>9. Stored(g, n, Offset(n))
      BY <2>1, <2>8, StoreStep
    <2>10. kRTStr[n] = storeOneChar(n, Offset(n)).char
      BY <1>3, <2>3 DEF kRTStr
    <2> QED BY <2>9, <2>10 DEF Stored
  <1> QED BY <1>2, <1>3

-----------------------------------------------------------------------------
(* The arguments                                                           *)

\* The arguments that the first m conversions take.
ArgsBefore(m) ==
    LET count[n \in 0..Len(Valid)] ==
            IF n = 0 THEN 0 ELSE count[n - 1] + Required(getOneSpec(n - 1))
    IN  count[m]

\* A conversion takes its argument, and one for each '*'.
LEMMA RequiredBounds ==
    ASSUME NEW si
    PROVE  Required(si) \in 1..3
  BY DEF Required

\* countValidSpecInfos is a number.
LEMMA LenValid ==
    ASSUME fmt \in Formats
    PROVE  Len(Valid) \in Nat
  <1>1. ScanInv(Scan)
    BY ScanInvHolds
  <1> QED BY <1>1 DEF ScanInv, ScanSet, Valid

\* ArgsBefore is the recursion that it is written as.
LEMMA ArgsBeforeRecursion ==
    ASSUME fmt \in Formats
    PROVE  /\ ArgsBefore(0) = 0
           /\ \A m \in 1..Len(Valid) :
                ArgsBefore(m) = ArgsBefore(m - 1) + Required(getOneSpec(m - 1))
  <1> DEFINE M == Len(Valid)
             step == [x \in Nat \X Nat |-> x[2] + Required(getOneSpec(x[1]))]
             R(h) == h = [n \in 0..M |-> IF n = 0 THEN 0
                              ELSE h[n - 1] + Required(getOneSpec(n - 1))]
             c == CHOOSE h : R(h)
  <1>1. M \in Nat
    BY LenValid
  <1>2. step \in [Nat \X Nat -> Nat]
    <2>1. ASSUME NEW x \in Nat \X Nat
          PROVE  x[2] + Required(getOneSpec(x[1])) \in Nat
      <3>1. Required(getOneSpec(x[1])) \in 1..3
        BY RequiredBounds
      <3> QED BY <3>1
    <2> QED BY <2>1
  <1>3. PICK f : Recursion(f, Nat, 0, step)
    <2> HIDE DEF step
    <2> QED BY <1>2, NatRecursion, Zenon
  <1>4. /\ f[0] = 0
        /\ \A n \in Nat : f[n] \in Nat /\ f[n + 1] = step[<<n, f[n]>>]
    BY <1>3 DEF Recursion
  <1>5. ASSUME NEW n \in 1..M
        PROVE  f[n] = f[n - 1] + Required(getOneSpec(n - 1))
    <2>1. n - 1 \in Nat /\ (n - 1) + 1 = n
      BY <1>1
    <2>2. f[n] = step[<<n - 1, f[n - 1]>>] /\ f[n - 1] \in Nat
      BY <1>4, <2>1
    <2>3. <<n - 1, f[n - 1]>> \in Nat \X Nat
      BY <2>1, <2>2
    <2> QED BY <2>2, <2>3
  <1> HIDE DEF step
  <1>6. R([n \in 0..M |-> f[n]])
    <2> DEFINE h == [n \in 0..M |-> f[n]]
    <2>1. ASSUME NEW n \in 0..M
          PROVE  h[n] = IF n = 0 THEN 0
                        ELSE h[n - 1] + Required(getOneSpec(n - 1))
      <3>1. CASE n = 0
        BY <1>4, <3>1
      <3>2. CASE n # 0
        <4>1. n \in 1..M /\ n - 1 \in 0..M
          BY <1>1, <3>2
        <4>2. h[n - 1] = f[n - 1] /\ h[n] = f[n]
          BY <4>1
        <4>3. h[n] = h[n - 1] + Required(getOneSpec(n - 1))
          <5> HIDE DEF h
          <5> QED BY <1>5, <4>1, <4>2
        <4> HIDE DEF h
        <4> QED BY <3>2, <4>3
      <3> QED BY <3>1, <3>2
    <2> QED BY <2>1
  <1>7. R(c)
    <2> HIDE DEF R
    <2> QED BY <1>6
  <1>8. \A m : ArgsBefore(m) = c[m]
    BY DEF ArgsBefore
  <1> HIDE DEF c
  <1>9. c[0] = 0
    <2>1. 0 \in 0..M
      BY <1>1
    <2> QED BY <1>7, <2>1
  <1>10. ASSUME NEW m \in 1..M
         PROVE  c[m] = c[m - 1] + Required(getOneSpec(m - 1))
    <2>1. m \in 0..M /\ m # 0
      BY <1>1
    <2> QED BY <1>7, <2>1
  <1> QED BY <1>8, <1>9, <1>10

\* The count never falls.
LEMMA ArgsBeforeGrows ==
    ASSUME fmt \in Formats, NEW m \in 0..Len(Valid)
    PROVE  /\ ArgsBefore(m) \in Nat
           /\ ArgsBefore(m) <= ArgsBefore(Len(Valid))
  <1> DEFINE M == Len(Valid)
             Count(n) == ArgsBefore(n)
             Good == {n \in Nat : n <= M => Count(n) \in Nat}
             High == {n \in Nat : m + n <= M => Count(m) <= Count(m + n)}
  <1>1. M \in Nat
    BY LenValid
  <1>2. Count(0) = 0
    BY ArgsBeforeRecursion
  <1>3. ASSUME NEW n \in 1..M
        PROVE  \E r \in 1..3 : Count(n) = Count(n - 1) + r
    <2>1. Count(n) = Count(n - 1) + Required(getOneSpec(n - 1))
      BY ArgsBeforeRecursion
    <2>2. Required(getOneSpec(n - 1)) \in 1..3
      BY RequiredBounds
    <2> QED BY <2>1, <2>2
  <1> HIDE DEF M, Count
  <1>4. \A n \in Nat : n \in Good
    <2>1. 0 \in Good
      BY <1>2
    <2>2. ASSUME NEW n \in Nat, n \in Good PROVE n + 1 \in Good
      <3> SUFFICES ASSUME n + 1 <= M PROVE Count(n + 1) \in Nat
        OBVIOUS
      <3>1. n <= M /\ n + 1 \in 1..M /\ (n + 1) - 1 = n
        BY <1>1
      <3>2. PICK r \in 1..3 : Count(n + 1) = Count(n) + r
        BY <1>3, <3>1
      <3>3. Count(n) \in Nat
        BY <2>2, <3>1
      <3> QED BY <3>2, <3>3
    <2> HIDE DEF Good
    <2> QED BY <2>1, <2>2, NatInductionOnSet
  <1>5. ASSUME NEW n \in 0..M PROVE Count(n) \in Nat
    <2>1. n \in Nat /\ n <= M
      BY <1>1
    <2> QED BY <1>4, <2>1
  <1>6. m \in 0..M
    BY DEF M
  <1>7. \A n \in Nat : n \in High
    <2>1. 0 \in High
      <3>1. m + 0 = m /\ Count(m) \in Nat
        BY <1>1, <1>5, <1>6
      <3> QED BY <3>1
    <2>2. ASSUME NEW n \in Nat, n \in High PROVE n + 1 \in High
      <3> SUFFICES ASSUME m + (n + 1) <= M
                   PROVE  Count(m) <= Count(m + (n + 1))
        OBVIOUS
      <3>1. /\ m + n <= M /\ m + n \in 0..M /\ m + (n + 1) \in 1..M
            /\ (m + (n + 1)) - 1 = m + n
        BY <1>1, <1>6
      <3>2. PICK r \in 1..3 : Count(m + (n + 1)) = Count(m + n) + r
        BY <1>3, <3>1
      <3>3. Count(m) <= Count(m + n)
        BY <2>2, <3>1
      <3>4. Count(m) \in Nat /\ Count(m + n) \in Nat
        BY <1>5, <1>6, <3>1
      <3> QED BY <3>2, <3>3, <3>4
    <2> HIDE DEF High
    <2> QED BY <2>1, <2>2, NatInductionOnSet
  <1>8. M - m \in Nat /\ m + (M - m) = M
    BY <1>1, <1>6
  <1>9. Count(m) <= Count(M)
    <2>1. M - m \in High
      BY <1>7, <1>8
    <2> QED BY <1>8, <2>1
  <1> QED BY <1>5, <1>6, <1>9 DEF M, Count

\* ConvertOne takes as many arguments as countArgsRequired counts.
LEMMA ConversionTakesRequired ==
    ASSUME NEW si, nextArg \in Nat
    PROVE  /\ ConvertOne(si)[1] = "conversion"
           /\ ConvertOne(si)[2].arg + 1 = nextArg + Required(si)
  <1>1. ASSUME NEW w, NEW p, NEW a
        PROVE  /\ Conversion(si, w, p, a)[1] = "conversion"
               /\ Conversion(si, w, p, a)[2].arg = a
    BY DEF Conversion
  <1>2. CASE si.width = DYNAMIC /\ si.prec = DYNAMIC
    <2>1. /\ ConvertOne(si)[1] = "conversion"
          /\ ConvertOne(si)[2].arg = nextArg + 2
      BY <1>1, <1>2 DEF ConvertOne
    <2>2. Required(si) = 3
      BY <1>2 DEF Required
    <2> QED BY <2>1, <2>2
  <1>3. CASE si.width = DYNAMIC /\ si.prec # DYNAMIC
    <2>1. /\ ConvertOne(si)[1] = "conversion"
          /\ ConvertOne(si)[2].arg = nextArg + 1
      BY <1>1, <1>3 DEF ConvertOne
    <2>2. Required(si) = 2
      BY <1>3 DEF Required
    <2> QED BY <2>1, <2>2
  <1>4. CASE si.width # DYNAMIC /\ si.prec = DYNAMIC
    <2>1. /\ ConvertOne(si)[1] = "conversion"
          /\ ConvertOne(si)[2].arg = nextArg + 1
      BY <1>1, <1>4 DEF ConvertOne
    <2>2. Required(si) = 2
      BY <1>4 DEF Required
    <2> QED BY <2>1, <2>2
  <1>5. CASE si.width # DYNAMIC /\ si.prec # DYNAMIC
    <2>1. /\ ConvertOne(si)[1] = "conversion"
          /\ ConvertOne(si)[2].arg = nextArg
      BY <1>1, <1>5 DEF ConvertOne
    <2>2. Required(si) = 1
      BY <1>5 DEF Required
    <2> QED BY <2>1, <2>2
  <1> QED BY <1>2, <1>3, <1>4, <1>5

-----------------------------------------------------------------------------
(* The expansion                                                           *)

\* Where the expansion is.
ExpansionInv ==
    /\ fmt \in Formats
    /\ num \in 0..countValidSpecInfos
    /\ nextArg = 1 + ArgsBefore(num)
    /\ done => num = countValidSpecInfos

\* Every step keeps it; the scans do not change, as fmt does not.
LEMMA ExpansionInvStep ==
    ASSUME ExpansionInv, [Next]_vars
    PROVE  ExpansionInv'
  <1>1. /\ fmt \in Formats /\ num \in 0..Len(Valid)
        /\ nextArg = 1 + ArgsBefore(num)
        /\ done => num = Len(Valid)
    BY DEF ExpansionInv, countValidSpecInfos
  <1>2. Len(Valid) \in Nat /\ ArgsBefore(num) \in Nat
    BY <1>1, LenValid, ArgsBeforeGrows
  <1>3. ASSUME fmt' = fmt
        PROVE  /\ Len(Valid)' = Len(Valid)
               /\ \A m : ArgsBefore(m)' = ArgsBefore(m)
    BY <1>3 DEF Valid, Scan, N, At, NextPercent, SkipModifiers,
       ArgsBefore, getOneSpec, Parse, Turn, SkipDigits, Number
  <1>4. CASE Convert
    <2> DEFINE si == getOneSpec(num)
    <2>1. /\ num < Len(Valid) /\ num' = num + 1 /\ fmt' = fmt /\ done' = done
          /\ nextArg' = ConvertOne(si)[2].arg + 1
      BY <1>4 DEF Convert, countValidSpecInfos
    <2>2. ConvertOne(si)[2].arg + 1 = nextArg + Required(si)
      BY <1>1, <1>2, ConversionTakesRequired
    <2>3. num + 1 \in 1..Len(Valid) /\ (num + 1) - 1 = num
      BY <1>1, <1>2, <2>1
    <2>4. ArgsBefore(num + 1) = ArgsBefore(num) + Required(si)
      BY <1>1, <2>3, ArgsBeforeRecursion
    <2>5. Required(si) \in 1..3
      BY RequiredBounds
    <2>6. nextArg' = 1 + ArgsBefore(num + 1)
      <3> HIDE DEF si
      <3> QED BY <1>1, <1>2, <2>1, <2>2, <2>4, <2>5
    <2>7. ~done
      BY <1>1, <1>2, <2>1
    <2> QED BY <1>1, <1>3, <2>1, <2>3, <2>6, <2>7 DEF ExpansionInv, countValidSpecInfos
  <1>5. CASE WriteTail
    BY <1>1, <1>3, <1>5 DEF WriteTail, ExpansionInv, countValidSpecInfos
  <1>6. CASE UNCHANGED vars
    BY <1>1, <1>3, <1>6 DEF vars, ExpansionInv, countValidSpecInfos
  <1> QED BY <1>4, <1>5, <1>6 DEF Next, Finished

\* The SpecInfos are converted one by one, each from the argument behind those
\* that the SpecInfos before it have taken (converter_single's recursion).
THEOREM ExpansionInvariant == Spec => []ExpansionInv
  <1>1. ASSUME Init PROVE ExpansionInv
    <2>1. fmt \in Formats /\ num = 0 /\ nextArg = 1 /\ ~done
      BY <1>1 DEF Init
    <2>2. Len(Valid) \in Nat /\ ArgsBefore(0) = 0
      BY <2>1, LenValid, ArgsBeforeRecursion
    <2> QED BY <2>1, <2>2 DEF ExpansionInv, countValidSpecInfos
  <1> QED BY <1>1, ExpansionInvStep, PTL DEF Spec

\* SegmentsInside: for every format, begin_ and end_ of the SpecInfos are
\* offsets into the squeezed string, in order, and their unsigned difference
\* never wraps: no invalid specification is subtracted that lies behind.
THEOREM SegmentsStayInside == Spec => []SegmentsInside
  <1>1. ASSUME ExpansionInv PROVE SegmentsInside
    <2>1. fmt \in Formats /\ num \in 0..Len(Valid)
      BY <1>1 DEF ExpansionInv, countValidSpecInfos
    <2>2. /\ Begin(num) \in Nat /\ End(num) \in Nat
          /\ Begin(num) <= End(num) /\ End(num) <= TailEnd
          /\ num < Len(Valid) => End(num) <= Begin(num + 1)
          /\ TailEnd \in Nat /\ TailEnd < squeezeSoundSize
          /\ TailEnd = Len(fmt) - InvalidSize
      BY <2>1, Segments
    <2>3. squeezeSoundSize \in Int
      BY <2>1, InvalidSizeBounds
    <2>4. End(num) < squeezeSoundSize
      BY <2>2, <2>3
    <2> QED BY <2>2, <2>4 DEF SegmentsInside, countValidSpecInfos
  <1> QED BY <1>1, ExpansionInvariant, PTL

\* ArgumentsAreCounted: for every format, what countArgsRequired demands at
\* compile time is exactly what converter_args and its siblings take.
THEOREM ArgumentsCounted == Spec => []ArgumentsAreCounted
  <1>1. ASSUME ExpansionInv PROVE ArgumentsAreCounted
    <2>1. /\ fmt \in Formats /\ num \in 0..Len(Valid)
          /\ nextArg = 1 + ArgsBefore(num)
          /\ done => num = Len(Valid)
      BY <1>1 DEF ExpansionInv, countValidSpecInfos
    <2>2. countArgsRequired = ArgsBefore(Len(Valid))
      BY DEF countArgsRequired, ArgsBefore
    <2>3. Len(Valid) \in 0..Len(Valid)
      BY <2>1, LenValid
    <2>4. /\ ArgsBefore(num) \in Nat /\ ArgsBefore(Len(Valid)) \in Nat
          /\ ArgsBefore(num) <= ArgsBefore(Len(Valid))
      BY <2>1, <2>3, ArgsBeforeGrows
    <2> QED BY <2>1, <2>2, <2>4 DEF ArgumentsAreCounted
  <1> QED BY <1>1, ExpansionInvariant, PTL

\* A piece of the output that is text is a character of the format.
IsPiece(x) == x[1] = "text" => x[2] \in ToSet(fmt)

\* The text in front of a specification is made of such pieces.
LEMMA TextPieces ==
    ASSUME fmt \in Formats, NEW n \in 0..Len(Valid)
    PROVE  Text(n) \in Seq({"text"} \X ToSet(fmt))
  <1> DEFINE size == End(n) - Begin(n)
  <1>1. /\ Begin(n) \in Nat /\ End(n) \in Nat
        /\ Begin(n) <= End(n) /\ End(n) <= TailEnd /\ TailEnd \in Nat
    BY Segments
  <1>2. size \in Nat
    BY <1>1
  <1>3. ASSUME NEW k \in 1..size
        PROVE  <<"text", kRTStr[Begin(n) + k - 1]>> \in {"text"} \X ToSet(fmt)
    <2>1. Begin(n) + k - 1 \in 0..(TailEnd - 1)
      BY <1>1
    <2>2. kRTStr[Begin(n) + k - 1] \in ToSet(fmt)
      BY <2>1, SqueezedText
    <2> QED BY <2>2
  <1>4. Text(n) = [k \in 1..size |-> <<"text", kRTStr[Begin(n) + k - 1]>>]
    BY DEF Text
  <1> HIDE DEF size
  <1> QED BY <1>2, <1>3, <1>4

\* What has been written.
OutbufInv ==
    \E S : outbuf \in Seq(S) /\ \A x \in S : IsPiece(x)

\* Writing text and conversions keeps it.
LEMMA TextWritten ==
    ASSUME fmt \in Formats, OutbufInv, NEW n \in 0..Len(Valid),
           NEW T, \A x \in T : x[1] # "text", NEW tail \in Seq(T)
    PROVE  \E S : /\ outbuf \o Text(n) \o tail \in Seq(S)
                  /\ \A x \in S : IsPiece(x)
  <1>1. PICK S : outbuf \in Seq(S) /\ \A x \in S : IsPiece(x)
    BY DEF OutbufInv
  <1> DEFINE P == {"text"} \X ToSet(fmt)
             U == S \cup P \cup T
  <1>2. Text(n) \in Seq(P)
    BY TextPieces
  <1>3. \A x \in P : IsPiece(x)
    BY DEF IsPiece
  <1>4. \A x \in U : IsPiece(x)
    <2> HIDE DEF P
    <2> QED BY <1>1, <1>3 DEF IsPiece
  <1>5. outbuf \in Seq(U) /\ Text(n) \in Seq(U) /\ tail \in Seq(U)
    <2> HIDE DEF P
    <2>1. S \subseteq U /\ P \subseteq U /\ T \subseteq U
      OBVIOUS
    <2> HIDE DEF U
    <2> QED BY <1>1, <1>2, <2>1
  <1>6. outbuf \o Text(n) \o tail \in Seq(U)
    <2> HIDE DEF U
    <2> QED BY <1>5
  <1> QED BY <1>4, <1>6

\* TypeOK: whatever the formats, CFMT_STR converts no SpecInfo behind the tail,
\* and what it writes as text are characters of the format: the squeezed
\* string that the SpecInfos index holds them up to its one NUL, although
\* squeezeSoundSize, storeOneChar and getOneSpec each scan the format anew.
THEOREM TypeCorrect == Spec => []TypeOK
  <1>1. ASSUME Init PROVE OutbufInv
    <2>1. outbuf \in Seq({})
      BY <1>1 DEF Init
    <2> QED BY <2>1 DEF OutbufInv
  <1>2. ASSUME ExpansionInv, OutbufInv, [Next]_vars PROVE OutbufInv'
    <2>1. fmt \in Formats /\ num \in 0..Len(Valid) /\ nextArg \in Nat
      BY <1>2, ArgsBeforeGrows DEF ExpansionInv, countValidSpecInfos
    <2>2. ASSUME fmt' = fmt, NEW e, outbuf' = e, NEW S, e \in Seq(S),
                 \A x \in S : IsPiece(x)
          PROVE  OutbufInv'
      BY <2>2 DEF OutbufInv, IsPiece
    <2>3. CASE Convert
      <3> DEFINE conversion == ConvertOne(getOneSpec(num))
      <3>1. conversion[1] = "conversion"
        BY <2>1, ConversionTakesRequired
      <3>2. /\ outbuf' = outbuf \o Text(num) \o <<conversion>> /\ fmt' = fmt
        BY <2>3 DEF Convert
      <3> HIDE DEF conversion
      <3>3. <<conversion>> \in Seq({conversion})
            /\ \A x \in {conversion} : x[1] # "text"
        BY <3>1
      <3>4. PICK S : /\ outbuf \o Text(num) \o <<conversion>> \in Seq(S)
                     /\ \A x \in S : IsPiece(x)
        BY <1>2, <2>1, <3>3, TextWritten
      <3> QED BY <2>2, <3>2, <3>4
    <2>4. CASE WriteTail
      <3>1. outbuf' = outbuf \o Text(num) /\ fmt' = fmt
        BY <2>4 DEF WriteTail
      <3>2. <<>> \in Seq({})
        OBVIOUS
      <3>3. PICK S : /\ outbuf \o Text(num) \o <<>> \in Seq(S)
                     /\ \A x \in S : IsPiece(x)
        BY <1>2, <2>1, <3>2, TextWritten
      <3>4. outbuf \o Text(num) \o <<>> = outbuf \o Text(num)
        <4>1. PICK U : outbuf \in Seq(U)
          BY <1>2 DEF OutbufInv
        <4>2. outbuf \o Text(num) \in Seq(U \cup ({"text"} \X ToSet(fmt)))
          BY <2>1, <4>1, TextPieces
        <4> QED BY <4>2
      <3> QED BY <2>2, <3>1, <3>3, <3>4
    <2>5. CASE UNCHANGED vars
      BY <1>2, <2>5 DEF vars, OutbufInv, IsPiece
    <2> QED BY <1>2, <2>3, <2>4, <2>5 DEF Next, Finished
  <1>3. ASSUME ExpansionInv, OutbufInv PROVE TypeOK
    <2>1. /\ num \in 0..countValidSpecInfos /\ nextArg \in Nat \ {0}
      <3>1. fmt \in Formats /\ num \in 0..Len(Valid)
        BY <1>3 DEF ExpansionInv, countValidSpecInfos
      <3>2. ArgsBefore(num) \in Nat /\ nextArg = 1 + ArgsBefore(num)
        BY <1>3, <3>1, ArgsBeforeGrows DEF ExpansionInv
      <3> QED BY <1>3, <3>2 DEF ExpansionInv
    <2>2. PICK S : outbuf \in Seq(S) /\ \A x \in S : IsPiece(x)
      BY <1>3 DEF OutbufInv
    <2>3. \A i \in 1..Len(outbuf) : IsPiece(outbuf[i])
      BY <2>2
    <2> QED BY <2>1, <2>3 DEF TypeOK, IsPiece
  <1>4. Spec => []OutbufInv
    BY <1>1, <1>2, ExpansionInvariant, PTL DEF Spec
  <1> QED BY <1>3, <1>4, ExpansionInvariant, PTL

-----------------------------------------------------------------------------
(* What a specification means                                              *)

\* The characters of a number have values.
LEMMA DigitValues ==
    ASSUME NEW c \in Digit
    PROVE  toDigit[c] \in 0..9
  <1>1. PICK i \in 1..10 : c = DigitChar[i]
    BY DEF Digit, ToSet, DigitChar
  <1>2. i - 1 \in 0..9 /\ DigitChar[(i - 1) + 1] = c
    BY <1>1
  <1>3. \E d \in 0..9 : DigitChar[d + 1] = c
    BY <1>2
  <1>4. toDigit[c] = CHOOSE d \in 0..9 : DigitChar[d + 1] = c
    BY DEF toDigit
  <1> HIDE DEF DigitChar
  <1> QED BY <1>3, <1>4

\* A number is never DYNAMIC.
LEMMA DecimalType ==
    ASSUME NEW s \in Seq(Digit)
    PROVE  Decimal(s) \in Nat
  <1> DEFINE L == Len(s)
             step == [x \in Nat \X Nat |->
                        IF x[1] + 1 <= L THEN 10 * x[2] + toDigit[s[x[1] + 1]] ELSE 0]
             R(h) == h = [k \in 0..L |-> IF k = 0 THEN 0
                                         ELSE 10 * h[k - 1] + toDigit[s[k]]]
             c == CHOOSE h : R(h)
  <1>1. L \in Nat /\ \A i \in 1..L : toDigit[s[i]] \in Nat
    BY DigitValues
  <1>2. step \in [Nat \X Nat -> Nat]
    BY <1>1
  <1>3. PICK f : Recursion(f, Nat, 0, step)
    <2> HIDE DEF step
    <2> QED BY <1>2, NatRecursion, Zenon
  <1>4. /\ f[0] = 0
        /\ \A n \in Nat : f[n] \in Nat /\ f[n + 1] = step[<<n, f[n]>>]
    BY <1>3 DEF Recursion
  <1>5. ASSUME NEW k \in 1..L PROVE f[k] = 10 * f[k - 1] + toDigit[s[k]]
    <2>1. k - 1 \in Nat /\ (k - 1) + 1 = k /\ k <= L
      BY <1>1
    <2>2. f[k] = step[<<k - 1, f[k - 1]>>] /\ f[k - 1] \in Nat
      BY <1>4, <2>1
    <2>3. <<k - 1, f[k - 1]>> \in Nat \X Nat
      BY <2>1, <2>2
    <2> QED BY <2>1, <2>2, <2>3
  <1> HIDE DEF step
  <1>6. R([k \in 0..L |-> f[k]])
    <2> DEFINE h == [k \in 0..L |-> f[k]]
    <2>1. ASSUME NEW k \in 0..L
          PROVE  h[k] = IF k = 0 THEN 0 ELSE 10 * h[k - 1] + toDigit[s[k]]
      <3>1. CASE k = 0
        BY <1>4, <3>1
      <3>2. CASE k # 0
        <4>1. k \in 1..L /\ k - 1 \in 0..L
          BY <1>1, <3>2
        <4>2. h[k - 1] = f[k - 1] /\ h[k] = f[k]
          BY <4>1
        <4> HIDE DEF h
        <4>3. h[k] = 10 * h[k - 1] + toDigit[s[k]]
          BY <1>5, <4>1, <4>2
        <4> QED BY <3>2, <4>3
      <3> QED BY <3>1, <3>2
    <2> QED BY <2>1
  <1>7. R(c)
    <2> HIDE DEF R
    <2> QED BY <1>6
  <1>8. Decimal(s) = c[L]
    BY DEF Decimal
  <1> HIDE DEF c
  <1> DEFINE Good == {k \in Nat : k <= L => c[k] \in Nat}
  <1>9. 0 \in Good
    <2>1. 0 \in 0..L
      BY <1>1
    <2>2. c[0] = 0
      BY <1>7, <2>1
    <2> QED BY <2>2
  <1>10. ASSUME NEW k \in Nat, k \in Good PROVE k + 1 \in Good
    <2> SUFFICES ASSUME k + 1 <= L PROVE c[k + 1] \in Nat
      OBVIOUS
    <2>1. k + 1 \in 0..L /\ k + 1 \in 1..L /\ k + 1 # 0 /\ (k + 1) - 1 = k /\ k <= L
      BY <1>1
    <2>2. c[k + 1] = 10 * c[k] + toDigit[s[k + 1]]
      BY <1>7, <2>1
    <2>3. c[k] \in Nat /\ toDigit[s[k + 1]] \in Nat
      BY <1>1, <1>10, <2>1
    <2> QED BY <2>2, <2>3
  <1> HIDE DEF Good
  <1>11. L \in Good
    BY <1>1, <1>9, <1>10, NatInductionOnSet
  <1> QED BY <1>1, <1>8, <1>11 DEF Good

\* The turns of the switch, one after the other.
Takes(after, start) ==
    /\ after[0] = <<start + 1, NoSpec>>
    /\ \A k \in 1..N :
          after[k] = IF after[k - 1][2].terminal # NUL THEN after[k - 1]
                     ELSE Turn(after[k - 1][1], after[k - 1][2])
    /\ Parse(start) = after[N][2]

\* getOneSpec's loop, which Parse folds, is the recursion that takes one turn at a time.
LEMMA ParseRecursion ==
    ASSUME fmt \in Formats, NEW start
    PROVE  \E after : Takes(after, start)
  <1> DEFINE Step(x) == IF x[2].terminal # NUL THEN x ELSE Turn(x[1], x[2])
             base == <<start + 1, NoSpec>>
             R(h) == h = [k \in 0..N |->
                            IF k = 0 THEN <<start + 1, NoSpec>>
                            ELSE LET before == h[k - 1]
                                 IN  IF before[2].terminal # NUL THEN before
                                     ELSE Turn(before[1], before[2])]
             c == CHOOSE h : R(h)
             Starts(f, n) == f[0] = base /\ \A k \in 1..n : f[k] = Step(f[k - 1])
             Good == {n \in Nat : \E f : Starts(f, n)}
  <1>1. N \in Nat /\ N # 0
    BY Characters
  <1> HIDE DEF Step, base
  <1>2. 0 \in Good
    <2>1. Starts([k \in 0..0 |-> base], 0)
      OBVIOUS
    <2> QED BY <2>1
  <1>3. ASSUME NEW n \in Nat, n \in Good PROVE n + 1 \in Good
    <2>1. PICK f : Starts(f, n)
      BY <1>3
    <2> DEFINE h == [k \in 0..(n + 1) |-> IF k <= n THEN f[k] ELSE Step(f[n])]
    <2>2. h[0] = base
      BY <2>1
    <2>3. ASSUME NEW k \in 1..(n + 1) PROVE h[k] = Step(h[k - 1])
      <3>1. k - 1 \in 0..(n + 1) /\ k \in 0..(n + 1) /\ k - 1 <= n
        OBVIOUS
      <3>2. h[k - 1] = f[k - 1]
        BY <3>1
      <3>3. CASE k <= n
        <4>1. h[k] = f[k] /\ k \in 1..n
          BY <3>1, <3>3
        <4> HIDE DEF h
        <4> QED BY <2>1, <3>2, <4>1
      <3>4. CASE ~(k <= n)
        <4>1. h[k] = Step(f[n]) /\ k - 1 = n
          BY <3>1, <3>4
        <4> HIDE DEF h
        <4> QED BY <3>2, <4>1
      <3> QED BY <3>3, <3>4
    <2>4. Starts(h, n + 1)
      <3> HIDE DEF h
      <3> QED BY <2>2, <2>3
    <2>5. n + 1 \in Nat
      OBVIOUS
    <2> HIDE DEF h
    <2> QED BY <2>4, <2>5, Zenon
  <1> HIDE DEF Good
  <1>4. N \in Good
    BY <1>1, <1>2, <1>3, NatInductionOnSet
  <1>5. PICK f : Starts(f, N)
    BY <1>4 DEF Good
  <1>6. R([k \in 0..N |-> f[k]])
    <2> DEFINE h == [k \in 0..N |-> f[k]]
    <2>1. ASSUME NEW k \in 0..N
          PROVE  h[k] = IF k = 0 THEN base ELSE Step(h[k - 1])
      <3>1. CASE k = 0
        BY <1>5, <3>1
      <3>2. CASE k # 0
        <4>1. k \in 1..N /\ k - 1 \in 0..N
          BY <1>1, <3>2
        <4>2. h[k - 1] = f[k - 1] /\ h[k] = f[k]
          BY <4>1
        <4> HIDE DEF h
        <4> QED BY <1>5, <3>2, <4>1, <4>2
      <3> QED BY <3>1, <3>2
    <2>2. h = [k \in 0..N |-> IF k = 0 THEN base ELSE Step(h[k - 1])]
      BY <2>1
    <2> HIDE DEF h
    <2>3. R(h)
      BY <2>2 DEF Step, base
    <2> QED BY <2>3 DEF h
  <1>7. R(c)
    <2> HIDE DEF R
    <2> QED BY <1>6
  <1>8. Parse(start) = c[N][2]
    BY DEF Parse
  <1> HIDE DEF c
  <1>9. c = [k \in 0..N |-> IF k = 0 THEN base ELSE Step(c[k - 1])]
    BY <1>7 DEF Step, base
  <1>10. c[0] = base /\ \A k \in 1..N : c[k] = Step(c[k - 1])
    <2>1. 0 \in 0..N /\ \A k \in 1..N : k \in 0..N /\ k # 0
      BY <1>1
    <2> QED BY <1>9, <2>1
  <1>11. Takes(c, start)
    BY <1>8, <1>10 DEF Takes, Step, base
  <1> QED BY <1>11

\* The kinds of modifiers.
SoleModifier == {" ", "+", "#", "-", "L", "j", "z", "t"}

\* What the switch tells apart is apart: modifiers, terminals, lengths, digits and NUL.
LEMMA Kinds ==
    /\ \A c \in Modifier : c \in SoleModifier \cup {"0", ".", "*", "h", "l"}
                              \cup (Digit \ {"0"})
    /\ Modifier \cap Terminal = {} /\ NUL \notin Modifier \cup Terminal
    /\ "%" \notin Modifier \cup Terminal
    /\ SoleModifier \cap (Digit \cup {".", "*", "h", "l"}) = {}
    /\ Digit \cap {".", "*", "h", "l"} = {} /\ "0" \in Digit
    /\ Length \ {"L"} = {"h", "l", "j", "z", "t"}
    /\ Digit \subseteq Modifier
  <1>1. \A c \in Modifier : c \in SoleModifier \cup {"0", ".", "*", "h", "l"}
                                \cup (Digit \ {"0"})
    BY DigitSet DEF Modifier, SoleModifier, Flag, Length
  <1>2. Modifier \cap Terminal = {} /\ NUL \notin Modifier \cup Terminal
    BY DigitSet DEF Modifier, Flag, Length, Terminal, NUL
  <1>3. "%" \notin Modifier \cup Terminal
    BY DigitSet DEF Modifier, Flag, Length, Terminal
  <1>4. /\ SoleModifier \cap (Digit \cup {".", "*", "h", "l"}) = {}
        /\ Digit \cap {".", "*", "h", "l"} = {} /\ "0" \in Digit
    BY DigitSet DEF SoleModifier
  <1>5. Length \ {"L"} = {"h", "l", "j", "z", "t"}
    BY DEF Length
  <1>6. Digit \subseteq Modifier
    BY DEF Modifier
  <1> QED BY <1>1, <1>2, <1>3, <1>4, <1>5, <1>6

\* The SpecInfo before its terminal is known.
Info(flags, width, prec, sign, size, b) ==
    [flags |-> flags, width |-> width, prec |-> prec, sign |-> sign,
     intWidth |-> size, terminal |-> NUL, wFirst |-> b]

\* One turn of the switch, for each kind of modifier.
Blank == " "
WithBlank(sign) == IF sign = NUL THEN " " ELSE sign

\* ' ' sets the sign where no sign is set yet.
LEMMA TurnOnBlank ==
    ASSUME NEW pos, NEW f, NEW w, NEW p, NEW g, NEW s, NEW b \in BOOLEAN,
           At(pos) = Blank
    PROVE  Turn(pos, Info(f, w, p, g, s, b))
             = <<pos + 1, Info(f, w, p, WithBlank(g), s, b)>>
  <1> DEFINE si == Info(f, w, p, g, s, b)
             x == WithBlank(g)
  <1>1. " " \notin Digit /\ " " \notin Terminal
    BY DigitSet DEF Terminal
  <1>2. Turn(pos, si) = <<pos + 1, [si EXCEPT !.sign = WithBlank(@)]>>
    BY <1>1 DEF Turn, Blank, WithBlank
  <1>3. si.sign = g
    BY DEF Info
  <1> HIDE DEF x
  <1>4. [si EXCEPT !.sign = x] = Info(f, w, p, x, s, b)
    BY DEF Info
  <1> HIDE DEF si
  <1>5. Turn(pos, si) = <<pos + 1, Info(f, w, p, x, s, b)>>
    BY <1>2, <1>3, <1>4 DEF x
  <1> QED BY <1>5 DEF si, x

\* '+' sets the sign whatever it was.
LEMMA TurnOnPlus ==
    ASSUME NEW pos, NEW f, NEW w, NEW p, NEW g, NEW s, NEW b \in BOOLEAN,
           At(pos) = "+"
    PROVE  Turn(pos, Info(f, w, p, g, s, b)) = <<pos + 1, Info(f, w, p, "+", s, b)>>
  <1> DEFINE si == Info(f, w, p, g, s, b)
  <1>1. "+" \notin Digit /\ "+" \notin Terminal
    BY DigitSet DEF Terminal
  <1>2. Turn(pos, si) = <<pos + 1, [si EXCEPT !.sign = "+"]>>
    BY <1>1 DEF Turn
  <1>3. [si EXCEPT !.sign = "+"] = Info(f, w, p, "+", s, b)
    BY DEF Info
  <1> QED BY <1>2, <1>3

\* A flag joins the flags, and a repeated one changes nothing.
LEMMA TurnOnFlag ==
    ASSUME NEW pos, NEW f, NEW w, NEW p, NEW g, NEW s, NEW b \in BOOLEAN,
           At(pos) \in {"#", "-", "0", "L"}
    PROVE  \A x : x = f \cup {At(pos)} =>
              Turn(pos, Info(f, w, p, g, s, b)) = <<pos + 1, Info(x, w, p, g, s, b)>>
  <1> DEFINE si == Info(f, w, p, g, s, b)
             c == At(pos)
  <1>1. c \notin Digit \ {"0"} /\ c \notin Terminal
        /\ c \notin {" ", "+", "*", ".", "h", "l", "j", "z", "t"}
    BY DigitSet DEF Terminal
  <1>2. Turn(pos, si) = <<pos + 1, [si EXCEPT !.flags = @ \cup {c}]>>
    BY <1>1 DEF Turn
  <1>3. si.flags = f
    BY DEF Info
  <1>4. ASSUME NEW x
        PROVE  [Info(f, w, p, g, s, b) EXCEPT !.flags = x] = Info(x, w, p, g, s, b)
    BY DEF Info
  <1>5. TAKE x
  <1>6. HAVE x = f \cup {At(pos)}
  <1>7. [si EXCEPT !.flags = x] = Info(x, w, p, g, s, b)
    BY <1>4
  <1> HIDE DEF si
  <1>8. Turn(pos, si) = <<pos + 1, Info(x, w, p, g, s, b)>>
    BY <1>2, <1>3, <1>6, <1>7
  <1> QED BY <1>8 DEF si

\* j, z and t replace the length and take one character.
LEMMA TurnOnSoleSize ==
    ASSUME NEW pos, NEW f, NEW w, NEW p, NEW g, NEW s, NEW b \in BOOLEAN,
           At(pos) \in {"j", "z", "t"}
    PROVE  Turn(pos, Info(f, w, p, g, s, b))
             = <<pos + 1, Info(f, w, p, g, At(pos), b)>>
  <1> DEFINE si == Info(f, w, p, g, s, b)
             c == At(pos)
  <1>1. /\ c \notin Digit /\ c \notin Terminal
        /\ c \notin {" ", "+", "#", "-", "0", "L", "*", ".", "h", "l"}
    BY DigitSet DEF Terminal
  <1>2. Turn(pos, si) = <<pos + 1, [si EXCEPT !.intWidth = c]>>
    BY <1>1 DEF Turn
  <1>3. [si EXCEPT !.intWidth = c] = Info(f, w, p, g, c, b)
    BY DEF Info
  <1> QED BY <1>2, <1>3

\* h and l take a second one like them, and only then two characters.
LEMMA TurnOnSize ==
    ASSUME NEW pos, NEW f, NEW w, NEW p, NEW g, NEW s, NEW b \in BOOLEAN,
           At(pos) \in {"h", "l"}
    PROVE  Turn(pos, Info(f, w, p, g, s, b))
             = IF At(pos + 1) = At(pos)
               THEN <<pos + 2, Info(f, w, p, g, At(pos) \o At(pos), b)>>
               ELSE <<pos + 1, Info(f, w, p, g, At(pos), b)>>
  <1> DEFINE si == Info(f, w, p, g, s, b)
             c == At(pos)
             d == c \o c
  <1>1. /\ c \notin Digit /\ c \notin Terminal
        /\ c \notin {" ", "+", "#", "-", "0", "L", "*", ".", "j", "z", "t"}
    BY DigitSet DEF Terminal
  <1>2. CASE At(pos + 1) = c
    <2>1. Turn(pos, si) = <<pos + 2, [si EXCEPT !.intWidth = d]>>
      BY <1>1, <1>2 DEF Turn
    <2> HIDE DEF d
    <2>2. [si EXCEPT !.intWidth = d] = Info(f, w, p, g, d, b)
      BY DEF Info
    <2> QED BY <1>2, <2>1, <2>2 DEF d
  <1>3. CASE At(pos + 1) # c
    <2>1. Turn(pos, si) = <<pos + 1, [si EXCEPT !.intWidth = c]>>
      BY <1>1, <1>3 DEF Turn
    <2>2. [si EXCEPT !.intWidth = c] = Info(f, w, p, g, c, b)
      BY DEF Info
    <2> QED BY <1>3, <2>1, <2>2
  <1> QED BY <1>2, <1>3

\* '*' makes the width dynamic; c is whether it is the first dynamic one.
LEMMA TurnOnStar ==
    ASSUME NEW pos, NEW f, NEW w, NEW p, NEW g, NEW s, NEW b \in BOOLEAN,
           At(pos) = "*",
           NEW c \in BOOLEAN, c <=> b /\ p # DYNAMIC
    PROVE  Turn(pos, Info(f, w, p, g, s, b)) = <<pos + 1, Info(f, DYNAMIC, p, g, s, c)>>
  <1> DEFINE si == Info(f, w, p, g, s, b)
             sj == Info(f, DYNAMIC, p, g, s, b)
             sk == Info(f, DYNAMIC, p, g, s, c)
             d == (si.wFirst /\ si.prec # DYNAMIC)
  <1>1. "*" \notin Digit /\ "*" \notin Terminal
    BY DigitSet DEF Terminal
  <1>2. Turn(pos, si) = <<pos + 1, [si EXCEPT !.width = DYNAMIC, !.wFirst = d]>>
    BY <1>1 DEF Turn, StarWidth
  <1>3. c = d
    <2>1. (si.wFirst <=> b) /\ si.prec = p
      BY DEF Info
    <2> QED BY <2>1
  <1>4. [si EXCEPT !.width = DYNAMIC] = sj
    BY DEF Info
  <1>5. [sj EXCEPT !.wFirst = c] = sk
    BY DEF Info
  <1> HIDE DEF si, sj, sk, d
  <1>6. [si EXCEPT !.width = DYNAMIC, !.wFirst = c]
          = [[si EXCEPT !.width = DYNAMIC] EXCEPT !.wFirst = c]
    OBVIOUS
  <1>7. Turn(pos, si) = <<pos + 1, sk>>
    BY <1>2, <1>3, <1>4, <1>5, <1>6
  <1> QED BY <1>7 DEF si, sk

\* '.*' makes the precision dynamic; c is whether the width came first.
LEMMA TurnOnPointStar ==
    ASSUME NEW pos, NEW f, NEW w, NEW p, NEW g, NEW s, NEW b \in BOOLEAN,
           At(pos) = ".", At(pos + 1) = "*",
           NEW c \in BOOLEAN, c <=> b \/ w = DYNAMIC
    PROVE  Turn(pos, Info(f, w, p, g, s, b)) = <<pos + 2, Info(f, w, DYNAMIC, g, s, c)>>
  <1> DEFINE si == Info(f, w, p, g, s, b)
             sj == Info(f, w, DYNAMIC, g, s, b)
             sk == Info(f, w, DYNAMIC, g, s, c)
             d == (si.wFirst \/ si.width = DYNAMIC)
  <1>1. "." \notin Digit /\ "." \notin Terminal
    BY DigitSet DEF Terminal
  <1>2. Turn(pos, si) = <<pos + 2, [si EXCEPT !.prec = DYNAMIC, !.wFirst = d]>>
    BY <1>1 DEF Turn
  <1>3. c = d
    <2>1. (si.wFirst <=> b) /\ si.width = w
      BY DEF Info
    <2> QED BY <2>1
  <1>4. [si EXCEPT !.prec = DYNAMIC] = sj
    BY DEF Info
  <1>5. [sj EXCEPT !.wFirst = c] = sk
    BY DEF Info
  <1> HIDE DEF si, sj, sk, d
  <1>6. [si EXCEPT !.prec = DYNAMIC, !.wFirst = c]
          = [[si EXCEPT !.prec = DYNAMIC] EXCEPT !.wFirst = c]
    OBVIOUS
  <1>7. Turn(pos, si) = <<pos + 2, sk>>
    BY <1>2, <1>3, <1>4, <1>5, <1>6
  <1> QED BY <1>7 DEF si, sk

\* '.' before anything else reads the number behind it, which may be empty.
LEMMA TurnOnPoint ==
    ASSUME NEW pos, NEW f, NEW w, NEW p, NEW g, NEW s, NEW b \in BOOLEAN,
           At(pos) = ".", At(pos + 1) # "*"
    PROVE  Turn(pos, Info(f, w, p, g, s, b))
             = <<SkipDigits(pos + 1), Info(f, w, Number(pos + 1), g, s, b)>>
  <1> DEFINE si == Info(f, w, p, g, s, b)
             n == Number(pos + 1)
  <1>1. "." \notin Digit /\ "." \notin Terminal
    BY DigitSet DEF Terminal
  <1>2. Turn(pos, si) = <<SkipDigits(pos + 1), [si EXCEPT !.prec = n]>>
    BY <1>1 DEF Turn
  <1> HIDE DEF n
  <1>3. [si EXCEPT !.prec = n] = Info(f, w, n, g, s, b)
    BY DEF Info
  <1> QED BY <1>2, <1>3 DEF n

\* A digit but '0' reads the number that it begins as the width.
LEMMA TurnOnDigit ==
    ASSUME NEW pos, NEW f, NEW w, NEW p, NEW g, NEW s, NEW b \in BOOLEAN,
           At(pos) \in Digit \ {"0"}
    PROVE  Turn(pos, Info(f, w, p, g, s, b))
             = <<SkipDigits(pos), Info(f, Number(pos), p, g, s, b)>>
  <1> DEFINE si == Info(f, w, p, g, s, b)
             n == Number(pos)
             c == At(pos)
  <1>1. /\ c \notin {" ", "+", "#", "-", "0", "L", "*", ".", "h", "l", "j", "z", "t"}
        /\ c \notin Terminal
    BY DigitSet DEF Terminal
  <1>2. Turn(pos, si) = <<SkipDigits(pos), [si EXCEPT !.width = n]>>
    BY <1>1 DEF Turn
  <1> HIDE DEF n
  <1>3. [si EXCEPT !.width = n] = Info(f, n, p, g, s, b)
    BY DEF Info
  <1> QED BY <1>2, <1>3 DEF n

\* A terminal ends the specification.
LEMMA TurnOnTerminal ==
    ASSUME NEW pos, NEW si, At(pos) \in Terminal
    PROVE  Turn(pos, si) = <<pos + 1, [si EXCEPT !.terminal = At(pos)]>>
  <1> DEFINE c == At(pos)
  <1>1. /\ c \notin Digit
        /\ c \notin {" ", "+", "#", "-", "0", "L", "*", ".", "h", "l", "j", "z", "t"}
    BY DigitSet DEF Terminal
  <1> QED BY <1>1 DEF Turn

\* The greatest of a set of numbers.
LEMMA MaxIs ==
    ASSUME NEW S \in SUBSET Int, NEW x \in S, \A y \in S : y <= x
    PROVE  Max(S) = x
  <1> DEFINE Greatest(z) == z \in S /\ \A y \in S : z >= y
  <1>1. Max(S) = CHOOSE z : Greatest(z)
    BY DEF Max
  <1>2. Greatest(x)
    OBVIOUS
  <1>3. \A z : Greatest(z) => z = x
    OBVIOUS
  <1> HIDE DEF Greatest
  <1> QED BY <1>1, <1>2, <1>3

\* m are the modifiers and t the terminal of the specification at start.
SpecText(start, m, t) ==
    /\ start \in Nat /\ m \in Seq(Modifier) /\ t \in Terminal
    /\ start + 1 + Len(m) < Len(fmt)
    /\ \A j \in 1..Len(m) : At(start + j) = m[j]
    /\ At(start + 1 + Len(m)) = t

\* A number's digits end at the first character that is none.
LEMMA DigitsSkipped ==
    ASSUME fmt \in Formats, NEW pos \in 0..Len(fmt)
    PROVE  /\ SkipDigits(pos) \in pos..Len(fmt)
           /\ At(SkipDigits(pos)) \notin Digit
           /\ \A p \in pos..Len(fmt) : p < SkipDigits(pos) => At(p) \in Digit
  <1> DEFINE S == {p \in pos..Len(fmt) : At(p) \notin Digit}
  <1>1. Len(fmt) \in Nat /\ At(Len(fmt)) = NUL
    BY Characters
  <1>2. NUL \notin Digit
    BY Kinds
  <1>3. S \in SUBSET Nat /\ Len(fmt) \in S
    BY <1>1, <1>2
  <1>4. SkipDigits(pos) = Min(S)
    BY DEF SkipDigits
  <1>5. Min(S) \in S /\ \A y \in S : Min(S) <= y
    <2> HIDE DEF S
    <2> QED BY <1>3, MinOfSet
  <1>6. ASSUME NEW p \in pos..Len(fmt), p < Min(S) PROVE At(p) \in Digit
    <2>1. Min(S) \in Nat /\ p \in Nat
      BY <1>1, <1>5
    <2>2. p \notin S
      BY <1>5, <1>6, <2>1
    <2> QED BY <2>2
  <1> QED BY <1>4, <1>5, <1>6

\* The number behind the first i modifiers ends with the e-th.
NumberEnds(m, i, e) ==
    /\ e \in i..Len(m)
    /\ \A k \in (i + 1)..e : m[k] \in Digit
    /\ e < Len(m) => m[e + 1] \notin Digit

\* getOneSpec reads the number that the specification means.
LEMMA NumberIsValue ==
    ASSUME fmt \in Formats, NEW start, NEW m, NEW t, SpecText(start, m, t),
           NEW i \in 0..Len(m)
    PROVE  \E e : /\ NumberEnds(m, i, e)
                  /\ SkipDigits(start + 1 + i) = start + 1 + e
                  /\ Number(start + 1 + i) = Value(m, i + 1)
                  /\ Value(m, i + 1) \in Nat
  <1> DEFINE L == Len(m)
             pos == start + 1 + i
             skip == SkipDigits(pos)
             e == skip - (start + 1)
  <1>1. /\ start \in Nat /\ L \in Nat /\ Len(fmt) \in Nat /\ i \in 0..L
        /\ start + 1 + L < Len(fmt)
        /\ m \in Seq(Modifier) /\ fmt \in Seq(STRING \ {NUL})
    BY Characters, FormatAssumption DEF SpecText
  <1>2. /\ \A j \in 1..L : At(start + j) = m[j]
        /\ At(start + 1 + L) \notin Digit
    BY Kinds DEF SpecText
  <1>3. pos \in 0..Len(fmt) /\ pos \in Nat
    BY <1>1
  <1>4. /\ skip \in pos..Len(fmt) /\ At(skip) \notin Digit
        /\ \A p \in pos..Len(fmt) : p < skip => At(p) \in Digit
    BY <1>3, DigitsSkipped
  <1>5. skip <= start + 1 + L
    <2>1. start + 1 + L \in pos..Len(fmt)
      BY <1>1
    <2>2. ~(start + 1 + L < skip)
      BY <1>2, <1>4, <2>1
    <2> HIDE DEF skip
    <2> QED BY <1>1, <1>3, <1>4, <2>2
  <1>6. e \in i..L /\ start + 1 + e = skip
    <2> HIDE DEF skip
    <2> QED BY <1>1, <1>3, <1>4, <1>5
  <1>7. ASSUME NEW k \in (i + 1)..e PROVE m[k] \in Digit
    <2>1. start + k \in pos..Len(fmt) /\ start + k < skip /\ k \in 1..L
      <3> HIDE DEF skip
      <3> QED BY <1>1, <1>3, <1>4, <1>6
    <2> QED BY <1>2, <1>4, <2>1
  <1>8. ASSUME e < L PROVE m[e + 1] \notin Digit
    <2>1. e + 1 \in 1..L /\ start + (e + 1) = skip
      <3> HIDE DEF skip
      <3> QED BY <1>1, <1>3, <1>4, <1>6, <1>8
    <2>2. At(start + (e + 1)) = m[e + 1]
      BY <1>2, <2>1
    <2> QED BY <1>4, <2>1, <2>2
  <1>9. NumberEnds(m, i, e)
    <2> HIDE DEF e
    <2> QED BY <1>6, <1>7, <1>8 DEF NumberEnds
  <1> HIDE DEF e
  <1>10. RunEnd(m, i + 1) = e
    <2> DEFINE S == {k \in (i + 1)..L : \A j \in (i + 1)..k : m[j] \in Digit}
               T == {i} \cup S
    <2>1. RunEnd(m, i + 1) = Max(T)
      <3>1. (i + 1) - 1 = i
        BY <1>1
      <3> QED BY <3>1 DEF RunEnd
    <2>2. T \in SUBSET Int /\ e \in Int
      BY <1>1, <1>6
    <2>3. e \in T
      <3>1. CASE e = i
        BY <3>1
      <3>2. CASE e # i
        <4>1. e \in (i + 1)..L
          BY <1>1, <1>6, <3>2
        <4> QED BY <1>7, <4>1
      <3> QED BY <3>1, <3>2
    <2>4. ASSUME NEW k \in T PROVE k <= e
      <3>1. CASE k = i
        BY <1>1, <1>6, <3>1
      <3>2. CASE k \in S
        <4>1. k \in (i + 1)..L /\ \A j \in (i + 1)..k : m[j] \in Digit
          BY <3>2
        <4>2. ASSUME e < k PROVE FALSE
          <5>1. e < L /\ e + 1 \in (i + 1)..k
            BY <1>1, <1>6, <4>1, <4>2
          <5> QED BY <1>8, <4>1, <5>1
        <4> QED BY <1>1, <2>2, <4>1, <4>2
      <3> QED BY <3>1, <3>2
    <2> HIDE DEF T
    <2> QED BY <2>1, <2>2, <2>3, <2>4, MaxIs
  <1> DEFINE u == SubSeq(m, i + 1, e)
             v == SubSeq(fmt, start + i + 2, start + 1 + e)
  <1>11. /\ i + 1 \in Int /\ e \in Int
         /\ start + i + 2 \in Int /\ start + 1 + e \in Int
    BY <1>1, <1>6
  <1>12. u \in Seq(Digit) /\ Len(u) = e - i
         /\ \A k \in 1..(e - i) : u[k] = m[i + k]
    <2>1. /\ u \in Seq(Digit)
          /\ Len(u) = IF i + 1 <= e THEN e - (i + 1) + 1 ELSE 0
          /\ \A k \in 1..e - (i + 1) + 1 : u[k] = m[(i + 1) + k - 1]
      <3>1. \A k \in (i + 1)..e : m[k] \in Digit
        BY <1>7
      <3> QED BY ONLY <1>11, <3>1, SubSeqProperties
    <2>2. e - (i + 1) + 1 = e - i
      BY <1>1, <1>6
    <2>3. \A k \in 1..(e - i) : (i + 1) + k - 1 = i + k
      BY <1>1, <1>6
    <2> HIDE DEF u
    <2> QED BY <1>1, <1>6, <2>1, <2>2, <2>3
  <1>13. v \in Seq(Digit) /\ Len(v) = e - i
         /\ \A k \in 1..(e - i) : v[k] = m[i + k]
    <2>1. ASSUME NEW k \in (start + i + 2)..(start + 1 + e)
          PROVE  fmt[k] = m[k - (start + 1)] /\ fmt[k] \in Digit
      <3>1. /\ k - (start + 1) \in (i + 1)..e /\ k - (start + 1) \in 1..L
            /\ start + (k - (start + 1)) = k - 1 /\ k - 1 < Len(fmt)
            /\ (k - 1) + 1 = k
        BY <1>1, <1>6
      <3>2. At(k - 1) = m[k - (start + 1)]
        BY <1>2, <3>1
      <3>3. At(k - 1) = fmt[k]
        BY <3>1 DEF At
      <3> QED BY <1>7, <3>1, <3>2, <3>3
    <2>2. /\ v \in Seq(Digit)
          /\ Len(v) = IF start + i + 2 <= start + 1 + e
                      THEN (start + 1 + e) - (start + i + 2) + 1 ELSE 0
          /\ \A k \in 1..(start + 1 + e) - (start + i + 2) + 1 :
                v[k] = fmt[(start + i + 2) + k - 1]
      BY <1>11, <2>1, SubSeqProperties
    <2>3. /\ (start + 1 + e) - (start + i + 2) + 1 = e - i
          /\ \A k \in 1..(e - i) :
                /\ (start + i + 2) + k - 1 \in (start + i + 2)..(start + 1 + e)
                /\ (start + i + 2) + k - 1 - (start + 1) = i + k
      BY <1>1, <1>6
    <2> HIDE DEF v
    <2> QED BY <1>1, <1>6, <2>1, <2>2, <2>3
  <1>14. u = v
    <2> HIDE DEF u, v
    <2> QED BY <1>12, <1>13, SeqEqual
  <1>15. Value(m, i + 1) = Decimal(u)
    BY <1>10 DEF Value
  <1>16. Number(pos) = Decimal(v)
    <2>1. pos + 1 = start + i + 2 /\ skip = start + 1 + e
      BY <1>1, <1>6
    <2> QED BY <2>1 DEF Number
  <1>17. Value(m, i + 1) \in Nat
    <2> HIDE DEF u
    <2> QED BY <1>12, <1>15, DecimalType
  <1>18. Number(pos) = Value(m, i + 1)
    BY <1>14, <1>15, <1>16
  <1> HIDE DEF u, v
  <1> QED BY <1>6, <1>9, <1>17, <1>18

\* The last member of S up to i, 0 if there is none.
LastAt(S, i, x) ==
    x \in S \cup {0} /\ x <= i /\ \A y \in S : y <= i => y <= x

\* Of S, the modifiers behind i up to j hold x last, or nothing if x is 0.
Sets(S, i, j, x) ==
    IF x = 0 THEN \A y \in S : ~(i < y /\ y <= j)
    ELSE x \in S /\ i < x /\ x <= j /\ \A y \in S : i < y /\ y <= j => y <= x

\* The last setter of a longer text: the new text's last one, or the old one.
LEMMA LastMoves ==
    ASSUME NEW S \in SUBSET Nat, NEW i \in Nat, NEW j \in Nat, i <= j,
           NEW x, LastAt(S, i, x), NEW y, Sets(S, i, j, y)
    PROVE  LastAt(S, j, IF y = 0 THEN x ELSE y)
  <1>1. x \in Nat
    BY DEF LastAt
  <1>2. CASE y = 0
    BY <1>1, <1>2 DEF LastAt, Sets
  <1>3. CASE y # 0
    <2>1. y \in S /\ i < y /\ y <= j /\ \A z \in S : i < z /\ z <= j => z <= y
      BY <1>3 DEF Sets
    <2>2. ASSUME NEW z \in S, z <= j PROVE z <= y
      <3>1. z \in Nat /\ y \in Nat
        BY <2>1
      <3>2. CASE i < z
        BY <2>1, <2>2, <3>2
      <3>3. CASE ~(i < z)
        BY <2>1, <3>1, <3>3
      <3> QED BY <3>2, <3>3
    <2>3. LastAt(S, j, y)
      BY <2>1, <2>2 DEF LastAt
    <2> QED BY <1>3, <2>3
  <1> QED BY <1>2, <1>3

\* What the settings are when their last setters are at these places.
StarAt(m, w) == w > 0 /\ m[w] = "*"
StarBehind(m, p) == p > 0 /\ p < Len(m) /\ m[p + 1] = "*"
WidthOf(m, w) ==
    IF StarAt(m, w) THEN DYNAMIC ELSE IF w = 0 THEN 0 ELSE Value(m, w)
PrecOf(m, p) ==
    IF StarBehind(m, p) THEN DYNAMIC ELSE IF p = 0 THEN -1 ELSE Value(m, p + 1)
SizeName(m, s) ==
    IF s = 0 THEN "int"
    ELSE IF m[s] \in {"h", "l"} /\ IsPaired(m, s) THEN m[s] \o m[s] ELSE m[s]
FlagsIn(m, i) == {m[j] : j \in {k \in FlagAt(m) : k <= i}}
SignIn(m, i) ==
    IF \E j \in 1..i : m[j] = "+" THEN "+"
    ELSE IF \E j \in 1..i : m[j] = " " THEN " " ELSE NUL

\* The places of the setters.
LEMMA SettersOf ==
    ASSUME NEW m \in Seq(Modifier)
    PROVE  /\ Len(m) \in Nat
           /\ WidthAt(m) \in SUBSET (1..Len(m)) /\ WidthAt(m) \in SUBSET Nat
           /\ PrecAt(m) \in SUBSET (1..Len(m)) /\ PrecAt(m) \in SUBSET Nat
           /\ SizeAt(m) \in SUBSET (1..Len(m)) /\ SizeAt(m) \in SUBSET Nat
           /\ FlagAt(m) \in SUBSET (1..Len(m)) /\ FlagAt(m) \in SUBSET Nat
  BY DEF WidthAt, PrecAt, SizeAt, FlagAt

\* What a character sets by itself.
LEMMA CharacterSets ==
    ASSUME NEW m \in Seq(Modifier), NEW k \in 1..Len(m)
    PROVE  /\ m[k] \notin Digit => ~InPrec(m, k) /\ ~InWidth(m, k)
           /\ m[k] \notin Digit \cup {"*"} => k \notin WidthAt(m)
           /\ k \in PrecAt(m) <=> m[k] = "."
           /\ k \in SizeAt(m) <=> m[k] \in {"h", "l", "j", "z", "t"}
           /\ m[k] \in {"#", "-", "L"} => k \in FlagAt(m)
           /\ k \in FlagAt(m) => m[k] \in {"#", "-", "L", "0"}
  <1>1. Len(m) \in Nat
    OBVIOUS
  <1>2. ASSUME m[k] \notin Digit PROVE ~InPrec(m, k) /\ ~InWidth(m, k)
    <2>1. ~InPrec(m, k)
      BY <1>2 DEF InPrec
    <2>2. ASSUME NEW j \in 1..k, \A l \in j..k : m[l] \in Digit PROVE FALSE
      <3>1. k \in j..k
        BY <1>1
      <3> QED BY <1>2, <2>2, <3>1
    <2> QED BY <2>1, <2>2 DEF InWidth
  <1>3. m[k] \notin Digit \cup {"*"} => k \notin WidthAt(m)
    BY <1>2 DEF WidthAt
  <1>4. k \in PrecAt(m) <=> m[k] = "."
    BY DEF PrecAt
  <1>5. k \in SizeAt(m) <=> m[k] \in {"h", "l", "j", "z", "t"}
    BY Kinds DEF SizeAt
  <1>6. /\ m[k] \in {"#", "-", "L"} => k \in FlagAt(m)
        /\ k \in FlagAt(m) => m[k] \in {"#", "-", "L", "0"}
    BY DEF FlagAt
  <1> QED BY <1>2, <1>3, <1>4, <1>5, <1>6

\* Flags and signs up to j, from those up to i.
LEMMA FlagsMove ==
    ASSUME NEW m \in Seq(Modifier), NEW i \in 0..Len(m), NEW j \in i..Len(m),
           NEW f, Sets(FlagAt(m), i, j, f), f # 0 => f = i + 1 /\ j = i + 1
    PROVE  FlagsIn(m, j) = FlagsIn(m, i) \cup (IF f = 0 THEN {} ELSE {m[f]})
  <1>1. Len(m) \in Nat /\ FlagAt(m) \in SUBSET Nat
    BY SettersOf
  <1> DEFINE F(n) == {k \in FlagAt(m) : k <= n}
  <1>2. CASE f = 0
    <2>1. F(j) = F(i)
      BY <1>1, <1>2 DEF Sets
    <2> QED BY <1>2, <2>1 DEF FlagsIn
  <1>3. CASE f # 0
    <2>1. F(j) = F(i) \cup {f}
      BY <1>1, <1>3 DEF Sets
    <2>2. FlagsIn(m, j) = {m[k] : k \in F(j)} /\ FlagsIn(m, i) = {m[k] : k \in F(i)}
      BY DEF FlagsIn
    <2> HIDE DEF F
    <2> QED BY <1>3, <2>1, <2>2
  <1> QED BY <1>2, <1>3

Signless(m, i, j) == \A k \in (i + 1)..j : m[k] \notin {"+", " "}

\* Text without a sign leaves the sign as it was.
LEMMA SignStays ==
    ASSUME NEW m \in Seq(Modifier), NEW i \in 0..Len(m), NEW j \in i..Len(m),
           Signless(m, i, j)
    PROVE  SignIn(m, j) = SignIn(m, i)
  <1>1. i \in Nat /\ j \in Nat /\ i <= j
    OBVIOUS
  <1>2. 1..i \subseteq 1..j
    BY <1>1
  <1>3. ASSUME NEW k \in 1..j, m[k] \in {"+", " "} PROVE k \in 1..i
    <2>1. k \in 1..i \/ k \in (i + 1)..j
      BY <1>1
    <2> QED BY <1>3, <2>1 DEF Signless
  <1>4. (\E k \in 1..j : m[k] = "+") <=> (\E k \in 1..i : m[k] = "+")
    BY <1>2, <1>3
  <1>5. (\E k \in 1..j : m[k] = " ") <=> (\E k \in 1..i : m[k] = " ")
    BY <1>2, <1>3
  <1> QED BY <1>4, <1>5 DEF SignIn

\* One more sign: '+' always prevails, ' ' only over none.
LEMMA SignMoves ==
    ASSUME NEW m \in Seq(Modifier), NEW i \in 0..(Len(m) - 1)
    PROVE  /\ m[i + 1] = "+" => SignIn(m, i + 1) = "+"
           /\ m[i + 1] = " " => SignIn(m, i + 1) = IF SignIn(m, i) = NUL THEN " "
                                                   ELSE SignIn(m, i)
           /\ SignIn(m, i) \in {NUL, " ", "+"}
  <1>1. Len(m) \in Nat /\ i + 1 \in 1..(i + 1) /\ 1..i \subseteq 1..(i + 1)
    OBVIOUS
  <1>2. \A k \in 1..(i + 1) : k \in 1..i \/ k = i + 1
    BY <1>1
  <1>3. SignIn(m, i) \in {NUL, " ", "+"}
    BY DEF SignIn
  <1>4. m[i + 1] = "+" => SignIn(m, i + 1) = "+"
    BY <1>1 DEF SignIn
  <1>5. ASSUME m[i + 1] = " "
        PROVE  SignIn(m, i + 1) = IF SignIn(m, i) = NUL THEN " " ELSE SignIn(m, i)
    <2>1. (\E k \in 1..(i + 1) : m[k] = "+") <=> (\E k \in 1..i : m[k] = "+")
      BY <1>1, <1>2, <1>5
    <2>2. \E k \in 1..(i + 1) : m[k] = " "
      BY <1>1, <1>5
    <2> QED BY <2>1, <2>2 DEF SignIn, NUL
  <1> QED BY <1>3, <1>4, <1>5

\* The SpecInfo when the last setters are at w, p and s.
Known(m, i, w, p, s, b) ==
    Info(FlagsIn(m, i), WidthOf(m, w), PrecOf(m, p), SignIn(m, i),
         SizeName(m, s), b)

\* b says whether the width's '*' comes before the precision's.
StarOrder(m, w, p, b) ==
    /\ b \in BOOLEAN
    /\ StarAt(m, w) /\ StarBehind(m, p) => (b <=> w < p)

SettersAt(m, i, w, p, s) ==
    /\ LastAt(WidthAt(m), i, w) /\ LastAt(PrecAt(m), i, p)
    /\ LastAt(SizeAt(m), i, s)

\* The SpecInfo si is what the first i modifiers mean.
Learnt(m, i, si) ==
    \E w, p, s, b : /\ SettersAt(m, i, w, p, s) /\ StarOrder(m, w, p, b)
                    /\ si = Known(m, i, w, p, s, b)

\* Behind the first i modifiers no number, precision or pair goes on.
TokenBoundary(m, i) ==
    0 < i /\ i < Len(m) =>
        /\ m[i + 1] \in Digit => ~InPrec(m, i) /\ ~InWidth(m, i) /\ m[i] # "."
        /\ m[i + 1] = "*" => m[i] # "."
        /\ m[i] \in {"h", "l"} /\ m[i + 1] = m[i] => IsPaired(m, i)

\* A turn of the switch that begins behind the first i modifiers ends behind
\* more of them.
Progress(start, m, i, si) ==
    \E j, sj : /\ Turn(start + 1 + i, si) = <<start + 1 + j, sj>>
               /\ j \in (i + 1)..Len(m)
               /\ TokenBoundary(m, j) /\ Learnt(m, j, sj)

\* The last setters of width, precision and length after one more token.
LEMMA SettersMove ==
    ASSUME NEW m \in Seq(Modifier), NEW i \in 0..Len(m), NEW j \in i..Len(m),
           NEW w, NEW p, NEW s, SettersAt(m, i, w, p, s),
           NEW x, NEW y, NEW z, Sets(WidthAt(m), i, j, x),
           Sets(PrecAt(m), i, j, y), Sets(SizeAt(m), i, j, z)
    PROVE  SettersAt(m, j, IF x = 0 THEN w ELSE x, IF y = 0 THEN p ELSE y,
                     IF z = 0 THEN s ELSE z)
  <1>1. /\ WidthAt(m) \in SUBSET Nat /\ PrecAt(m) \in SUBSET Nat
        /\ SizeAt(m) \in SUBSET Nat /\ i \in Nat /\ j \in Nat /\ i <= j
    <2>1. Len(m) \in Nat /\ WidthAt(m) \in SUBSET Nat /\ PrecAt(m) \in SUBSET Nat
          /\ SizeAt(m) \in SUBSET Nat
      BY SettersOf
    <2> QED BY <2>1
  <1>2. LastAt(WidthAt(m), j, IF x = 0 THEN w ELSE x)
    <2>1. LastAt(WidthAt(m), i, w)
      BY DEF SettersAt
    <2> QED BY <1>1, <2>1, LastMoves
  <1>3. LastAt(PrecAt(m), j, IF y = 0 THEN p ELSE y)
    <2>1. LastAt(PrecAt(m), i, p)
      BY DEF SettersAt
    <2> QED BY <1>1, <2>1, LastMoves
  <1>4. LastAt(SizeAt(m), j, IF z = 0 THEN s ELSE z)
    <2>1. LastAt(SizeAt(m), i, s)
      BY DEF SettersAt
    <2> QED BY <1>1, <2>1, LastMoves
  <1> QED BY <1>2, <1>3, <1>4 DEF SettersAt

\* The modifier behind the first i, where it stands.
LEMMA NextModifier ==
    ASSUME fmt \in Formats, NEW start, NEW m, NEW t, SpecText(start, m, t),
           NEW i \in 0..(Len(m) - 1)
    PROVE  /\ m \in Seq(Modifier) /\ Len(m) \in Nat /\ i \in Nat /\ start \in Nat
           /\ i \in 0..Len(m) /\ i + 1 \in i..Len(m) /\ i + 1 \in 1..Len(m)
           /\ i + 1 \in (i + 1)..Len(m)
           /\ i + 1 # 0 /\ start + 1 + i \in Nat
           /\ At(start + 1 + i) = m[i + 1] /\ m[i + 1] \in Modifier
           /\ (start + 1 + i) + 1 = start + 1 + (i + 1)
  <1>1. /\ m \in Seq(Modifier) /\ Len(m) \in Nat /\ start \in Nat
        /\ \A j \in 1..Len(m) : At(start + j) = m[j]
    BY DEF SpecText
  <1>2. i + 1 \in 1..Len(m) /\ start + (i + 1) = start + 1 + i
    BY <1>1
  <1>3. At(start + (i + 1)) = m[i + 1]
    BY <1>1, <1>2
  <1> QED BY <1>1, <1>2, <1>3

\* And the character behind that one.
LEMMA NextButOne ==
    ASSUME fmt \in Formats, NEW start, NEW m, NEW t, SpecText(start, m, t),
           NEW i \in 0..(Len(m) - 1)
    PROVE  At(start + 1 + (i + 1)) = IF i + 1 < Len(m) THEN m[i + 2] ELSE t
  <1>1. /\ Len(m) \in Nat /\ start \in Nat
        /\ \A j \in 1..Len(m) : At(start + j) = m[j]
        /\ At(start + 1 + Len(m)) = t
    BY DEF SpecText
  <1>2. CASE i + 1 < Len(m)
    <2>1. i + 2 \in 1..Len(m) /\ start + (i + 2) = start + 1 + (i + 1)
      BY <1>1, <1>2
    <2>2. At(start + (i + 2)) = m[i + 2]
      BY <1>1, <2>1
    <2> QED BY <1>2, <2>1, <2>2
  <1>3. CASE ~(i + 1 < Len(m))
    <2>1. i + 1 = Len(m)
      BY <1>1, <1>3
    <2> QED BY <1>1, <1>3, <2>1
  <1> QED BY <1>2, <1>3

\* A single character that is its own token.
LEMMA SoleSets ==
    ASSUME NEW m \in Seq(Modifier), NEW i \in 0..(Len(m) - 1),
           m[i + 1] \in SoleModifier
    PROVE  /\ Sets(WidthAt(m), i, i + 1, 0) /\ Sets(PrecAt(m), i, i + 1, 0)
           /\ Sets(SizeAt(m), i, i + 1,
                   IF m[i + 1] \in {"j", "z", "t"} THEN i + 1 ELSE 0)
           /\ Sets(FlagAt(m), i, i + 1,
                   IF m[i + 1] \in {"#", "-", "L"} THEN i + 1 ELSE 0)
           /\ TokenBoundary(m, i + 1)
  <1> DEFINE c == m[i + 1]
  <1>1. /\ Len(m) \in Nat /\ i \in Nat /\ i + 1 \in 1..Len(m) /\ i + 1 # 0
        /\ WidthAt(m) \in SUBSET Nat /\ PrecAt(m) \in SUBSET Nat
        /\ SizeAt(m) \in SUBSET Nat /\ FlagAt(m) \in SUBSET Nat
    BY SettersOf
  <1>2. c \notin Digit \cup {".", "*", "h", "l"}
    BY Kinds
  <1>3. /\ ~InPrec(m, i + 1) /\ ~InWidth(m, i + 1)
        /\ i + 1 \notin WidthAt(m) /\ i + 1 \notin PrecAt(m)
        /\ i + 1 \in SizeAt(m) <=> c \in {"j", "z", "t"}
        /\ i + 1 \in FlagAt(m) <=> c \in {"#", "-", "L"}
    <2>1. c # "0"
      BY <1>2, Kinds
    <2> QED BY <1>1, <1>2, <2>1, CharacterSets
  <1>4. \A k \in Nat : i < k /\ k <= i + 1 => k = i + 1
    BY <1>1
  <1>5. Sets(WidthAt(m), i, i + 1, 0) /\ Sets(PrecAt(m), i, i + 1, 0)
    BY <1>1, <1>3, <1>4 DEF Sets
  <1>6. Sets(SizeAt(m), i, i + 1, IF c \in {"j", "z", "t"} THEN i + 1 ELSE 0)
    BY <1>1, <1>3, <1>4 DEF Sets
  <1>7. Sets(FlagAt(m), i, i + 1, IF c \in {"#", "-", "L"} THEN i + 1 ELSE 0)
    BY <1>1, <1>3, <1>4 DEF Sets
  <1>8. TokenBoundary(m, i + 1)
    BY <1>2, <1>3 DEF TokenBoundary
  <1> QED BY <1>5, <1>6, <1>7, <1>8

\* A flag, a sign or a sole size.
LEMMA SoleRead ==
    ASSUME fmt \in Formats, NEW start, NEW m, NEW t, SpecText(start, m, t),
           NEW i \in 0..(Len(m) - 1), NEW si, Learnt(m, i, si),
           m[i + 1] \in SoleModifier
    PROVE  Progress(start, m, i, si)
  <1> DEFINE c == m[i + 1]
             j == i + 1
             x == IF c \in {"j", "z", "t"} THEN j ELSE 0
             f == IF c \in {"#", "-", "L"} THEN j ELSE 0
  <1>1. /\ m \in Seq(Modifier) /\ Len(m) \in Nat /\ i \in Nat
        /\ i \in 0..Len(m) /\ j \in i..Len(m) /\ j \in 1..Len(m) /\ j # 0
        /\ j \in (i + 1)..Len(m)
        /\ At(start + 1 + i) = c /\ (start + 1 + i) + 1 = start + 1 + j
    BY NextModifier
  <1>2. PICK w, p, s, b : /\ SettersAt(m, i, w, p, s) /\ StarOrder(m, w, p, b)
                          /\ si = Known(m, i, w, p, s, b)
    BY DEF Learnt
  <1>3. /\ Sets(WidthAt(m), i, j, 0) /\ Sets(PrecAt(m), i, j, 0)
        /\ Sets(SizeAt(m), i, j, x) /\ Sets(FlagAt(m), i, j, f)
        /\ TokenBoundary(m, j)
    BY <1>1, SoleSets
  <1> DEFINE g == IF x = 0 THEN s ELSE x
             sj == Known(m, j, w, p, g, b)
  <1>4. SettersAt(m, j, w, p, g)
    <2> HIDE DEF x, j
    <2> QED BY <1>1, <1>2, <1>3, SettersMove
  <1>5. Learnt(m, j, sj)
    <2> HIDE DEF sj, g, x
    <2>1. sj = Known(m, j, w, p, g, b)
      BY DEF sj
    <2> QED BY <1>2, <1>4, <2>1 DEF Learnt
  <1>6. FlagsIn(m, j) = FlagsIn(m, i) \cup (IF f = 0 THEN {} ELSE {m[f]})
    <2>1. f # 0 => f = i + 1 /\ j = i + 1
      OBVIOUS
    <2> HIDE DEF f, j
    <2> QED BY <1>1, <1>3, <2>1, FlagsMove
  <1>7. /\ c \notin {"+", Blank} => SignIn(m, j) = SignIn(m, i)
        /\ c = "+" => SignIn(m, j) = "+"
        /\ c = Blank => SignIn(m, j) = WithBlank(SignIn(m, i))
    <2>1. ASSUME c \notin {"+", Blank} PROVE SignIn(m, j) = SignIn(m, i)
      <3>1. Signless(m, i, j)
        <4>1. \A k \in (i + 1)..j : k = i + 1
          BY <1>1
        <4> QED BY <2>1, <4>1 DEF Signless, Blank
      <3> HIDE DEF j
      <3> QED BY <1>1, <3>1, SignStays
    <2>2. ASSUME c = "+" PROVE SignIn(m, j) = "+"
      BY <1>1, <2>2, SignMoves
    <2>3. ASSUME c = Blank PROVE SignIn(m, j) = WithBlank(SignIn(m, i))
      BY <1>1, <2>3, SignMoves DEF Blank, WithBlank
    <2> QED BY <2>1, <2>2, <2>3
  <1> DEFINE W == WidthOf(m, w)
             P == PrecOf(m, p)
             F == FlagsIn(m, i)
             G == SignIn(m, i)
             S == SizeName(m, s)
  <1>8. /\ b \in BOOLEAN /\ si = Info(F, W, P, G, S, b)
        /\ sj = Info(FlagsIn(m, j), W, P, SignIn(m, j), SizeName(m, g), b)
    BY <1>2 DEF Known, StarOrder
  <1>9. Turn(start + 1 + i, si) = <<start + 1 + j, sj>>
    <2>1. CASE c = Blank
      <3>1. x = 0 /\ f = 0 /\ c # "+"
        BY <2>1 DEF Blank
      <3>2. FlagsIn(m, j) = F /\ SignIn(m, j) = WithBlank(G) /\ g = s
        BY <1>6, <1>7, <2>1, <3>1
      <3> HIDE DEF sj, f, x, g, W, P, F, G
      <3>3. sj = Info(F, W, P, WithBlank(G), S, b)
        BY <1>8, <3>2 DEF G
      <3>4. At(start + 1 + i) = Blank
        BY <1>1, <2>1
      <3> HIDE DEF S, c, j
      <3> QED BY <1>1, <1>8, <3>3, <3>4, TurnOnBlank
    <2>2. CASE c = "+"
      <3>1. x = 0 /\ f = 0
        BY <2>2
      <3>2. FlagsIn(m, j) = F /\ SignIn(m, j) = "+" /\ g = s
        BY <1>6, <1>7, <2>2, <3>1
      <3> HIDE DEF sj, f, x, g, W, P, F, G
      <3>3. sj = Info(F, W, P, "+", S, b)
        BY <1>8, <3>2
      <3>4. At(start + 1 + i) = "+"
        BY <1>1, <2>2
      <3> HIDE DEF S, c, j
      <3> QED BY <1>1, <1>8, <3>3, <3>4, TurnOnPlus
    <2>3. CASE c \in {"#", "-", "L"}
      <3>1. x = 0 /\ f = j /\ c \notin {"+", Blank}
        BY <2>3 DEF Blank
      <3>2. FlagsIn(m, j) = F \cup {c} /\ SignIn(m, j) = G /\ g = s
        BY <1>1, <1>6, <1>7, <2>3, <3>1
      <3> DEFINE FC == F \cup {c}
      <3> HIDE DEF sj, f, x, g, W, P, F, G
      <3>3. sj = Info(FC, W, P, G, S, b)
        BY <1>8, <3>2
      <3>4. At(start + 1 + i) \in {"#", "-", "0", "L"} /\ FC = F \cup {At(start + 1 + i)}
        BY <1>1, <2>3
      <3> HIDE DEF S, c, j, FC
      <3> QED BY <1>1, <1>8, <3>3, <3>4, TurnOnFlag
    <2>4. CASE c \in {"j", "z", "t"}
      <3>1. x = j /\ f = 0 /\ c \notin {"+", Blank}
        BY <2>4 DEF Blank
      <3>2. SizeName(m, g) = c /\ FlagsIn(m, j) = F /\ SignIn(m, j) = G
        <4>1. SizeName(m, g) = c
          BY <1>1, <2>4, <3>1 DEF SizeName
        <4> QED BY <1>6, <1>7, <3>1, <4>1
      <3> HIDE DEF sj, f, x, g, W, P, F, G
      <3>3. sj = Info(F, W, P, G, c, b)
        BY <1>8, <3>2
      <3>4. At(start + 1 + i) \in {"j", "z", "t"} /\ At(start + 1 + i) = c
        BY <1>1, <2>4
      <3> HIDE DEF S, c, j
      <3> QED BY <1>1, <1>8, <3>3, <3>4, TurnOnSoleSize
    <2>5. c \in {Blank, "+", "#", "-", "L", "j", "z", "t"}
      BY DEF SoleModifier, Blank
    <2> QED BY <2>1, <2>2, <2>3, <2>4, <2>5
  <1> HIDE DEF sj, g, x, f
  <1> QED BY <1>1, <1>3, <1>5, <1>9 DEF Progress

\* Digits at a boundary are not of a precision; they are of a width unless they
\* begin with a '0'.
LEMMA DigitsAtBoundary ==
    ASSUME NEW m \in Seq(Modifier), NEW i \in 0..(Len(m) - 1), TokenBoundary(m, i),
           NEW e \in (i + 1)..Len(m), \A k \in (i + 1)..e : m[k] \in Digit
    PROVE  \A k \in (i + 1)..e : ~InPrec(m, k) /\ (m[i + 1] # "0" => InWidth(m, k))
  <1>1. Len(m) \in Nat /\ i \in Nat /\ i + 1 \in (i + 1)..e /\ i < Len(m)
    OBVIOUS
  <1>2. "." \notin Digit
    BY Kinds
  <1> TAKE k \in (i + 1)..e
  <1>3. ~InPrec(m, k)
    <2> SUFFICES ASSUME NEW j \in 1..(k - 1), m[j] = ".",
                        \A l \in (j + 1)..k : m[l] \in Digit
                 PROVE  FALSE
      BY DEF InPrec
    <2>1. ~(i + 1 <= j)
      <3>1. i + 1 <= j => j \in (i + 1)..e
        BY <1>1
      <3> QED BY <1>2, <3>1
    <2>2. 0 < i /\ j <= i
      BY <1>1, <2>1
    <2>3. ~InPrec(m, i) /\ m[i] # "."
      BY <1>1, <2>2 DEF TokenBoundary
    <2>4. j # i
      BY <2>3
    <2>5. j \in 1..(i - 1) /\ i \in (j + 1)..k
      BY <1>1, <2>2, <2>4
    <2>6. \A l \in (j + 1)..i : m[l] \in Digit
      <3>1. \A l \in (j + 1)..i : l \in (j + 1)..k
        BY <1>1
      <3> QED BY <3>1
    <2>7. InPrec(m, i)
      BY <2>5, <2>6 DEF InPrec
    <2> QED BY <2>3, <2>7
  <1>4. ASSUME m[i + 1] # "0" PROVE InWidth(m, k)
    <2>1. i + 1 \in 1..k
      BY <1>1
    <2>2. \A l \in (i + 1)..k : m[l] \in Digit
      <3>1. \A l \in (i + 1)..k : l \in (i + 1)..e
        BY <1>1
      <3> QED BY <3>1
    <2> QED BY <1>3, <1>4, <2>1, <2>2 DEF InWidth
  <1> QED BY <1>3, <1>4

\* A '0' at a boundary is a flag.
LEMMA ZeroSets ==
    ASSUME NEW m \in Seq(Modifier), NEW i \in 0..(Len(m) - 1), TokenBoundary(m, i),
           m[i + 1] = "0"
    PROVE  /\ Sets(WidthAt(m), i, i + 1, 0) /\ Sets(PrecAt(m), i, i + 1, 0)
           /\ Sets(SizeAt(m), i, i + 1, 0) /\ Sets(FlagAt(m), i, i + 1, i + 1)
           /\ TokenBoundary(m, i + 1)
  <1>1. /\ Len(m) \in Nat /\ i \in Nat /\ i + 1 \in 1..Len(m) /\ i + 1 # 0
        /\ WidthAt(m) \in SUBSET Nat /\ PrecAt(m) \in SUBSET Nat
        /\ SizeAt(m) \in SUBSET Nat /\ FlagAt(m) \in SUBSET Nat
        /\ i + 1 \in (i + 1)..(i + 1) /\ i + 1 \in (i + 1)..Len(m)
        /\ i < Len(m)
    BY SettersOf
  <1>2. m[i + 1] \in Digit /\ m[i + 1] \notin {".", "*", "h", "l", "j", "z", "t"}
    BY Kinds
  <1>3. ~InPrec(m, i + 1)
    <2>1. \A k \in (i + 1)..(i + 1) : m[k] \in Digit
      BY <1>1, <1>2
    <2> QED BY <1>1, <2>1, DigitsAtBoundary
  <1>4. ~InWidth(m, i + 1)
    <2> SUFFICES ASSUME NEW j \in 1..(i + 1), m[j] # "0",
                        \A k \in j..(i + 1) : m[k] \in Digit
                 PROVE  FALSE
      BY DEF InWidth
    <2>1. j # i + 1
      OBVIOUS
    <2>2. j \in 1..i /\ 0 < i /\ \A k \in j..i : k \in j..(i + 1)
      BY <1>1, <2>1
    <2>3. \A k \in j..i : m[k] \in Digit
      BY <2>2
    <2>4. ~InPrec(m, i) /\ ~InWidth(m, i)
      BY <1>1, <1>2, <2>2 DEF TokenBoundary
    <2> QED BY <2>2, <2>3, <2>4 DEF InWidth
  <1>5. /\ i + 1 \notin WidthAt(m) /\ i + 1 \notin PrecAt(m)
        /\ i + 1 \notin SizeAt(m) /\ i + 1 \in FlagAt(m)
    <2>1. i + 1 \notin WidthAt(m)
      BY <1>2, <1>4 DEF WidthAt
    <2>2. i + 1 \in FlagAt(m)
      BY <1>1, <1>3, <1>4 DEF FlagAt
    <2> QED BY <1>1, <1>2, <2>1, <2>2, CharacterSets
  <1>6. \A k \in Nat : i < k /\ k <= i + 1 => k = i + 1
    BY <1>1
  <1>7. Sets(WidthAt(m), i, i + 1, 0) /\ Sets(PrecAt(m), i, i + 1, 0)
    BY <1>1, <1>5, <1>6 DEF Sets
  <1>8. Sets(SizeAt(m), i, i + 1, 0)
    BY <1>1, <1>5, <1>6 DEF Sets
  <1>9. Sets(FlagAt(m), i, i + 1, i + 1)
    BY <1>1, <1>5, <1>6 DEF Sets
  <1>10. TokenBoundary(m, i + 1)
    BY <1>2, <1>3, <1>4 DEF TokenBoundary
  <1> QED BY <1>7, <1>8, <1>9, <1>10

\* A number at a boundary is a width.
LEMMA NumberSets ==
    ASSUME NEW m \in Seq(Modifier), NEW i \in 0..(Len(m) - 1), TokenBoundary(m, i),
           m[i + 1] \in Digit \ {"0"}, NEW e, NumberEnds(m, i, e)
    PROVE  /\ e \in (i + 1)..Len(m)
           /\ Sets(WidthAt(m), i, e, i + 1) /\ Sets(PrecAt(m), i, e, 0)
           /\ Sets(SizeAt(m), i, e, 0) /\ Sets(FlagAt(m), i, e, 0)
           /\ Signless(m, i, e) /\ TokenBoundary(m, e)
  <1>1. /\ Len(m) \in Nat /\ i \in Nat /\ i + 1 \in 1..Len(m) /\ i + 1 # 0
        /\ WidthAt(m) \in SUBSET Nat /\ PrecAt(m) \in SUBSET Nat
        /\ SizeAt(m) \in SUBSET Nat /\ FlagAt(m) \in SUBSET Nat /\ i < Len(m)
    BY SettersOf
  <1>2. /\ e \in i..Len(m) /\ \A k \in (i + 1)..e : m[k] \in Digit
        /\ e < Len(m) => m[e + 1] \notin Digit
    BY DEF NumberEnds
  <1>3. e # i
    BY <1>1, <1>2
  <1>4. e \in (i + 1)..Len(m) /\ e \in Nat /\ i + 1 \in (i + 1)..e
    BY <1>1, <1>2, <1>3
  <1>5. \A k \in (i + 1)..e : ~InPrec(m, k) /\ InWidth(m, k)
    BY <1>2, <1>4, DigitsAtBoundary
  <1>6. ASSUME NEW k \in (i + 1)..e
        PROVE  /\ k \in 1..Len(m) /\ m[k] \in Digit
               /\ m[k] \notin {"*", ".", "h", "l", "j", "z", "t", "+", " ", "#", "-", "L"}
    <2>1. k \in 1..Len(m) /\ m[k] \in Digit
      BY <1>1, <1>2, <1>4
    <2> QED BY <2>1, DigitSet
  <1>7. i + 1 \in WidthAt(m)
    <2>1. i + 1 # 1 => ~InWidth(m, (i + 1) - 1)
      <3>1. (i + 1) - 1 = i
        BY <1>1
      <3> QED BY <1>1, <3>1 DEF TokenBoundary
    <2> QED BY <1>1, <1>4, <1>5, <2>1 DEF WidthAt
  <1>8. ASSUME NEW k \in (i + 1)..e, k \in WidthAt(m) PROVE k <= i + 1
    <2>1. m[k] # "*"
      BY <1>6
    <2>2. k = 1 \/ ~InWidth(m, k - 1)
      BY <1>8, <2>1 DEF WidthAt
    <2>3. i + 1 < k => k # 1 /\ k - 1 \in (i + 1)..e
      BY <1>1, <1>4
    <2>4. ~(i + 1 < k)
      BY <1>5, <2>2, <2>3
    <2> QED BY <1>1, <1>4, <2>4
  <1>9. \A k \in Nat : i < k /\ k <= e => k \in (i + 1)..e
    BY <1>1, <1>4
  <1>10. Sets(WidthAt(m), i, e, i + 1)
    BY <1>1, <1>4, <1>7, <1>8, <1>9 DEF Sets
  <1>11. \A k \in (i + 1)..e : k \notin PrecAt(m) /\ k \notin SizeAt(m)
                                                  /\ k \notin FlagAt(m)
    <2> TAKE k \in (i + 1)..e
    <2>1. k \notin PrecAt(m) /\ k \notin SizeAt(m)
      BY <1>6, CharacterSets
    <2>2. k \notin FlagAt(m)
      BY <1>5, <1>6 DEF FlagAt
    <2> QED BY <2>1, <2>2
  <1>12. /\ Sets(PrecAt(m), i, e, 0) /\ Sets(SizeAt(m), i, e, 0)
         /\ Sets(FlagAt(m), i, e, 0)
    <2>1. Sets(PrecAt(m), i, e, 0)
      BY <1>1, <1>9, <1>11 DEF Sets
    <2>2. Sets(SizeAt(m), i, e, 0)
      BY <1>1, <1>9, <1>11 DEF Sets
    <2>3. Sets(FlagAt(m), i, e, 0)
      BY <1>1, <1>9, <1>11 DEF Sets
    <2> QED BY <2>1, <2>2, <2>3
  <1>13. Signless(m, i, e)
    BY <1>6 DEF Signless
  <1>14. TokenBoundary(m, e)
    <2>1. e \in (i + 1)..e
      BY <1>1, <1>4
    <2>2. m[e] # "." /\ m[e] \notin {"h", "l"}
      BY <1>6, <2>1
    <2> QED BY <1>2, <2>2 DEF TokenBoundary
  <1> QED BY <1>4, <1>10, <1>12, <1>13, <1>14

\* A '*' at a boundary is a width.
LEMMA StarSets ==
    ASSUME NEW m \in Seq(Modifier), NEW i \in 0..(Len(m) - 1), TokenBoundary(m, i),
           m[i + 1] = "*"
    PROVE  /\ Sets(WidthAt(m), i, i + 1, i + 1) /\ Sets(PrecAt(m), i, i + 1, 0)
           /\ Sets(SizeAt(m), i, i + 1, 0) /\ Sets(FlagAt(m), i, i + 1, 0)
           /\ Signless(m, i, i + 1) /\ TokenBoundary(m, i + 1)
  <1>1. /\ Len(m) \in Nat /\ i \in Nat /\ i + 1 \in 1..Len(m) /\ i + 1 # 0
        /\ WidthAt(m) \in SUBSET Nat /\ PrecAt(m) \in SUBSET Nat
        /\ SizeAt(m) \in SUBSET Nat /\ FlagAt(m) \in SUBSET Nat
        /\ i < Len(m) /\ (i + 1) - 1 = i /\ (i # 0 => 0 < i)
    BY SettersOf
  <1>2. m[i + 1] \notin Digit
    BY Kinds
  <1>3. ~InPrec(m, i + 1) /\ ~InWidth(m, i + 1)
    BY <1>1, <1>2, CharacterSets
  <1>4. i + 1 \in WidthAt(m)
    <2>1. i # 0 => m[i] # "."
      BY <1>1 DEF TokenBoundary
    <2>2. i + 1 = 1 \/ m[(i + 1) - 1] # "."
      BY <1>1, <2>1
    <2> QED BY <1>1, <2>2 DEF WidthAt
  <1>5. i + 1 \notin PrecAt(m) /\ i + 1 \notin SizeAt(m) /\ i + 1 \notin FlagAt(m)
    BY <1>1, CharacterSets
  <1>6. \A k \in Nat : i < k /\ k <= i + 1 => k = i + 1
    BY <1>1
  <1>7. Sets(WidthAt(m), i, i + 1, i + 1)
    BY <1>1, <1>4, <1>6 DEF Sets
  <1>8. Sets(PrecAt(m), i, i + 1, 0) /\ Sets(SizeAt(m), i, i + 1, 0)
    BY <1>1, <1>5, <1>6 DEF Sets
  <1>9. Sets(FlagAt(m), i, i + 1, 0)
    BY <1>1, <1>5, <1>6 DEF Sets
  <1>10. Signless(m, i, i + 1)
    <2>1. \A k \in (i + 1)..(i + 1) : k = i + 1
      BY <1>1
    <2> QED BY <2>1 DEF Signless
  <1>11. TokenBoundary(m, i + 1)
    BY <1>3 DEF TokenBoundary
  <1> QED BY <1>7, <1>8, <1>9, <1>10, <1>11

\* A '.' is a precision, with the '*' behind it.
LEMMA PointStarSets ==
    ASSUME NEW m \in Seq(Modifier), NEW i \in 0..(Len(m) - 2),
           m[i + 1] = ".", m[i + 2] = "*"
    PROVE  /\ Sets(WidthAt(m), i, i + 2, 0) /\ Sets(PrecAt(m), i, i + 2, i + 1)
           /\ Sets(SizeAt(m), i, i + 2, 0) /\ Sets(FlagAt(m), i, i + 2, 0)
           /\ Signless(m, i, i + 2) /\ TokenBoundary(m, i + 2)
  <1>1. /\ Len(m) \in Nat /\ i \in Nat /\ i + 1 \in 1..Len(m) /\ i + 1 # 0
        /\ WidthAt(m) \in SUBSET Nat /\ PrecAt(m) \in SUBSET Nat
        /\ SizeAt(m) \in SUBSET Nat /\ FlagAt(m) \in SUBSET Nat
        /\ i + 2 \in 1..Len(m) /\ (i + 2) - 1 = i + 1 /\ i + 2 # 1
    BY SettersOf
  <1>2. m[i + 1] \notin Digit /\ m[i + 2] \notin Digit
    BY Kinds
  <1>3. ~InPrec(m, i + 2) /\ ~InWidth(m, i + 2)
    BY <1>1, <1>2, CharacterSets
  <1>4. i + 1 \notin WidthAt(m) /\ i + 1 \in PrecAt(m)
        /\ i + 1 \notin SizeAt(m) /\ i + 1 \notin FlagAt(m)
    BY <1>1, <1>2, CharacterSets
  <1>5. i + 2 \notin WidthAt(m)
    <2>1. m[(i + 2) - 1] = "."
      BY <1>1
    <2> QED BY <1>1, <1>3, <2>1 DEF WidthAt
  <1>6. i + 2 \notin PrecAt(m) /\ i + 2 \notin SizeAt(m) /\ i + 2 \notin FlagAt(m)
    BY <1>1, CharacterSets
  <1>7. \A k \in Nat : i < k /\ k <= i + 2 => k = i + 1 \/ k = i + 2
    BY <1>1
  <1>8. Sets(WidthAt(m), i, i + 2, 0)
    BY <1>1, <1>4, <1>5, <1>7 DEF Sets
  <1>9. Sets(PrecAt(m), i, i + 2, i + 1)
    BY <1>1, <1>4, <1>6, <1>7 DEF Sets
  <1>10. Sets(SizeAt(m), i, i + 2, 0) /\ Sets(FlagAt(m), i, i + 2, 0)
    BY <1>1, <1>4, <1>6, <1>7 DEF Sets
  <1>11. Signless(m, i, i + 2)
    <2>1. \A k \in (i + 1)..(i + 2) : k = i + 1 \/ k = i + 2
      BY <1>1
    <2> QED BY <2>1 DEF Signless
  <1>12. TokenBoundary(m, i + 2)
    BY <1>3 DEF TokenBoundary
  <1> QED BY <1>8, <1>9, <1>10, <1>11, <1>12

\* Or with the digits behind it.
LEMMA PointSets ==
    ASSUME NEW m \in Seq(Modifier), NEW i \in 0..(Len(m) - 1), m[i + 1] = ".",
           i + 1 < Len(m) => m[i + 2] # "*", NEW e, NumberEnds(m, i + 1, e)
    PROVE  /\ e \in (i + 1)..Len(m)
           /\ Sets(WidthAt(m), i, e, 0) /\ Sets(PrecAt(m), i, e, i + 1)
           /\ Sets(SizeAt(m), i, e, 0) /\ Sets(FlagAt(m), i, e, 0)
           /\ Signless(m, i, e) /\ TokenBoundary(m, e)
  <1>1. /\ Len(m) \in Nat /\ i \in Nat /\ i + 1 \in 1..Len(m) /\ i + 1 # 0
        /\ WidthAt(m) \in SUBSET Nat /\ PrecAt(m) \in SUBSET Nat
        /\ SizeAt(m) \in SUBSET Nat /\ FlagAt(m) \in SUBSET Nat
        /\ (i + 1) + 1 = i + 2
    BY SettersOf
  <1>2. /\ e \in (i + 1)..Len(m) /\ \A k \in (i + 2)..e : m[k] \in Digit
        /\ e < Len(m) => m[e + 1] \notin Digit
    BY <1>1 DEF NumberEnds
  <1>3. e \in Nat
    BY <1>1, <1>2
  <1>4. m[i + 1] \notin Digit
    BY Kinds
  <1>5. i + 1 \notin WidthAt(m) /\ i + 1 \in PrecAt(m)
        /\ i + 1 \notin SizeAt(m) /\ i + 1 \notin FlagAt(m)
    BY <1>1, <1>4, CharacterSets
  <1>6. ASSUME NEW k \in (i + 2)..e
        PROVE  /\ k \in 1..Len(m) /\ m[k] \in Digit
               /\ m[k] \notin {"*", ".", "h", "l", "j", "z", "t", "+", " ", "#", "-", "L"}
    <2>1. k \in 1..Len(m) /\ m[k] \in Digit
      BY <1>1, <1>2, <1>3
    <2> QED BY <2>1, DigitSet
  <1>7. ASSUME NEW k \in (i + 2)..e PROVE InPrec(m, k) /\ ~InWidth(m, k)
    <2>1. i + 1 \in 1..(k - 1)
      BY <1>1, <1>3
    <2>2. \A l \in ((i + 1) + 1)..k : l \in (i + 2)..e
      BY <1>1, <1>3
    <2>3. \A l \in ((i + 1) + 1)..k : m[l] \in Digit
      BY <1>2, <2>2
    <2>4. InPrec(m, k)
      BY <1>6, <2>1, <2>3 DEF InPrec
    <2> QED BY <2>4 DEF InWidth
  <1>8. ASSUME NEW k \in (i + 2)..e
        PROVE  k \notin WidthAt(m) /\ k \notin PrecAt(m) /\ k \notin SizeAt(m)
               /\ k \notin FlagAt(m)
    <2>1. k \notin WidthAt(m)
      BY <1>6, <1>7 DEF WidthAt
    <2>2. k \notin PrecAt(m) /\ k \notin SizeAt(m)
      BY <1>6, CharacterSets
    <2>3. k \notin FlagAt(m)
      BY <1>6, <1>7 DEF FlagAt
    <2> QED BY <2>1, <2>2, <2>3
  <1>9. \A k \in Nat : i < k /\ k <= e => k = i + 1 \/ k \in (i + 2)..e
    BY <1>1, <1>3
  <1>10. i < i + 1 /\ i + 1 <= e
    BY <1>1, <1>2, <1>3
  <1>11. Sets(WidthAt(m), i, e, 0)
    BY <1>1, <1>5, <1>8, <1>9 DEF Sets
  <1>12. Sets(PrecAt(m), i, e, i + 1)
    BY <1>1, <1>5, <1>8, <1>9, <1>10 DEF Sets
  <1>13. Sets(SizeAt(m), i, e, 0)
    BY <1>1, <1>5, <1>8, <1>9 DEF Sets
  <1>14. Sets(FlagAt(m), i, e, 0)
    BY <1>1, <1>5, <1>8, <1>9 DEF Sets
  <1>15. \A k \in (i + 1)..e : k = i + 1 \/ k \in (i + 2)..e
    BY <1>1, <1>3
  <1>16. Signless(m, i, e)
    BY <1>6, <1>15 DEF Signless
  <1>17. TokenBoundary(m, e)
    <2>1. e \in (i + 1)..e
      BY <1>1, <1>2, <1>3
    <2>2. m[e] \notin {"h", "l"}
      BY <1>6, <1>15, <2>1
    <2>3. e < Len(m) /\ m[e + 1] = "*" => m[e] # "."
      <3>1. CASE e = i + 1
        BY <1>1, <3>1
      <3>2. CASE e # i + 1
        <4>1. e \in (i + 2)..e
          BY <1>15, <2>1, <3>2
        <4> QED BY <1>6, <4>1
      <3> QED BY <3>1, <3>2
    <2> QED BY <1>2, <2>2, <2>3 DEF TokenBoundary
  <1> QED BY <1>2, <1>11, <1>12, <1>13, <1>14, <1>16, <1>17

\* Whether an h or l is the second of a pair alternates along a run of them.
LEMMA PairAlternates ==
    ASSUME NEW m \in Seq(Modifier), NEW i \in 0..(Len(m) - 1)
    PROVE  IsPaired(m, i + 1) <=> 0 < i /\ m[i] = m[i + 1] /\ ~IsPaired(m, i)
  <1> DEFINE Starts(a, s) == /\ \A j \in a..s : m[j] = m[s]
                             /\ a = 1 \/ m[a - 1] # m[s]
  <1>1. i \in Nat /\ Len(m) \in Nat
    OBVIOUS
  <1>2. ASSUME NEW s \in Nat
        PROVE  IsPaired(m, s) <=> \E a \in 1..s : Starts(a, s) /\ (s - a) % 2 = 1
    BY DEF IsPaired
  <1>3. \A a \in 1..i : ((i + 1) - a) % 2 = 1 <=> (i - a) % 2 = 0
    BY <1>1
  <1>4. \A a \in 1..i : (i - a) % 2 \in {0, 1}
    BY <1>1
  <1>5. ((i + 1) - (i + 1)) % 2 = 0
    BY <1>1
  <1>6. ASSUME 0 < i, m[i] = m[i + 1], NEW a \in 1..i
        PROVE  Starts(a, i + 1) <=> Starts(a, i)
    <2>1. \A j \in a..(i + 1) : j \in a..i \/ j = i + 1
      BY <1>1
    <2>2. \A j \in a..i : j \in a..(i + 1)
      BY <1>1
    <2> QED BY <1>6, <2>1, <2>2
  <1>7. ASSUME NEW a \in 1..i, NEW b \in 1..i, Starts(a, i), Starts(b, i)
        PROVE  a = b
    <2>1. ASSUME NEW c \in 1..i, NEW d \in 1..i, Starts(c, i), Starts(d, i), c < d
          PROVE  FALSE
      <3>1. d - 1 \in c..i /\ d # 1
        BY <1>1, <2>1
      <3> QED BY <2>1, <3>1
    <2>2. ~(a < b)
      <3> HIDE DEF Starts
      <3> QED BY <1>7, <2>1
    <2>3. ~(b < a)
      <3> HIDE DEF Starts
      <3> QED BY <1>7, <2>1
    <2> QED BY <1>1, <2>2, <2>3
  <1>8. ASSUME IsPaired(m, i + 1)
        PROVE  0 < i /\ m[i] = m[i + 1] /\ ~IsPaired(m, i)
    <2>1. PICK a \in 1..(i + 1) : Starts(a, i + 1) /\ ((i + 1) - a) % 2 = 1
      <3>1. i + 1 \in Nat
        BY <1>1
      <3> HIDE DEF Starts
      <3> QED BY <1>2, <1>8, <3>1
    <2>2. a # i + 1
      BY <1>5, <2>1
    <2>3. a \in 1..i /\ 0 < i /\ i \in a..(i + 1)
      BY <1>1, <2>2
    <2>4. m[i] = m[i + 1]
      BY <2>1, <2>3
    <2>5. Starts(a, i)
      <3> HIDE DEF Starts
      <3> QED BY <1>6, <2>1, <2>3, <2>4
    <2>6. (i - a) % 2 = 0
      BY <1>3, <2>1, <2>3
    <2>7. ASSUME IsPaired(m, i) PROVE FALSE
      <3> HIDE DEF Starts
      <3>1. PICK b \in 1..i : Starts(b, i) /\ (i - b) % 2 = 1
        BY <1>1, <1>2, <2>7
      <3>2. a = b
        BY <1>7, <2>3, <2>5, <3>1
      <3> QED BY <2>6, <3>1, <3>2
    <2> QED BY <2>3, <2>4, <2>7
  <1>9. ASSUME 0 < i, m[i] = m[i + 1], ~IsPaired(m, i)
        PROVE  IsPaired(m, i + 1)
    <2> DEFINE S == {a \in Nat : a \in 1..i /\ \A j \in a..i : m[j] = m[i]}
    <2>1. i \in S
      BY <1>1, <1>9
    <2>2. PICK a \in S : \A x \in S : a <= x
      <3>1. S \in SUBSET Nat /\ S # {}
        BY <2>1
      <3> HIDE DEF S
      <3> QED BY <3>1, NatHasLeast
    <2>3. a \in 1..i /\ \A j \in a..i : m[j] = m[i]
      BY <2>2
    <2>4. ASSUME a # 1, m[a - 1] = m[i] PROVE FALSE
      <3>1. a - 1 \in 1..i /\ a - 1 \in Nat
        BY <1>1, <2>3, <2>4
      <3>2. \A j \in (a - 1)..i : j = a - 1 \/ j \in a..i
        BY <1>1, <2>3
      <3>3. a - 1 \in S
        BY <2>3, <2>4, <3>1, <3>2
      <3> QED BY <1>1, <2>2, <2>3, <3>3
    <2>5. Starts(a, i)
      BY <2>3, <2>4
    <2>6. a \in 1..(i + 1)
      BY <1>1, <2>3
    <2> HIDE DEF S, Starts
    <2>7. ~((i - a) % 2 = 1)
      BY <1>1, <1>2, <1>9, <2>3, <2>5
    <2>8. ((i + 1) - a) % 2 = 1
      BY <1>3, <1>4, <2>3, <2>7
    <2>9. Starts(a, i + 1)
      BY <1>6, <1>9, <2>3, <2>5
    <2>10. i + 1 \in Nat
      BY <1>1
    <2> QED BY <1>2, <2>6, <2>8, <2>9, <2>10
  <1> QED BY <1>8, <1>9

\* An h or l at a boundary, with another one behind it.
LEMMA PairSets ==
    ASSUME NEW m \in Seq(Modifier), NEW i \in 0..(Len(m) - 2), TokenBoundary(m, i),
           m[i + 1] \in {"h", "l"}, m[i + 2] = m[i + 1]
    PROVE  /\ Sets(WidthAt(m), i, i + 2, 0) /\ Sets(PrecAt(m), i, i + 2, 0)
           /\ Sets(SizeAt(m), i, i + 2, i + 2) /\ Sets(FlagAt(m), i, i + 2, 0)
           /\ Signless(m, i, i + 2) /\ TokenBoundary(m, i + 2)
           /\ IsPaired(m, i + 2)
  <1>1. /\ Len(m) \in Nat /\ i \in Nat /\ i + 1 \in 1..Len(m)
        /\ WidthAt(m) \in SUBSET Nat /\ PrecAt(m) \in SUBSET Nat
        /\ SizeAt(m) \in SUBSET Nat /\ FlagAt(m) \in SUBSET Nat
        /\ i + 2 \in 1..Len(m) /\ (i + 1) + 1 = i + 2 /\ i + 2 # 0
        /\ i \in 0..(Len(m) - 1) /\ i + 1 \in 0..(Len(m) - 1) /\ i < Len(m)
        /\ 0 < i + 1
    BY SettersOf
  <1>2. /\ m[i + 1] \notin Digit \cup {".", "*", "#", "-", "L", "0", "+", " "}
        /\ m[i + 2] \notin Digit \cup {".", "*", "#", "-", "L", "0", "+", " "}
    BY Kinds
  <1>3. ~InPrec(m, i + 2) /\ ~InWidth(m, i + 2)
    BY <1>1, <1>2, CharacterSets
  <1>4. ASSUME NEW k \in {i + 1, i + 2}
        PROVE  k \notin WidthAt(m) /\ k \notin PrecAt(m) /\ k \notin FlagAt(m)
    BY <1>1, <1>2, CharacterSets
  <1>5. i + 2 \in SizeAt(m)
    BY <1>1, CharacterSets
  <1>6. \A k \in Nat : i < k /\ k <= i + 2 => k \in {i + 1, i + 2}
    BY <1>1
  <1>7. Sets(WidthAt(m), i, i + 2, 0) /\ Sets(PrecAt(m), i, i + 2, 0)
    BY <1>1, <1>4, <1>6 DEF Sets
  <1>8. Sets(SizeAt(m), i, i + 2, i + 2)
    BY <1>1, <1>5 DEF Sets
  <1>9. Sets(FlagAt(m), i, i + 2, 0)
    BY <1>1, <1>4, <1>6 DEF Sets
  <1>10. Signless(m, i, i + 2)
    <2>1. \A k \in (i + 1)..(i + 2) : k \in {i + 1, i + 2}
      BY <1>1
    <2> QED BY <1>2, <2>1 DEF Signless
  <1>11. ~IsPaired(m, i + 1)
    <2>1. ASSUME 0 < i, m[i] = m[i + 1] PROVE IsPaired(m, i)
      BY <1>1, <2>1 DEF TokenBoundary
    <2> QED BY <1>1, <2>1, PairAlternates
  <1>12. IsPaired(m, i + 2)
    <2>1. IsPaired(m, (i + 1) + 1)
            <=> 0 < i + 1 /\ m[i + 1] = m[(i + 1) + 1] /\ ~IsPaired(m, i + 1)
      BY <1>1, PairAlternates
    <2> QED BY <1>1, <1>11, <2>1
  <1>13. TokenBoundary(m, i + 2)
    BY <1>2, <1>3, <1>12 DEF TokenBoundary
  <1> QED BY <1>7, <1>8, <1>9, <1>10, <1>12, <1>13

\* Or by itself.
LEMMA SingleSets ==
    ASSUME NEW m \in Seq(Modifier), NEW i \in 0..(Len(m) - 1), TokenBoundary(m, i),
           m[i + 1] \in {"h", "l"}, i + 1 < Len(m) => m[i + 2] # m[i + 1]
    PROVE  /\ Sets(WidthAt(m), i, i + 1, 0) /\ Sets(PrecAt(m), i, i + 1, 0)
           /\ Sets(SizeAt(m), i, i + 1, i + 1) /\ Sets(FlagAt(m), i, i + 1, 0)
           /\ Signless(m, i, i + 1) /\ TokenBoundary(m, i + 1)
           /\ ~IsPaired(m, i + 1)
  <1>1. /\ Len(m) \in Nat /\ i \in Nat /\ i + 1 \in 1..Len(m)
        /\ WidthAt(m) \in SUBSET Nat /\ PrecAt(m) \in SUBSET Nat
        /\ SizeAt(m) \in SUBSET Nat /\ FlagAt(m) \in SUBSET Nat
        /\ (i + 1) + 1 = i + 2 /\ i + 1 # 0 /\ i < Len(m)
    BY SettersOf
  <1>2. m[i + 1] \notin Digit \cup {".", "*", "#", "-", "L", "0", "+", " "}
    BY Kinds
  <1>3. ~InPrec(m, i + 1) /\ ~InWidth(m, i + 1)
    BY <1>1, <1>2, CharacterSets
  <1>4. i + 1 \notin WidthAt(m) /\ i + 1 \notin PrecAt(m) /\ i + 1 \notin FlagAt(m)
    BY <1>1, <1>2, CharacterSets
  <1>5. i + 1 \in SizeAt(m)
    BY <1>1, CharacterSets
  <1>6. \A k \in Nat : i < k /\ k <= i + 1 => k = i + 1
    BY <1>1
  <1>7. Sets(WidthAt(m), i, i + 1, 0) /\ Sets(PrecAt(m), i, i + 1, 0)
    BY <1>1, <1>4, <1>6 DEF Sets
  <1>8. Sets(SizeAt(m), i, i + 1, i + 1)
    BY <1>1, <1>5 DEF Sets
  <1>9. Sets(FlagAt(m), i, i + 1, 0)
    BY <1>1, <1>4, <1>6 DEF Sets
  <1>10. Signless(m, i, i + 1)
    <2>1. \A k \in (i + 1)..(i + 1) : k = i + 1
      BY <1>1
    <2> QED BY <1>2, <2>1 DEF Signless
  <1>11. ~IsPaired(m, i + 1)
    <2>1. ASSUME 0 < i, m[i] = m[i + 1] PROVE IsPaired(m, i)
      BY <1>1, <2>1 DEF TokenBoundary
    <2> QED BY <1>1, <2>1, PairAlternates
  <1>12. TokenBoundary(m, i + 1)
    BY <1>1, <1>2, <1>3 DEF TokenBoundary
  <1> QED BY <1>7, <1>8, <1>9, <1>10, <1>11, <1>12

\* A turn that brings the setters up to date makes progress.
LEMMA Advance ==
    ASSUME NEW start, NEW m \in Seq(Modifier), NEW i \in 0..Len(m),
           NEW j \in (i + 1)..Len(m), NEW si,
           NEW w, NEW p, NEW s, SettersAt(m, i, w, p, s),
           NEW x, NEW y, NEW z, Sets(WidthAt(m), i, j, x),
           Sets(PrecAt(m), i, j, y), Sets(SizeAt(m), i, j, z),
           TokenBoundary(m, j),
           NEW wj, wj = IF x = 0 THEN w ELSE x,
           NEW pj, pj = IF y = 0 THEN p ELSE y,
           NEW sj, sj = IF z = 0 THEN s ELSE z,
           NEW b, StarOrder(m, wj, pj, b),
           Turn(start + 1 + i, si) = <<start + 1 + j, Known(m, j, wj, pj, sj, b)>>
    PROVE  Progress(start, m, i, si)
  <1>1. j \in i..Len(m)
    <2>1. Len(m) \in Nat
      OBVIOUS
    <2> QED BY <2>1
  <1>2. SettersAt(m, j, wj, pj, sj)
    BY <1>1, SettersMove
  <1>3. Learnt(m, j, Known(m, j, wj, pj, sj, b))
    BY <1>2 DEF Learnt
  <1> QED BY <1>3 DEF Progress

\* Where settings are made, in numbers.
LEMMA SettersType ==
    ASSUME NEW m \in Seq(Modifier), NEW i \in 0..Len(m), NEW w, NEW p, NEW s,
           SettersAt(m, i, w, p, s)
    PROVE  /\ w \in 0..i /\ p \in 0..i /\ s \in 0..i
           /\ w # 0 => w \in WidthAt(m)
           /\ p # 0 => m[p] = "."
  <1>1. /\ Len(m) \in Nat /\ WidthAt(m) \in SUBSET Nat /\ PrecAt(m) \in SUBSET Nat
        /\ SizeAt(m) \in SUBSET Nat
    BY SettersOf
  <1>2. w \in WidthAt(m) \cup {0} /\ w <= i
    BY DEF SettersAt, LastAt
  <1>3. p \in PrecAt(m) \cup {0} /\ p <= i
    BY DEF SettersAt, LastAt
  <1>4. s \in SizeAt(m) \cup {0} /\ s <= i
    BY DEF SettersAt, LastAt
  <1>5. p # 0 => m[p] = "."
    BY <1>3 DEF PrecAt
  <1> QED BY <1>1, <1>2, <1>3, <1>4, <1>5

\* A setting is DYNAMIC when its last setter is a '*'.
LEMMA DynamicIsStar ==
    ASSUME fmt \in Formats, NEW start, NEW m, NEW t, SpecText(start, m, t),
           NEW i \in 0..Len(m), NEW w, NEW p, NEW s, SettersAt(m, i, w, p, s)
    PROVE  /\ WidthOf(m, w) = DYNAMIC <=> StarAt(m, w)
           /\ PrecOf(m, p) = DYNAMIC <=> StarBehind(m, p)
  <1>1. m \in Seq(Modifier) /\ Len(m) \in Nat /\ i \in Nat
    BY DEF SpecText
  <1>2. w \in 0..i /\ p \in 0..i
    BY <1>1, SettersType
  <1>3. \A n \in Nat : n # DYNAMIC
    BY DEF DYNAMIC
  <1>4. ASSUME w # 0 PROVE Value(m, w) \in Nat
    <2>1. w - 1 \in 0..Len(m) /\ (w - 1) + 1 = w
      BY <1>1, <1>2, <1>4
    <2>2. Value(m, (w - 1) + 1) \in Nat
      BY <2>1, NumberIsValue
    <2> QED BY <2>1, <2>2
  <1>5. Value(m, p + 1) \in Nat
    <2>1. p \in 0..Len(m)
      BY <1>1, <1>2
    <2> QED BY <2>1, NumberIsValue
  <1>6. WidthOf(m, w) = DYNAMIC <=> StarAt(m, w)
    <2>1. CASE w = 0
      BY <2>1 DEF WidthOf, StarAt, DYNAMIC
    <2>2. CASE w # 0
      BY <1>3, <1>4, <2>2 DEF WidthOf
    <2> QED BY <2>1, <2>2
  <1>7. PrecOf(m, p) = DYNAMIC <=> StarBehind(m, p)
    <2>1. CASE p = 0
      BY <2>1 DEF PrecOf, StarBehind, DYNAMIC
    <2>2. CASE p # 0
      BY <1>3, <1>5, <2>2 DEF PrecOf
    <2> QED BY <2>1, <2>2
  <1> QED BY <1>6, <1>7

\* Flags and sign when nothing sets them.
LEMMA FlagsStay ==
    ASSUME NEW m \in Seq(Modifier), NEW i \in 0..Len(m), NEW j \in (i + 1)..Len(m),
           Sets(FlagAt(m), i, j, 0), Signless(m, i, j)
    PROVE  FlagsIn(m, j) = FlagsIn(m, i) /\ SignIn(m, j) = SignIn(m, i)
  <1>1. j \in i..Len(m)
    <2>1. Len(m) \in Nat
      OBVIOUS
    <2> QED BY <2>1
  <1>2. FlagsIn(m, j) = FlagsIn(m, i)
    <2> DEFINE f == 0
    <2>1. /\ Sets(FlagAt(m), i, j, f) /\ (f # 0 => f = i + 1 /\ j = i + 1) /\ f = 0
      OBVIOUS
    <2> HIDE DEF f
    <2>2. FlagsIn(m, j) = FlagsIn(m, i) \cup (IF f = 0 THEN {} ELSE {m[f]})
      <3>1. m \in Seq(Modifier) /\ i \in 0..Len(m)
        OBVIOUS
      <3> QED BY <1>1, <2>1, <3>1, FlagsMove, Zenon
    <2> QED BY <2>1, <2>2
  <1>3. SignIn(m, j) = SignIn(m, i)
    BY <1>1, SignStays
  <1> QED BY <1>2, <1>3

\* A '0' that begins a token is a flag, and what is learnt stays right.
LEMMA ZeroRead ==
    ASSUME fmt \in Formats, NEW start, NEW m, NEW t, SpecText(start, m, t),
           NEW i \in 0..(Len(m) - 1), NEW si, Learnt(m, i, si),
           TokenBoundary(m, i), m[i + 1] = "0"
    PROVE  Progress(start, m, i, si)
  <1> DEFINE j == i + 1
             z == 0
  <1>1. /\ m \in Seq(Modifier) /\ Len(m) \in Nat /\ i \in Nat
        /\ i \in 0..Len(m) /\ j \in i..Len(m) /\ j # 0
        /\ j \in (i + 1)..Len(m) /\ z = 0
        /\ At(start + 1 + i) = "0" /\ (start + 1 + i) + 1 = start + 1 + j
    BY NextModifier
  <1>2. PICK w, p, s, b : /\ SettersAt(m, i, w, p, s) /\ StarOrder(m, w, p, b)
                          /\ si = Known(m, i, w, p, s, b)
    BY DEF Learnt
  <1>3. /\ Sets(WidthAt(m), i, j, z) /\ Sets(PrecAt(m), i, j, z)
        /\ Sets(SizeAt(m), i, j, z) /\ Sets(FlagAt(m), i, j, j)
        /\ TokenBoundary(m, j)
    BY <1>1, ZeroSets
  <1>4. FlagsIn(m, j) = FlagsIn(m, i) \cup {"0"}
    <2> DEFINE f == j
    <2>1. /\ Sets(FlagAt(m), i, j, f) /\ (f # 0 => f = i + 1 /\ j = i + 1)
          /\ f # 0 /\ m[f] = "0"
      BY <1>1, <1>3
    <2> HIDE DEF f, j
    <2>2. FlagsIn(m, j) = FlagsIn(m, i) \cup (IF f = 0 THEN {} ELSE {m[f]})
      BY <1>1, <2>1, FlagsMove
    <2> QED BY <2>1, <2>2
  <1>5. SignIn(m, j) = SignIn(m, i)
    <2>1. Signless(m, i, j)
      <3>1. \A k \in (i + 1)..j : k = i + 1
        BY <1>1
      <3> QED BY <3>1 DEF Signless
    <2> HIDE DEF j
    <2> QED BY <1>1, <2>1, SignStays
  <1>6. Turn(start + 1 + i, si) = <<start + 1 + j, Known(m, j, w, p, s, b)>>
    <2> DEFINE F == FlagsIn(m, i)
               W == WidthOf(m, w)
               P == PrecOf(m, p)
               G == SignIn(m, i)
               S == SizeName(m, s)
               FC == F \cup {"0"}
    <2>1. /\ b \in BOOLEAN /\ si = Info(F, W, P, G, S, b)
          /\ Known(m, j, w, p, s, b) = Info(FC, W, P, G, S, b)
      BY <1>2, <1>4, <1>5 DEF Known, StarOrder
    <2>2. At(start + 1 + i) \in {"#", "-", "0", "L"} /\ FC = F \cup {At(start + 1 + i)}
      BY <1>1
    <2> HIDE DEF F, W, P, G, S, FC, j
    <2> QED BY <1>1, <2>1, <2>2, TurnOnFlag
  <1>7. w = (IF z = 0 THEN w ELSE z) /\ p = (IF z = 0 THEN p ELSE z)
        /\ s = IF z = 0 THEN s ELSE z
    OBVIOUS
  <1> HIDE DEF j, z
  <1> QED BY <1>1, <1>2, <1>3, <1>6, <1>7, Advance

\* So it does after a number that gives the width,
LEMMA NumberRead ==
    ASSUME fmt \in Formats, NEW start, NEW m, NEW t, SpecText(start, m, t),
           NEW i \in 0..(Len(m) - 1), NEW si, Learnt(m, i, si),
           TokenBoundary(m, i), m[i + 1] \in Digit \ {"0"}
    PROVE  Progress(start, m, i, si)
  <1> DEFINE x == i + 1
             z == 0
  <1>1. /\ m \in Seq(Modifier) /\ Len(m) \in Nat /\ i \in Nat
        /\ i \in 0..Len(m) /\ x # 0 /\ z = 0 /\ x \in 1..Len(m)
        /\ At(start + 1 + i) \in Digit \ {"0"}
    BY NextModifier
  <1>2. PICK w, p, s, b : /\ SettersAt(m, i, w, p, s) /\ StarOrder(m, w, p, b)
                          /\ si = Known(m, i, w, p, s, b)
    BY DEF Learnt
  <1>3. PICK e : /\ NumberEnds(m, i, e)
                 /\ SkipDigits(start + 1 + i) = start + 1 + e
                 /\ Number(start + 1 + i) = Value(m, i + 1)
    BY <1>1, NumberIsValue
  <1>4. /\ Sets(WidthAt(m), i, e, x) /\ Sets(PrecAt(m), i, e, z)
        /\ Sets(SizeAt(m), i, e, z) /\ Sets(FlagAt(m), i, e, 0)
        /\ Signless(m, i, e) /\ TokenBoundary(m, e) /\ e \in (i + 1)..Len(m)
    BY <1>1, <1>3, NumberSets
  <1>5. FlagsIn(m, e) = FlagsIn(m, i) /\ SignIn(m, e) = SignIn(m, i)
    BY <1>1, <1>4, FlagsStay
  <1>6. ~StarAt(m, x) /\ WidthOf(m, x) = Value(m, x)
    <2>1. m[x] # "*"
      BY Kinds
    <2> QED BY <1>1, <2>1 DEF StarAt, WidthOf
  <1>7. StarOrder(m, x, p, b)
    BY <1>2, <1>6 DEF StarOrder
  <1>8. Turn(start + 1 + i, si) = <<start + 1 + e, Known(m, e, x, p, s, b)>>
    <2> DEFINE F == FlagsIn(m, i)
               W == WidthOf(m, w)
               V == Value(m, x)
               P == PrecOf(m, p)
               G == SignIn(m, i)
               S == SizeName(m, s)
    <2>1. /\ b \in BOOLEAN /\ si = Info(F, W, P, G, S, b)
          /\ Known(m, e, x, p, s, b) = Info(F, V, P, G, S, b)
      BY <1>2, <1>5, <1>6 DEF Known, StarOrder
    <2>2. Number(start + 1 + i) = V
      BY <1>3
    <2> HIDE DEF F, W, P, G, S, V, x
    <2>3. Turn(start + 1 + i, si)
            = <<SkipDigits(start + 1 + i), Info(F, Number(start + 1 + i), P, G, S, b)>>
      BY <1>1, <2>1, TurnOnDigit
    <2> QED BY <1>3, <2>1, <2>2, <2>3
  <1>9. x = (IF x = 0 THEN w ELSE x) /\ p = (IF z = 0 THEN p ELSE z)
        /\ s = IF z = 0 THEN s ELSE z
    BY <1>1
  <1> HIDE DEF x, z
  <1> QED BY <1>1, <1>2, <1>4, <1>7, <1>8, <1>9, Advance

\* after a '*' that asks an argument for it,
LEMMA StarRead ==
    ASSUME fmt \in Formats, NEW start, NEW m, NEW t, SpecText(start, m, t),
           NEW i \in 0..(Len(m) - 1), NEW si, Learnt(m, i, si),
           TokenBoundary(m, i), m[i + 1] = "*"
    PROVE  Progress(start, m, i, si)
  <1> DEFINE j == i + 1
             z == 0
  <1>1. /\ m \in Seq(Modifier) /\ Len(m) \in Nat /\ i \in Nat
        /\ i \in 0..Len(m) /\ j # 0 /\ z = 0 /\ j \in (i + 1)..Len(m)
        /\ At(start + 1 + i) = "*" /\ (start + 1 + i) + 1 = start + 1 + j
    BY NextModifier
  <1>2. PICK w, p, s, b : /\ SettersAt(m, i, w, p, s) /\ StarOrder(m, w, p, b)
                          /\ si = Known(m, i, w, p, s, b)
    BY DEF Learnt
  <1>3. /\ Sets(WidthAt(m), i, j, j) /\ Sets(PrecAt(m), i, j, z)
        /\ Sets(SizeAt(m), i, j, z) /\ Sets(FlagAt(m), i, j, 0)
        /\ Signless(m, i, j) /\ TokenBoundary(m, j)
    BY <1>1, StarSets
  <1>4. FlagsIn(m, j) = FlagsIn(m, i) /\ SignIn(m, j) = SignIn(m, i)
    <2> HIDE DEF j
    <2> QED BY <1>1, <1>3, FlagsStay
  <1>5. StarAt(m, j) /\ WidthOf(m, j) = DYNAMIC
    BY <1>1 DEF StarAt, WidthOf
  <1>6. PrecOf(m, p) = DYNAMIC <=> StarBehind(m, p)
    BY <1>1, <1>2, DynamicIsStar
  <1>7. p \in 0..i /\ w \in 0..i
    BY <1>1, <1>2, SettersType
  <1> DEFINE P == PrecOf(m, p)
  <1>8. PICK c \in BOOLEAN : c <=> b /\ P # DYNAMIC
    OBVIOUS
  <1>9. StarOrder(m, j, p, c)
    <2>1. ~(j < p)
      BY <1>1, <1>7
    <2>2. StarBehind(m, p) => ~c
      BY <1>6, <1>8
    <2> HIDE DEF j
    <2> QED BY <2>1, <2>2 DEF StarOrder
  <1>10. Turn(start + 1 + i, si) = <<start + 1 + j, Known(m, j, j, p, s, c)>>
    <2> DEFINE F == FlagsIn(m, i)
               W == WidthOf(m, w)
               G == SignIn(m, i)
               S == SizeName(m, s)
    <2>1. /\ b \in BOOLEAN /\ si = Info(F, W, P, G, S, b)
          /\ Known(m, j, j, p, s, c) = Info(F, DYNAMIC, P, G, S, c)
      BY <1>2, <1>4, <1>5 DEF Known, StarOrder
    <2> HIDE DEF F, W, P, G, S, j
    <2> QED BY <1>1, <1>8, <2>1, TurnOnStar
  <1>11. j = (IF j = 0 THEN w ELSE j) /\ p = (IF z = 0 THEN p ELSE z)
         /\ s = IF z = 0 THEN s ELSE z
    BY <1>1
  <1> HIDE DEF j, z
  <1> QED BY <1>1, <1>2, <1>3, <1>9, <1>10, <1>11, Advance

\* after a '.*' that asks an argument for the precision,
LEMMA PointStarRead ==
    ASSUME fmt \in Formats, NEW start, NEW m, NEW t, SpecText(start, m, t),
           NEW i \in 0..(Len(m) - 1), NEW si, Learnt(m, i, si),
           m[i + 1] = ".", i + 1 < Len(m), m[i + 2] = "*"
    PROVE  Progress(start, m, i, si)
  <1> DEFINE x == i + 1
             j == i + 2
             z == 0
  <1>1. /\ m \in Seq(Modifier) /\ Len(m) \in Nat /\ i \in Nat
        /\ i \in 0..Len(m) /\ x # 0 /\ z = 0
        /\ At(start + 1 + i) = "." /\ (start + 1 + i) + 1 = start + 1 + (i + 1)
        /\ start \in Nat
    BY NextModifier
  <1>2. /\ j \in (i + 1)..Len(m) /\ i \in 0..(Len(m) - 2) /\ x < Len(m)
        /\ x + 1 = j /\ 0 < x /\ (start + 1 + i) + 2 = start + 1 + j
    BY <1>1
  <1>3. At((start + 1 + i) + 1) = "*"
    BY <1>1, NextButOne
  <1>4. PICK w, p, s, b : /\ SettersAt(m, i, w, p, s) /\ StarOrder(m, w, p, b)
                          /\ si = Known(m, i, w, p, s, b)
    BY DEF Learnt
  <1>5. /\ Sets(WidthAt(m), i, j, z) /\ Sets(PrecAt(m), i, j, x)
        /\ Sets(SizeAt(m), i, j, z) /\ Sets(FlagAt(m), i, j, 0)
        /\ Signless(m, i, j) /\ TokenBoundary(m, j)
    BY <1>1, <1>2, PointStarSets
  <1>6. FlagsIn(m, j) = FlagsIn(m, i) /\ SignIn(m, j) = SignIn(m, i)
    <2> HIDE DEF j
    <2> QED BY <1>1, <1>2, <1>5, FlagsStay
  <1>7. StarBehind(m, x) /\ PrecOf(m, x) = DYNAMIC
    BY <1>1, <1>2 DEF StarBehind, PrecOf
  <1>8. WidthOf(m, w) = DYNAMIC <=> StarAt(m, w)
    BY <1>1, <1>4, DynamicIsStar
  <1>9. w \in 0..i
    BY <1>1, <1>4, SettersType
  <1> DEFINE W == WidthOf(m, w)
  <1>10. PICK c \in BOOLEAN : c <=> b \/ W = DYNAMIC
    OBVIOUS
  <1>11. StarOrder(m, w, x, c)
    <2>1. w < x
      BY <1>1, <1>9
    <2>2. StarAt(m, w) => c
      BY <1>8, <1>10
    <2> HIDE DEF x
    <2> QED BY <2>1, <2>2 DEF StarOrder
  <1>12. Turn(start + 1 + i, si) = <<start + 1 + j, Known(m, j, w, x, s, c)>>
    <2> DEFINE F == FlagsIn(m, i)
               P == PrecOf(m, p)
               G == SignIn(m, i)
               S == SizeName(m, s)
    <2>1. /\ b \in BOOLEAN /\ si = Info(F, W, P, G, S, b)
          /\ Known(m, j, w, x, s, c) = Info(F, W, DYNAMIC, G, S, c)
      BY <1>4, <1>6, <1>7 DEF Known, StarOrder
    <2> HIDE DEF F, W, P, G, S, j
    <2> QED BY <1>1, <1>2, <1>3, <1>10, <2>1, TurnOnPointStar
  <1>13. w = (IF z = 0 THEN w ELSE z) /\ x = (IF x = 0 THEN p ELSE x)
         /\ s = IF z = 0 THEN s ELSE z
    BY <1>1
  <1>14. m \in Seq(Modifier) /\ i \in 0..Len(m) /\ j \in (i + 1)..Len(m)
    BY <1>1, <1>2
  <1> HIDE DEF j, z, x
  <1> HIDE DEF W
  <1> QED BY ONLY <1>4, <1>5, <1>11, <1>12, <1>13, <1>14, Advance

\* after a '.' with the digits, perhaps none, behind it,
LEMMA PointRead ==
    ASSUME fmt \in Formats, NEW start, NEW m, NEW t, SpecText(start, m, t),
           NEW i \in 0..(Len(m) - 1), NEW si, Learnt(m, i, si),
           m[i + 1] = ".", i + 1 < Len(m) => m[i + 2] # "*"
    PROVE  Progress(start, m, i, si)
  <1> DEFINE x == i + 1
             z == 0
  <1>1. /\ m \in Seq(Modifier) /\ Len(m) \in Nat /\ i \in Nat
        /\ i \in 0..Len(m) /\ x # 0 /\ z = 0 /\ x \in 0..Len(m)
        /\ At(start + 1 + i) = "." /\ (start + 1 + i) + 1 = start + 1 + (i + 1)
        /\ x \in Nat
    BY NextModifier
  <1>2. At((start + 1 + i) + 1) # "*"
    <2>1. t # "*"
      BY DEF SpecText, Terminal
    <2> QED BY <1>1, <2>1, NextButOne
  <1>3. PICK w, p, s, b : /\ SettersAt(m, i, w, p, s) /\ StarOrder(m, w, p, b)
                          /\ si = Known(m, i, w, p, s, b)
    BY DEF Learnt
  <1>4. PICK e : /\ NumberEnds(m, x, e)
                 /\ SkipDigits(start + 1 + x) = start + 1 + e
                 /\ Number(start + 1 + x) = Value(m, x + 1)
    <2> HIDE DEF x
    <2> QED BY <1>1, NumberIsValue
  <1>5. /\ Sets(WidthAt(m), i, e, z) /\ Sets(PrecAt(m), i, e, x)
        /\ Sets(SizeAt(m), i, e, z) /\ Sets(FlagAt(m), i, e, 0)
        /\ Signless(m, i, e) /\ TokenBoundary(m, e) /\ e \in (i + 1)..Len(m)
    BY <1>1, <1>4, PointSets
  <1>6. FlagsIn(m, e) = FlagsIn(m, i) /\ SignIn(m, e) = SignIn(m, i)
    BY <1>1, <1>5, FlagsStay
  <1>7. ~StarBehind(m, x) /\ PrecOf(m, x) = Value(m, x + 1)
    <2>1. x < Len(m) => m[x + 1] # "*"
      <3>1. x + 1 = i + 2
        BY <1>1
      <3> QED BY <3>1
    <2>2. ~StarBehind(m, x)
      <3> HIDE DEF x
      <3> QED BY <2>1 DEF StarBehind
    <2> HIDE DEF x
    <2> QED BY <1>1, <2>2 DEF PrecOf
  <1>8. StarOrder(m, w, x, b)
    BY <1>3, <1>7 DEF StarOrder
  <1>9. Turn(start + 1 + i, si) = <<start + 1 + e, Known(m, e, w, x, s, b)>>
    <2> DEFINE F == FlagsIn(m, i)
               W == WidthOf(m, w)
               V == Value(m, x + 1)
               P == PrecOf(m, p)
               G == SignIn(m, i)
               S == SizeName(m, s)
    <2>1. /\ b \in BOOLEAN /\ si = Info(F, W, P, G, S, b)
          /\ Known(m, e, w, x, s, b) = Info(F, W, V, G, S, b)
      BY <1>3, <1>6, <1>7 DEF Known, StarOrder
    <2>2. Number((start + 1 + i) + 1) = V /\ SkipDigits((start + 1 + i) + 1) = start + 1 + e
      BY <1>1, <1>4
    <2> HIDE DEF F, W, P, G, S, V, x
    <2>3. Turn(start + 1 + i, si)
            = <<SkipDigits((start + 1 + i) + 1),
                Info(F, W, Number((start + 1 + i) + 1), G, S, b)>>
      BY <1>1, <1>2, <2>1, TurnOnPoint
    <2> QED BY <2>1, <2>2, <2>3
  <1>10. w = (IF z = 0 THEN w ELSE z) /\ x = (IF x = 0 THEN p ELSE x)
         /\ s = IF z = 0 THEN s ELSE z
    BY <1>1
  <1> HIDE DEF x, z
  <1> QED BY <1>1, <1>3, <1>5, <1>8, <1>9, <1>10, Advance

\* after hh and ll,
LEMMA PairRead ==
    ASSUME fmt \in Formats, NEW start, NEW m, NEW t, SpecText(start, m, t),
           NEW i \in 0..(Len(m) - 1), NEW si, Learnt(m, i, si), TokenBoundary(m, i),
           m[i + 1] \in {"h", "l"}, i + 1 < Len(m), m[i + 2] = m[i + 1]
    PROVE  Progress(start, m, i, si)
  <1> DEFINE j == i + 2
             z == 0
             c == m[i + 1]
             d == c \o c
  <1>1. /\ m \in Seq(Modifier) /\ Len(m) \in Nat /\ i \in Nat
        /\ i \in 0..Len(m) /\ z = 0
        /\ At(start + 1 + i) = c /\ (start + 1 + i) + 1 = start + 1 + (i + 1)
        /\ start \in Nat
    BY NextModifier
  <1>2. /\ j \in (i + 1)..Len(m) /\ i \in 0..(Len(m) - 2) /\ j # 0
        /\ (start + 1 + i) + 2 = start + 1 + j
    BY <1>1
  <1>3. At((start + 1 + i) + 1) = c
    BY <1>1, NextButOne
  <1>4. PICK w, p, s, b : /\ SettersAt(m, i, w, p, s) /\ StarOrder(m, w, p, b)
                          /\ si = Known(m, i, w, p, s, b)
    BY DEF Learnt
  <1>5. /\ Sets(WidthAt(m), i, j, z) /\ Sets(PrecAt(m), i, j, z)
        /\ Sets(SizeAt(m), i, j, j) /\ Sets(FlagAt(m), i, j, 0)
        /\ Signless(m, i, j) /\ TokenBoundary(m, j) /\ IsPaired(m, j)
    BY <1>1, <1>2, PairSets
  <1>6. FlagsIn(m, j) = FlagsIn(m, i) /\ SignIn(m, j) = SignIn(m, i)
    <2> HIDE DEF j
    <2> QED BY <1>1, <1>2, <1>5, FlagsStay
  <1>7. SizeName(m, j) = d
    <2>1. m[j] = c /\ m[j] \in {"h", "l"}
      OBVIOUS
    <2> HIDE DEF j, c
    <2> QED BY <1>2, <1>5, <2>1 DEF SizeName
  <1>8. Turn(start + 1 + i, si) = <<start + 1 + j, Known(m, j, w, p, j, b)>>
    <2> DEFINE F == FlagsIn(m, i)
               W == WidthOf(m, w)
               P == PrecOf(m, p)
               G == SignIn(m, i)
               S == SizeName(m, s)
    <2>1. /\ b \in BOOLEAN /\ si = Info(F, W, P, G, S, b)
          /\ Known(m, j, w, p, j, b) = Info(F, W, P, G, d, b)
      BY <1>4, <1>6, <1>7 DEF Known, StarOrder
    <2>2. At(start + 1 + i) \in {"h", "l"} /\ At((start + 1 + i) + 1) = At(start + 1 + i)
          /\ At(start + 1 + i) \o At(start + 1 + i) = d
      BY <1>1, <1>3
    <2> HIDE DEF F, W, P, G, S, j, c, d
    <2>3. Turn(start + 1 + i, si)
            = <<(start + 1 + i) + 2,
                Info(F, W, P, G, At(start + 1 + i) \o At(start + 1 + i), b)>>
      BY <2>1, <2>2, TurnOnSize
    <2> QED BY <1>2, <2>1, <2>2, <2>3
  <1>9. w = (IF z = 0 THEN w ELSE z) /\ p = (IF z = 0 THEN p ELSE z)
        /\ j = IF j = 0 THEN s ELSE j
    BY <1>2
  <1> HIDE DEF j, z
  <1> QED BY <1>1, <1>2, <1>4, <1>5, <1>8, <1>9, Advance

\* and after a single h or l.
LEMMA SingleRead ==
    ASSUME fmt \in Formats, NEW start, NEW m, NEW t, SpecText(start, m, t),
           NEW i \in 0..(Len(m) - 1), NEW si, Learnt(m, i, si), TokenBoundary(m, i),
           m[i + 1] \in {"h", "l"}, i + 1 < Len(m) => m[i + 2] # m[i + 1]
    PROVE  Progress(start, m, i, si)
  <1> DEFINE j == i + 1
             z == 0
             c == m[i + 1]
  <1>1. /\ m \in Seq(Modifier) /\ Len(m) \in Nat /\ i \in Nat
        /\ i \in 0..Len(m) /\ z = 0 /\ j # 0 /\ j \in (i + 1)..Len(m)
        /\ At(start + 1 + i) = c /\ (start + 1 + i) + 1 = start + 1 + j
        /\ start \in Nat
    BY NextModifier
  <1>2. At((start + 1 + i) + 1) # c
    <2>1. t # c
      BY DEF SpecText, Terminal
    <2> QED BY <1>1, <2>1, NextButOne
  <1>3. PICK w, p, s, b : /\ SettersAt(m, i, w, p, s) /\ StarOrder(m, w, p, b)
                          /\ si = Known(m, i, w, p, s, b)
    BY DEF Learnt
  <1>4. /\ Sets(WidthAt(m), i, j, z) /\ Sets(PrecAt(m), i, j, z)
        /\ Sets(SizeAt(m), i, j, j) /\ Sets(FlagAt(m), i, j, 0)
        /\ Signless(m, i, j) /\ TokenBoundary(m, j) /\ ~IsPaired(m, j)
    BY <1>1, SingleSets
  <1>5. FlagsIn(m, j) = FlagsIn(m, i) /\ SignIn(m, j) = SignIn(m, i)
    <2> HIDE DEF j
    <2> QED BY <1>1, <1>4, FlagsStay
  <1>6. SizeName(m, j) = c
    BY <1>1, <1>4 DEF SizeName
  <1>7. Turn(start + 1 + i, si) = <<start + 1 + j, Known(m, j, w, p, j, b)>>
    <2> DEFINE F == FlagsIn(m, i)
               W == WidthOf(m, w)
               P == PrecOf(m, p)
               G == SignIn(m, i)
               S == SizeName(m, s)
    <2>1. /\ b \in BOOLEAN /\ si = Info(F, W, P, G, S, b)
          /\ Known(m, j, w, p, j, b) = Info(F, W, P, G, c, b)
      BY <1>3, <1>5, <1>6 DEF Known, StarOrder
    <2>2. At(start + 1 + i) \in {"h", "l"} /\ At((start + 1 + i) + 1) # At(start + 1 + i)
          /\ At(start + 1 + i) = c
      BY <1>1, <1>2
    <2> HIDE DEF F, W, P, G, S, j, c
    <2>3. Turn(start + 1 + i, si)
            = <<(start + 1 + i) + 1, Info(F, W, P, G, At(start + 1 + i), b)>>
      BY <2>1, <2>2, TurnOnSize
    <2> QED BY <1>1, <2>1, <2>2, <2>3
  <1>8. w = (IF z = 0 THEN w ELSE z) /\ p = (IF z = 0 THEN p ELSE z)
        /\ j = IF j = 0 THEN s ELSE j
    BY <1>1
  <1> HIDE DEF j, z
  <1> QED BY <1>1, <1>3, <1>4, <1>7, <1>8, Advance

\* Whatever the next modifier, its turn makes progress.
LEMMA ModifierRead ==
    ASSUME fmt \in Formats, NEW start, NEW m, NEW t, SpecText(start, m, t),
           NEW i \in 0..(Len(m) - 1), NEW si, Learnt(m, i, si), TokenBoundary(m, i)
    PROVE  Progress(start, m, i, si)
  <1>1. m[i + 1] \in SoleModifier \cup {"0", ".", "*", "h", "l"} \cup (Digit \ {"0"})
    <2>1. m[i + 1] \in Modifier
      BY NextModifier
    <2> QED BY <2>1, Kinds
  <1>2. CASE m[i + 1] \in SoleModifier
    BY <1>2, SoleRead
  <1>3. CASE m[i + 1] = "0"
    BY <1>3, ZeroRead
  <1>4. CASE m[i + 1] \in Digit \ {"0"}
    BY <1>4, NumberRead
  <1>5. CASE m[i + 1] = "*"
    BY <1>5, StarRead
  <1>6. CASE m[i + 1] = "."
    <2>1. CASE i + 1 < Len(m) /\ m[i + 2] = "*"
      BY <1>6, <2>1, PointStarRead
    <2>2. CASE ~(i + 1 < Len(m) /\ m[i + 2] = "*")
      BY <1>6, <2>2, PointRead
    <2> QED BY <2>1, <2>2
  <1>7. CASE m[i + 1] \in {"h", "l"}
    <2>1. CASE i + 1 < Len(m) /\ m[i + 2] = m[i + 1]
      BY <1>7, <2>1, PairRead
    <2>2. CASE ~(i + 1 < Len(m) /\ m[i + 2] = m[i + 1])
      BY <1>7, <2>2, SingleRead
    <2> QED BY <2>1, <2>2
  <1> QED BY <1>1, <1>2, <1>3, <1>4, <1>5, <1>6, <1>7

\* x is the specification at start, read as far as its i-th modifier, or whole.
ReadTo(start, m, i, x) ==
    \E si : x = <<start + 1 + i, si>> /\ Learnt(m, i, si) /\ TokenBoundary(m, i)
ReadWhole(m, t, x) ==
    \E si : Learnt(m, Len(m), si) /\ x[2] = [si EXCEPT !.terminal = t]

\* Nothing is learnt before the first turn.
LEMMA NothingLearnt ==
    ASSUME NEW m \in Seq(Modifier)
    PROVE  Learnt(m, 0, NoSpec) /\ TokenBoundary(m, 0)
  <1>1. SettersAt(m, 0, 0, 0, 0)
    <2>1. /\ WidthAt(m) \in SUBSET (1..Len(m)) /\ PrecAt(m) \in SUBSET (1..Len(m))
          /\ SizeAt(m) \in SUBSET (1..Len(m)) /\ Len(m) \in Nat
      BY SettersOf
    <2>2. LastAt(WidthAt(m), 0, 0)
      BY <2>1 DEF LastAt
    <2>3. LastAt(PrecAt(m), 0, 0)
      BY <2>1 DEF LastAt
    <2>4. LastAt(SizeAt(m), 0, 0)
      BY <2>1 DEF LastAt
    <2> QED BY <2>2, <2>3, <2>4 DEF SettersAt
  <1>2. ~StarAt(m, 0) /\ StarOrder(m, 0, 0, TRUE)
    BY DEF StarAt, StarOrder
  <1>3. WidthOf(m, 0) = 0 /\ PrecOf(m, 0) = -1 /\ SizeName(m, 0) = "int"
    BY DEF WidthOf, StarAt, PrecOf, StarBehind, SizeName
  <1>4. FlagsIn(m, 0) = {}
    <2>1. FlagAt(m) \in SUBSET (1..Len(m)) /\ Len(m) \in Nat
      BY SettersOf
    <2> QED BY <2>1 DEF FlagsIn
  <1>5. SignIn(m, 0) = NUL
    BY DEF SignIn
  <1>6. NoSpec = Known(m, 0, 0, 0, 0, TRUE)
    BY <1>3, <1>4, <1>5 DEF NoSpec, Known, Info
  <1>7. TokenBoundary(m, 0)
    BY DEF TokenBoundary
  <1> QED BY <1>1, <1>2, <1>6, <1>7 DEF Learnt

\* What is learnt has no terminal yet.
LEMMA LearntInfo ==
    ASSUME NEW m, NEW i, NEW si, Learnt(m, i, si)
    PROVE  si.terminal = NUL
  <1>1. PICK w, p, s, b : si = Known(m, i, w, p, s, b)
    BY DEF Learnt
  <1> QED BY <1>1 DEF Known, Info

\* One turn more.
LEMMA TurnReads ==
    ASSUME fmt \in Formats, NEW start, NEW m, NEW t, SpecText(start, m, t),
           NEW i \in 0..Len(m), NEW x, ReadTo(start, m, i, x),
           NEW y, y = IF x[2].terminal # NUL THEN x ELSE Turn(x[1], x[2])
    PROVE  \/ ReadWhole(m, t, y)
           \/ \E j \in (i + 1)..Len(m) : ReadTo(start, m, j, y)
  <1>1. PICK si : x = <<start + 1 + i, si>> /\ Learnt(m, i, si) /\ TokenBoundary(m, i)
    BY DEF ReadTo
  <1>2. x[2] = si /\ x[1] = start + 1 + i /\ si.terminal = NUL
    BY <1>1, LearntInfo
  <1>3. y = Turn(start + 1 + i, si)
    BY <1>2
  <1>4. Len(m) \in Nat
    BY DEF SpecText
  <1>5. CASE i = Len(m)
    <2>1. At(start + 1 + i) = t /\ At(start + 1 + i) \in Terminal
      BY <1>5 DEF SpecText
    <2>2. y = <<(start + 1 + i) + 1, [si EXCEPT !.terminal = At(start + 1 + i)]>>
      BY <1>3, <2>1, TurnOnTerminal
    <2>3. y[2] = [si EXCEPT !.terminal = t]
      BY <2>1, <2>2
    <2> QED BY <1>1, <1>5, <2>3 DEF ReadWhole
  <1>6. CASE i # Len(m)
    <2>1. i \in 0..(Len(m) - 1)
      BY <1>4, <1>6
    <2>2. Progress(start, m, i, si)
      BY <1>1, <2>1, ModifierRead
    <2>3. PICK j, sj : /\ y = <<start + 1 + j, sj>> /\ j \in (i + 1)..Len(m)
                       /\ TokenBoundary(m, j) /\ Learnt(m, j, sj)
      BY <1>3, <2>2 DEF Progress
    <2>4. ReadTo(start, m, j, y)
      BY <2>3 DEF ReadTo
    <2> QED BY <2>3, <2>4
  <1> QED BY <1>5, <1>6

\* All turns together.
LEMMA SpecParsed ==
    ASSUME fmt \in Formats, NEW start, NEW m, NEW t, SpecText(start, m, t)
    PROVE  \E w, p, s, b : /\ SettersAt(m, Len(m), w, p, s) /\ StarOrder(m, w, p, b)
                           /\ Parse(start)
                                = [Known(m, Len(m), w, p, s, b) EXCEPT !.terminal = t]
  <1> DEFINE L == Len(m)
  <1>1. /\ m \in Seq(Modifier) /\ L \in Nat /\ start \in Nat /\ t \in Terminal
        /\ start + 1 + L < Len(fmt) /\ Len(fmt) \in Nat /\ N = Len(fmt) + 1
        /\ L < N
    BY Characters DEF SpecText
  <1>2. t # NUL
    BY <1>1, Kinds
  <1>3. PICK after : Takes(after, start)
    BY ParseRecursion
  <1> DEFINE Some(k) == \/ ReadWhole(m, t, after[k])
                        \/ \E i \in k..L : ReadTo(start, m, i, after[k])
             Good == {k \in Nat : k <= N => Some(k)}
  <1>4. 0 \in Good
    <2>1. after[0] = <<start + 1, NoSpec>> /\ start + 1 = start + 1 + 0 /\ 0 \in 0..L
      BY <1>1, <1>3 DEF Takes
    <2>2. ReadTo(start, m, 0, after[0])
      BY <1>1, <2>1, NothingLearnt DEF ReadTo
    <2> QED BY <2>1, <2>2
  <1>5. ASSUME NEW k \in Nat, k \in Good PROVE k + 1 \in Good
    <2> SUFFICES ASSUME k + 1 <= N PROVE Some(k + 1)
      OBVIOUS
    <2>1. k + 1 \in 1..N /\ (k + 1) - 1 = k /\ k <= N
      BY <1>1
    <2> DEFINE x == after[k]
               y == after[k + 1]
    <2>2. y = IF x[2].terminal # NUL THEN x ELSE Turn(x[1], x[2])
      BY <1>3, <2>1 DEF Takes
    <2>3. Some(k)
      BY <1>5, <2>1
    <2>4. CASE ReadWhole(m, t, x)
      <3>1. PICK si : Learnt(m, L, si) /\ x[2] = [si EXCEPT !.terminal = t]
        BY <2>4 DEF ReadWhole
      <3>2. PICK w, p, s, b : si = Known(m, L, w, p, s, b)
        BY <3>1 DEF Learnt
      <3>3. x[2].terminal = t
        BY <3>1, <3>2 DEF Known, Info
      <3>4. y = x
        BY <1>2, <2>2, <3>3
      <3> HIDE DEF x, y
      <3>5. ReadWhole(m, t, y)
        BY <2>4, <3>4
      <3> QED BY <3>5 DEF y
    <2>5. CASE \E i \in k..L : ReadTo(start, m, i, x)
      <3>1. PICK i \in k..L : ReadTo(start, m, i, x)
        BY <2>5
      <3>2. i \in 0..L
        BY <1>1, <3>1
      <3> HIDE DEF x, y
      <3>3. \/ ReadWhole(m, t, y)
            \/ \E j \in (i + 1)..L : ReadTo(start, m, j, y)
        BY <2>2, <3>1, <3>2, TurnReads
      <3>4. \A j \in (i + 1)..L : j \in (k + 1)..L
        BY <1>1, <3>1
      <3> QED BY <3>3, <3>4 DEF y
    <2> QED BY <2>3, <2>4, <2>5
  <1>6. N \in Good
    <2> HIDE DEF Good
    <2> QED BY <1>1, <1>4, <1>5, NatInductionOnSet
  <1>7. Some(N) /\ N..L = {}
    BY <1>1, <1>6
  <1>8. ReadWhole(m, t, after[N])
    BY <1>7
  <1>9. PICK si : Learnt(m, L, si) /\ after[N][2] = [si EXCEPT !.terminal = t]
    BY <1>8 DEF ReadWhole
  <1>10. PICK w, p, s, b : /\ SettersAt(m, L, w, p, s) /\ StarOrder(m, w, p, b)
                           /\ si = Known(m, L, w, p, s, b)
    BY <1>9 DEF Learnt
  <1>11. Parse(start) = [si EXCEPT !.terminal = t]
    BY <1>3, <1>9 DEF Takes
  <1> QED BY <1>10, <1>11

\* The last of all setters.
LEMMA LastOfIs ==
    ASSUME NEW n \in Nat, NEW S \in SUBSET (1..n), NEW x, LastAt(S, n, x)
    PROVE  LastOf(S) = x
  <1> DEFINE T == S \cup {0}
  <1>1. T \in SUBSET Int /\ x \in T
    BY DEF LastAt
  <1>2. ASSUME NEW y \in T PROVE y <= x
    BY <1>1 DEF LastAt
  <1> HIDE DEF T
  <1>3. Max(T) = x
    BY <1>1, <1>2, MaxIs
  <1> QED BY <1>3 DEF LastOf, T

\* Meaning, of the last setters w, p and s, the flags and the sign.
MeaningWith(m, t, arg, w, p, s, flags, sign) ==
    LET starW == StarAt(m, w)
        starP == StarBehind(m, p)
        stars == (IF starW THEN 1 ELSE 0) + (IF starP THEN 1 ELSE 0)
    IN  [args |-> stars + 1,
         item |-> Conversion(
            [flags |-> flags, sign |-> sign, intWidth |-> SizeName(m, s),
             terminal |-> t],
            IF starW THEN Arg(IF starP /\ p < w THEN arg + 1 ELSE arg)
            ELSE Const(IF w = 0 THEN 0 ELSE Value(m, w)),
            IF starP THEN Arg(IF starW /\ w < p THEN arg + 1 ELSE arg)
            ELSE Const(IF p = 0 THEN -1 ELSE Value(m, p + 1)),
            arg + stars)]

\* getOneSpec and the conversion together do what the specification means.
LEMMA SpecMeaning ==
    ASSUME fmt \in Formats, nextArg \in Nat,
           NEW start, NEW m, NEW t, SpecText(start, m, t)
    PROVE  /\ Meaning(m, t, nextArg).item = ConvertOne(Parse(start))
           /\ \A a : Meaning(m, t, a).args = Required(Parse(start))
  <1> DEFINE L == Len(m)
             si == Parse(start)
  <1>1. m \in Seq(Modifier) /\ L \in Nat /\ t \in Terminal /\ L \in 0..L
    BY DEF SpecText
  <1>2. PICK w, p, s, b : /\ SettersAt(m, L, w, p, s) /\ StarOrder(m, w, p, b)
                          /\ si = [Known(m, L, w, p, s, b) EXCEPT !.terminal = t]
    BY SpecParsed
  <1> DEFINE W == WidthOf(m, w)
             P == PrecOf(m, p)
             F == FlagsIn(m, L)
             G == SignIn(m, L)
             S == SizeName(m, s)
  <1>3. /\ si.flags = F /\ si.width = W /\ si.prec = P /\ si.sign = G
        /\ si.intWidth = S /\ si.terminal = t
    BY <1>2 DEF Known, Info
  <1>4. si.wFirst <=> b
    BY <1>2 DEF Known, Info
  <1>5. /\ w \in 0..L /\ p \in 0..L /\ s \in 0..L
        /\ p # 0 => m[p] = "."
    BY <1>1, <1>2, SettersType
  <1>6. (W = DYNAMIC <=> StarAt(m, w)) /\ (P = DYNAMIC <=> StarBehind(m, p))
    BY <1>1, <1>2, DynamicIsStar
  <1>7. LastOf(WidthAt(m)) = w /\ LastOf(PrecAt(m)) = p /\ LastOf(SizeAt(m)) = s
    <2>1. LastOf(WidthAt(m)) = w
      <3>1. WidthAt(m) \in SUBSET (1..L) /\ LastAt(WidthAt(m), L, w)
        BY <1>1, <1>2, SettersOf DEF SettersAt
      <3> QED BY <1>1, <3>1, LastOfIs
    <2>2. LastOf(PrecAt(m)) = p
      <3>1. PrecAt(m) \in SUBSET (1..L) /\ LastAt(PrecAt(m), L, p)
        BY <1>1, <1>2, SettersOf DEF SettersAt
      <3> QED BY <1>1, <3>1, LastOfIs
    <2>3. LastOf(SizeAt(m)) = s
      <3>1. SizeAt(m) \in SUBSET (1..L) /\ LastAt(SizeAt(m), L, s)
        BY <1>1, <1>2, SettersOf DEF SettersAt
      <3> QED BY <1>1, <3>1, LastOfIs
    <2> QED BY <2>1, <2>2, <2>3
  <1>8. {m[i] : i \in FlagAt(m)} = F
    <2>1. FlagAt(m) = {k \in FlagAt(m) : k <= L}
      BY <1>1, SettersOf
    <2> QED BY <2>1 DEF FlagsIn
  <1>9. (IF "+" \in ToSet(m) THEN "+" ELSE IF " " \in ToSet(m) THEN " " ELSE NUL) = G
    <2>1. DOMAIN m = 1..L
      BY <1>1
    <2>2. "+" \in ToSet(m) <=> \E j \in 1..L : m[j] = "+"
      BY <2>1 DEF ToSet
    <2>3. " " \in ToSet(m) <=> \E j \in 1..L : m[j] = " "
      BY <2>1 DEF ToSet
    <2> QED BY <2>2, <2>3 DEF SignIn
  <1> DEFINE starW == StarAt(m, w)
             starP == StarBehind(m, p)
             stars == (IF starW THEN 1 ELSE 0) + (IF starP THEN 1 ELSE 0)
             setting == [flags |-> F, sign |-> G, intWidth |-> S, terminal |-> t]
             width == IF starW THEN Arg(IF starP /\ p < w THEN nextArg + 1 ELSE nextArg)
                      ELSE Const(IF w = 0 THEN 0 ELSE Value(m, w))
             prec == IF starP THEN Arg(IF starW /\ w < p THEN nextArg + 1 ELSE nextArg)
                     ELSE Const(IF p = 0 THEN -1 ELSE Value(m, p + 1))
  <1>10. Meaning(m, t, nextArg)
           = [args |-> stars + 1,
              item |-> Conversion(setting, width, prec, nextArg + stars)]
    <2>1. Meaning(m, t, nextArg)
            = MeaningWith(m, t, nextArg, LastOf(WidthAt(m)), LastOf(PrecAt(m)),
                          LastOf(SizeAt(m)), {m[i] : i \in FlagAt(m)},
                          IF "+" \in ToSet(m) THEN "+"
                          ELSE IF " " \in ToSet(m) THEN " " ELSE NUL)
      BY DEF Meaning, MeaningWith, StarAt, StarBehind, SizeName
    <2>2. Meaning(m, t, nextArg) = MeaningWith(m, t, nextArg, w, p, s, F, G)
      <3> HIDE DEF F, G
      <3> QED BY <2>1, <1>7, <1>8, <1>9
    <2>3. MeaningWith(m, t, nextArg, w, p, s, F, G)
            = [args |-> stars + 1,
               item |-> Conversion(setting, width, prec, nextArg + stars)]
      BY DEF MeaningWith
    <2> HIDE DEF setting, width, prec, stars
    <2> QED BY <2>2, <2>3
  <1>11. ASSUME NEW u, NEW v, NEW a
         PROVE  Conversion(setting, u, v, a) = Conversion(si, u, v, a)
    <2>1. /\ setting.flags = F /\ setting.sign = G /\ setting.intWidth = S
          /\ setting.terminal = t
      OBVIOUS
    <2> HIDE DEF setting, si, F, G, S, W, P
    <2> QED BY <1>3, <2>1 DEF Conversion
  <1>12. Meaning(m, t, nextArg).args = stars + 1
         /\ Meaning(m, t, nextArg).item = Conversion(si, width, prec, nextArg + stars)
    <2> HIDE DEF setting, width, prec, stars, si
    <2> QED BY <1>10, <1>11
  <1>13. ~starW => width = Const(W)
    BY DEF WidthOf
  <1>14. ~starP => prec = Const(P)
    BY DEF PrecOf
  <1>15. stars + 1 = Required(si)
    <2>1. si.width = DYNAMIC <=> starW
      BY <1>3, <1>6
    <2>2. si.prec = DYNAMIC <=> starP
      BY <1>3, <1>6
    <2> HIDE DEF si, starW, starP, W, P
    <2> QED BY <2>1, <2>2 DEF Required
  <1>16. starW /\ starP => w # p
    BY <1>5 DEF StarAt, StarBehind
  <1>17. starW /\ starP => (si.wFirst <=> w < p)
    BY <1>2, <1>4 DEF StarOrder
  <1> HIDE DEF si, W, P, F, G, S, setting
  <1>18. Conversion(si, width, prec, nextArg + stars) = ConvertOne(si)
    <2>1. (si.width = DYNAMIC <=> starW) /\ (si.prec = DYNAMIC <=> starP)
      BY <1>3, <1>6
    <2>2. CASE starW /\ starP
      <3>1. stars = 2
        BY <2>2
      <3>2. w \in Int /\ p \in Int /\ (p < w <=> ~(w < p))
        BY <1>1, <1>5, <1>16, <2>2
      <3>3. CASE w < p
        <4>1. width = Arg(nextArg) /\ prec = Arg(nextArg + 1)
          BY <2>2, <3>2, <3>3
        <4>2. ConvertOne(si) = Conversion(si, Arg(nextArg), Arg(nextArg + 1), nextArg + 2)
          BY <1>17, <2>1, <2>2, <3>3 DEF ConvertOne
        <4> HIDE DEF width, prec, stars
        <4> QED BY <3>1, <4>1, <4>2
      <3>4. CASE ~(w < p)
        <4>1. width = Arg(nextArg + 1) /\ prec = Arg(nextArg)
          BY <2>2, <3>2, <3>4
        <4>2. ConvertOne(si) = Conversion(si, Arg(nextArg + 1), Arg(nextArg), nextArg + 2)
          BY <1>17, <2>1, <2>2, <3>4 DEF ConvertOne
        <4> HIDE DEF width, prec, stars
        <4> QED BY <3>1, <4>1, <4>2
      <3> QED BY <3>3, <3>4
    <2>3. CASE starW /\ ~starP
      <3>1. stars = 1 /\ width = Arg(nextArg) /\ prec = Const(si.prec)
        BY <1>3, <1>14, <2>3
      <3>2. ConvertOne(si) = Conversion(si, Arg(nextArg), Const(si.prec), nextArg + 1)
        BY <2>1, <2>3 DEF ConvertOne
      <3> HIDE DEF width, prec, stars
      <3> QED BY <3>1, <3>2
    <2>4. CASE ~starW /\ starP
      <3>1. stars = 1 /\ width = Const(si.width) /\ prec = Arg(nextArg)
        BY <1>3, <1>13, <2>4
      <3>2. ConvertOne(si) = Conversion(si, Const(si.width), Arg(nextArg), nextArg + 1)
        BY <2>1, <2>4 DEF ConvertOne
      <3> HIDE DEF width, prec, stars
      <3> QED BY <3>1, <3>2
    <2>5. CASE ~starW /\ ~starP
      <3>1. stars = 0 /\ width = Const(si.width) /\ prec = Const(si.prec)
        BY <1>3, <1>13, <1>14, <2>5
      <3>2. ConvertOne(si) = Conversion(si, Const(si.width), Const(si.prec), nextArg)
        BY <2>1, <2>5 DEF ConvertOne
      <3>3. nextArg + stars = nextArg
        BY <3>1
      <3> HIDE DEF width, prec, stars
      <3> QED BY <3>1, <3>2, <3>3
    <2> QED BY <2>2, <2>3, <2>4, <2>5
  <1>19. Meaning(m, t, nextArg).item = ConvertOne(si)
    <2> HIDE DEF width, prec, stars
    <2> QED BY <1>12, <1>18
  <1>20. ASSUME NEW a PROVE Meaning(m, t, a).args = Required(si)
    <2>1. Meaning(m, t, a).args = stars + 1
      BY <1>7 DEF Meaning, StarAt, StarBehind
    <2> QED BY <1>15, <2>1
  <1> QED BY <1>19, <1>20 DEF si

-----------------------------------------------------------------------------
(* Reading the format once                                                 *)

\* The modifiers and the end of the specification at start, and what it means.
SpecMods(start) ==
    [j \in 1..(SkipModifiers(start + 1) - (start + 1)) |-> At(start + j)]
SpecEnd(start) == At(SkipModifiers(start + 1))
ItemAt(start, arg) == Meaning(SpecMods(start), SpecEnd(start), arg).item

\* The modifiers end at the first character that is none.
LEMMA ModifiersRun ==
    ASSUME fmt \in Formats, NEW pos \in 0..Len(fmt)
    PROVE  /\ SkipModifiers(pos) \in pos..Len(fmt)
           /\ At(SkipModifiers(pos)) \notin Modifier
           /\ \A p \in pos..Len(fmt) : p < SkipModifiers(pos) => At(p) \in Modifier
  <1> DEFINE S == {p \in pos..Len(fmt) : At(p) \notin Modifier}
  <1>1. Len(fmt) \in Nat /\ At(Len(fmt)) = NUL
    BY Characters
  <1>2. NUL \notin Modifier
    BY Kinds
  <1>3. S \in SUBSET Nat /\ Len(fmt) \in S
    BY <1>1, <1>2
  <1>4. SkipModifiers(pos) = Min(S)
    BY DEF SkipModifiers
  <1>5. Min(S) \in S /\ \A y \in S : Min(S) <= y
    <2> HIDE DEF S
    <2> QED BY <1>3, MinOfSet
  <1>6. ASSUME NEW p \in pos..Len(fmt), p < Min(S) PROVE At(p) \in Modifier
    <2>1. Min(S) \in Nat /\ p \in Nat
      BY <1>1, <1>5
    <2>2. p \notin S
      BY <1>5, <1>6, <2>1
    <2> QED BY <2>2
  <1> QED BY <1>4, <1>5, <1>6

\* The modifiers of a specification are a sequence of modifiers.
LEMMA SpecModsType ==
    ASSUME fmt \in Formats, NEW start \in 0..(Len(fmt) - 1)
    PROVE  /\ SkipModifiers(start + 1) \in (start + 1)..Len(fmt)
           /\ SpecMods(start) \in Seq(Modifier)
           /\ Len(SpecMods(start)) = SkipModifiers(start + 1) - (start + 1)
           /\ SpecEnd(start) \notin Modifier
           /\ \A p \in (start + 1)..Len(fmt) :
                 p < SkipModifiers(start + 1) => At(p) \in Modifier
  <1> DEFINE stop == SkipModifiers(start + 1)
             n == stop - (start + 1)
  <1>1. Len(fmt) \in Nat /\ start \in Nat /\ start + 1 \in 0..Len(fmt)
    BY Characters
  <1>2. /\ stop \in (start + 1)..Len(fmt) /\ At(stop) \notin Modifier
        /\ \A p \in (start + 1)..Len(fmt) : p < stop => At(p) \in Modifier
    BY <1>1, ModifiersRun
  <1> HIDE DEF stop
  <1>3. n \in Nat /\ stop \in Nat
    BY <1>1, <1>2
  <1>4. ASSUME NEW j \in 1..n PROVE At(start + j) \in Modifier
    <2>1. start + j \in (start + 1)..Len(fmt) /\ start + j < stop
      BY <1>1, <1>2, <1>3
    <2> QED BY <1>2, <2>1
  <1>5. SpecMods(start) = [j \in 1..n |-> At(start + j)]
    BY DEF SpecMods, stop
  <1> HIDE DEF n
  <1>6. SpecMods(start) \in Seq(Modifier) /\ Len(SpecMods(start)) = n
    BY <1>3, <1>4, <1>5
  <1> QED BY <1>2, <1>6 DEF stop, SpecEnd, n

\* A specification that ends in a terminal is its modifiers and that terminal.
LEMMA SpecTextAt ==
    ASSUME fmt \in Formats, NEW start \in 0..(Len(fmt) - 1),
           SpecEnd(start) \in Terminal
    PROVE  SpecText(start, SpecMods(start), SpecEnd(start))
  <1> DEFINE stop == SkipModifiers(start + 1)
             m == SpecMods(start)
  <1>1. Len(fmt) \in Nat /\ start \in Nat /\ At(Len(fmt)) = NUL /\ NUL \notin Terminal
    BY Characters, Kinds
  <1>2. /\ stop \in (start + 1)..Len(fmt) /\ m \in Seq(Modifier)
        /\ Len(m) = stop - (start + 1)
    BY SpecModsType
  <1>3. \A j \in 1..Len(m) : At(start + j) = m[j]
    BY <1>2 DEF SpecMods
  <1>4. At(stop) = SpecEnd(start)
    BY DEF SpecEnd
  <1> HIDE DEF stop, m
  <1>5. stop # Len(fmt)
    BY <1>1, <1>4
  <1>6. start + 1 + Len(m) = stop /\ stop < Len(fmt)
    BY <1>1, <1>2, <1>5
  <1>7. SpecText(start, m, SpecEnd(start))
    BY <1>1, <1>2, <1>3, <1>4, <1>6 DEF SpecText
  <1> QED BY <1>7 DEF m

\* What has been read of the format before position p.
Reading(p) ==
    LET read[k \in 0..Len(fmt)] ==
            IF k = 0 THEN ReadNothing ELSE ReadChar(read[k - 1], fmt[k])
    IN  read[p]

\* Reference, which folds ReadChar, is the recursion that reads one character at a time.
LEMMA ReadRecursion ==
    ASSUME fmt \in Formats
    PROVE  /\ Reading(0) = ReadNothing
           /\ \A p \in 0..(Len(fmt) - 1) : Reading(p + 1) = ReadChar(Reading(p), At(p))
           /\ Reference = Reading(Len(fmt))
  <1> DEFINE L == Len(fmt)
             R(h) == h = [k \in 0..L |-> IF k = 0 THEN ReadNothing
                                         ELSE ReadChar(h[k - 1], fmt[k])]
             c == CHOOSE h : R(h)
             base == ReadNothing
             Step(x, k) == ReadChar(x, fmt[k])
             Starts(f, n) == f[0] = base
                             /\ \A k \in 1..n : f[k] = Step(f[k - 1], k)
             Good == {n \in Nat : \E f : Starts(f, n)}
  <1>1. L \in Nat
    BY Characters
  <1> HIDE DEF Step, base
  <1>2. 0 \in Good
    <2>1. Starts([k \in 0..0 |-> base], 0)
      OBVIOUS
    <2> QED BY <2>1
  <1>3. ASSUME NEW n \in Nat, n \in Good PROVE n + 1 \in Good
    <2>1. PICK f : Starts(f, n)
      BY <1>3
    <2> DEFINE h == [k \in 0..(n + 1) |-> IF k <= n THEN f[k] ELSE Step(f[n], n + 1)]
    <2>2. h[0] = base
      BY <2>1
    <2>3. ASSUME NEW k \in 1..(n + 1) PROVE h[k] = Step(h[k - 1], k)
      <3>1. k - 1 \in 0..(n + 1) /\ k \in 0..(n + 1) /\ k - 1 <= n
        OBVIOUS
      <3>2. h[k - 1] = f[k - 1]
        BY <3>1
      <3>3. CASE k <= n
        <4>1. h[k] = f[k] /\ k \in 1..n
          BY <3>1, <3>3
        <4> HIDE DEF h
        <4> QED BY <2>1, <3>2, <4>1
      <3>4. CASE ~(k <= n)
        <4>1. h[k] = Step(f[n], n + 1) /\ k - 1 = n /\ k = n + 1
          BY <3>1, <3>4
        <4> HIDE DEF h
        <4> QED BY <3>2, <4>1
      <3> QED BY <3>3, <3>4
    <2> HIDE DEF h
    <2>4. Starts(h, n + 1)
      BY <2>2, <2>3
    <2> HIDE DEF Starts
    <2> QED BY <2>4
  <1> HIDE DEF Good
  <1>4. L \in Good
    BY <1>1, <1>2, <1>3, NatInductionOnSet
  <1>5. PICK f : Starts(f, L)
    BY <1>4 DEF Good
  <1>6. R([k \in 0..L |-> f[k]])
    <2> DEFINE h == [k \in 0..L |-> f[k]]
    <2>1. ASSUME NEW k \in 0..L
          PROVE  h[k] = IF k = 0 THEN base ELSE Step(h[k - 1], k)
      <3>1. CASE k = 0
        BY <1>5, <3>1
      <3>2. CASE k # 0
        <4>1. k \in 1..L /\ k - 1 \in 0..L
          BY <1>1, <3>2
        <4>2. h[k - 1] = f[k - 1] /\ h[k] = f[k]
          BY <4>1
        <4> HIDE DEF h
        <4> QED BY <1>5, <3>2, <4>1, <4>2
      <3> QED BY <3>1, <3>2
    <2>2. h = [k \in 0..L |-> IF k = 0 THEN base ELSE Step(h[k - 1], k)]
      BY <2>1
    <2> HIDE DEF h
    <2>3. R(h)
      BY <2>2 DEF Step, base
    <2> QED BY <2>3 DEF h
  <1>7. R(c)
    <2> HIDE DEF R
    <2> QED BY <1>6
  <1>8. \A p : Reading(p) = c[p]
    BY DEF Reading
  <1>9. Reference = c[L]
    BY DEF Reference
  <1> HIDE DEF c
  <1>10. c[0] = ReadNothing
    <2>1. 0 \in 0..L
      BY <1>1
    <2> QED BY <1>7, <2>1
  <1>11. ASSUME NEW p \in 0..(L - 1) PROVE c[p + 1] = ReadChar(c[p], At(p))
    <2>1. p + 1 \in 0..L /\ p + 1 # 0 /\ (p + 1) - 1 = p /\ p < L
      BY <1>1
    <2>2. c[p + 1] = ReadChar(c[p], fmt[p + 1])
      BY <1>7, <2>1
    <2>3. At(p) = fmt[p + 1]
      BY <2>1 DEF At
    <2> QED BY <2>2, <2>3
  <1> QED BY <1>8, <1>9, <1>10, <1>11

\* One character read.
Reader(inSpec, spec, arg, out) ==
    [inSpec |-> inSpec, spec |-> spec, arg |-> arg, out |-> out]

\* Between specifications, and in one.
Outside(spec, arg, out) == Reader(FALSE, spec, arg, out)
Inside(spec, arg, out) == Reader(TRUE, spec, arg, out)

\* A character as it is written.
Char(c) == <<"text", c>>

\* A character that begins no specification, and one that ends an invalid one.
Plain(c) == c # "%"
Stray(c) == c \notin Modifier /\ c \notin Terminal

\* What setting one part of a reader gives.
LEMMA ReaderInSpec ==
    ASSUME NEW s, NEW a, NEW o
    PROVE  \A b, x : [Reader(b, s, a, o) EXCEPT !.inSpec = x] = Reader(x, s, a, o)
  BY DEF Reader

\* The same of its specification,
LEMMA ReaderSpec ==
    ASSUME NEW s, NEW a, NEW o
    PROVE  \A b, x : [Reader(b, s, a, o) EXCEPT !.spec = x] = Reader(b, x, a, o)
  BY DEF Reader

\* its argument
LEMMA ReaderArg ==
    ASSUME NEW s, NEW a, NEW o
    PROVE  \A b, x : [Reader(b, s, a, o) EXCEPT !.arg = x] = Reader(b, s, x, o)
  BY DEF Reader

\* and what it has read.
LEMMA ReaderOut ==
    ASSUME NEW s, NEW a, NEW o
    PROVE  \A b, x : [Reader(b, s, a, o) EXCEPT !.out = x] = Reader(b, s, a, x)
  BY DEF Reader

\* Text outside a specification.
LEMMA ReadText ==
    ASSUME NEW s, NEW a, NEW o, NEW c, Plain(c)
    PROVE  ReadChar(Outside(s, a, o), c)
             = Outside(s, a, Append(o, Char(c)))
  <1> DEFINE r == Reader(FALSE, s, a, o)
             x == Append(o, Char(c))
  <1>1. ~r.inSpec /\ r.out = o
    BY DEF Reader
  <1>2. ReadChar(r, c) = [r EXCEPT !.out = x]
    <2> HIDE DEF r
    <2> QED BY <1>1 DEF ReadChar, Plain, Char
  <1> HIDE DEF x
  <1>3. [r EXCEPT !.out = x] = Reader(FALSE, s, a, x)
    <2>1. \A b, y : [Reader(b, s, a, o) EXCEPT !.out = y] = Reader(b, s, a, y)
      BY ReaderOut
    <2> QED BY <2>1
  <1> QED BY <1>2, <1>3 DEF Outside, Inside, x

\* The '%' that begins a specification.
LEMMA ReadPercent ==
    ASSUME NEW s, NEW a, NEW o
    PROVE  ReadChar(Outside(s, a, o), "%") = Inside(<<>>, a, o)
  <1> DEFINE r == Reader(FALSE, s, a, o)
             e == <<>>
  <1>1. ~r.inSpec
    BY DEF Reader
  <1>2. ReadChar(r, "%") = [r EXCEPT !.inSpec = TRUE, !.spec = e]
    <2> HIDE DEF r
    <2> QED BY <1>1 DEF ReadChar
  <1> HIDE DEF e
  <1>3. [r EXCEPT !.inSpec = TRUE] = Reader(TRUE, s, a, o)
    <2>1. \A b, y : [Reader(b, s, a, o) EXCEPT !.inSpec = y] = Reader(y, s, a, o)
      BY ReaderInSpec
    <2> QED BY <2>1
  <1>4. [Reader(TRUE, s, a, o) EXCEPT !.spec = e] = Reader(TRUE, e, a, o)
    <2>1. \A b, y : [Reader(b, s, a, o) EXCEPT !.spec = y] = Reader(b, y, a, o)
      BY ReaderSpec
    <2> QED BY <2>1
  <1>5. [r EXCEPT !.inSpec = TRUE, !.spec = e] = [[r EXCEPT !.inSpec = TRUE] EXCEPT !.spec = e]
    <2> HIDE DEF r
    <2> QED OBVIOUS
  <1> QED BY <1>2, <1>3, <1>4, <1>5, Zenon DEF Outside, Inside, e

\* A modifier inside a specification.
LEMMA ReadModifier ==
    ASSUME NEW s, NEW a, NEW o, NEW c \in Modifier
    PROVE  ReadChar(Inside(s, a, o), c) = Inside(Append(s, c), a, o)
  <1> DEFINE r == Reader(TRUE, s, a, o)
             x == Append(s, c)
  <1>1. r.inSpec /\ r.spec = s
    BY DEF Reader
  <1>2. ReadChar(r, c) = [r EXCEPT !.spec = x]
    <2> HIDE DEF r
    <2> QED BY <1>1 DEF ReadChar
  <1> HIDE DEF x
  <1>3. [r EXCEPT !.spec = x] = Reader(TRUE, x, a, o)
    <2>1. \A b, y : [Reader(b, s, a, o) EXCEPT !.spec = y] = Reader(b, y, a, o)
      BY ReaderSpec
    <2> QED BY <2>1
  <1> QED BY <1>2, <1>3 DEF Outside, Inside, x

\* The terminal of a valid specification.
LEMMA ReadTerminal ==
    ASSUME NEW s, NEW a, NEW o, NEW c \in Terminal
    PROVE  ReadChar(Inside(s, a, o), c)
             = Outside(s, a + Meaning(s, c, a).args,
                      Append(o, Meaning(s, c, a).item))
  <1> DEFINE r == Reader(TRUE, s, a, o)
             b == a + Meaning(s, c, a).args
             x == Append(o, Meaning(s, c, a).item)
  <1>1. r.inSpec /\ r.spec = s /\ r.arg = a /\ r.out = o
    BY DEF Reader
  <1>2. c \notin Modifier
    BY Kinds
  <1>3. ReadChar(r, c) = [r EXCEPT !.inSpec = FALSE, !.arg = b, !.out = x]
    <2> HIDE DEF r
    <2> QED BY <1>1, <1>2 DEF ReadChar
  <1> HIDE DEF b, x
  <1>4. [r EXCEPT !.inSpec = FALSE] = Reader(FALSE, s, a, o)
    <2>1. \A d, y : [Reader(d, s, a, o) EXCEPT !.inSpec = y] = Reader(y, s, a, o)
      BY ReaderInSpec
    <2> QED BY <2>1
  <1>5. [Reader(FALSE, s, a, o) EXCEPT !.arg = b] = Reader(FALSE, s, b, o)
    <2>1. \A d, y : [Reader(d, s, a, o) EXCEPT !.arg = y] = Reader(d, s, y, o)
      BY ReaderArg
    <2> QED BY <2>1
  <1>6. [Reader(FALSE, s, b, o) EXCEPT !.out = x] = Reader(FALSE, s, b, x)
    <2>1. \A d, y : [Reader(d, s, b, o) EXCEPT !.out = y] = Reader(d, s, b, y)
      BY ReaderOut
    <2> QED BY <2>1
  <1>7. [r EXCEPT !.inSpec = FALSE, !.arg = b, !.out = x]
          = [[[r EXCEPT !.inSpec = FALSE] EXCEPT !.arg = b] EXCEPT !.out = x]
    <2> HIDE DEF r
    <2> QED OBVIOUS
  <1>8. ReadChar(r, c) = Reader(FALSE, s, b, x)
    BY <1>3, <1>4, <1>5, <1>6, <1>7, Zenon
  <1> QED BY <1>8 DEF Outside, Inside, b, x

\* The character that ends an invalid one.
LEMMA ReadOther ==
    ASSUME NEW s, NEW a, NEW o, NEW c, Stray(c)
    PROVE  ReadChar(Inside(s, a, o), c)
             = Outside(s, a, Append(o, Char(c)))
  <1> DEFINE r == Reader(TRUE, s, a, o)
             x == Append(o, Char(c))
  <1>1. r.inSpec /\ r.out = o
    BY DEF Reader
  <1>2. ReadChar(r, c) = [r EXCEPT !.inSpec = FALSE, !.out = x]
    <2> HIDE DEF r
    <2> QED BY <1>1 DEF ReadChar, Stray, Char
  <1> HIDE DEF x
  <1>3. [r EXCEPT !.inSpec = FALSE] = Reader(FALSE, s, a, o)
    <2>1. \A d, y : [Reader(d, s, a, o) EXCEPT !.inSpec = y] = Reader(y, s, a, o)
      BY ReaderInSpec
    <2> QED BY <2>1
  <1>4. [Reader(FALSE, s, a, o) EXCEPT !.out = x] = Reader(FALSE, s, a, x)
    <2>1. \A d, y : [Reader(d, s, a, o) EXCEPT !.out = y] = Reader(d, s, a, y)
      BY ReaderOut
    <2> QED BY <2>1
  <1>5. [r EXCEPT !.inSpec = FALSE, !.out = x]
          = [[r EXCEPT !.inSpec = FALSE] EXCEPT !.out = x]
    <2> HIDE DEF r
    <2> QED OBVIOUS
  <1>6. ReadChar(r, c) = Reader(FALSE, s, a, x)
    BY <1>2, <1>3, <1>4, <1>5, Zenon
  <1> QED BY <1>6 DEF Outside, Inside, x

-----------------------------------------------------------------------------
(* Text and specifications read                                            *)

\* What an expansion is made of.
Chars == {"text"} \X ToSet(fmt)
Copies == {Char(kRTStr[i]) : i \in Nat}
Specs == {ItemAt(start, arg) : start \in Nat, arg \in Nat}
Pieces == Chars \cup Copies \cup Specs

\* A stretch of the squeezed string, as it is written.
Span(b, e) == [k \in 1..(e - b) |-> Char(kRTStr[b + k - 1])]

\* The characters before p have been read and lie outside a specification
\* that has not ended.
ReadAt(p, a, o) ==
    /\ a \in Nat /\ o \in Seq(Pieces)
    /\ \E s : Reading(p) = Outside(s, a, o)

\* A stretch is a sequence, and grows by a character.
LEMMA SpanGrows ==
    ASSUME NEW B \in Seq(Pieces), NEW b \in Nat, NEW e \in Nat, b <= e
    PROVE  /\ B \o Span(b, e) \in Seq(Pieces)
           /\ B \o Span(b, e + 1) = Append(B \o Span(b, e), Char(kRTStr[e]))
  <1> DEFINE n == e - b
             x == Char(kRTStr[e])
             s == Span(b, e)
             t == Span(b, e + 1)
             C(k) == Char(kRTStr[b + k - 1])
  <1>1. n \in Nat /\ (e + 1) - b = n + 1 /\ b + (n + 1) - 1 = e
    OBVIOUS
  <1>2. ASSUME NEW k \in Nat, k # 0 PROVE C(k) \in Pieces
    <2>1. b + k - 1 \in Nat
      BY <1>2
    <2>2. C(k) \in Copies
      BY <2>1 DEF Copies
    <2> QED BY <2>2 DEF Pieces
  <1>3. s = [k \in 1..n |-> C(k)] /\ t = [k \in 1..(n + 1) |-> C(k)]
    BY <1>1 DEF Span
  <1>4. x = C(n + 1)
    BY <1>1
  <1> HIDE DEF n, x, s, t, C
  <1>5. s \in Seq(Pieces) /\ Len(s) = n
    BY <1>1, <1>2, <1>3
  <1>6. t \in Seq(Pieces) /\ Len(t) = n + 1
    BY <1>1, <1>2, <1>3
  <1>7. x \in Pieces
    BY <1>1, <1>2, <1>4
  <1>8. B \o t = Append(B \o s, x)
    <2>1. Append(B \o s, x) \in Seq(Pieces)
      BY <1>5, <1>7
    <2>2. Len(Append(B \o s, x)) = Len(B) + Len(t)
      BY <1>1, <1>5, <1>6, <1>7
    <2>3. ASSUME NEW i \in 1..Len(B) PROVE Append(B \o s, x)[i] = B[i]
      BY <1>1, <1>5, <1>7
    <2>4. ASSUME NEW i \in 1..Len(t) PROVE Append(B \o s, x)[Len(B) + i] = t[i]
      <3>1. i \in 1..n \/ i = n + 1
        BY <1>1, <1>6
      <3>2. CASE i \in 1..n
        <4>1. t[i] = s[i]
          BY <1>1, <1>3, <3>2
        <4>2. Append(B \o s, x)[Len(B) + i] = s[i]
          BY ONLY <1>1, <1>5, <1>7, <3>2
        <4> QED BY <4>1, <4>2
      <3>3. CASE i = n + 1
        <4>1. t[i] = x
          BY <1>1, <1>3, <1>4, <3>3
        <4>2. Append(B \o s, x)[Len(B) + i] = x
          BY <1>1, <1>5, <1>7, <3>3
        <4> QED BY <4>1, <4>2
      <3> QED BY <3>1, <3>2, <3>3
    <2> HIDE DEF Pieces
    <2> QED BY <1>6, <2>1, <2>2, <2>3, <2>4, IsConcat
  <1>9. B \o s \in Seq(Pieces)
    BY <1>5
  <1> QED BY <1>8, <1>9 DEF s, t, x

\* An empty stretch adds nothing.
LEMMA SpanEmpty ==
    ASSUME NEW B \in Seq(Pieces), NEW b \in Nat
    PROVE  B \o Span(b, b) = B
  <1>1. Span(b, b) = <<>>
    BY DEF Span
  <1> HIDE DEF Pieces
  <1>2. B \o <<>> = B
    OBVIOUS
  <1> QED BY <1>1, <1>2

\* A character of text is read.
LEMMA TextRead ==
    ASSUME fmt \in Formats, NEW p \in 0..(Len(fmt) - 1), NEW a, NEW o,
           ReadAt(p, a, o), At(p) # "%"
    PROVE  ReadAt(p + 1, a, Append(o, Char(At(p))))
  <1>1. PICK s : Reading(p) = Outside(s, a, o)
    BY DEF ReadAt
  <1>2. Reading(p + 1) = ReadChar(Reading(p), At(p))
    BY ReadRecursion
  <1>3. ReadChar(Outside(s, a, o), At(p))
          = Outside(s, a, Append(o, Char(At(p))))
    <2>1. Plain(At(p))
      BY DEF Plain
    <2> QED BY <2>1, ReadText
  <1>4. a \in Nat /\ o \in Seq(Pieces)
    BY DEF ReadAt
  <1>5. Char(At(p)) \in Pieces
    BY Characters DEF Pieces, Chars, Char
  <1>6. Append(o, Char(At(p))) \in Seq(Pieces)
    BY <1>4, <1>5
  <1> QED BY <1>1, <1>2, <1>3, <1>4, <1>6 DEF ReadAt

\* So is a stretch of it, when the squeezed string has it in place.
LEMMA TextRun ==
    ASSUME fmt \in Formats, NEW p \in 0..Len(fmt), NEW q \in p..Len(fmt),
           NEW a, NEW B \in Seq(Pieces), NEW b \in Nat, NEW e \in Nat, b <= e,
           ReadAt(p, a, B \o Span(b, e)),
           \A x \in p..(q - 1) : At(x) # "%" /\ kRTStr[e + (x - p)] = At(x)
    PROVE  ReadAt(q, a, B \o Span(b, e + (q - p)))
  <1> DEFINE Good == {n \in Nat : p + n <= q => ReadAt(p + n, a, B \o Span(b, e + n))}
  <1>1. Len(fmt) \in Nat /\ p \in Nat /\ q \in Nat
    BY Characters
  <1>2. 0 \in Good
    <2>1. p + 0 = p /\ e + 0 = e
      BY <1>1
    <2> QED BY <2>1
  <1>3. ASSUME NEW n \in Nat, n \in Good PROVE n + 1 \in Good
    <2> SUFFICES ASSUME p + (n + 1) <= q
                 PROVE  ReadAt(p + (n + 1), a, B \o Span(b, e + (n + 1)))
      OBVIOUS
    <2>1. /\ p + n <= q /\ p + n \in p..(q - 1) /\ p + n \in 0..(Len(fmt) - 1)
          /\ (p + n) - p = n /\ p + (n + 1) = (p + n) + 1
          /\ e + (n + 1) = (e + n) + 1 /\ e + n \in Nat /\ b <= e + n
      BY <1>1
    <2>2. ReadAt(p + n, a, B \o Span(b, e + n))
      BY <1>3, <2>1
    <2>3. At(p + n) # "%" /\ kRTStr[e + n] = At(p + n)
      BY <2>1
    <2>4. ReadAt((p + n) + 1, a, Append(B \o Span(b, e + n), Char(At(p + n))))
      BY <2>1, <2>2, <2>3, TextRead
    <2>5. B \o Span(b, (e + n) + 1) = Append(B \o Span(b, e + n), Char(At(p + n)))
      <3>1. e + n \in Nat /\ b <= e + n
        BY <2>1
      <3>2. B \o Span(b, (e + n) + 1)
              = Append(B \o Span(b, e + n), Char(kRTStr[e + n]))
        BY <3>1, SpanGrows, Zenon
      <3> QED BY <2>3, <3>2, Zenon
    <2> QED BY <2>1, <2>4, <2>5
  <1> HIDE DEF Good
  <1>4. \A n \in Nat : n \in Good
    BY <1>2, <1>3, NatInductionOnSet
  <1>5. q - p \in Nat /\ p + (q - p) = q /\ p + (q - p) <= q
    BY <1>1
  <1>6. q - p \in Good
    BY <1>4, <1>5
  <1> QED BY <1>5, <1>6 DEF Good

\* The modifiers of a specification are read one by one.
LEMMA ModifiersRead ==
    ASSUME fmt \in Formats, NEW start \in 0..(Len(fmt) - 1), NEW a, NEW o,
           ReadAt(start, a, o), At(start) = "%"
    PROVE  Reading(SkipModifiers(start + 1)) = Inside(SpecMods(start), a, o)
  <1> DEFINE stop == SkipModifiers(start + 1)
             Mods(n) == [j \in 1..n |-> At(start + j)]
             P(n) == Reading(start + 1 + n) = Inside(Mods(n), a, o)
             Good == {n \in Nat : start + 1 + n <= stop => P(n)}
  <1>1. Len(fmt) \in Nat /\ start \in Nat
    BY Characters
  <1>2. /\ stop \in (start + 1)..Len(fmt)
        /\ \A p \in (start + 1)..Len(fmt) : p < stop => At(p) \in Modifier
    BY SpecModsType
  <1>3. stop \in Nat
    <2> HIDE DEF stop
    <2> QED BY <1>1, <1>2
  <1>4. SpecMods(start) = Mods(stop - (start + 1))
    BY DEF SpecMods
  <1> HIDE DEF stop
  <1>5. 0 \in Good
    <2>1. PICK s : Reading(start) = Outside(s, a, o)
      BY DEF ReadAt
    <2>2. Reading(start + 1) = ReadChar(Reading(start), At(start))
      BY ReadRecursion
    <2>3. Reading(start + 1) = Inside(<<>>, a, o)
      BY <2>1, <2>2, ReadPercent
    <2>4. Mods(0) = <<>> /\ start + 1 + 0 = start + 1
      BY <1>1
    <2> QED BY <2>3, <2>4
  <1>6. ASSUME NEW n \in Nat, n \in Good PROVE n + 1 \in Good
    <2> DEFINE p == start + 1 + n
    <2> HIDE DEF P
    <2> SUFFICES ASSUME start + 1 + (n + 1) <= stop PROVE P(n + 1)
      OBVIOUS
    <2>1. /\ p <= stop /\ p < stop /\ p \in (start + 1)..Len(fmt)
          /\ p \in 0..(Len(fmt) - 1) /\ start + 1 + (n + 1) = p + 1
          /\ start + (n + 1) = p
      BY <1>1, <1>2, <1>3
    <2>2. Reading(p) = Inside(Mods(n), a, o)
      BY <1>6, <2>1 DEF P
    <2>3. At(p) \in Modifier
      BY <1>2, <2>1
    <2>4. Reading(p + 1) = ReadChar(Reading(p), At(p))
      BY <2>1, ReadRecursion
    <2>5. Reading(p + 1) = Inside(Append(Mods(n), At(p)), a, o)
      BY <2>2, <2>3, <2>4, ReadModifier
    <2>6. Mods(n + 1) = Append(Mods(n), At(p))
      <3>1. \A j \in 1..n : At(start + j) \in {At(i) : i \in Nat}
        BY <1>1
      <3>2. At(start + (n + 1)) = At(p)
        BY <2>1
      <3> HIDE DEF p
      <3> QED BY <3>1, <3>2
    <2> HIDE DEF p, Mods
    <2> QED BY <2>1, <2>5, <2>6 DEF P
  <1> HIDE DEF Good
  <1>7. \A n \in Nat : n \in Good
    BY <1>5, <1>6, NatInductionOnSet
  <1>8. /\ stop - (start + 1) \in Nat
        /\ start + 1 + (stop - (start + 1)) = stop
    BY <1>1, <1>2, <1>3
  <1>9. stop - (start + 1) \in Good
    BY <1>7, <1>8
  <1> HIDE DEF P, Mods
  <1>10. P(stop - (start + 1))
    BY <1>1, <1>2, <1>3, <1>8, <1>9 DEF Good
  <1>11. Reading(stop) = Inside(Mods(stop - (start + 1)), a, o)
    BY <1>8, <1>10 DEF P
  <1> QED BY <1>4, <1>11 DEF stop

\* A valid specification is read.
LEMMA ValidRead ==
    ASSUME fmt \in Formats, nextArg \in Nat, NEW start \in 0..(Len(fmt) - 1),
           NEW a, NEW o, ReadAt(start, a, o), At(start) = "%",
           SpecEnd(start) \in Terminal
    PROVE  /\ SkipModifiers(start + 1) < Len(fmt)
           /\ ReadAt(SkipModifiers(start + 1) + 1, a + Required(Parse(start)),
                     Append(o, ItemAt(start, a)))
  <1> DEFINE stop == SkipModifiers(start + 1)
             m == SpecMods(start)
             t == SpecEnd(start)
  <1>1. /\ Len(fmt) \in Nat /\ start \in Nat /\ At(Len(fmt)) = NUL
        /\ NUL \notin Terminal
    BY Characters, Kinds
  <1>2. stop \in (start + 1)..Len(fmt)
    BY SpecModsType
  <1>3. At(stop) = t
    BY DEF SpecEnd
  <1>4. Reading(stop) = Inside(m, a, o)
    BY ModifiersRead
  <1>5. SpecText(start, m, t)
    BY SpecTextAt
  <1>6. Meaning(m, t, a).args = Required(Parse(start))
    BY <1>5, SpecMeaning
  <1>7. Meaning(m, t, a).item = ItemAt(start, a)
    BY DEF ItemAt
  <1>8. a \in Nat /\ o \in Seq(Pieces)
    BY DEF ReadAt
  <1>9. ItemAt(start, a) \in Pieces
    BY <1>1, <1>8 DEF Pieces, Specs
  <1> HIDE DEF stop
  <1>10. stop # Len(fmt)
    BY <1>1, <1>3
  <1>11. stop \in 0..(Len(fmt) - 1) /\ stop < Len(fmt)
    BY <1>1, <1>2, <1>10
  <1>12. Reading(stop + 1) = ReadChar(Reading(stop), t)
    BY <1>3, <1>11, ReadRecursion
  <1> HIDE DEF m, t
  <1>13. Reading(stop + 1) = Outside(m, a + Meaning(m, t, a).args,
                                    Append(o, Meaning(m, t, a).item))
    BY <1>4, <1>12, ReadTerminal DEF t
  <1>14. Required(Parse(start)) \in 1..3
    BY RequiredBounds
  <1>15. a + Required(Parse(start)) \in Nat
    BY <1>8, <1>14
  <1>16. Append(o, ItemAt(start, a)) \in Seq(Pieces)
    BY <1>8, <1>9
  <1>17. Reading(stop + 1) = Outside(m, a + Required(Parse(start)),
                                    Append(o, ItemAt(start, a)))
    BY <1>6, <1>7, <1>13
  <1>18. ReadAt(stop + 1, a + Required(Parse(start)), Append(o, ItemAt(start, a)))
    BY <1>15, <1>16, <1>17 DEF ReadAt
  <1> QED BY <1>11, <1>18 DEF stop

\* An invalid specification is read: what ends it is text, if anything does.
LEMMA InvalidRead ==
    ASSUME fmt \in Formats, NEW start \in 0..(Len(fmt) - 1),
           NEW a, NEW o, ReadAt(start, a, o), At(start) = "%",
           SpecEnd(start) \notin Terminal
    PROVE  LET stop == SkipModifiers(start + 1)
           IN  /\ stop < Len(fmt)
                    => ReadAt(stop + 1, a, Append(o, Char(At(stop))))
               /\ stop = Len(fmt) => Reading(stop).out = o /\ Reading(stop).arg = a
  <1> DEFINE stop == SkipModifiers(start + 1)
             m == SpecMods(start)
  <1>1. Len(fmt) \in Nat /\ start \in Nat
    BY Characters
  <1>2. stop \in (start + 1)..Len(fmt) /\ At(stop) \notin Modifier
    BY SpecModsType DEF SpecEnd
  <1>3. At(stop) \notin Terminal
    BY DEF SpecEnd
  <1>4. Reading(stop) = Inside(m, a, o)
    BY ModifiersRead
  <1>5. a \in Nat /\ o \in Seq(Pieces)
    BY DEF ReadAt
  <1> HIDE DEF stop, m
  <1>6. ASSUME stop < Len(fmt)
        PROVE  ReadAt(stop + 1, a, Append(o, Char(At(stop))))
    <2>1. stop \in 0..(Len(fmt) - 1)
      BY <1>1, <1>2, <1>6
    <2>2. Reading(stop + 1) = ReadChar(Reading(stop), At(stop))
      BY <2>1, ReadRecursion
    <2>3. Reading(stop + 1) = Outside(m, a, Append(o, Char(At(stop))))
      <3>1. Stray(At(stop))
        BY <1>2, <1>3 DEF Stray
      <3>2. ReadChar(Inside(m, a, o), At(stop))
              = Outside(m, a, Append(o, Char(At(stop))))
        BY <3>1, ReadOther
      <3> QED BY <1>4, <2>2, <3>2
    <2>4. Char(At(stop)) \in Pieces
      BY <2>1, Characters DEF Pieces, Chars, Char
    <2>5. Append(o, Char(At(stop))) \in Seq(Pieces)
      BY <1>5, <2>4
    <2> QED BY <1>5, <2>3, <2>5 DEF ReadAt
  <1>7. Reading(stop).out = o /\ Reading(stop).arg = a
    BY <1>4 DEF Reader, Inside
  <1> QED BY <1>6, <1>7 DEF stop

-----------------------------------------------------------------------------
(* What storeOneChar writes while the format is scanned                    *)

\* What never falls from one step to the next is greatest at the end.
LEMMA StepwiseGrows ==
    ASSUME NEW M \in Nat, NEW f, \A k \in 0..M : f[k] \in Int,
           \A k \in Nat : k < M => f[k] <= f[k + 1],
           NEW m \in 0..M
    PROVE  f[m] <= f[M]
  <1> DEFINE Good == {k \in Nat : m + k <= M => f[m] <= f[m + k]}
  <1>1. 0 \in Good
    <2>1. m + 0 = m /\ f[m] \in Int
      OBVIOUS
    <2> QED BY <2>1
  <1>2. ASSUME NEW k \in Nat, k \in Good PROVE k + 1 \in Good
    <2> SUFFICES ASSUME m + (k + 1) <= M PROVE f[m] <= f[m + (k + 1)]
      OBVIOUS
    <2>1. /\ m + k <= M /\ m + k < M /\ m + k \in Nat /\ m + k \in 0..M
          /\ m + (k + 1) = (m + k) + 1 /\ (m + k) + 1 \in 0..M
      OBVIOUS
    <2>2. f[m] <= f[m + k] /\ f[m + k] <= f[(m + k) + 1]
      BY <1>2, <2>1
    <2>3. f[m] \in Int /\ f[m + k] \in Int /\ f[(m + k) + 1] \in Int
      BY <2>1
    <2> QED BY <2>1, <2>2, <2>3
  <1> HIDE DEF Good
  <1>3. \A k \in Nat : k \in Good
    BY <1>1, <1>2, NatInductionOnSet
  <1>4. M - m \in Nat /\ m + (M - m) = M /\ M - m \in Good
    BY <1>3
  <1> QED BY <1>4 DEF Good

\* How much of the format a scan has behind it, and where that ends in the
\* squeezed string.
Reach(scan) == IF scan.pos = N THEN Len(fmt) ELSE scan.pos
Index(scan) == Reach(scan) - scan.invalid

\* A turn never goes back in the squeezed string.
LEMMA IndexStep ==
    ASSUME fmt \in Formats, NEW scan, ScanInv(scan)
    PROVE  /\ Index(scan) \in Int
           /\ Index(scan) <= Index(NextScan(scan))
           /\ ~NoMore(scan.pos)
                => /\ Start(scan.pos) - scan.invalid <= Index(NextScan(scan))
                   /\ At(Stop(scan.pos)) \notin Terminal
                      => NextScan(scan).invalid > scan.invalid
  <1> DEFINE start == Start(scan.pos)
             stop == Stop(scan.pos)
             next == NextScan(scan)
  <1>1. /\ scan.pos \in 0..N /\ scan.invalid \in 0..Len(fmt)
        /\ Len(fmt) \in Nat /\ N = Len(fmt) + 1 /\ scan \in ScanSet
    BY Characters DEF ScanInv, ScanSet
  <1>2. Index(scan) \in Int
    BY <1>1 DEF Index, Reach
  <1>3. CASE NoMore(scan.pos)
    BY <1>2, <1>3 DEF NextScan
  <1>4. CASE ~NoMore(scan.pos)
    <2>1. SpecLies(scan.pos)
      BY <1>1, <1>4, SpecFound
    <2>2. /\ start \in scan.pos..(Len(fmt) - 1) /\ stop \in (start + 1)..Len(fmt)
          /\ At(stop) \in Terminal => stop < Len(fmt)
      BY <2>1 DEF SpecLies
    <2>3. scan.pos # N
      BY <1>4 DEF NoMore
    <2>4. CASE At(stop) \in Terminal
      <3>1. next.pos = stop + 1 /\ next.invalid = scan.invalid
        <4>1. next = [scan EXCEPT !.pos = stop + 1,
                        !.valid = Append(@, [start |-> start, stop |-> stop,
                                             invalid |-> scan.invalid])]
          BY <1>4, <2>4 DEF NextScan
        <4> HIDE DEF start, stop, next
        <4> QED BY <1>1, <4>1 DEF ScanSet
      <3> HIDE DEF start, stop, next
      <3>2. /\ Index(scan) <= Index(next) /\ start - scan.invalid <= Index(next)
        BY <1>1, <2>2, <2>3, <2>4, <3>1 DEF Index, Reach
      <3> QED BY <1>2, <2>4, <3>2 DEF start, stop, next
    <2>5. CASE At(stop) \notin Terminal
      <3>1. /\ next.pos = stop + 1
            /\ next.invalid = scan.invalid + (stop - start)
        <4>1. next = [scan EXCEPT !.pos = stop + 1, !.invalid = @ + (stop - start)]
          BY <1>4, <2>5 DEF NextScan
        <4> HIDE DEF start, stop, next
        <4> QED BY <1>1, <4>1 DEF ScanSet
      <3> HIDE DEF start, stop, next
      <3>2. /\ Index(scan) <= Index(next) /\ start - scan.invalid <= Index(next)
            /\ next.invalid > scan.invalid
        BY <1>1, <2>2, <2>3, <3>1 DEF Index, Reach
      <3> QED BY <1>2, <2>5, <3>2 DEF start, stop, next
    <2> QED BY <2>4, <2>5
  <1> QED BY <1>3, <1>4

\* No scan is behind the end of the squeezed string.
LEMMA IndexBounded ==
    ASSUME fmt \in Formats, NEW g, Turns(g), NEW m \in 0..N
    PROVE  Index(g[m]) <= TailEnd
  <1> DEFINE f == [k \in 0..N |-> Index(g[k])]
  <1>1. N \in Nat /\ Len(fmt) \in Nat /\ N = Len(fmt) + 1
    BY Characters
  <1>2. ASSUME NEW k \in 0..N PROVE ScanInv(g[k]) /\ Index(g[k]) \in Int
    <2>1. ScanInv(g[k])
      BY TurnsInv
    <2> QED BY <2>1, IndexStep
  <1>3. ASSUME NEW k \in Nat, k < N PROVE Index(g[k]) <= Index(g[k + 1])
    <2>1. k \in 0..N /\ k + 1 \in 1..N /\ (k + 1) - 1 = k
      BY <1>1, <1>3
    <2>2. g[k + 1] = NextScan(g[k])
      BY <2>1 DEF Turns
    <2>3. ScanInv(g[k])
      BY <1>2, <2>1
    <2> QED BY <2>2, <2>3, IndexStep
  <1>4. \A k \in 0..N : f[k] \in Int
    BY <1>2
  <1>5. ASSUME NEW k \in Nat, k < N PROVE f[k] <= f[k + 1]
    <2>1. k \in 0..N /\ k + 1 \in 0..N
      BY <1>1, <1>5
    <2>2. f[k] = Index(g[k]) /\ f[k + 1] = Index(g[k + 1])
      BY <2>1
    <2> QED BY <1>3, <1>5, <2>2
  <1>6. f[m] = Index(g[m]) /\ f[N] = Index(g[N])
    BY <1>1
  <1> HIDE DEF f
  <1>7. f[m] <= f[N]
    BY <1>1, <1>4, <1>5, StepwiseGrows
  <1>8. g[N] = Scan /\ ScanInv(g[N]) /\ N \in 0..N
    BY <1>1, <1>2 DEF Turns
  <1>9. Index(g[N]) <= TailEnd
    <2>1. Scan.pos \in 0..N /\ InvalidSize \in 0..Len(fmt)
      BY <1>8 DEF ScanInv, ScanSet, InvalidSize
    <2>2. Reach(Scan) <= Len(fmt) /\ Reach(Scan) \in Int
      BY <1>1, <2>1 DEF Reach
    <2>3. Index(g[N]) = Reach(Scan) - InvalidSize /\ TailEnd = Len(fmt) - InvalidSize
      BY <1>8 DEF Index, TailEnd, InvalidSize
    <2> QED BY <1>1, <2>1, <2>2, <2>3
  <1>10. f[m] \in Int /\ f[N] \in Int /\ TailEnd \in Int
    BY <1>1, <1>4, <1>8, InvalidSizeBounds
  <1> QED BY <1>6, <1>7, <1>9, <1>10

\* What storeOneChar has left out before the i-th character.
LeftOut(c, i) == IF i = 0 THEN 0 ELSE c[i - 1].offset

\* A character that storeOneChar does not take for an invalid '%'.
Kept(p) == At(p) # "%" \/ At(SkipModifiers(p + 1)) \in Terminal

\* One call.
LEMMA StoreCall ==
    ASSUME fmt \in Formats, NEW c, Stores(c), NEW i \in 0..N
    PROVE  /\ c[i] = storeOneChar(i, LeftOut(c, i))
           /\ LeftOut(c, i + 1) = c[i].offset
  <1>1. N \in Nat
    BY Characters
  <1>2. i + 1 # 0 /\ (i + 1) - 1 = i
    BY <1>1
  <1>3. LeftOut(c, i + 1) = c[i].offset
    BY <1>2 DEF LeftOut
  <1>4. c[i] = storeOneChar(i, LeftOut(c, i))
    BY DEF Stores, LeftOut
  <1> QED BY <1>3, <1>4

\* A character is copied.
LEMMA StoreKept ==
    ASSUME fmt \in Formats, NEW c, Stores(c), NEW i \in Nat, NEW o \in Nat,
           LeftOut(c, i) = o, i + o < Len(fmt), Kept(i + o)
    PROVE  c[i].char = At(i + o) /\ LeftOut(c, i + 1) = o
  <1>1. Len(fmt) \in Nat /\ N = Len(fmt) + 1
    BY Characters
  <1>2. i \in 0..N /\ i + o < N
    BY <1>1
  <1>3. c[i] = storeOneChar(i, o) /\ LeftOut(c, i + 1) = c[i].offset
    BY <1>2, StoreCall
  <1>4. storeOneChar(i, o) = [char |-> At(i + o), offset |-> o]
    BY <1>2 DEF storeOneChar, Kept
  <1> QED BY <1>3, <1>4

\* An invalid specification is left out but for what ends it.
LEMMA StoreDropped ==
    ASSUME fmt \in Formats, NEW c, Stores(c), NEW i \in Nat, NEW o \in Nat,
           LeftOut(c, i) = o, i + o < Len(fmt), ~Kept(i + o)
    PROVE  LET stop == SkipModifiers(i + o + 1)
           IN  c[i].char = At(stop) /\ LeftOut(c, i + 1) = stop - i
  <1> DEFINE stop == SkipModifiers(i + o + 1)
             left == stop - i
  <1>1. Len(fmt) \in Nat /\ N = Len(fmt) + 1
    BY Characters
  <1>2. i \in 0..N /\ i + o < N /\ i + o + 1 \in 0..Len(fmt)
    BY <1>1
  <1>3. c[i] = storeOneChar(i, o) /\ LeftOut(c, i + 1) = c[i].offset
    BY <1>2, StoreCall
  <1>4. At(i + o) = "%" /\ At(stop) \notin Terminal
    BY DEF Kept
  <1>5. storeOneChar(i, o) = [char |-> At(i + left), offset |-> left]
    BY <1>2, <1>4 DEF storeOneChar
  <1>6. stop \in (i + o + 1)..Len(fmt)
    BY <1>2, ModifiersSkipped
  <1> HIDE DEF stop
  <1>7. i + left = stop
    BY <1>1, <1>6
  <1> QED BY <1>3, <1>5, <1>7 DEF stop, left

\* Characters are copied as long as none begins an invalid specification.
LEMMA StoreRun ==
    ASSUME fmt \in Formats, NEW c, Stores(c), NEW i \in Nat, NEW o \in Nat,
           LeftOut(c, i) = o, NEW q \in (i + o)..Len(fmt),
           \A p \in (i + o)..(q - 1) : Kept(p)
    PROVE  /\ LeftOut(c, q - o) = o
           /\ \A p \in (i + o)..(q - 1) : c[p - o].char = At(p)
  <1> DEFINE Good == {n \in Nat : i + o + n <= q => LeftOut(c, i + n) = o}
  <1>1. Len(fmt) \in Nat /\ q \in Nat
    BY Characters
  <1>2. 0 \in Good
    <2>1. i + 0 = i
      OBVIOUS
    <2> QED BY <2>1
  <1>3. ASSUME NEW n \in Nat, n \in Good PROVE n + 1 \in Good
    <2> SUFFICES ASSUME i + o + (n + 1) <= q PROVE LeftOut(c, i + (n + 1)) = o
      OBVIOUS
    <2>1. /\ i + o + n <= q /\ (i + n) + o \in (i + o)..(q - 1) /\ i + n \in Nat
          /\ (i + n) + o < Len(fmt) /\ i + (n + 1) = (i + n) + 1
      BY <1>1
    <2>2. LeftOut(c, i + n) = o
      BY <1>3, <2>1
    <2>3. Kept((i + n) + o)
      BY <2>1
    <2>4. LeftOut(c, (i + n) + 1) = o
      BY <2>1, <2>2, <2>3, StoreKept
    <2> QED BY <2>1, <2>4
  <1> HIDE DEF Good
  <1>4. \A n \in Nat : n \in Good
    BY <1>2, <1>3, NatInductionOnSet
  <1>5. ASSUME NEW p \in (i + o)..q PROVE p - o \in Nat /\ LeftOut(c, p - o) = o
    <2>1. p - (i + o) \in Nat /\ i + o + (p - (i + o)) <= q
          /\ i + (p - (i + o)) = p - o /\ p - o \in Nat
      BY <1>1
    <2>2. p - (i + o) \in Good
      BY <1>4, <2>1
    <2>3. LeftOut(c, i + (p - (i + o))) = o
      BY <2>1, <2>2 DEF Good
    <2> QED BY <2>1, <2>3
  <1>6. LeftOut(c, q - o) = o
    <2>1. q \in (i + o)..q
      BY <1>1
    <2> QED BY <1>5, <2>1
  <1>7. ASSUME NEW p \in (i + o)..(q - 1) PROVE c[p - o].char = At(p)
    <2>1. p \in (i + o)..q /\ (p - o) + o = p /\ p < Len(fmt)
      BY <1>1
    <2>2. p - o \in Nat /\ LeftOut(c, p - o) = o
      BY <1>5, <2>1
    <2>3. Kept((p - o) + o)
      BY <2>1
    <2>4. c[p - o].char = At((p - o) + o)
      BY <2>1, <2>2, <2>3, StoreKept
    <2> QED BY <2>1, <2>4
  <1> QED BY <1>6, <1>7

\* The squeezed string is what was stored; without an invalid specification
\* it is the format.
LEMMA Squeezed ==
    ASSUME fmt \in Formats, NEW c, Stores(c), NEW i \in 0..TailEnd, NEW p \in Nat,
           c[i].char = At(p), InvalidSize = 0 => i = p
    PROVE  kRTStr[i] = At(p)
  <1>1. /\ Len(fmt) \in Nat /\ N = Len(fmt) + 1
        /\ squeezeSoundSize \in 1..N /\ TailEnd = squeezeSoundSize - 1
        /\ InvalidSize \in 0..Len(fmt) /\ squeezeSoundSize = N - InvalidSize
    BY Characters, InvalidSizeBounds DEF squeezeSoundSize
  <1>2. i \in 0..(squeezeSoundSize - 1)
    BY <1>1
  <1>3. CASE squeezeSoundSize < N
    <2>1. kRTStr[i] = kfmtArr[i]
      BY <1>3 DEF kRTStr
    <2>2. kfmtArr[i] = c[i].char
      BY <1>2 DEF Stores
    <2> QED BY <2>1, <2>2
  <1>4. CASE ~(squeezeSoundSize < N)
    <2>1. InvalidSize = 0 /\ i \in 0..(N - 1)
      BY <1>1, <1>2, <1>4
    <2>2. kRTStr[i] = At(i)
      BY <1>4, <2>1 DEF kRTStr
    <2> QED BY <2>1, <2>2
  <1> QED BY <1>3, <1>4

-----------------------------------------------------------------------------
(* The scan reads what the format says                                     *)

\* What has been read before position p, and the argument due there.
ArgAt(p) == Reading(p).arg
OutAt(p) == Reading(p).out
AtRest(p) == ReadAt(p, ArgAt(p), OutAt(p))

\* Where the text behind the i-th specification of v begins, in the format
\* and in the squeezed string.
From(v, i) == IF i = 0 THEN 0 ELSE v[i].stop + 1
Left(v, i) == IF i = 0 THEN 0 ELSE After(v[i])

\* The text in front of the i-th specification and its conversion are read.
Converted(v, i) ==
    /\ SpecEnd(v[i].start) \in Terminal
    /\ ReadAt(From(v, i), ArgAt(From(v, i - 1)) + Required(Parse(v[i].start)),
              Append(OutAt(From(v, i - 1)) \o Span(Left(v, i - 1), Before(v[i])),
                     ItemAt(v[i].start, ArgAt(From(v, i - 1)))))

\* So is the text behind the last one, as far as the scan has come; where a
\* specification is cut off by the end of the format, nothing follows.
Read(scan) ==
    LET n == Len(scan.valid)
        p == From(scan.valid, n)
    IN  IF scan.pos = N
        THEN /\ ArgAt(Len(fmt)) = ArgAt(p)
             /\ OutAt(Len(fmt))
                  = OutAt(p) \o Span(Left(scan.valid, n), Len(fmt) - scan.invalid)
        ELSE ReadAt(scan.pos, ArgAt(p),
                    OutAt(p) \o Span(Left(scan.valid, n), scan.pos - scan.invalid))

\* storeOneChar has left out as much as the scan.
Together(c, scan) ==
    scan.pos # N => LeftOut(c, scan.pos - scan.invalid) = scan.invalid

ReadInv(c, scan) ==
    /\ ScanInv(scan)
    /\ AtRest(From(scan.valid, Len(scan.valid)))
    /\ \A i \in 1..Len(scan.valid) : Converted(scan.valid, i)
    /\ Read(scan)
    /\ Together(c, scan)

\* What is read is a function of the place.
LEMMA ReadAtIs ==
    ASSUME NEW p, NEW a, NEW o, ReadAt(p, a, o)
    PROVE  ArgAt(p) = a /\ OutAt(p) = o /\ AtRest(p)
  <1>1. PICK s : Reading(p) = Outside(s, a, o)
    BY DEF ReadAt
  <1>2. ArgAt(p) = a /\ OutAt(p) = o
    BY <1>1 DEF ArgAt, OutAt, Outside, Reader
  <1> QED BY <1>2 DEF AtRest

\* Nothing has been read before the first character.
LEMMA FirstRead ==
    ASSUME fmt \in Formats, NEW c
    PROVE  ReadInv(c, FirstScan)
  <1>1. Len(fmt) \in Nat /\ N = Len(fmt) + 1 /\ 0 \in 0..N
    BY Characters
  <1>2. ScanInv(FirstScan)
    <2>1. PICK g : Turns(g)
      BY ScanRecursion
    <2> QED BY <1>1, <2>1, TurnsInv DEF Turns
  <1>3. FirstScan.pos = 0 /\ FirstScan.valid = <<>> /\ FirstScan.invalid = 0
        /\ Len(<<>>) = 0
    BY DEF FirstScan
  <1>4. ReadAt(0, 1, <<>>)
    <2>1. Reading(0) = Outside(<<>>, 1, <<>>)
      BY ReadRecursion DEF ReadNothing, Outside, Reader
    <2>2. <<>> \in Seq(Pieces)
      OBVIOUS
    <2> QED BY <2>1, <2>2 DEF ReadAt
  <1>5. ArgAt(0) = 1 /\ OutAt(0) = <<>> /\ AtRest(0)
    BY <1>4, ReadAtIs
  <1>6. From(<<>>, 0) = 0 /\ Left(<<>>, 0) = 0
    BY DEF From, Left
  <1>7. <<>> \o Span(0, 0) = <<>>
    <2>1. <<>> \in Seq(Pieces)
      OBVIOUS
    <2> QED BY <2>1, SpanEmpty
  <1>8. Read(FirstScan)
    <2>1. FirstScan.pos # N /\ 0 - 0 = 0
      BY <1>1, <1>3
    <2> QED BY <1>3, <1>4, <1>5, <1>6, <1>7, <2>1 DEF Read
  <1>9. Together(c, FirstScan)
    BY <1>3 DEF Together, LeftOut
  <1> HIDE DEF FirstScan
  <1> QED BY <1>2, <1>3, <1>5, <1>6, <1>8, <1>9 DEF ReadInv

\* The text in front of the next specification is read and stored alike.
LEMMA GapRead ==
    ASSUME fmt \in Formats, NEW c, Stores(c), NEW scan, ReadInv(c, scan),
           scan.pos # N, scan.invalid <= InvalidSize,
           NEW q \in scan.pos..Len(fmt), q - scan.invalid <= TailEnd,
           \A p \in scan.pos..(q - 1) : At(p) # "%"
    PROVE  LET n == Len(scan.valid)
               p == From(scan.valid, n)
           IN  /\ ReadAt(q, ArgAt(p),
                         OutAt(p) \o Span(Left(scan.valid, n), q - scan.invalid))
               /\ LeftOut(c, q - scan.invalid) = scan.invalid
  <1> DEFINE n == Len(scan.valid)
             p == From(scan.valid, n)
             b == Left(scan.valid, n)
             B == OutAt(p)
             a == ArgAt(p)
             o == scan.invalid
             pos == scan.pos
             e == pos - o
  <1>1. /\ pos \in 0..N /\ o \in 0..Len(fmt) /\ o <= pos
        /\ Len(fmt) \in Nat /\ N = Len(fmt) + 1
        /\ scan \in ScanSet /\ scan.valid \in Seq(ValidSpec) /\ n \in Nat
    BY Characters DEF ReadInv, ScanInv, ScanSet
  <1>2. InvalidSize \in 0..Len(fmt) /\ TailEnd = Len(fmt) - InvalidSize
    BY InvalidSizeBounds DEF TailEnd
  <1>3. b \in Nat /\ b <= e
    <2>1. CASE n = 0
      BY <1>1, <2>1 DEF Left
    <2>2. CASE n # 0
      <3> DEFINE v == scan.valid[n]
      <3>1. n \in 1..n
        BY <1>1, <2>2
      <3>2. SpecInPlace(scan, v) /\ b = After(v)
        BY <2>2, <3>1 DEF ReadInv, ScanInv, Left
      <3> HIDE DEF v, b, n
      <3>3. /\ v.start \in Nat /\ v.stop \in Nat /\ v.invalid \in Nat
            /\ v.start < v.stop /\ 0 <= Before(v) /\ After(v) <= e
        BY <3>2 DEF SpecInPlace
      <3> QED BY <3>2, <3>3 DEF After, Before
    <2> QED BY <2>1, <2>2
  <1>4. ReadAt(pos, a, B \o Span(b, e))
    BY DEF ReadInv, Read
  <1>5. B \in Seq(Pieces)
    BY DEF ReadInv, AtRest, ReadAt
  <1>6. LeftOut(c, e) = o
    BY DEF ReadInv, Together
  <1>7. \A x \in pos..(q - 1) : At(x) # "%"
    OBVIOUS
  <1> HIDE DEF n, p, b, B, a, o, pos, e
  <1>8. e \in Nat /\ o \in Nat /\ pos \in Nat /\ e + o = pos /\ q \in pos..Len(fmt)
        /\ pos \in 0..Len(fmt) /\ q \in Nat
    BY <1>1 DEF e, pos
  <1>9. \A x \in (e + o)..(q - 1) : Kept(x)
    BY <1>7, <1>8 DEF Kept
  <1>10. /\ LeftOut(c, q - o) = o
         /\ \A x \in pos..(q - 1) : c[x - o].char = At(x)
    <2>1. q \in (e + o)..Len(fmt)
      BY <1>8
    <2>2. /\ LeftOut(c, q - o) = o
          /\ \A x \in (e + o)..(q - 1) : c[x - o].char = At(x)
      BY <1>6, <1>8, <1>9, <2>1, StoreRun
    <2> QED BY <1>8, <2>2
  <1>11. ASSUME NEW x \in pos..(q - 1)
         PROVE  At(x) # "%" /\ kRTStr[e + (x - pos)] = At(x)
    <2>1. e + (x - pos) = x - o /\ x \in Nat
      BY <1>8
    <2>2. x - o \in 0..TailEnd
      <3>1. q - o <= TailEnd /\ TailEnd \in Int
        BY <1>2 DEF o
      <3>2. o \in Nat /\ o <= x /\ x < q /\ q \in Nat
        BY <1>8
      <3> QED BY <2>1, <3>1, <3>2, ShiftedInside, Zenon
    <2>3. c[x - o].char = At(x)
      BY <1>10
    <2>4. InvalidSize = 0 => x - o = x
      BY <1>2, <1>8, <2>1 DEF o
    <2>5. x \in Nat
      BY <2>1
    <2>6. kRTStr[x - o] = At(x)
      BY <2>2, <2>3, <2>4, <2>5, Squeezed, Zenon
    <2> QED BY <1>7, <2>1, <2>6
  <1>12. e + (q - pos) = q - o
    BY <1>8
  <1>13. ReadAt(q, a, B \o Span(b, e + (q - pos)))
    BY <1>3, <1>4, <1>5, <1>8, <1>11, TextRun
  <1>14. ReadAt(q, a, B \o Span(b, q - o))
    BY <1>12, <1>13
  <1> QED BY <1>10, <1>14 DEF n, p, b, B, a, o

\* A valid specification.
LEMMA ValidReadInv ==
    ASSUME fmt \in Formats, nextArg \in Nat, NEW c, Stores(c),
           NEW scan, ReadInv(c, scan), ~NoMore(scan.pos),
           At(Stop(scan.pos)) \in Terminal,
           scan.invalid <= InvalidSize,
           Start(scan.pos) - scan.invalid <= TailEnd
    PROVE  ReadInv(c, NextScan(scan))
  <1> DEFINE n == Len(scan.valid)
             p == From(scan.valid, n)
             b == Left(scan.valid, n)
             B == OutAt(p)
             a == ArgAt(p)
             o == scan.invalid
             pos == scan.pos
             start == Start(pos)
             stop == Stop(pos)
             next == NextScan(scan)
             spec == [start |-> start, stop |-> stop, invalid |-> o]
             w == next.valid
             T == B \o Span(b, start - o)
  <1>1. /\ pos \in 0..N /\ o \in 0..Len(fmt) /\ o <= pos
        /\ Len(fmt) \in Nat /\ N = Len(fmt) + 1
        /\ scan \in ScanSet /\ scan.valid \in Seq(ValidSpec) /\ n \in Nat
    BY Characters DEF ReadInv, ScanInv, ScanSet
  <1>2. SpecLies(pos)
    BY <1>1, SpecFound
  <1>3. /\ start \in pos..(Len(fmt) - 1) /\ At(start) = "%"
        /\ stop \in (start + 1)..Len(fmt) /\ stop < Len(fmt)
        /\ \A x \in pos..Len(fmt) : x < stop /\ x # start => At(x) # "%"
    BY <1>2 DEF SpecLies
  <1>4. /\ next.pos = stop + 1 /\ w = Append(scan.valid, spec)
        /\ next.invalid = o
    <2>1. next = [scan EXCEPT !.pos = stop + 1, !.valid = Append(@, spec)]
      BY DEF NextScan
    <2> HIDE DEF start, stop, next, spec
    <2> QED BY <1>1, <2>1 DEF ScanSet
  <1>5. spec.start = start /\ spec.stop = stop /\ spec.invalid = o
    OBVIOUS
  <1>6. ScanInv(next)
    BY NextScanInv DEF ReadInv
  <1>7. pos # N
    BY DEF NoMore
  <1>8. stop = SkipModifiers(start + 1)
    BY DEF Stop, Start
  <1>9. At(stop) = SpecEnd(start) /\ At(stop) \in Terminal
    BY <1>8 DEF SpecEnd
  <1>10. \A i \in 1..n : Converted(scan.valid, i)
    BY DEF ReadInv
  <1>11. spec \in ValidSpec
    <2> HIDE DEF start, stop, o
    <2> QED BY <1>1, <1>3 DEF ValidSpec, pos
  <1>12. start - o <= TailEnd /\ o <= InvalidSize
    OBVIOUS
  <1> HIDE DEF start, stop, next, spec, w
  <1>13. /\ Len(w) = n + 1 /\ w[n + 1] = spec
         /\ \A i \in 1..n : w[i] = scan.valid[i]
    BY <1>1, <1>4, <1>11
  <1>14. \A x \in pos..(start - 1) : At(x) # "%"
    BY <1>1, <1>3
  <1>15. ReadAt(start, a, T) /\ LeftOut(c, start - o) = o
    <2>1. start \in pos..Len(fmt)
      BY <1>1, <1>3
    <2> QED BY <1>7, <1>12, <1>14, <2>1, GapRead
  <1> HIDE DEF T
  <1>16. ReadAt(stop + 1, a + Required(Parse(start)), Append(T, ItemAt(start, a)))
    <2>1. start \in 0..(Len(fmt) - 1) /\ SpecEnd(start) \in Terminal
      BY <1>1, <1>3, <1>9
    <2> QED BY <1>3, <1>8, <1>15, <2>1, ValidRead
  <1>17. From(w, n) = p /\ Left(w, n) = b /\ From(w, n + 1) = stop + 1
         /\ Left(w, n + 1) = (stop + 1) - o /\ Before(w[n + 1]) = start - o
         /\ w[n + 1].start = start
    <2>1. n + 1 # 0
      BY <1>1
    <2>2. n # 0 => n \in 1..n
      BY <1>1
    <2>3. From(w, n) = From(scan.valid, n) /\ Left(w, n) = Left(scan.valid, n)
      BY <1>13, <2>2 DEF From, Left
    <2>4. From(w, n + 1) = spec.stop + 1 /\ Left(w, n + 1) = After(spec)
      BY <1>13, <2>1 DEF From, Left
    <2>5. After(spec) = (stop + 1) - o
      <3>1. start \in Nat /\ stop \in Nat /\ o \in Nat
        BY <1>1, <1>3
      <3> HIDE DEF o
      <3> QED BY <1>5, <3>1 DEF After
    <2> QED BY <1>5, <1>13, <2>3, <2>4, <2>5 DEF Before
  <1>18. ASSUME NEW i \in 1..Len(w) PROVE Converted(w, i)
    <2>1. i \in 1..n \/ i = n + 1
      BY <1>1, <1>13
    <2>2. CASE i \in 1..n
      <3>1. w[i] = scan.valid[i]
        BY <1>13, <2>2
      <3>2. i - 1 # 0 => w[i - 1] = scan.valid[i - 1]
        BY <1>1, <1>13, <2>2
      <3>3. /\ From(w, i) = From(scan.valid, i)
            /\ From(w, i - 1) = From(scan.valid, i - 1)
            /\ Left(w, i - 1) = Left(scan.valid, i - 1)
        BY <3>1, <3>2 DEF From, Left
      <3>4. Converted(scan.valid, i)
        BY <1>10, <2>2
      <3> QED BY <3>1, <3>3, <3>4 DEF Converted
    <2>3. CASE i = n + 1
      <3>1. i - 1 = n
        BY <1>1, <2>3
      <3>2. Converted(w, n + 1) =
              (/\ SpecEnd(w[n + 1].start) \in Terminal
               /\ ReadAt(From(w, n + 1), ArgAt(From(w, n)) + Required(Parse(w[n + 1].start)),
                         Append(OutAt(From(w, n)) \o Span(Left(w, n), Before(w[n + 1])),
                                ItemAt(w[n + 1].start, ArgAt(From(w, n))))))
        BY <2>3, <3>1 DEF Converted
      <3>3. Converted(w, n + 1)
        BY <1>9, <1>16, <1>17, <3>2 DEF T, a, B
      <3> QED BY <2>3, <3>3
    <2> QED BY <2>1, <2>2, <2>3
  <1>19. AtRest(stop + 1) /\ OutAt(stop + 1) \in Seq(Pieces)
    <2>1. AtRest(stop + 1)
      BY <1>16, ReadAtIs
    <2> QED BY <2>1 DEF AtRest, ReadAt
  <1>20. Read(next)
    <2>1. (stop + 1) - o \in Nat /\ stop + 1 # N
      BY <1>1, <1>3
    <2>2. OutAt(stop + 1) \o Span((stop + 1) - o, (stop + 1) - o) = OutAt(stop + 1)
      BY <1>19, <2>1, SpanEmpty
    <2>3. ReadAt(stop + 1, ArgAt(stop + 1),
                 OutAt(stop + 1) \o Span((stop + 1) - o, (stop + 1) - o))
      BY <1>19, <2>2 DEF AtRest
    <2>4. next.pos - next.invalid = (stop + 1) - o /\ next.pos # N
      BY <1>4, <2>1
    <2>5. /\ next.pos = stop + 1 /\ Len(next.valid) = n + 1
          /\ From(next.valid, n + 1) = stop + 1
          /\ Left(next.valid, n + 1) = (stop + 1) - o
      BY <1>4, <1>13, <1>17 DEF w
    <2> HIDE DEF n, p, b, B, a, o, pos
    <2> QED BY <2>3, <2>4, <2>5 DEF Read
  <1>21. LeftOut(c, (stop + 1) - o) = o
    <2> DEFINE i == start - o
    <2>1. /\ i \in Nat /\ o \in Nat /\ i + o = start
          /\ stop + 1 \in start..Len(fmt)
      BY <1>1, <1>3
    <2>2. LeftOut(c, i) = o
      BY <1>15
    <2>3. ASSUME NEW x \in start..((stop + 1) - 1) PROVE Kept(x)
      <3>1. x = start \/ (x # start /\ x < stop /\ x \in pos..Len(fmt)) \/ x = stop
        BY <1>1, <1>3, <2>1
      <3>2. CASE x = start
        BY <1>8, <1>9, <3>2 DEF Kept
      <3>3. CASE x # start /\ x < stop /\ x \in pos..Len(fmt)
        BY <1>3, <3>3 DEF Kept
      <3>4. CASE x = stop
        <4>1. "%" \notin Terminal
          BY DEF Terminal
        <4> QED BY <1>9, <3>4, <4>1 DEF Kept
      <3> QED BY <3>1, <3>2, <3>3, <3>4
    <2> HIDE DEF i, o
    <2>4. stop + 1 \in (i + o)..Len(fmt)
      BY <2>1
    <2>5. \A x \in (i + o)..((stop + 1) - 1) : Kept(x)
      BY <2>1, <2>3
    <2> QED BY <2>1, <2>2, <2>4, <2>5, StoreRun
  <1>22. Together(c, next)
    <2>1. next.pos - next.invalid = (stop + 1) - o
      BY <1>4
    <2> QED BY <1>4, <1>21, <2>1 DEF Together
  <1>23. AtRest(From(w, Len(w)))
    BY <1>13, <1>17, <1>19
  <1>24. ReadInv(c, next)
    BY <1>6, <1>18, <1>20, <1>22, <1>23 DEF ReadInv, w
  <1> QED BY <1>24 DEF next

\* An invalid specification.
LEMMA InvalidReadInv ==
    ASSUME fmt \in Formats, NEW c, Stores(c),
           NEW scan, ReadInv(c, scan), ~NoMore(scan.pos),
           At(Stop(scan.pos)) \notin Terminal,
           scan.invalid <= InvalidSize,
           NextScan(scan).invalid <= InvalidSize,
           Start(scan.pos) - scan.invalid <= TailEnd
    PROVE  ReadInv(c, NextScan(scan))
  <1> DEFINE n == Len(scan.valid)
             p == From(scan.valid, n)
             b == Left(scan.valid, n)
             B == OutAt(p)
             a == ArgAt(p)
             o == scan.invalid
             pos == scan.pos
             start == Start(pos)
             stop == Stop(pos)
             next == NextScan(scan)
             i == start - o
             T == B \o Span(b, i)
  <1>1. /\ pos \in 0..N /\ o \in 0..Len(fmt) /\ o <= pos
        /\ Len(fmt) \in Nat /\ N = Len(fmt) + 1
        /\ scan \in ScanSet /\ scan.valid \in Seq(ValidSpec) /\ n \in Nat
    BY Characters DEF ReadInv, ScanInv, ScanSet
  <1>2. SpecLies(pos)
    BY <1>1, SpecFound
  <1>3. /\ start \in pos..(Len(fmt) - 1) /\ At(start) = "%"
        /\ stop \in (start + 1)..Len(fmt)
        /\ \A x \in pos..Len(fmt) : x < stop /\ x # start => At(x) # "%"
    BY <1>2 DEF SpecLies
  <1>4. /\ next.pos = stop + 1 /\ next.valid = scan.valid
        /\ next.invalid = o + (stop - start)
    <2>1. next = [scan EXCEPT !.pos = stop + 1, !.invalid = @ + (stop - start)]
      BY DEF NextScan
    <2> HIDE DEF start, stop, next
    <2> QED BY <1>1, <2>1 DEF ScanSet
  <1>5. ScanInv(next)
    BY NextScanInv DEF ReadInv
  <1>6. pos # N
    BY DEF NoMore
  <1>7. stop = SkipModifiers(start + 1)
    BY DEF Stop, Start
  <1>8. At(stop) = SpecEnd(start) /\ At(stop) \notin Terminal
    BY <1>7 DEF SpecEnd
  <1>9. /\ AtRest(p) /\ \A j \in 1..n : Converted(scan.valid, j)
    BY DEF ReadInv
  <1>10. i <= TailEnd /\ o <= InvalidSize /\ next.invalid <= InvalidSize
    OBVIOUS
  <1>11. InvalidSize \in Nat
    BY InvalidSizeBounds
  <1>12. b \in Nat /\ b <= pos - o
    <2>1. CASE n = 0
      BY <1>1, <2>1 DEF Left
    <2>2. CASE n # 0
      <3> DEFINE v == scan.valid[n]
      <3>1. n \in 1..n
        BY <1>1, <2>2
      <3>2. SpecInPlace(scan, v) /\ b = After(v)
        BY <2>2, <3>1 DEF ReadInv, ScanInv, Left
      <3> HIDE DEF v, b, n
      <3>3. /\ v.start \in Nat /\ v.stop \in Nat /\ v.invalid \in Nat
            /\ v.start < v.stop /\ 0 <= Before(v) /\ After(v) <= pos - o
        BY <3>2 DEF SpecInPlace
      <3> QED BY <3>2, <3>3 DEF After, Before
    <2> QED BY <2>1, <2>2
  <1>13. B \in Seq(Pieces)
    BY <1>9 DEF AtRest, ReadAt
  <1> HIDE DEF start, stop, next
  <1>14. \A x \in pos..(start - 1) : At(x) # "%"
    BY <1>1, <1>3
  <1>15. ReadAt(start, a, T) /\ LeftOut(c, i) = o
    <2>1. start \in pos..Len(fmt)
      BY <1>1, <1>3
    <2> QED BY <1>6, <1>10, <1>14, <2>1, GapRead
  <1> HIDE DEF n, p, b, B, a, o, pos, i, T
  <1>16. /\ i \in Nat /\ o \in Nat /\ i + o = start /\ start < Len(fmt)
         /\ i \in 0..TailEnd /\ b <= i /\ start \in 0..(Len(fmt) - 1)
         /\ stop \in Nat /\ stop <= Len(fmt) /\ start < stop /\ stop \in 0..Len(fmt)
         /\ TailEnd \in Int
    <2>1. TailEnd \in Int
      BY <1>1, <1>11 DEF TailEnd
    <2> QED BY <1>1, <1>3, <1>10, <1>12, <2>1 DEF i
  <1>17. c[i].char = At(stop) /\ LeftOut(c, i + 1) = stop - i
    <2>1. ~Kept(i + o)
      BY <1>3, <1>7, <1>8, <1>16 DEF Kept
    <2>2. SkipModifiers(i + o + 1) = stop
      BY <1>7, <1>16
    <2>3. i + o < Len(fmt)
      BY <1>16
    <2> QED BY <1>15, <1>16, <2>1, <2>2, <2>3, StoreDropped
  <1>18. kRTStr[i] = At(stop)
    <2>1. InvalidSize # 0
      BY <1>4, <1>10, <1>11, <1>16
    <2> QED BY <1>16, <1>17, <2>1, Squeezed
  <1>19. /\ stop < Len(fmt) => ReadAt(stop + 1, a, Append(T, Char(At(stop))))
         /\ stop = Len(fmt) => OutAt(stop) = T /\ ArgAt(stop) = a
    <2>1. SpecEnd(start) \notin Terminal
      BY <1>8
    <2> QED BY <1>3, <1>7, <1>15, <1>16, <2>1, InvalidRead DEF OutAt, ArgAt
  <1>20. Append(T, Char(At(stop))) = B \o Span(b, i + 1)
    <2>1. i \in Nat /\ b \in Nat /\ b <= i
      BY <1>12, <1>16
    <2>2. B \o Span(b, i + 1) = Append(B \o Span(b, i), Char(kRTStr[i]))
      BY <1>13, <2>1, SpanGrows
    <2> QED BY <1>18, <2>2 DEF T
  <1>21. (stop + 1) - next.invalid = i + 1 /\ Len(fmt) - next.invalid = (Len(fmt) - stop) + i
         /\ next.invalid = stop - i
    BY <1>1, <1>4, <1>16
  <1>22. Read(next)
    <2>1. /\ Len(next.valid) = n /\ From(next.valid, n) = p
          /\ Left(next.valid, n) = b
      BY <1>4 DEF n, p, b
    <2>2. CASE stop < Len(fmt)
      <3>1. next.pos # N /\ next.pos = stop + 1 /\ next.pos - next.invalid = i + 1
        BY <1>1, <1>4, <1>16, <1>21, <2>2
      <3>2. ReadAt(stop + 1, a, B \o Span(b, i + 1))
        BY <1>19, <1>20, <2>2
      <3> QED BY <2>1, <3>1, <3>2 DEF Read, a, B
    <2>3. CASE stop = Len(fmt)
      <3>1. next.pos = N /\ Len(fmt) - next.invalid = i
        BY <1>1, <1>4, <1>16, <1>21, <2>3
      <3>2. OutAt(Len(fmt)) = B \o Span(b, i) /\ ArgAt(Len(fmt)) = a
        BY <1>19, <2>3 DEF T
      <3> QED BY <2>1, <3>1, <3>2 DEF Read, a, B
    <2> QED BY <1>1, <1>16, <2>2, <2>3
  <1>23. Together(c, next)
    <2>1. next.pos - next.invalid = i + 1
      BY <1>4, <1>21
    <2> QED BY <1>17, <1>21, <2>1 DEF Together
  <1>24. ReadInv(c, next)
    BY <1>4, <1>5, <1>9, <1>22, <1>23 DEF ReadInv, n, p
  <1> QED BY <1>24 DEF next

\* Every turn of the scan keeps up with the reading, and gets on.
LEMMA TurnsRead ==
    ASSUME fmt \in Formats, nextArg \in Nat, NEW g, Turns(g), NEW c, Stores(c)
    PROVE  \A k \in 0..N : ReadInv(c, g[k]) /\ (NoMore(g[k].pos) \/ k <= g[k].pos)
  <1> DEFINE P(k) == ReadInv(c, g[k]) /\ (NoMore(g[k].pos) \/ k <= g[k].pos)
             Good == {k \in Nat : k <= N => P(k)}
  <1>1. N \in Nat /\ Len(fmt) \in Nat /\ N = Len(fmt) + 1
    BY Characters
  <1>2. 0 \in Good
    <2>1. g[0] = FirstScan /\ g[0].pos = 0
      BY DEF Turns, FirstScan
    <2> HIDE DEF FirstScan
    <2> QED BY <2>1, FirstRead
  <1>3. ASSUME NEW k \in Nat, k \in Good PROVE k + 1 \in Good
    <2> SUFFICES ASSUME k + 1 <= N PROVE P(k + 1)
      OBVIOUS
    <2>1. k <= N /\ k \in 0..N /\ k + 1 \in 1..N /\ (k + 1) - 1 = k /\ k + 1 \in 0..N
      BY <1>1
    <2>2. g[k + 1] = NextScan(g[k])
      BY <2>1 DEF Turns
    <2>3. P(k)
      BY <1>3, <2>1
    <2>4. /\ ScanInv(g[k]) /\ g[k].pos \in 0..N /\ g[k].invalid \in Nat
          /\ g[k] \in ScanSet
      BY <2>3 DEF ReadInv, ScanInv, ScanSet
    <2>5. CASE NoMore(g[k].pos)
      <3>1. g[k + 1] = g[k]
        BY <2>2, <2>5 DEF NextScan
      <3> QED BY <2>3, <2>5, <3>1
    <2>6. CASE ~NoMore(g[k].pos)
      <3> DEFINE start == Start(g[k].pos)
                 stop == Stop(g[k].pos)
      <3>1. g[k].invalid <= InvalidSize /\ g[k + 1].invalid <= InvalidSize
        BY <2>1, InvalidGrows
      <3>2. start - g[k].invalid <= TailEnd
        <4>1. start - g[k].invalid <= Index(g[k + 1])
          BY <2>2, <2>4, <2>6, IndexStep
        <4>2. Index(g[k + 1]) <= TailEnd
          BY <2>1, IndexBounded
        <4>3. ScanInv(g[k + 1])
          BY <2>1, TurnsInv
        <4>4. Index(g[k + 1]) \in Int
          BY <4>3, IndexStep
        <4>5. TailEnd \in Int
          BY <1>1, InvalidSizeBounds
        <4>6. start \in Int
          <5>1. SpecLies(g[k].pos)
            BY <2>4, <2>6, SpecFound
          <5> QED BY <1>1, <2>4, <5>1 DEF SpecLies
        <4> HIDE DEF start
        <4> QED BY <2>4, <4>1, <4>2, <4>4, <4>5, <4>6
      <3>3. ReadInv(c, g[k])
        BY <2>3
      <3>4. ReadInv(c, g[k + 1])
        <4>1. CASE At(stop) \in Terminal
          BY <2>2, <2>6, <3>1, <3>2, <3>3, <4>1, ValidReadInv
        <4>2. CASE At(stop) \notin Terminal
          <5>1. NextScan(g[k]).invalid <= InvalidSize
            BY <2>2, <3>1
          <5> QED BY <2>2, <2>6, <3>1, <3>2, <3>3, <4>2, <5>1, InvalidReadInv
        <4> QED BY <4>1, <4>2
      <3>5. g[k + 1].pos = stop + 1
        <4>1. CASE At(stop) \in Terminal
          BY <2>2, <2>4, <2>6, <4>1 DEF NextScan, ScanSet
        <4>2. CASE At(stop) \notin Terminal
          BY <2>2, <2>4, <2>6, <4>2 DEF NextScan, ScanSet
        <4> QED BY <4>1, <4>2
      <3>6. k + 1 <= stop + 1
        <4>1. SpecLies(g[k].pos)
          BY <2>4, <2>6, SpecFound
        <4>2. /\ start \in g[k].pos..(Len(fmt) - 1) /\ stop \in (start + 1)..Len(fmt)
          BY <4>1 DEF SpecLies
        <4>3. k <= g[k].pos
          BY <2>3, <2>6
        <4> HIDE DEF start, stop
        <4> QED BY <1>1, <2>4, <4>2, <4>3
      <3> QED BY <3>4, <3>5, <3>6
    <2> QED BY <2>5, <2>6
  <1> HIDE DEF P, Good
  <1>4. \A k \in Nat : k \in Good
    BY <1>2, <1>3, NatInductionOnSet
  <1>5. ASSUME NEW k \in 0..N PROVE P(k)
    <2>1. k \in Nat /\ k <= N
      BY <1>1
    <2> QED BY <1>4, <2>1 DEF Good
  <1> QED BY <1>5 DEF P

\* The text of the SpecInfos is the stretches between the specifications.
LEMMA TextIsSpan ==
    ASSUME fmt \in Formats, NEW n \in 0..Len(Valid)
    PROVE  /\ n < Len(Valid) => Text(n) = Span(Left(Valid, n), Before(Valid[n + 1]))
           /\ n = Len(Valid) => Text(n) = Span(Left(Valid, n), TailEnd)
  <1>1. Len(Valid) \in Nat
    BY LenValid
  <1>2. Begin(n) = Left(Valid, n)
    BY DEF Begin, Left, After
  <1>3. n < Len(Valid) => End(n) = Before(Valid[n + 1])
    BY DEF End, Before
  <1>4. n = Len(Valid) => End(n) = TailEnd
    BY <1>1 DEF End
  <1>5. Text(n) = Span(Begin(n), End(n))
    BY DEF Text, Span, Char
  <1> QED BY <1>2, <1>3, <1>4, <1>5

\* The whole format is read: text and specifications in turn, and the tail.
LEMMA FormatRead ==
    ASSUME fmt \in Formats, nextArg \in Nat
    PROVE  /\ AtRest(0) /\ ArgAt(0) = 1 /\ OutAt(0) = <<>>
           /\ \A i \in 1..Len(Valid) : Converted(Valid, i)
           /\ AtRest(From(Valid, Len(Valid)))
           /\ OutAt(Len(fmt)) = OutAt(From(Valid, Len(Valid))) \o Text(Len(Valid))
  <1> DEFINE M == Len(Valid)
             p == From(Valid, M)
             b == Left(Valid, M)
             pos == Scan.pos
  <1>1. PICK g : Turns(g)
    BY ScanRecursion
  <1>2. PICK c : Stores(c)
    BY StoreRecursion
  <1>3. Len(fmt) \in Nat /\ N = Len(fmt) + 1 /\ N \in 0..N
    BY Characters
  <1>4. g[N] = Scan
    BY <1>1 DEF Turns
  <1>5. ReadInv(c, Scan) /\ (NoMore(Scan.pos) \/ N <= Scan.pos)
    BY <1>1, <1>2, <1>3, <1>4, TurnsRead
  <1>6. AtRest(p) /\ \A i \in 1..M : Converted(Valid, i)
    BY <1>5 DEF ReadInv, Valid
  <1>7. /\ ScanInv(Scan) /\ pos \in 0..N /\ Scan.invalid = InvalidSize
        /\ InvalidSize \in 0..Len(fmt) /\ TailEnd = Len(fmt) - InvalidSize
    BY <1>5 DEF ReadInv, ScanInv, ScanSet, InvalidSize, TailEnd
  <1>8. Text(M) = Span(b, TailEnd)
    <2>1. M \in 0..M
      BY LenValid
    <2> QED BY <2>1, TextIsSpan
  <1>9. OutAt(Len(fmt)) = OutAt(p) \o Span(b, TailEnd)
    <2>1. CASE pos = N
      BY <1>5, <1>7, <2>1 DEF ReadInv, Read, Valid
    <2>2. CASE pos # N
      <3>1. NoMore(pos) /\ pos \in 0..Len(fmt)
        BY <1>3, <1>5, <1>7, <2>2
      <3>2. At(Start(pos)) = NUL
        BY <2>2, <3>1 DEF NoMore
      <3>3. /\ Start(pos) \in pos..Len(fmt)
            /\ \A x \in pos..Len(fmt) : x < Start(pos) => At(x) # "%"
        BY <3>1, PercentFound DEF Start
      <3>4. Start(pos) = Len(fmt)
        <4>1. Start(pos) \notin 0..(Len(fmt) - 1)
          BY <3>2, Characters
        <4> HIDE DEF pos
        <4> QED BY <1>3, <3>1, <3>3, <4>1
      <3>5. \A x \in pos..(Len(fmt) - 1) : At(x) # "%"
        BY <1>3, <3>1, <3>3, <3>4
      <3>6. /\ Len(fmt) \in pos..Len(fmt) /\ Len(fmt) - Scan.invalid <= TailEnd
            /\ Scan.invalid <= InvalidSize
        BY <1>3, <1>7, <3>1
      <3>7. LET n == Len(Scan.valid)
                q == From(Scan.valid, n)
            IN  ReadAt(Len(fmt), ArgAt(q),
                       OutAt(q) \o Span(Left(Scan.valid, n), Len(fmt) - Scan.invalid))
        BY <1>2, <1>5, <2>2, <3>5, <3>6, GapRead
      <3>8. ReadAt(Len(fmt), ArgAt(p), OutAt(p) \o Span(b, TailEnd))
        BY <1>7, <3>7 DEF Valid
      <3> QED BY <3>8, ReadAtIs
    <2> QED BY <2>1, <2>2
  <1>10. AtRest(0) /\ ArgAt(0) = 1 /\ OutAt(0) = <<>>
    <2>1. ReadAt(0, 1, <<>>)
      <3>1. Reading(0) = Outside(<<>>, 1, <<>>)
        BY ReadRecursion DEF ReadNothing, Outside, Reader
      <3>2. <<>> \in Seq(Pieces)
        OBVIOUS
      <3> QED BY <3>1, <3>2 DEF ReadAt
    <2> QED BY <2>1, ReadAtIs
  <1> QED BY <1>6, <1>8, <1>9, <1>10

-----------------------------------------------------------------------------
(* What has been written is what has been read                             *)

\* What has been read when num SpecInfos have been converted.
ReadBefore(n) == OutAt(From(Valid, n))

\* Up to every specification, the arguments are those counted.
LEMMA ArgumentDue ==
    ASSUME fmt \in Formats, nextArg \in Nat, NEW n \in 0..Len(Valid)
    PROVE  AtRest(From(Valid, n)) /\ ArgAt(From(Valid, n)) = 1 + ArgsBefore(n)
  <1> DEFINE P(m) == AtRest(From(Valid, m)) /\ ArgAt(From(Valid, m)) = 1 + ArgsBefore(m)
             Good == {m \in Nat : m <= Len(Valid) => P(m)}
  <1>1. Len(Valid) \in Nat
    BY LenValid
  <1>2. 0 \in Good
    <2>1. From(Valid, 0) = 0
      BY DEF From
    <2>2. ArgsBefore(0) = 0
      BY ArgsBeforeRecursion
    <2>3. AtRest(0) /\ ArgAt(0) = 1
      BY FormatRead
    <2> QED BY <2>1, <2>2, <2>3
  <1>3. ASSUME NEW m \in Nat, m \in Good PROVE m + 1 \in Good
    <2> SUFFICES ASSUME m + 1 <= Len(Valid) PROVE P(m + 1)
      OBVIOUS
    <2>1. /\ m <= Len(Valid) /\ m + 1 \in 1..Len(Valid) /\ (m + 1) - 1 = m
          /\ m < Len(Valid) /\ m \in 0..Len(Valid)
      BY <1>1
    <2>2. P(m)
      BY <1>3, <2>1
    <2>3. Converted(Valid, m + 1)
      BY <2>1, FormatRead
    <2> DEFINE r == Required(Parse(Valid[m + 1].start))
               o == Append(OutAt(From(Valid, m)) \o Span(Left(Valid, m), Before(Valid[m + 1])),
                           ItemAt(Valid[m + 1].start, ArgAt(From(Valid, m))))
    <2>4. ReadAt(From(Valid, m + 1), ArgAt(From(Valid, m)) + r, o)
      BY <2>1, <2>3 DEF Converted
    <2> HIDE DEF o
    <2>5. AtRest(From(Valid, m + 1)) /\ ArgAt(From(Valid, m + 1)) = ArgAt(From(Valid, m)) + r
      BY <2>4, ReadAtIs
    <2>6. getOneSpec(m) = Parse(Valid[m + 1].start)
      BY <2>1 DEF getOneSpec
    <2>7. ArgsBefore(m + 1) = ArgsBefore(m) + r
      <3>1. ArgsBefore(m + 1) = ArgsBefore((m + 1) - 1) + Required(getOneSpec((m + 1) - 1))
        BY <2>1, ArgsBeforeRecursion
      <3> QED BY <2>1, <2>6, <3>1
    <2>8. ArgsBefore(m) \in Nat /\ r \in 1..3
      BY <2>1, ArgsBeforeGrows, RequiredBounds
    <2>9. ArgAt(From(Valid, m)) = 1 + ArgsBefore(m)
      BY <2>2
    <2> HIDE DEF r
    <2>10. ArgAt(From(Valid, m + 1)) = 1 + ArgsBefore(m + 1)
      BY <2>5, <2>7, <2>8, <2>9
    <2> QED BY <2>5, <2>10
  <1> HIDE DEF P, Good
  <1>4. \A m \in Nat : m \in Good
    BY <1>2, <1>3, NatInductionOnSet
  <1>5. n \in Nat /\ n <= Len(Valid)
    BY <1>1
  <1>6. P(n)
    BY <1>4, <1>5 DEF Good
  <1> QED BY <1>6 DEF P

\* The pieces that a step writes are sequences.
LEMMA ReadBeforeType ==
    ASSUME fmt \in Formats, nextArg \in Nat, NEW n \in 0..Len(Valid)
    PROVE  ReadBefore(n) \in Seq(Pieces) /\ Text(n) \in Seq(Pieces)
  <1>1. AtRest(From(Valid, n))
    BY ArgumentDue
  <1>2. Text(n) \in Seq({"text"} \X ToSet(fmt))
    BY TextPieces
  <1>3. ({"text"} \X ToSet(fmt)) \subseteq Pieces
    BY DEF Pieces, Chars
  <1> HIDE DEF Pieces
  <1>4. Text(n) \in Seq(Pieces)
    BY <1>2, <1>3
  <1> QED BY <1>1, <1>4 DEF AtRest, ReadAt, ReadBefore

\* A valid specification ends in a terminal.
LEMMA ValidText ==
    ASSUME fmt \in Formats, nextArg \in Nat, NEW i \in 1..Len(Valid)
    PROVE  LET start == Valid[i].start
           IN  start \in Nat /\ SpecText(start, SpecMods(start), SpecEnd(start))
  <1> DEFINE v == Valid[i]
  <1>1. ScanInv(Scan)
    BY ScanInvHolds
  <1>2. SpecInPlace(Scan, v)
    BY <1>1 DEF ScanInv, Valid
  <1>3. SpecEnd(v.start) \in Terminal
    <2>1. Converted(Valid, i)
      BY FormatRead
    <2> QED BY <2>1 DEF Converted
  <1> HIDE DEF v
  <1>4. v.start \in 0..(Len(fmt) - 1)
    BY <1>2, Characters DEF SpecInPlace
  <1>5. SpecText(v.start, SpecMods(v.start), SpecEnd(v.start))
    BY <1>3, <1>4, SpecTextAt
  <1> QED BY <1>4, <1>5 DEF v

\* A conversion writes what is read up to the end of its specification.
LEMMA ConversionRead ==
    ASSUME fmt \in Formats, NEW n \in 0..(Len(Valid) - 1),
           nextArg = 1 + ArgsBefore(n)
    PROVE  ReadBefore(n + 1) = ReadBefore(n) \o Text(n) \o <<ConvertOne(getOneSpec(n))>>
  <1> DEFINE p == From(Valid, n)
             start == Valid[n + 1].start
             m == SpecMods(start)
             t == SpecEnd(start)
             item == ItemAt(start, nextArg)
             o == ReadBefore(n) \o Text(n)
  <1>1. Len(Valid) \in Nat
    BY LenValid
  <1>2. /\ n \in 0..Len(Valid) /\ n + 1 \in 1..Len(Valid) /\ (n + 1) - 1 = n
        /\ n < Len(Valid)
    BY <1>1
  <1>3. nextArg \in Nat
    BY <1>2, ArgsBeforeGrows
  <1>4. Text(n) = Span(Left(Valid, n), Before(Valid[n + 1]))
    BY <1>2, TextIsSpan
  <1>5. ArgAt(p) = nextArg
    BY <1>2, <1>3, ArgumentDue
  <1>6. Converted(Valid, n + 1)
    BY <1>2, <1>3, FormatRead
  <1>7. ReadAt(From(Valid, n + 1), ArgAt(p) + Required(Parse(start)),
               Append(OutAt(p) \o Span(Left(Valid, n), Before(Valid[n + 1])),
                      ItemAt(start, ArgAt(p))))
    BY <1>2, <1>6 DEF Converted
  <1>8. ReadAt(From(Valid, n + 1), ArgAt(p) + Required(Parse(start)), Append(o, item))
    BY <1>4, <1>5, <1>7 DEF ReadBefore
  <1> HIDE DEF o, item
  <1>9. ReadBefore(n + 1) = Append(o, item)
    BY <1>8, ReadAtIs DEF ReadBefore
  <1>10. SpecText(start, m, t)
    BY <1>2, <1>3, ValidText
  <1>11. Meaning(m, t, nextArg).item = ConvertOne(Parse(start))
    BY <1>3, <1>10, SpecMeaning
  <1>12. item = ConvertOne(getOneSpec(n))
    BY <1>2, <1>11 DEF item, ItemAt, getOneSpec
  <1>13. o \in Seq(Pieces)
    <2>1. ReadBefore(n) \in Seq(Pieces) /\ Text(n) \in Seq(Pieces)
      BY <1>2, <1>3, ReadBeforeType
    <2> HIDE DEF Pieces
    <2> QED BY <2>1 DEF o
  <1>14. item \in Pieces
    <2>1. start \in Nat
      BY <1>2, <1>3, ValidText
    <2> QED BY <1>3, <2>1 DEF Pieces, Specs, item
  <1>15. Append(o, item) = o \o <<item>>
    <2> HIDE DEF Pieces
    <2> QED BY <1>13, <1>14
  <1> QED BY <1>9, <1>12, <1>15 DEF o

\* s is the beginning of t.
Begins(s, t) ==
    /\ s \in Seq(Pieces) /\ t \in Seq(Pieces) /\ Len(s) <= Len(t)
    /\ \A i \in 1..Len(s) : s[i] = t[i]

\* What is written so far begins what a conversion makes of it.
LEMMA AppendBegins ==
    ASSUME NEW s \in Seq(Pieces), NEW d \in Seq(Pieces), NEW x \in Pieces
    PROVE  Begins(s, Append(s \o d, x))
  <1> HIDE DEF Pieces
  <1> QED BY DEF Begins

\* What is written so far begins what is written once more text follows.
LEMMA ConcatBegins ==
    ASSUME NEW s \in Seq(Pieces), NEW t \in Seq(Pieces)
    PROVE  Begins(s, s \o t)
  <1> HIDE DEF Pieces
  <1> QED BY DEF Begins

\* What begins a beginning begins the whole.
LEMMA BeginsTransitive ==
    ASSUME NEW s, NEW t, NEW u, Begins(s, t), Begins(t, u)
    PROVE  Begins(s, u)
  <1>1. /\ s \in Seq(Pieces) /\ t \in Seq(Pieces) /\ u \in Seq(Pieces)
        /\ Len(s) <= Len(t) /\ Len(t) <= Len(u)
    BY DEF Begins
  <1>2. Len(s) \in Nat /\ Len(t) \in Nat /\ Len(u) \in Nat
    BY <1>1
  <1>3. Len(s) <= Len(u)
    BY <1>1, <1>2
  <1>4. ASSUME NEW i \in 1..Len(s) PROVE s[i] = u[i]
    <2>1. i \in 1..Len(t)
      BY <1>1, <1>2
    <2> QED BY <2>1 DEF Begins
  <1> QED BY <1>1, <1>3, <1>4 DEF Begins

\* What begins a sequence is a prefix of it.
LEMMA BeginsIsPrefix ==
    ASSUME NEW s, NEW t, Begins(s, t)
    PROVE  IsPrefix(s, t)
  <1> DEFINE n == Len(s)
  <1>1. /\ s \in Seq(Pieces) /\ t \in Seq(Pieces) /\ n <= Len(t) /\ n \in Nat
    BY DEF Begins
  <1>2. SubSeq(s, 1, n) = s
    <2> HIDE DEF Pieces
    <2> QED BY <1>1
  <1>3. s = SubSeq(t, 1, n)
    <2>1. \A i \in 1..Len(s) : s[i] = t[1 + i - 1]
      BY <1>1 DEF Begins
    <2>2. 1 <= n + 1 /\ Len(s) = n - 1 + 1 /\ 1 \in Nat /\ 1 <= 1
      BY <1>1
    <2>3. Len(t) \in Nat /\ 1 \in Nat
      BY <1>1
    <2> HIDE DEF Pieces, n
    <2> QED BY <1>1, <2>1, <2>2, <2>3, IsSubSeq
  <1> QED BY <1>1, <1>2, <1>3 DEF IsPrefix

\* What is read before a specification begins what is read in the end.
LEMMA ReadBeforeBegins ==
    ASSUME fmt \in Formats, nextArg \in Nat, NEW n \in 0..Len(Valid)
    PROVE  Begins(ReadBefore(n), OutAt(Len(fmt)))
  <1> DEFINE M == Len(Valid)
             Good == {k \in Nat : n + k <= M => Begins(ReadBefore(n), ReadBefore(n + k))}
  <1>1. M \in Nat
    BY LenValid
  <1>2. 0 \in Good
    <2>1. n + 0 = n /\ ReadBefore(n) \in Seq(Pieces)
      BY <1>1, ReadBeforeType
    <2>2. Begins(ReadBefore(n), ReadBefore(n))
      BY <2>1 DEF Begins
    <2> QED BY <2>1, <2>2
  <1>3. ASSUME NEW k \in Nat, k \in Good PROVE k + 1 \in Good
    <2> DEFINE m == n + k
    <2> SUFFICES ASSUME n + (k + 1) <= M
                 PROVE  Begins(ReadBefore(n), ReadBefore(n + (k + 1)))
      OBVIOUS
    <2>1. /\ m <= M /\ n + (k + 1) = m + 1 /\ m \in 0..M /\ m + 1 \in 1..M
          /\ (m + 1) - 1 = m /\ m < M /\ m \in 0..(M - 1)
      BY <1>1
    <2>2. Begins(ReadBefore(n), ReadBefore(m))
      BY <1>3, <2>1
    <2>3. Begins(ReadBefore(m), ReadBefore(m + 1))
      <3> DEFINE x == ItemAt(Valid[m + 1].start, ArgAt(From(Valid, m)))
                 r == ArgAt(From(Valid, m)) + Required(Parse(Valid[m + 1].start))
      <3>1. Converted(Valid, m + 1)
        BY <2>1, FormatRead
      <3>2. Text(m) = Span(Left(Valid, m), Before(Valid[m + 1]))
        BY <2>1, TextIsSpan
      <3>3. ReadAt(From(Valid, m + 1), r, Append(ReadBefore(m) \o Text(m), x))
        BY <2>1, <3>1, <3>2 DEF Converted, ReadBefore
      <3>4. x \in Pieces
        <4>1. Valid[m + 1].start \in Nat
          BY <2>1, ValidText
        <4>2. ArgAt(From(Valid, m)) \in Nat
          <5>1. AtRest(From(Valid, m))
            BY <2>1, ArgumentDue
          <5> QED BY <5>1 DEF AtRest, ReadAt
        <4> QED BY <4>1, <4>2 DEF Pieces, Specs
      <3> HIDE DEF x, r
      <3>5. ReadBefore(m + 1) = Append(ReadBefore(m) \o Text(m), x)
        BY <3>3, ReadAtIs DEF ReadBefore
      <3>6. ReadBefore(m) \in Seq(Pieces) /\ Text(m) \in Seq(Pieces)
        BY <2>1, ReadBeforeType
      <3>7. ReadBefore(m) \in Seq(Pieces)
        BY <3>6
      <3>8. Text(m) \in Seq(Pieces)
        BY <3>6
      <3>9. Begins(ReadBefore(m), Append(ReadBefore(m) \o Text(m), x))
        BY <3>4, <3>7, <3>8, AppendBegins
      <3> QED BY <3>5, <3>9
    <2> HIDE DEF m
    <2>4. Begins(ReadBefore(n), ReadBefore(m + 1))
      BY <2>2, <2>3, BeginsTransitive
    <2> QED BY <2>1, <2>4
  <1> HIDE DEF Good
  <1>4. \A k \in Nat : k \in Good
    BY <1>2, <1>3, NatInductionOnSet
  <1>5. M - n \in Nat /\ n + (M - n) = M /\ M \in 0..M
    BY <1>1
  <1>6. M - n \in Good
    BY <1>4, <1>5
  <1>7. Begins(ReadBefore(n), ReadBefore(M))
    BY <1>1, <1>5, <1>6 DEF Good
  <1>8. Begins(ReadBefore(M), OutAt(Len(fmt)))
    <2>1. OutAt(Len(fmt)) = ReadBefore(M) \o Text(M)
      BY FormatRead DEF ReadBefore
    <2>2. ReadBefore(M) \in Seq(Pieces) /\ Text(M) \in Seq(Pieces)
      BY <1>5, ReadBeforeType
    <2>3. Begins(ReadBefore(M), ReadBefore(M) \o Text(M))
      BY <2>2, ConcatBegins
    <2> QED BY <2>1, <2>3
  <1> HIDE DEF M
  <1> QED BY <1>7, <1>8, BeginsTransitive

\* What has been written.
WrittenInv ==
    outbuf = IF done THEN OutAt(Len(fmt)) ELSE ReadBefore(num)

\* ExpansionIsReference: whatever the formats, the scanners of
\* constexpr_fmt.h, which each run over the format anew and subtract what the
\* others leave out, write at every point of the expansion a beginning of
\* what one reading of the format means, and in the end all of it.
THEOREM ExpansionMeansFormat == Spec => []ExpansionIsReference
  <1>1. ASSUME Init PROVE WrittenInv
    <2>1. fmt \in Formats /\ num = 0 /\ nextArg \in Nat /\ ~done /\ outbuf = <<>>
      BY <1>1 DEF Init
    <2>2. ReadBefore(0) = <<>>
      BY <2>1, FormatRead DEF ReadBefore, From
    <2> QED BY <2>1, <2>2 DEF WrittenInv
  <1>2. ASSUME ExpansionInv, WrittenInv, [Next]_vars PROVE WrittenInv'
    <2>1. /\ fmt \in Formats /\ num \in 0..Len(Valid)
          /\ nextArg = 1 + ArgsBefore(num) /\ (done => num = Len(Valid))
      BY <1>2 DEF ExpansionInv, countValidSpecInfos
    <2>2. Len(Valid) \in Nat /\ nextArg \in Nat
      BY <2>1, LenValid, ArgsBeforeGrows
    <2>3. ASSUME fmt' = fmt
          PROVE  /\ OutAt(Len(fmt))' = OutAt(Len(fmt))
                 /\ \A n : ReadBefore(n)' = ReadBefore(n)
      BY <2>3 DEF ReadBefore, OutAt, Reading, From, Valid, Scan, N, At,
         NextPercent, SkipModifiers
    <2>4. CASE Convert
      <3>1. /\ num < Len(Valid) /\ num' = num + 1 /\ fmt' = fmt /\ done' = done
            /\ outbuf' = outbuf \o Text(num) \o <<ConvertOne(getOneSpec(num))>>
        BY <2>4 DEF Convert, countValidSpecInfos
      <3>2. ~done /\ num \in 0..(Len(Valid) - 1)
        BY <2>1, <2>2, <3>1
      <3>3. outbuf = ReadBefore(num)
        BY <1>2, <3>2 DEF WrittenInv
      <3>4. outbuf' = ReadBefore(num + 1)
        BY <2>1, <3>1, <3>2, <3>3, ConversionRead
      <3>5. ReadBefore(num)' = ReadBefore(num + 1)
        BY <2>3, <3>1
      <3> QED BY <3>1, <3>2, <3>4, <3>5 DEF WrittenInv
    <2>5. CASE WriteTail
      <3>1. /\ num = Len(Valid) /\ ~done /\ done' /\ fmt' = fmt
            /\ outbuf' = outbuf \o Text(num)
        BY <2>5 DEF WriteTail, countValidSpecInfos
      <3>2. outbuf = ReadBefore(num)
        BY <1>2, <3>1 DEF WrittenInv
      <3>3. outbuf' = OutAt(Len(fmt))
        BY <2>1, <2>2, <3>1, <3>2, FormatRead DEF ReadBefore
      <3> QED BY <2>3, <3>1, <3>3 DEF WrittenInv
    <2>6. CASE UNCHANGED vars
      <3>1. fmt' = fmt /\ done' = done /\ num' = num /\ outbuf' = outbuf
        BY <2>6 DEF vars
      <3>2. ReadBefore(num)' = ReadBefore(num)
        BY <2>3, <3>1
      <3> QED BY <1>2, <2>3, <3>1, <3>2 DEF WrittenInv
    <2> QED BY <1>2, <2>4, <2>5, <2>6 DEF Next, Finished
  <1>3. ASSUME ExpansionInv, WrittenInv PROVE ExpansionIsReference
    <2>1. /\ fmt \in Formats /\ num \in 0..Len(Valid) /\ nextArg = 1 + ArgsBefore(num)
      BY <1>3 DEF ExpansionInv, countValidSpecInfos
    <2>2. nextArg \in Nat
      BY <2>1, ArgsBeforeGrows
    <2>3. Reference.out = OutAt(Len(fmt))
      BY <2>1, ReadRecursion DEF OutAt
    <2>4. Begins(ReadBefore(num), OutAt(Len(fmt)))
      BY <2>1, <2>2, ReadBeforeBegins
    <2>5. CASE done
      <3>1. outbuf = OutAt(Len(fmt))
        BY <1>3, <2>5 DEF WrittenInv
      <3>2. Begins(outbuf, outbuf)
        BY <2>4, <3>1 DEF Begins
      <3>3. IsPrefix(outbuf, Reference.out)
        BY <2>3, <3>1, <3>2, BeginsIsPrefix
      <3> QED BY <2>3, <3>1, <3>3 DEF ExpansionIsReference
    <2>6. CASE ~done
      <3>1. outbuf = ReadBefore(num)
        BY <1>3, <2>6 DEF WrittenInv
      <3>2. IsPrefix(outbuf, Reference.out)
        BY <2>3, <2>4, <3>1, BeginsIsPrefix
      <3> QED BY <2>6, <3>2 DEF ExpansionIsReference
    <2> QED BY <2>5, <2>6
  <1>4. Spec => []WrittenInv
    BY <1>1, <1>2, ExpansionInvariant, PTL DEF Spec
  <1> QED BY <1>3, <1>4, ExpansionInvariant, PTL
================================================================================
