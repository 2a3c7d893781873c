--------------------------- MODULE LogRecordProofs ---------------------------
(***************************************************************************)
(* For every set of calls, their types and values, and every size: an      *)
(* entry is filled exactly, the sink's walk stays on check points and      *)
(* entries, and what the sink prints is what was logged.                   *)
(***************************************************************************)
EXTENDS LogRecord, DataLemmas, TLAPS

-----------------------------------------------------------------------------
(* Running totals                                                          *)

\* SumOfFirst's recursion exists, and is the same for every n.
LEMMA SumRecursion ==
    ASSUME NEW s \in Seq(Nat)
    PROVE  \E g \in [Nat -> Nat] :
              /\ g[0] = 0
              /\ \A k \in 1..Len(s) : g[k] = g[k - 1] + s[k]
              /\ \A n \in 0..Len(s) : SumOfFirst(s, n) = g[n]
  <1> DEFINE N == Len(s)
             step == [x \in Nat \X Nat |->
                        IF x[1] + 1 <= N THEN x[2] + s[x[1] + 1] ELSE x[2]]
  <1>1. N \in Nat /\ \A i \in 1..N : s[i] \in Nat
    OBVIOUS
  <1>2. step \in [Nat \X Nat -> Nat]
    BY <1>1
  <1>3. PICK g : Recursion(g, Nat, 0, step)
    <2> HIDE DEF step
    <2> QED BY <1>2, NatRecursion, Zenon
  <1>4. /\ g \in [Nat -> Nat] /\ g[0] = 0
        /\ \A k \in Nat : g[k + 1] = step[<<k, g[k]>>]
    BY <1>3 DEF Recursion
  <1>5. ASSUME NEW k \in 1..N PROVE g[k] = g[k - 1] + s[k]
    <2>1. k - 1 \in Nat /\ (k - 1) + 1 = k /\ k <= N
      BY <1>1
    <2>2. g[(k - 1) + 1] = step[<<k - 1, g[k - 1]>>]
      BY <1>4, <2>1
    <2>3. <<k - 1, g[k - 1]>> \in Nat \X Nat
      BY <1>4, <2>1
    <2> HIDE DEF N
    <2>4. step[<<k - 1, g[k - 1]>>] = g[k - 1] + s[k]
      BY <2>1, <2>3
    <2> QED BY <2>1, <2>2, <2>4
  <1>6. ASSUME NEW n \in 0..N PROVE SumOfFirst(s, n) = g[n]
    <2> DEFINE R(h) == h = [k \in 0..n |-> IF k = 0 THEN 0 ELSE h[k - 1] + s[k]]
               c == CHOOSE h : R(h)
               f == [k \in 0..n |-> g[k]]
    <2>1. R(f)
      <3>1. ASSUME NEW k \in 0..n
            PROVE  f[k] = IF k = 0 THEN 0 ELSE f[k - 1] + s[k]
        <4>1. CASE k = 0
          BY <1>4, <4>1
        <4>2. CASE k # 0
          <5>1. k \in 1..N /\ k - 1 \in 0..n
            BY <1>1, <4>2
          <5> QED BY <1>5, <4>2, <5>1
        <4> QED BY <4>1, <4>2
      <3> QED BY <3>1
    <2> HIDE DEF f
    <2>2. R(c)
      <3> HIDE DEF R
      <3> QED BY <2>1
    <2>3. SumOfFirst(s, n) = c[n]
      BY DEF SumOfFirst
    <2> HIDE DEF c
    <2> DEFINE Good == {k \in Nat : k <= n => c[k] = g[k]}
    <2>4. 0 \in Good
      BY <1>4, <2>2
    <2>5. ASSUME NEW k \in Nat, k \in Good PROVE k + 1 \in Good
      <3> SUFFICES ASSUME k + 1 <= n PROVE c[k + 1] = g[k + 1]
        OBVIOUS
      <3>1. c[k] = g[k]
        BY <1>1, <2>5
      <3>2. k + 1 \in 0..n /\ k + 1 \in 1..N /\ k + 1 # 0 /\ (k + 1) - 1 = k
        BY <1>1
      <3>3. c[k + 1] = c[k] + s[k + 1] /\ g[k + 1] = g[k] + s[k + 1]
        BY <1>5, <2>2, <3>2
      <3> QED BY <3>1, <3>3
    <2> HIDE DEF Good
    <2>6. \A k \in Nat : k \in Good
      BY <2>4, <2>5, NatInductionOnSet
    <2>7. n \in Good /\ n \in Nat
      BY <1>1, <2>6
    <2>8. c[n] = g[n]
      BY <2>7 DEF Good
    <2> QED BY <2>3, <2>8
  <1> QED BY <1>4, <1>5, <1>6

\* The running total starts at zero and grows by one number at a time.
LEMMA SumProperties ==
    ASSUME NEW s \in Seq(Nat)
    PROVE  /\ SumOfFirst(s, 0) = 0
           /\ \A n \in 0..Len(s) : SumOfFirst(s, n) \in Nat
           /\ \A n \in 1..Len(s) :
                SumOfFirst(s, n) = SumOfFirst(s, n - 1) + s[n]
  <1>1. PICK g \in [Nat -> Nat] :
              /\ g[0] = 0
              /\ \A k \in 1..Len(s) : g[k] = g[k - 1] + s[k]
              /\ \A n \in 0..Len(s) : SumOfFirst(s, n) = g[n]
    BY SumRecursion
  <1>2. Len(s) \in Nat /\ 0 \in 0..Len(s)
    OBVIOUS
  <1>3. ASSUME NEW n \in 1..Len(s)
        PROVE  SumOfFirst(s, n) = SumOfFirst(s, n - 1) + s[n]
    <2>1. n \in 0..Len(s) /\ n - 1 \in 0..Len(s)
      BY <1>2
    <2> QED BY <1>1, <2>1
  <1>4. ASSUME NEW n \in 0..Len(s) PROVE SumOfFirst(s, n) \in Nat
    <2>1. n \in Nat
      BY <1>2
    <2> QED BY <1>1, <2>1
  <1> QED BY <1>1, <1>2, <1>3, <1>4

\* A running total never falls.
LEMMA SumIsMonotone ==
    ASSUME NEW s \in Seq(Nat), NEW m \in Nat, NEW n \in Nat,
           m <= n, n <= Len(s)
    PROVE  SumOfFirst(s, m) <= SumOfFirst(s, n)
  <1> DEFINE Good == {d \in Nat : m + d <= Len(s) =>
                      SumOfFirst(s, m) <= SumOfFirst(s, m + d)}
  <1>1. Len(s) \in Nat /\ \A i \in 1..Len(s) : s[i] \in Nat
    OBVIOUS
  <1>2. 0 \in Good
    <2>1. m \in 0..Len(s) /\ m + 0 = m
      BY <1>1
    <2>2. SumOfFirst(s, m) \in Nat
      BY <2>1, SumProperties
    <2> QED BY <2>1, <2>2
  <1>3. ASSUME NEW d \in Nat, d \in Good PROVE d + 1 \in Good
    <2> SUFFICES ASSUME m + (d + 1) <= Len(s)
                 PROVE  SumOfFirst(s, m) <= SumOfFirst(s, m + (d + 1))
      OBVIOUS
    <2>1. /\ m \in 0..Len(s) /\ m + d \in 0..Len(s) /\ m + d <= Len(s)
          /\ m + (d + 1) \in 1..Len(s) /\ (m + (d + 1)) - 1 = m + d
      BY <1>1
    <2>2. SumOfFirst(s, m) <= SumOfFirst(s, m + d)
      BY <1>3, <2>1
    <2>3. SumOfFirst(s, m) \in Nat /\ SumOfFirst(s, m + d) \in Nat
      BY <2>1, SumProperties
    <2>4. SumOfFirst(s, m + (d + 1)) = SumOfFirst(s, m + d) + s[m + (d + 1)]
      BY <2>1, SumProperties
    <2>5. s[m + (d + 1)] \in Nat
      BY <1>1, <2>1
    <2> QED BY <2>2, <2>3, <2>4, <2>5
  <1> HIDE DEF Good
  <1>4. n - m \in Nat /\ m + (n - m) = n
    OBVIOUS
  <1>5. n - m \in Good
    BY <1>2, <1>3, <1>4, NatInductionOnSet
  <1> QED BY <1>4, <1>5 DEF Good

-----------------------------------------------------------------------------
(* The arguments of a call                                                 *)

LEMMA ArgsTakenBounds ==
    ASSUME NEW spec \in SpecInfo PROVE ArgsTaken(spec) \in 1..3
  BY DEF ArgsTaken

\* The k-th SpecInfo takes the arguments behind those of the SpecInfos before.
LEMMA LastArgProperties ==
    ASSUME NEW c \in Call
    PROVE  /\ Len(SIs[c]) \in Nat
           /\ \A k \in 1..Len(SIs[c]) : SIs[c][k] \in SpecInfo
           /\ LastArg(c, 0) = 0
           /\ \A k \in 0..Len(SIs[c]) :
                LastArg(c, k) \in Nat /\ LastArg(c, k) <= NArgs(c)
           /\ \A k \in 1..Len(SIs[c]) :
                LastArg(c, k) = LastArg(c, k - 1) + ArgsTaken(SIs[c][k])
  <1> DEFINE s == [j \in 1..Len(SIs[c]) |-> ArgsTaken(SIs[c][j])]
  <1>1. /\ SIs[c] \in Seq(SpecInfo) /\ Len(SIs[c]) \in Nat
        /\ \A k \in 1..Len(SIs[c]) : SIs[c][k] \in SpecInfo
    BY CallAssumption
  <1>2. s \in Seq(Nat) /\ Len(s) = Len(SIs[c])
    <2>1. \A k \in 1..Len(SIs[c]) : ArgsTaken(SIs[c][k]) \in Nat
      BY <1>1, ArgsTakenBounds
    <2> QED BY <1>1, <2>1
  <1>3. \A k \in 1..Len(SIs[c]) : s[k] = ArgsTaken(SIs[c][k])
    OBVIOUS
  <1>4. \A k : LastArg(c, k) = SumOfFirst(s, k)
    BY DEF LastArg
  <1>5. NArgs(c) = SumOfFirst(s, Len(SIs[c]))
    BY <1>4 DEF NArgs
  <1> HIDE DEF s
  <1>6. /\ SumOfFirst(s, 0) = 0
        /\ \A n \in 0..Len(s) : SumOfFirst(s, n) \in Nat
        /\ \A n \in 1..Len(s) : SumOfFirst(s, n) = SumOfFirst(s, n - 1) + s[n]
    BY <1>2, SumProperties
  <1>7. ASSUME NEW k \in 0..Len(SIs[c]) PROVE SumOfFirst(s, k) <= NArgs(c)
    <2>1. k \in Nat /\ k <= Len(s) /\ Len(s) \in Nat
      BY <1>1, <1>2
    <2>2. SumOfFirst(s, k) <= SumOfFirst(s, Len(s))
      BY <1>2, <2>1, SumIsMonotone
    <2> QED BY <1>2, <1>5, <2>2
  <1> QED BY <1>1, <1>2, <1>3, <1>4, <1>6, <1>7

\* Enough arguments are passed, of known types.
LEMMA ArgumentsPassed ==
    ASSUME NEW c \in Call, NEW k \in 1..Len(SIs[c])
    PROVE  /\ LastArg(c, k) \in 1..Len(types[c])
           /\ LastArg(c, k) - LastArg(c, k - 1) = ArgsTaken(SIs[c][k])
           /\ types[c][LastArg(c, k)] \in Type
           /\ SIs[c][k] \in SpecInfo
  <1>1. Len(types[c]) \in Nat /\ NArgs(c) <= Len(types[c])
        /\ \A n \in 1..Len(types[c]) : types[c][n] \in Type
    BY CallAssumption DEF NArgs
  <1>2. Len(SIs[c]) \in Nat /\ k \in 0..Len(SIs[c]) /\ k - 1 \in 0..Len(SIs[c])
    BY LastArgProperties
  <1>3. SIs[c][k] \in SpecInfo /\ ArgsTaken(SIs[c][k]) \in 1..3
    BY LastArgProperties, ArgsTakenBounds
  <1>4. /\ LastArg(c, k) \in Nat /\ LastArg(c, k) <= NArgs(c)
        /\ LastArg(c, k - 1) \in Nat
        /\ LastArg(c, k) = LastArg(c, k - 1) + ArgsTaken(SIs[c][k])
    BY <1>2, LastArgProperties
  <1>5. NArgs(c) \in Nat
    BY <1>2, LastArgProperties DEF NArgs
  <1>6. LastArg(c, k) \in 1..Len(types[c])
    BY <1>1, <1>3, <1>4, <1>5
  <1> QED BY <1>1, <1>3, <1>4, <1>6

\* The bytes of the stored arguments.
LEMMA ArgsSizeProperties ==
    ASSUME NEW c \in Call
    PROVE  /\ Len(types[c]) \in Nat
           /\ NArgs(c) \in Nat /\ NArgs(c) <= Len(types[c])
           /\ kArgsSize(c) \in Nat
           /\ ArgsSize(c, 0) = 0
           /\ \A n \in 0..Len(types[c]) : ArgsSize(c, n) \in Nat
           /\ \A n \in 1..Len(types[c]) :
                /\ sizeOf[types[c][n]] \in Nat \ {0}
                /\ ArgsSize(c, n) = ArgsSize(c, n - 1) + sizeOf[types[c][n]]
           /\ \A n \in 0..NArgs(c) : ArgsSize(c, n) <= kArgsSize(c)
  <1> DEFINE s == [j \in 1..Len(types[c]) |-> sizeOf[types[c][j]]]
  <1>1. /\ Len(types[c]) \in Nat /\ NArgs(c) <= Len(types[c])
        /\ \A n \in 1..Len(types[c]) : types[c][n] \in Type
    BY CallAssumption DEF NArgs
  <1>2. NArgs(c) \in Nat
    BY LastArgProperties DEF NArgs
  <1>3. \A n \in 1..Len(types[c]) : sizeOf[types[c][n]] \in Nat \ {0}
    BY <1>1, RecordAssumption
  <1>4. s \in Seq(Nat) /\ Len(s) = Len(types[c])
    BY <1>1, <1>3
  <1>5. \A n \in 1..Len(types[c]) : s[n] = sizeOf[types[c][n]]
    OBVIOUS
  <1>6. \A n : ArgsSize(c, n) = SumOfFirst(s, n)
    BY DEF ArgsSize
  <1> HIDE DEF s
  <1>7. /\ SumOfFirst(s, 0) = 0
        /\ \A n \in 0..Len(s) : SumOfFirst(s, n) \in Nat
        /\ \A n \in 1..Len(s) : SumOfFirst(s, n) = SumOfFirst(s, n - 1) + s[n]
    BY <1>4, SumProperties
  <1>8. kArgsSize(c) = SumOfFirst(s, NArgs(c)) /\ kArgsSize(c) \in Nat
    <2>1. NArgs(c) \in 0..Len(s)
      BY <1>1, <1>2, <1>4
    <2> QED BY <1>6, <1>7, <2>1 DEF kArgsSize
  <1>9. ASSUME NEW n \in 0..NArgs(c) PROVE SumOfFirst(s, n) <= kArgsSize(c)
    <2>1. n \in Nat /\ n <= NArgs(c) /\ NArgs(c) <= Len(s)
      BY <1>1, <1>2, <1>4
    <2> QED BY <1>2, <1>4, <1>8, <2>1, SumIsMonotone
  <1> QED BY <1>1, <1>2, <1>3, <1>4, <1>5, <1>6, <1>7, <1>8, <1>9

\* The specifications 's' are counted one by one.
LEMMA StringsAmongProperties ==
    ASSUME NEW c \in Call
    PROVE  /\ StringsAmong(c, 0) = 0
           /\ \A k \in 0..Len(SIs[c]) : StringsAmong(c, k) \in Nat
           /\ \A k \in 1..Len(SIs[c]) :
                StringsAmong(c, k) =
                  StringsAmong(c, k - 1)
                    + IF SIs[c][k].terminal = "s" THEN 1 ELSE 0
           /\ \A k, n \in 0..Len(SIs[c]) :
                k <= n => StringsAmong(c, k) <= StringsAmong(c, n)
  <1> DEFINE s == [j \in 1..Len(SIs[c]) |->
                     IF SIs[c][j].terminal = "s" THEN 1 ELSE 0]
  <1>1. Len(SIs[c]) \in Nat
    BY LastArgProperties
  <1>2. s \in Seq(Nat) /\ Len(s) = Len(SIs[c])
    BY <1>1
  <1>3. \A k \in 1..Len(SIs[c]) :
           s[k] = IF SIs[c][k].terminal = "s" THEN 1 ELSE 0
    OBVIOUS
  <1>4. \A k : StringsAmong(c, k) = SumOfFirst(s, k)
    BY DEF StringsAmong
  <1> HIDE DEF s
  <1>5. /\ SumOfFirst(s, 0) = 0
        /\ \A n \in 0..Len(s) : SumOfFirst(s, n) \in Nat
        /\ \A n \in 1..Len(s) : SumOfFirst(s, n) = SumOfFirst(s, n - 1) + s[n]
    BY <1>2, SumProperties
  <1>6. ASSUME NEW k \in 0..Len(SIs[c]), NEW n \in 0..Len(SIs[c]), k <= n
        PROVE  SumOfFirst(s, k) <= SumOfFirst(s, n)
    <2>1. k \in Nat /\ n \in Nat /\ n <= Len(s)
      BY <1>1, <1>2
    <2> QED BY <1>2, <1>6, <2>1, SumIsMonotone
  <1> QED BY <1>2, <1>3, <1>4, <1>5, <1>6

\* Every number up to the total is the number of one specification 's'.
LEMMA StringHasItsSpec ==
    ASSUME NEW c \in Call, NEW j \in 1..StringsAmong(c, Len(SIs[c]))
    PROVE  \E k \in 1..Len(SIs[c]) :
              /\ SIs[c][k].terminal = "s"
              /\ StringsAmong(c, k) = j
  <1> DEFINE L == Len(SIs[c])
             Named(m) == \A i \in 1..StringsAmong(c, m) :
                            \E k \in 1..L : /\ SIs[c][k].terminal = "s"
                                            /\ StringsAmong(c, k) = i
             Good == {m \in Nat : m <= L => Named(m)}
  <1>1. L \in Nat
    BY LastArgProperties
  <1>2. 0 \in Good
    BY StringsAmongProperties
  <1>3. ASSUME NEW m \in Nat, m \in Good PROVE m + 1 \in Good
    <2> SUFFICES ASSUME m + 1 <= L, NEW i \in 1..StringsAmong(c, m + 1)
                 PROVE  \E k \in 1..L : /\ SIs[c][k].terminal = "s"
                                        /\ StringsAmong(c, k) = i
      OBVIOUS
    <2>1. /\ m + 1 \in 1..L /\ m + 1 \in 0..L /\ m \in 0..L /\ (m + 1) - 1 = m
      BY <1>1
    <2>2. /\ StringsAmong(c, m) \in Nat /\ StringsAmong(c, m + 1) \in Nat
          /\ StringsAmong(c, m + 1) =
               StringsAmong(c, m) + IF SIs[c][m + 1].terminal = "s" THEN 1 ELSE 0
      <3>1. StringsAmong(c, m) \in Nat /\ StringsAmong(c, m + 1) \in Nat
        BY <2>1, StringsAmongProperties
      <3>2. StringsAmong(c, m + 1) =
               StringsAmong(c, (m + 1) - 1)
                 + IF SIs[c][m + 1].terminal = "s" THEN 1 ELSE 0
        BY <2>1, StringsAmongProperties
      <3> QED BY <2>1, <3>1, <3>2
    <2>3. CASE i \in 1..StringsAmong(c, m)
      <3>1. Named(m)
        BY <1>1, <1>3, <2>1
      <3> QED BY <2>3, <3>1
    <2>4. CASE i \notin 1..StringsAmong(c, m)
      <3>1. SIs[c][m + 1].terminal = "s" /\ StringsAmong(c, m + 1) = i
        BY <2>2, <2>4
      <3> QED BY <2>1, <3>1
    <2> QED BY <2>3, <2>4
  <1> HIDE DEF Good
  <1>4. L \in Good
    BY <1>1, <1>2, <1>3, NatInductionOnSet
  <1>5. Named(L)
    BY <1>1, <1>4 DEF Good
  <1> QED BY <1>5

\* No two specifications 's' have the same number.
LEMMA StringsAreNumbered ==
    ASSUME NEW c \in Call, NEW k \in 1..Len(SIs[c]), NEW n \in 1..Len(SIs[c]),
           SIs[c][k].terminal = "s", SIs[c][n].terminal = "s",
           StringsAmong(c, k) = StringsAmong(c, n)
    PROVE  k = n
  <1>1. Len(SIs[c]) \in Nat
    BY LastArgProperties
  <1>2. ASSUME NEW x \in 1..Len(SIs[c]), NEW y \in 1..Len(SIs[c]), x < y,
               SIs[c][y].terminal = "s"
        PROVE  StringsAmong(c, x) < StringsAmong(c, y)
    <2>1. x \in 0..Len(SIs[c]) /\ y - 1 \in 0..Len(SIs[c]) /\ x <= y - 1
      BY <1>1, <1>2
    <2>2. StringsAmong(c, x) <= StringsAmong(c, y - 1)
          /\ StringsAmong(c, x) \in Nat /\ StringsAmong(c, y - 1) \in Nat
      BY <2>1, StringsAmongProperties
    <2>3. StringsAmong(c, y) = StringsAmong(c, y - 1) + 1
      BY <1>2, StringsAmongProperties
    <2> QED BY <2>2, <2>3
  <1>3. ~(StringsAmong(c, k) < StringsAmong(c, n))
        /\ ~(StringsAmong(c, n) < StringsAmong(c, k))
    <2>1. k \in 0..Len(SIs[c])
      BY <1>1
    <2>2. StringsAmong(c, k) \in Nat
      BY <2>1, StringsAmongProperties
    <2> QED BY <2>2
  <1>4. ~(k < n) /\ ~(n < k)
    BY <1>2, <1>3
  <1> QED BY <1>1, <1>4

\* The size measured for an argument that is converted by 's'.
LEMMA SizeIsNatural ==
    ASSUME NEW c \in Call, NEW a \in values[c], NEW k \in 1..Len(SIs[c])
    PROVE  SizeForTerminal_s(SIs[c][k], types[c][LastArg(c, k)],
                             a[LastArg(c, k)]) \in Nat
  <1> DEFINE n == LastArg(c, k)
             spec == SIs[c][k]
  <1>1. CASE IsText(spec, types[c][n])
    <2>1. a[n] \in Seq(STRING \ {"NUL"})
      BY <1>1, CallAssumption
    <2> HIDE DEF n
    <2>2. Len(a[n]) + 1 \in Nat
      BY <2>1
    <2>3. Unit(spec) \in Nat
      BY RecordAssumption DEF Unit
    <2>4. (Len(a[n]) + 1) * Unit(spec) \in Nat
      BY ONLY <2>2, <2>3
    <2> QED BY <1>1, <2>4 DEF SizeForTerminal_s, StringSize, n
  <1>2. CASE ~IsText(spec, types[c][n])
    BY <1>2 DEF SizeForTerminal_s
  <1> QED BY <1>1, <1>2

\* strSizeArray holds one size for each 's', at the place of that 's'.
LEMMA StrSizeArrayProperties ==
    ASSUME NEW c \in Call, NEW a \in values[c]
    PROVE  /\ StrSizeArray(c, a) \in Seq(Nat)
           /\ Len(StrSizeArray(c, a)) = StringsAmong(c, Len(SIs[c]))
           /\ \A k \in 1..Len(SIs[c]) :
                SIs[c][k].terminal = "s" =>
                  /\ StringsAmong(c, k) \in 1..Len(StrSizeArray(c, a))
                  /\ StrSizeArray(c, a)[StringsAmong(c, k)] =
                       SizeForTerminal_s(SIs[c][k], types[c][LastArg(c, k)],
                                         a[LastArg(c, k)])
  <1> DEFINE L == Len(SIs[c])
             M == StringsAmong(c, L)
             Names(k, j) == /\ SIs[c][k].terminal = "s"
                            /\ StringsAmong(c, k) = j
             spec(j) == CHOOSE k \in 1..L : Names(k, j)
             size(k) == SizeForTerminal_s(SIs[c][k], types[c][LastArg(c, k)],
                                          a[LastArg(c, k)])
             sizes == [j \in 1..M |-> size(spec(j))]
  <1>1. StrSizeArray(c, a) = sizes
    BY DEF StrSizeArray
  <1>2. L \in Nat /\ M \in Nat
    <2>1. L \in Nat
      BY LastArgProperties
    <2>2. L \in 0..L
      BY <2>1
    <2> QED BY <2>1, <2>2, StringsAmongProperties
  <1>3. ASSUME NEW j \in 1..M PROVE spec(j) \in 1..L /\ Names(spec(j), j)
    <2>1. \E k \in 1..L : Names(k, j)
      BY StringHasItsSpec
    <2> HIDE DEF Names
    <2> QED BY <2>1
  <1>4. ASSUME NEW j \in 1..M PROVE size(spec(j)) \in Nat
    <2> HIDE DEF spec
    <2> QED BY <1>3, SizeIsNatural
  <1>5. sizes \in Seq(Nat) /\ Len(sizes) = M
    <2> HIDE DEF size, spec, M
    <2> QED BY <1>2, <1>4
  <1>6. ASSUME NEW k \in 1..L, SIs[c][k].terminal = "s"
        PROVE  /\ StringsAmong(c, k) \in 1..M
               /\ sizes[StringsAmong(c, k)] = size(k)
    <2>1. k \in 0..L /\ k - 1 \in 0..L /\ L \in 0..L /\ k <= L
      BY <1>2
    <2>2. StringsAmong(c, k) = StringsAmong(c, k - 1) + 1
          /\ StringsAmong(c, k - 1) \in Nat /\ StringsAmong(c, k) <= M
      BY <1>6, <2>1, StringsAmongProperties
    <2>3. StringsAmong(c, k) \in 1..M
      BY <1>2, <2>2
    <2> DEFINE j == StringsAmong(c, k)
    <2>4. spec(j) \in 1..L /\ Names(spec(j), j)
      BY <1>3, <2>3
    <2>5. spec(j) = k
      <3> HIDE DEF spec
      <3> QED BY <1>6, <2>4, StringsAreNumbered
    <2>6. sizes[j] = size(spec(j))
      BY <2>3
    <2> QED BY <2>3, <2>5, <2>6
  <1> QED BY <1>1, <1>5, <1>6

-----------------------------------------------------------------------------
(* Bytes                                                                   *)

IsSeq(s) == \E S : s \in Seq(S)

LEMMA FunctionIsSeq ==
    ASSUME NEW S, NEW n \in Nat, NEW f \in [1..n -> S]
    PROVE  f \in Seq(S)
  BY SeqDef

LEMMA SeqsConcat ==
    ASSUME NEW s, NEW t, IsSeq(s), IsSeq(t)
    PROVE  /\ IsSeq(s \o t)
           /\ Len(s) \in Nat /\ Len(t) \in Nat /\ Len(s \o t) = Len(s) + Len(t)
           /\ \A i \in 1..Len(s) : (s \o t)[i] = s[i]
           /\ \A i \in 1..Len(t) : (s \o t)[Len(s) + i] = t[i]
  <1>1. PICK S : s \in Seq(S)
    BY DEF IsSeq
  <1>2. PICK R : t \in Seq(R)
    BY DEF IsSeq
  <1> DEFINE U == S \cup R
  <1>3. S \subseteq U /\ R \subseteq U
    OBVIOUS
  <1> HIDE DEF U
  <1>4. /\ Len(s) \in Nat /\ Len(t) \in Nat
        /\ s \o t \in Seq(U)
        /\ Len(s \o t) = Len(s) + Len(t)
        /\ \A i \in 1..Len(s) + Len(t) :
             (s \o t)[i] = IF i <= Len(s) THEN s[i] ELSE t[i - Len(s)]
    <2>1. s \in Seq(U) /\ t \in Seq(U)
      BY <1>1, <1>2, <1>3, SeqMonotonic
    <2> QED BY <2>1, ConcatProperties, LenProperties
  <1>5. ASSUME NEW i \in 1..Len(s) PROVE (s \o t)[i] = s[i]
    <2>1. i \in 1..Len(s) + Len(t) /\ i <= Len(s)
      BY <1>4
    <2> QED BY <1>4, <2>1
  <1>6. ASSUME NEW i \in 1..Len(t) PROVE (s \o t)[Len(s) + i] = t[i]
    <2>1. /\ Len(s) + i \in 1..Len(s) + Len(t) /\ ~(Len(s) + i <= Len(s))
          /\ (Len(s) + i) - Len(s) = i
      BY <1>4
    <2> QED BY <1>4, <2>1
  <1>7. IsSeq(s \o t)
    BY <1>4 DEF IsSeq
  <1> QED BY <1>4, <1>5, <1>6, <1>7

LEMMA PaddedProperties ==
    ASSUME NEW cell, NEW size \in Nat \ {0}
    PROVE  /\ IsSeq(Padded(cell, size))
           /\ Padded(cell, size) \in Seq({cell, Pad})
           /\ Len(Padded(cell, size)) = size
           /\ Padded(cell, size)[1] = cell
  <1>1. Padded(cell, size) \in [1..size -> {cell, Pad}]
    BY DEF Padded
  <1>2. Padded(cell, size) \in Seq({cell, Pad}) /\ Len(Padded(cell, size)) = size
    BY <1>1
  <1>3. Padded(cell, size)[1] = cell
    BY DEF Padded
  <1>4. IsSeq(Padded(cell, size))
    BY <1>2 DEF IsSeq
  <1> QED BY <1>2, <1>3, <1>4

\* Writing keeps the number of bytes, and the first one if it starts behind.
LEMMA WriteProperties ==
    ASSUME NEW mem, IsSeq(mem), NEW cells, IsSeq(cells), NEW at \in Nat \ {0}
    PROVE  /\ IsSeq(Write(mem, at, cells))
           /\ Len(Write(mem, at, cells)) = Len(mem)
           /\ Len(mem) >= 1 => Write(mem, at, cells)[1] = mem[1]
  <1> DEFINE new == Write(mem, at, cells)
  <1>1. Len(mem) \in Nat /\ Len(cells) \in Nat
    BY DEF IsSeq
  <1>2. new \in [1..Len(mem) -> {new[k] : k \in 1..Len(mem)}]
    BY DEF Write
  <1>3. new \in Seq({new[k] : k \in 1..Len(mem)}) /\ Len(new) = Len(mem)
    <2> HIDE DEF new
    <2> QED BY <1>1, <1>2
  <1>4. ASSUME Len(mem) >= 1 PROVE new[1] = mem[1]
    <2>1. 1 \in 1..Len(mem) /\ 1 - at \notin 1..Len(cells)
      BY <1>1, <1>4
    <2> QED BY <2>1 DEF Write
  <1> QED BY <1>3, <1>4 DEF IsSeq

\* The header of an entry.
LEMMA HeaderProperties ==
    ASSUME NEW size, NEW status
    PROVE  /\ IsSeq(Header(size, status))
           /\ Len(Header(size, status)) = OneLogEntrySize
           /\ Header(size, status)[1] =
                <<"header", [fmtId |-> call, entrySize |-> size,
                             status |-> status]>>
  <1> DEFINE cell == <<"header", [fmtId |-> call, entrySize |-> size,
                                  status |-> status]>>
  <1>1. OneLogEntrySize \in Nat \ {0} /\ Header(size, status) = Padded(cell, OneLogEntrySize)
    BY RecordAssumption DEF Header
  <1> HIDE DEF cell
  <1>2. /\ IsSeq(Header(size, status))
        /\ Len(Header(size, status)) = OneLogEntrySize
        /\ Header(size, status)[1] = cell
    BY <1>1, PaddedProperties, Zenon
  <1> QED BY <1>2 DEF cell

\* A family of sequences, one longer.
LEMMA FamilyExtends ==
    ASSUME NEW S, NEW n \in Nat, NEW f, \A j \in 1..(n + 1) : f[j] \in Seq(S)
    PROVE  /\ [j \in 1..n |-> f[j]] \in Seq(Seq(S))
           /\ [j \in 1..(n + 1) |-> f[j]] = Append([j \in 1..n |-> f[j]], f[n + 1])
  <1> DEFINE Q == Seq(S)
             s == [j \in 1..n |-> f[j]]
             t == [j \in 1..(n + 1) |-> f[j]]
  <1>1. \A j \in 1..(n + 1) : f[j] \in Q
    OBVIOUS
  <1> HIDE DEF Q
  <1>2. \A j \in 1..n : j \in 1..(n + 1)
    OBVIOUS
  <1>3. s \in Seq(Q) /\ Len(s) = n /\ t \in Seq(Q) /\ Len(t) = n + 1
    BY <1>1, <1>2
  <1>4. f[n + 1] \in Q
    BY <1>1
  <1>5. \A j \in 1..n : s[j] = f[j]
    OBVIOUS
  <1>6. \A j \in 1..(n + 1) : t[j] = f[j]
    OBVIOUS
  <1> HIDE DEF s, t
  <1>7. Append(s, f[n + 1]) \in Seq(Q) /\ Len(Append(s, f[n + 1])) = n + 1
    BY <1>3, <1>4
  <1>8. ASSUME NEW j \in 1..(n + 1) PROVE Append(s, f[n + 1])[j] = t[j]
    BY <1>3, <1>4, <1>5, <1>6, <1>8
  <1>9. t = Append(s, f[n + 1])
    BY <1>3, <1>7, <1>8, SeqEqual
  <1> QED BY <1>3, <1>9 DEF s, t, Q

LEMMA TimesNext ==
    ASSUME NEW n \in Nat, NEW u \in Nat
    PROVE  n * u \in Nat /\ (n + 1) * u = n * u + u
  OBVIOUS

LEMMA TimesOrder ==
    ASSUME NEW m \in Nat, NEW n \in Nat, m < n, NEW u \in Nat
    PROVE  m * u + u <= n * u
  <1> DEFINE d == n - (m + 1)
  <1>1. d \in Nat /\ n = (m + 1) + d
    OBVIOUS
  <1> HIDE DEF d
  <1>2. n * u = ((m + 1) + d) * u
    BY <1>1
  <1>3. ((m + 1) + d) * u = (m * u + u) + d * u
    BY <1>1
  <1>4. d * u \in Nat /\ m * u \in Nat
    BY <1>1, TimesNext
  <1> DEFINE x == m * u
             y == n * u
             z == d * u
  <1>5. y = (x + u) + z /\ x \in Nat /\ z \in Nat
    BY <1>2, <1>3, <1>4
  <1> HIDE DEF x, y, z
  <1>6. x + u <= y
    BY <1>5
  <1> QED BY <1>6 DEF x, y

\* What a write leaves alone, and what it stores.
LEMMA WriteElements ==
    ASSUME NEW mem, IsSeq(mem), NEW cells, IsSeq(cells), NEW at \in Nat
    PROVE  /\ \A k \in 1..Len(mem) :
                k <= at \/ at + Len(cells) < k => Write(mem, at, cells)[k] = mem[k]
           /\ \A j \in 1..Len(cells) :
                at + j <= Len(mem) => Write(mem, at, cells)[at + j] = cells[j]
  <1>1. Len(mem) \in Nat /\ Len(cells) \in Nat
    BY DEF IsSeq
  <1>2. ASSUME NEW k \in 1..Len(mem), k <= at \/ at + Len(cells) < k
        PROVE  Write(mem, at, cells)[k] = mem[k]
    <2>1. k - at \notin 1..Len(cells)
      BY <1>1, <1>2
    <2> QED BY <2>1 DEF Write
  <1>3. ASSUME NEW j \in 1..Len(cells), at + j <= Len(mem)
        PROVE  Write(mem, at, cells)[at + j] = cells[j]
    <2>1. at + j \in 1..Len(mem) /\ (at + j) - at = j
      BY <1>1, <1>3
    <2> QED BY <2>1 DEF Write
  <1> QED BY <1>2, <1>3

\* The cells of n objects of the same size, one behind the other.
RowOf(cells, g, n, u) ==
    /\ IsSeq(cells) /\ Len(cells) = n * u
    /\ \A j \in 0..(n - 1) : cells[j * u + 1] = g[j + 1]

LEMMA FlattenPadded ==
    ASSUME NEW n \in Nat, NEW u \in Nat \ {0}, NEW g
    PROVE  RowOf(FlattenSeq([j \in 1..n |-> Padded(g[j], u)]), g, n, u)
  <1> DEFINE S == {g[j] : j \in 1..n} \cup {Pad}
             f == [j \in 1..n |-> Padded(g[j], u)]
             F(m) == [j \in 1..m |-> f[j]]
             Good == {m \in Nat : m <= n =>
                        FlattenSeq(F(m)) \in Seq(S)
                          /\ RowOf(FlattenSeq(F(m)), g, m, u)}
  <1>1. ASSUME NEW j \in 1..n
        PROVE  /\ f[j] \in Seq(S) /\ Len(f[j]) = u /\ f[j][1] = g[j]
    <2>1. f[j] = Padded(g[j], u)
      OBVIOUS
    <2>2. {g[j], Pad} \subseteq S
      OBVIOUS
    <2> HIDE DEF f, S
    <2>3. f[j] \in Seq({g[j], Pad}) /\ Len(f[j]) = u /\ f[j][1] = g[j]
      BY <2>1, PaddedProperties
    <2> QED BY <2>2, <2>3, SeqMonotonic
  <1>2. 0 \in Good
    <2>1. F(0) = <<>>
      OBVIOUS
    <2>2. FlattenSeq(F(0)) = <<>>
      <3> HIDE DEF F
      <3> QED BY <2>1, FlattenEmpty
    <2>3. RowOf(<<>>, g, 0, u)
      <3>1. <<>> \in Seq({}) /\ Len(<<>>) = 0 /\ 0 * u = 0
        OBVIOUS
      <3> QED BY <3>1 DEF RowOf, IsSeq
    <2>4. <<>> \in Seq(S)
      OBVIOUS
    <2> HIDE DEF F, S
    <2> QED BY <2>2, <2>3, <2>4
  <1>3. ASSUME NEW m \in Nat, m \in Good PROVE m + 1 \in Good
    <2> SUFFICES ASSUME m + 1 <= n
                 PROVE  FlattenSeq(F(m + 1)) \in Seq(S)
                          /\ RowOf(FlattenSeq(F(m + 1)), g, m + 1, u)
      OBVIOUS
    <2>1. m + 1 \in 1..n /\ \A j \in 1..(m + 1) : j \in 1..n
      OBVIOUS
    <2>2. \A j \in 1..(m + 1) : f[j] \in Seq(S)
      BY <1>1, <2>1
    <2>3. F(m) \in Seq(Seq(S)) /\ F(m + 1) = Append(F(m), f[m + 1])
      <3> HIDE DEF f, S
      <3> QED BY <2>2, FamilyExtends
    <2>4. FlattenSeq(F(m)) \in Seq(S) /\ RowOf(FlattenSeq(F(m)), g, m, u)
      BY <1>3
    <2>5. f[m + 1] \in Seq(S) /\ Len(f[m + 1]) = u /\ f[m + 1][1] = g[m + 1]
      BY <1>1, <2>1
    <2> DEFINE old == FlattenSeq(F(m))
               new == FlattenSeq(F(m + 1))
               one == f[m + 1]
    <2>6. new = old \o one
      <3> HIDE DEF F, f, S
      <3> QED BY <2>3, <2>5, FlattenAppend
    <2>7. old \in Seq(S) /\ RowOf(old, g, m, u)
      BY <2>4
    <2>8. one \in Seq(S) /\ Len(one) = u /\ one[1] = g[m + 1]
      BY <2>5
    <2> HIDE DEF old, new, one, S
    <2>9. /\ new \in Seq(S) /\ Len(new) = Len(old) + Len(one)
          /\ \A i \in 1..Len(old) : new[i] = old[i]
          /\ \A i \in 1..Len(one) : new[Len(old) + i] = one[i]
      <3>1. IsSeq(old) /\ IsSeq(one)
        BY <2>7, <2>8 DEF IsSeq
      <3>2. old \o one \in Seq(S)
        BY <2>7, <2>8
      <3> QED BY <2>6, <3>1, <3>2, SeqsConcat
    <2>10. m * u \in Nat /\ (m + 1) * u = m * u + u
      BY TimesNext
    <2>11. Len(old) = m * u /\ \A j \in 0..(m - 1) : old[j * u + 1] = g[j + 1]
      BY <2>7 DEF RowOf
    <2>12. Len(new) = (m + 1) * u
      BY <2>8, <2>9, <2>10, <2>11
    <2>13. ASSUME NEW j \in 0..((m + 1) - 1) PROVE new[j * u + 1] = g[j + 1]
      <3>1. CASE j = m
        <4>1. 1 \in 1..Len(one)
          BY <2>8
        <4> QED BY <2>8, <2>9, <2>11, <3>1, <4>1
      <3>2. CASE j # m
        <4>1. j \in 0..(m - 1) /\ j \in Nat /\ j < m
          BY <3>2
        <4>2. j * u + u <= m * u /\ j * u \in Nat
          BY <4>1, TimesOrder, TimesNext
        <4>3. j * u + 1 \in 1..Len(old)
          BY <2>10, <2>11, <4>2
        <4> QED BY <2>9, <2>11, <4>1, <4>3
      <3> QED BY <3>1, <3>2
    <2> QED BY <2>9, <2>12, <2>13 DEF RowOf, IsSeq, new
  <1> HIDE DEF Good
  <1>4. n \in Good
    BY <1>2, <1>3, NatInductionOnSet
  <1>5. F(n) = f
    OBVIOUS
  <1>6. RowOf(FlattenSeq(F(n)), g, n, u)
    BY <1>4 DEF Good
  <1> HIDE DEF F
  <1> QED BY <1>5, <1>6

-----------------------------------------------------------------------------
(* The copies of strings                                                   *)

\* A copied text: as much of it as was measured, and the terminator.
Shortened(spec, text, size) == Min({size \div Unit(spec) - 1, Len(text)})
TextStored(cells, at, spec, text, size) ==
    \A j \in 0..Shortened(spec, text, size) :
        cells[at + j * Unit(spec) + 1] =
            IF j < Shortened(spec, text, size)
            THEN <<"char", text[j + 1]>> ELSE EndOfText

LEMMA MinOfTwo ==
    ASSUME NEW p \in Int, NEW q \in Int
    PROVE  Min({p, q}) = IF p <= q THEN p ELSE q
  <1> DEFINE m == IF p <= q THEN p ELSE q
             P(x) == x \in {p, q} /\ \A y \in {p, q} : x <= y
  <1>1. P(m) /\ \A x : P(x) => x = m
    OBVIOUS
  <1>2. Min({p, q}) = CHOOSE x : P(x)
    BY DEF Min
  <1> HIDE DEF P, m
  <1>3. P(CHOOSE x : P(x))
    BY <1>1
  <1> QED BY <1>1, <1>2, <1>3 DEF m

\* A size measured for a text: its characters and a terminator.
LEMMA MeasuredLength ==
    ASSUME NEW q \in Nat, NEW u \in Nat \ {0}
    PROVE  ((q + 1) * u) \div u - 1 = q
  <1>1. (q + 1) * u = u * (q + 1) + 0
    OBVIOUS
  <1>2. ((q + 1) * u) \div u = q + 1
    OBVIOUS
  <1> QED BY <1>2

\* The bytes memcpy takes hold the text, cut to what was measured.
LEMMA TextCellsHold ==
    ASSUME NEW spec, NEW text, NEW q \in Nat, NEW size,
           Len(text) \in Nat, size = (q + 1) * Unit(spec)
    PROVE  /\ IsSeq(TextCells(spec, text, size))
           /\ Len(TextCells(spec, text, size)) = size
           /\ Shortened(spec, text, size) \in 0..q
           /\ TextStored(TextCells(spec, text, size), 0, spec, text, size)
  <1> DEFINE U == Unit(spec)
             N == Len(text)
             Char(j) == IF j <= Len(text) THEN <<"char", text[j]>>
                        ELSE IF j = Len(text) + 1 THEN EndOfText
                        ELSE <<"char", "?">>
             g == [j \in 1..q |-> Char(j)]
             row == FlattenSeq([j \in 1..q |-> Padded(Char(j), U)])
             end == Padded(EndOfText, U)
             all == TextCells(spec, text, size)
             m == Shortened(spec, text, size)
  <1>1. U \in Nat \ {0}
    BY RecordAssumption DEF Unit
  <1>2. size \div U - 1 = q
    <2> HIDE DEF U
    <2> QED BY <1>1, MeasuredLength DEF U
  <1>3. all = row \o end
    BY <1>2 DEF TextCells
  <1>4. RowOf(row, g, q, U)
    <2>1. RowOf(FlattenSeq([j \in 1..q |-> Padded(g[j], U)]), g, q, U)
      <3> HIDE DEF g, U
      <3> QED BY <1>1, FlattenPadded
    <2>2. [j \in 1..q |-> Padded(g[j], U)] = [j \in 1..q |-> Padded(Char(j), U)]
      <3>1. \A j \in 1..q : g[j] = Char(j)
        OBVIOUS
      <3> HIDE DEF g, Char
      <3> QED BY <3>1
    <2> HIDE DEF g, Char, U
    <2> QED BY <2>1, <2>2
  <1>5. \A j \in 1..q : g[j] = Char(j)
    OBVIOUS
  <1>6. IsSeq(end) /\ Len(end) = U /\ end[1] = EndOfText
    <2> HIDE DEF U
    <2> QED BY <1>1, PaddedProperties
  <1>7. m = IF q <= N THEN q ELSE N
    BY <1>2, MinOfTwo DEF Shortened
  <1>8. size = (q + 1) * U
    OBVIOUS
  <1> HIDE DEF U, g, row, end, all, m
  <1>9. IsSeq(row) /\ Len(row) = q * U
        /\ \A j \in 0..(q - 1) : row[j * U + 1] = g[j + 1]
    BY <1>4 DEF RowOf
  <1>10. /\ IsSeq(all) /\ Len(all) = Len(row) + Len(end)
         /\ \A i \in 1..Len(row) : all[i] = row[i]
         /\ \A i \in 1..Len(end) : all[Len(row) + i] = end[i]
    <2>1. IsSeq(row) /\ IsSeq(end)
      BY <1>6, <1>9
    <2> QED BY <1>3, <2>1, SeqsConcat
  <1>11. q * U \in Nat /\ (q + 1) * U = q * U + U
    BY <1>1, TimesNext
  <1>12. Len(all) = size
    BY <1>6, <1>8, <1>9, <1>10, <1>11
  <1>13. m \in 0..q /\ m <= N
    BY <1>7
  <1>14. ASSUME NEW j \in 0..q PROVE all[j * U + 1] = Char(j + 1) \/ j = q
    <2> SUFFICES ASSUME j # q PROVE all[j * U + 1] = Char(j + 1)
      OBVIOUS
    <2>1. j \in Nat /\ j < q /\ j + 1 \in 1..q /\ j \in 0..(q - 1)
      OBVIOUS
    <2>2. j * U + U <= q * U /\ j * U \in Nat
      BY <1>1, <2>1, TimesOrder, TimesNext
    <2>3. j * U + 1 \in 1..Len(row)
      BY <1>1, <1>9, <1>11, <2>2
    <2> HIDE DEF Char
    <2> QED BY <1>5, <1>9, <1>10, <2>1, <2>3
  <1>15. all[q * U + 1] = EndOfText
    <2>1. 1 \in 1..Len(end)
      BY <1>1, <1>6
    <2> QED BY <1>6, <1>9, <1>10, <2>1
  <1>16. ASSUME NEW j \in 0..m
         PROVE  all[0 + j * U + 1] =
                  IF j < m THEN <<"char", text[j + 1]>> ELSE EndOfText
    <2>0. j * U \in Nat /\ 0 + j * U + 1 = j * U + 1 /\ j \in 0..q
      BY <1>1, <1>13, TimesNext
    <2>1. CASE j < m
      <3>1. j # q /\ j + 1 <= N
        BY <1>7, <1>13, <2>1
      <3>2. all[j * U + 1] = Char(j + 1)
        BY <1>14, <2>0, <3>1
      <3>3. Char(j + 1) = <<"char", text[j + 1]>>
        BY <3>1
      <3> HIDE DEF Char
      <3> QED BY <2>0, <2>1, <3>2, <3>3
    <2>2. CASE ~(j < m)
      <3>1. j = m
        BY <1>13, <2>2
      <3>2. CASE m = q
        BY <1>15, <2>0, <2>2, <3>1, <3>2
      <3>3. CASE m # q
        <4>1. j = N /\ j # q
          BY <1>7, <3>1, <3>3
        <4>2. all[j * U + 1] = Char(j + 1)
          BY <1>14, <2>0, <4>1
        <4>3. Char(j + 1) = EndOfText
          BY <4>1
        <4> HIDE DEF Char
        <4> QED BY <2>0, <2>2, <4>2, <4>3
      <3> QED BY <3>2, <3>3
    <2> QED BY <2>1, <2>2
  <1>17. TextStored(all, 0, spec, text, size)
    BY <1>16 DEF TextStored, m, U
  <1> QED BY <1>10, <1>12, <1>13, <1>17 DEF all, m

-----------------------------------------------------------------------------
(* The arguments of a call in the bytes of its entry                       *)

\* Where TZ_LOG puts an argument and the copy of a string.
ArgPlace(c, n) == OneLogEntrySize + ArgsSize(c, n - 1)
TextPlace(c, sizes, k) ==
    OneLogEntrySize + kArgsSize(c) + SumOfFirst(sizes, StringsAmong(c, k) - 1)

\* The cells of an entry hold the arguments of the k-th SpecInfo.
ArgsStored(cells, c, a, sizes, k) ==
    LET spec == SIs[c][k]
        n    == LastArg(c, k)
    IN  /\ \A i \in (LastArg(c, k - 1) + 1)..(n - 1) :
              cells[ArgPlace(c, i) + 1] = <<"raw", a[i]>>
        /\ IF IsText(spec, types[c][n])
           THEN /\ cells[ArgPlace(c, n) + 1] =
                     <<"offset", TextPlace(c, sizes, k) - ArgPlace(c, n)>>
                /\ TextStored(cells, TextPlace(c, sizes, k), spec, a[n],
                              sizes[StringsAmong(c, k)])
           ELSE cells[ArgPlace(c, n) + 1] = <<"raw", a[n]>>

LEMMA NumbersOf ==
    ASSUME NEW c \in Call, NEW k \in 1..Len(SIs[c])
    PROVE  /\ Len(SIs[c]) \in Nat
           /\ k - 1 \in 0..Len(SIs[c]) /\ k \in 0..Len(SIs[c])
           /\ LastArg(c, k - 1) \in Nat /\ LastArg(c, k) \in Nat
           /\ LastArg(c, k - 1) < LastArg(c, k)
           /\ LastArg(c, k) <= NArgs(c)
           /\ NArgs(c) \in Nat /\ NArgs(c) <= Len(types[c])
           /\ Len(types[c]) \in Nat
  <1>1. Len(SIs[c]) \in Nat
    BY LastArgProperties
  <1>2. k - 1 \in 0..Len(SIs[c]) /\ k \in 0..Len(SIs[c])
    BY <1>1
  <1>3. /\ LastArg(c, k - 1) \in Nat /\ LastArg(c, k) \in Nat
        /\ LastArg(c, k) <= NArgs(c)
    BY <1>2, LastArgProperties
  <1>4. /\ NArgs(c) \in Nat /\ NArgs(c) <= Len(types[c]) /\ Len(types[c]) \in Nat
    BY ArgsSizeProperties
  <1>5. LastArg(c, k) = LastArg(c, k - 1) + ArgsTaken(SIs[c][k])
        /\ ArgsTaken(SIs[c][k]) \in 1..3
    BY ArgumentsPassed, LastArgProperties, ArgsTakenBounds
  <1>6. LastArg(c, k - 1) < LastArg(c, k)
    BY <1>3, <1>5
  <1> QED BY <1>1, <1>2, <1>3, <1>4, <1>6

\* The arguments of a SpecInfo lie between those of the others.
LEMMA ArgPlaces ==
    ASSUME NEW c \in Call, NEW k \in 1..Len(SIs[c]),
           NEW i \in (LastArg(c, k - 1) + 1)..LastArg(c, k)
    PROVE  /\ i \in 1..Len(types[c]) /\ i \in Nat
           /\ sizeOf[types[c][i]] \in Nat \ {0}
           /\ ArgPlace(c, i) \in Nat
           /\ ArgPlace(c, i) >= OneLogEntrySize + ArgsSize(c, LastArg(c, k - 1))
           /\ ArgPlace(c, i) + sizeOf[types[c][i]]
                <= OneLogEntrySize + ArgsSize(c, LastArg(c, k))
           /\ ArgPlace(c, i) + 1 <= OneLogEntrySize + ArgsSize(c, LastArg(c, k))
           /\ ArgsSize(c, LastArg(c, k)) \in Nat
           /\ ArgsSize(c, LastArg(c, k)) <= kArgsSize(c)
           /\ ArgsSize(c, LastArg(c, k - 1)) \in Nat
           /\ kArgsSize(c) \in Nat
  <1> DEFINE before == LastArg(c, k - 1)
             last == LastArg(c, k)
             s == [j \in 1..Len(types[c]) |-> sizeOf[types[c][j]]]
  <1>1. /\ before \in Nat /\ last \in Nat /\ before < last /\ last <= NArgs(c)
        /\ NArgs(c) \in Nat /\ NArgs(c) <= Len(types[c]) /\ Len(types[c]) \in Nat
    BY NumbersOf
  <1>2. i \in before + 1..last
    OBVIOUS
  <1> HIDE DEF before, last
  <1>3. i \in 1..Len(types[c]) /\ i \in Nat /\ i - 1 \in 0..Len(types[c])
        /\ before \in 0..Len(types[c]) /\ last \in 0..Len(types[c])
        /\ last \in 0..NArgs(c)
        /\ i - 1 \in Nat /\ before <= i - 1 /\ i <= last
    BY <1>1, <1>2
  <1>4. /\ sizeOf[types[c][i]] \in Nat \ {0}
        /\ ArgsSize(c, i) = ArgsSize(c, i - 1) + sizeOf[types[c][i]]
        /\ ArgsSize(c, i - 1) \in Nat /\ ArgsSize(c, i) \in Nat
        /\ ArgsSize(c, before) \in Nat /\ ArgsSize(c, last) \in Nat
        /\ ArgsSize(c, last) <= kArgsSize(c) /\ kArgsSize(c) \in Nat
    <2>1. i \in 0..Len(types[c])
      BY <1>3
    <2> QED BY <1>3, <2>1, ArgsSizeProperties
  <1>5. s \in Seq(Nat) /\ Len(s) = Len(types[c])
    <2>1. \A j \in 1..Len(types[c]) : sizeOf[types[c][j]] \in Nat
      BY ArgsSizeProperties
    <2> QED BY <1>1, <2>1
  <1>6. \A n : ArgsSize(c, n) = SumOfFirst(s, n)
    BY DEF ArgsSize
  <1> HIDE DEF s
  <1>7. ArgsSize(c, before) <= ArgsSize(c, i - 1)
    <2>1. i - 1 <= Len(s)
      BY <1>3, <1>5
    <2> QED BY <1>1, <1>3, <1>5, <1>6, <2>1, SumIsMonotone
  <1>8. ArgsSize(c, i) <= ArgsSize(c, last)
    <2>1. last <= Len(s)
      BY <1>1, <1>5
    <2> QED BY <1>1, <1>3, <1>5, <1>6, <2>1, SumIsMonotone
  <1>9. OneLogEntrySize \in Nat
    BY RecordAssumption
  <1>10. ArgPlace(c, i) = OneLogEntrySize + ArgsSize(c, i - 1)
    BY DEF ArgPlace
  <1> DEFINE w == sizeOf[types[c][i]]
             x == ArgsSize(c, i - 1)
             y == ArgsSize(c, i)
             z == ArgsSize(c, last)
             b == ArgsSize(c, before)
             p == ArgPlace(c, i)
  <1>11. /\ p \in Nat /\ p >= OneLogEntrySize + b
         /\ p + w <= OneLogEntrySize + z /\ p + 1 <= OneLogEntrySize + z
    <2>1. /\ p = OneLogEntrySize + x /\ y = x + w /\ y <= z /\ b <= x
          /\ w \in Nat \ {0} /\ x \in Nat /\ z \in Nat /\ b \in Nat /\ y \in Nat
      BY <1>4, <1>7, <1>8, <1>10
    <2> HIDE DEF w, x, y, z, b, p
    <2> QED BY <1>9, <2>1
  <1> QED BY <1>3, <1>4, <1>11 DEF before, last

\* The sizes a call measured for its strings.
MeasuredFor(c, sizes) == \E a \in values[c] : sizes = StrSizeArray(c, a)

\* The copy of a string has the size measured for it.
LEMMA TextPlaces ==
    ASSUME NEW c \in Call, NEW sizes, MeasuredFor(c, sizes),
           NEW k \in 1..Len(SIs[c]),
           IsText(SIs[c][k], types[c][LastArg(c, k)])
    PROVE  /\ TextPlace(c, sizes, k) \in Nat
           /\ TextPlace(c, sizes, k) >= OneLogEntrySize + kArgsSize(c)
           /\ TextPlace(c, sizes, k) + sizes[StringsAmong(c, k)] =
                OneLogEntrySize + kArgsSize(c)
                  + SumOfFirst(sizes, StringsAmong(c, k))
           /\ StringsAmong(c, k) \in 1..Len(sizes)
           /\ sizes \in Seq(Nat)
           /\ \E q \in Nat : sizes[StringsAmong(c, k)] = (q + 1) * Unit(SIs[c][k])
  <1> DEFINE j == StringsAmong(c, k)
             n == LastArg(c, k)
             spec == SIs[c][k]
  <1>1. PICK a \in values[c] : sizes = StrSizeArray(c, a)
    BY DEF MeasuredFor
  <1>2. spec.terminal = "s"
    BY DEF IsText
  <1>3. /\ sizes \in Seq(Nat) /\ j \in 1..Len(sizes)
        /\ sizes[j] = SizeForTerminal_s(spec, types[c][n], a[n])
    BY <1>1, <1>2, StrSizeArrayProperties
  <1>4. sizes[j] = (Len(a[n]) + 1) * Unit(spec)
    BY <1>3 DEF SizeForTerminal_s, StringSize
  <1>5. a[n] \in Seq(STRING \ {"NUL"})
    BY CallAssumption
  <1>6. Len(a[n]) \in Nat
    <2> HIDE DEF n
    <2> QED BY <1>5
  <1>7. OneLogEntrySize \in Nat /\ kArgsSize(c) \in Nat
    BY RecordAssumption, ArgsSizeProperties
  <1> HIDE DEF n, spec
  <1>8. /\ SumOfFirst(sizes, j - 1) \in Nat
        /\ SumOfFirst(sizes, j) = SumOfFirst(sizes, j - 1) + sizes[j]
    <2>1. j - 1 \in 0..Len(sizes)
      BY <1>3
    <2> QED BY <1>3, <2>1, SumProperties
  <1>9. sizes[j] \in Nat
    BY <1>3
  <1>10. TextPlace(c, sizes, k) = OneLogEntrySize + kArgsSize(c) + SumOfFirst(sizes, j - 1)
    BY DEF TextPlace
  <1> DEFINE x == SumOfFirst(sizes, j - 1)
             y == SumOfFirst(sizes, j)
             z == sizes[j]
             m == kArgsSize(c)
             p == TextPlace(c, sizes, k)
  <1>11. /\ p \in Nat /\ p >= OneLogEntrySize + m /\ p + z = OneLogEntrySize + m + y
    <2>1. /\ p = OneLogEntrySize + m + x /\ y = x + z /\ x \in Nat /\ z \in Nat
          /\ m \in Nat
      BY <1>7, <1>8, <1>9, <1>10
    <2> HIDE DEF x, y, z, m, p
    <2> QED BY <1>7, <2>1
  <1>12. \E q \in Nat : sizes[j] = (q + 1) * Unit(spec)
    BY <1>4, <1>6
  <1> QED BY <1>3, <1>11, <1>12 DEF spec

\* The cells of a stored text lie inside the copy.
LEMMA TextInside ==
    ASSUME NEW spec, NEW text, Len(text) \in Nat, NEW q \in Nat, NEW size,
           size = (q + 1) * Unit(spec),
           NEW j \in 0..Shortened(spec, text, size)
    PROVE  /\ Shortened(spec, text, size) \in 0..q
           /\ j * Unit(spec) \in Nat /\ j * Unit(spec) + Unit(spec) <= size
           /\ Unit(spec) \in Nat \ {0}
  <1>1. Unit(spec) \in Nat \ {0}
    BY RecordAssumption DEF Unit
  <1>2. Shortened(spec, text, size) \in 0..q
    BY TextCellsHold
  <1>3. j \in Nat /\ q + 1 \in Nat /\ j < q + 1
    BY <1>2
  <1>4. j * Unit(spec) \in Nat /\ j * Unit(spec) + Unit(spec) <= (q + 1) * Unit(spec)
    BY <1>1, <1>3, TimesOrder, TimesNext
  <1> QED BY <1>1, <1>2, <1>4

\* Bytes that agree where the arguments and the copy lie hold the same.
LEMMA ArgsStoredKept ==
    ASSUME NEW c \in Call, NEW k \in 1..Len(SIs[c]),
           NEW sizes, MeasuredFor(c, sizes), NEW a \in values[c],
           NEW old, ArgsStored(old, c, a, sizes, k),
           NEW new, NEW low, NEW high,
           OneLogEntrySize + ArgsSize(c, LastArg(c, k)) <= low,
           IsText(SIs[c][k], types[c][LastArg(c, k)]) =>
             OneLogEntrySize + kArgsSize(c) + SumOfFirst(sizes, StringsAmong(c, k))
               <= high,
           low \in Nat, high \in Nat,
           \A i \in 1..low :
              OneLogEntrySize < i => new[i] = old[i],
           \A i \in 1..high :
              OneLogEntrySize + kArgsSize(c) < i => new[i] = old[i]
    PROVE  ArgsStored(new, c, a, sizes, k)
  <1> DEFINE spec == SIs[c][k]
             n == LastArg(c, k)
             before == LastArg(c, k - 1)
             at == TextPlace(c, sizes, k)
             text == a[n]
             size == sizes[StringsAmong(c, k)]
  <1>1. /\ before \in Nat /\ n \in Nat /\ before < n
    BY NumbersOf
  <1>2. OneLogEntrySize \in Nat /\ kArgsSize(c) \in Nat
    BY RecordAssumption, ArgsSizeProperties
  <1>3. /\ \A i \in (before + 1)..(n - 1) : old[ArgPlace(c, i) + 1] = <<"raw", a[i]>>
        /\ IF IsText(spec, types[c][n])
           THEN /\ old[ArgPlace(c, n) + 1] = <<"offset", at - ArgPlace(c, n)>>
                /\ TextStored(old, at, spec, text, size)
           ELSE old[ArgPlace(c, n) + 1] = <<"raw", a[n]>>
    BY DEF ArgsStored
  <1>4. ASSUME NEW i \in (before + 1)..n
        PROVE  new[ArgPlace(c, i) + 1] = old[ArgPlace(c, i) + 1]
    <2> DEFINE p == ArgPlace(c, i)
               b == ArgsSize(c, before)
               e == ArgsSize(c, n)
    <2>1. /\ p \in Nat /\ p >= OneLogEntrySize + b /\ p + 1 <= OneLogEntrySize + e
          /\ b \in Nat /\ e \in Nat /\ OneLogEntrySize + e <= low
      BY ArgPlaces
    <2> HIDE DEF p, b, e
    <2>2. p + 1 \in 1..low /\ OneLogEntrySize < p + 1
      BY <1>2, <2>1
    <2>3. new[p + 1] = old[p + 1]
      BY <2>2
    <2> QED BY <2>3 DEF p
  <1>5. ASSUME IsText(spec, types[c][n]) PROVE TextStored(new, at, spec, text, size)
    <2>1. /\ at \in Nat /\ at >= OneLogEntrySize + kArgsSize(c)
          /\ at + size <= high
          /\ \E q \in Nat : size = (q + 1) * Unit(spec)
      BY <1>5, TextPlaces
    <2>2. PICK q \in Nat : size = (q + 1) * Unit(spec)
      BY <2>1
    <2>3. text \in Seq(STRING \ {"NUL"})
      BY <1>5, CallAssumption
    <2>4. Len(text) \in Nat
      <3> HIDE DEF text
      <3> QED BY <2>3
    <2>5. ASSUME NEW j \in 0..Shortened(spec, text, size)
          PROVE  new[at + j * Unit(spec) + 1] = old[at + j * Unit(spec) + 1]
      <3> DEFINE d == j * Unit(spec)
                 u == Unit(spec)
      <3> HIDE DEF text, size, spec, at
      <3>1. d \in Nat /\ d + u <= size /\ u \in Nat \ {0}
        BY <2>2, <2>4, TextInside
      <3>2. size \in Int
        <4>1. Unit(spec) \in Nat
          BY <3>1
        <4> QED BY <2>2, <4>1
      <3> HIDE DEF d, u
      <3>3. at + d + 1 \in 1..high /\ OneLogEntrySize + kArgsSize(c) < at + d + 1
        BY <1>2, <2>1, <3>1, <3>2
      <3>4. new[at + d + 1] = old[at + d + 1]
        BY <3>3
      <3> QED BY <3>4 DEF d
    <2>6. TextStored(old, at, spec, text, size)
      BY <1>3, <1>5
    <2> HIDE DEF text, size, spec, at
    <2> QED BY <2>5, <2>6 DEF TextStored
  <1>6. \A i \in (before + 1)..(n - 1) : new[ArgPlace(c, i) + 1] = <<"raw", a[i]>>
    <2> TAKE i \in (before + 1)..(n - 1)
    <2>1. i \in (before + 1)..n
      BY <1>1
    <2> HIDE DEF before, n
    <2> QED BY <1>3, <1>4, <2>1
  <1>7. new[ArgPlace(c, n) + 1] = old[ArgPlace(c, n) + 1]
    <2>1. n \in (before + 1)..n
      BY <1>1
    <2> HIDE DEF before, n
    <2> QED BY <1>4, <2>1
  <1> HIDE DEF text, size, at
  <1>8. IF IsText(spec, types[c][n])
        THEN /\ new[ArgPlace(c, n) + 1] = <<"offset", at - ArgPlace(c, n)>>
             /\ TextStored(new, at, spec, text, size)
        ELSE new[ArgPlace(c, n) + 1] = <<"raw", a[n]>>
    BY ONLY <1>3, <1>5, <1>7
  <1> QED BY <1>6, <1>8 DEF ArgsStored, text, size, at

\* Arithmetic of an entry: texts of SN, of which S0 are written, lie behind e.
LEMMA TextsInOrder ==
    ASSUME NEW e \in Nat \ {0}, NEW S0 \in Nat, NEW SN \in Nat, S0 <= SN
    PROVE  /\ e + S0 \in Nat \ {0} /\ e <= e + S0 /\ e + S0 <= e + SN
           /\ e + SN \in Nat
  OBVIOUS

\* Arguments of K behind a header of H, an object of l + s that ends by y.
LEMMA ObjectInside ==
    ASSUME NEW H \in Nat \ {0}, NEW K \in Nat, NEW x \in Nat, NEW l \in Nat,
           NEW s \in Nat \ {0}, NEW y \in Nat, (H + x) + l + s <= H + y, y <= K
    PROVE  /\ H + x \in Nat \ {0} /\ H <= H + x /\ l + s \in Nat
           /\ (H + x) + (l + s) <= H + K /\ H + x <= H + K
  OBVIOUS

\* The bytes in front of a converted argument: its width and its precision.
RawHolds(raw, c, k, first, v) ==
    /\ IsSeq(raw)
    /\ ArgsSize(c, first - 1) + Len(raw) = ArgsSize(c, LastArg(c, k) - 1)
    /\ \A i \in first..(LastArg(c, k) - 1) :
          /\ ArgsSize(c, i - 1) - ArgsSize(c, first - 1) + 1 \in 1..Len(raw)
          /\ raw[ArgsSize(c, i - 1) - ArgsSize(c, first - 1) + 1] = <<"raw", v[i]>>

\* The bytes in front of a converted argument: its width and its precision.
LEMMA RawCellsHold ==
    ASSUME NEW c \in Call, NEW k \in 1..Len(SIs[c]), NEW v, NEW first,
           first = LastArg(c, k - 1) + 1,
           NEW raw,
           raw = FlattenSeq([j \in 1..(ArgsTaken(SIs[c][k]) - 1) |->
                     Padded(<<"raw", v[first + j - 1]>>,
                            sizeOf[types[c][first + j - 1]])])
    PROVE  RawHolds(raw, c, k, first, v)
  <1> DEFINE N == ArgsTaken(SIs[c][k])
             S == {<<"raw", v[i]>> : i \in Nat} \cup {Pad}
             f == [j \in 1..N |-> Padded(<<"raw", v[first + j - 1]>>,
                                         sizeOf[types[c][first + j - 1]])]
             F(n) == [j \in 1..n |-> f[j]]
             Place(j) == ArgsSize(c, first + j - 2) - ArgsSize(c, first - 1) + 1
             Hold(cells, n) ==
                \A j \in 1..n : /\ Place(j) \in 1..Len(cells)
                               /\ cells[Place(j)] = <<"raw", v[first + j - 1]>>
  <1>1. /\ k - 1 \in 0..Len(SIs[c]) /\ Len(types[c]) \in Nat
        /\ LastArg(c, k - 1) \in Nat /\ N \in 1..3
        /\ LastArg(c, k) = first - 1 + N /\ LastArg(c, k) \in 1..Len(types[c])
    <2>1. Len(SIs[c]) \in Nat
      BY LastArgProperties
    <2>2. k - 1 \in 0..Len(SIs[c])
      BY <2>1
    <2>3. LastArg(c, k - 1) \in Nat
      BY <2>2, LastArgProperties
    <2>4. /\ LastArg(c, k) \in 1..Len(types[c])
          /\ LastArg(c, k) - LastArg(c, k - 1) = N
          /\ SIs[c][k] \in SpecInfo
      BY ArgumentsPassed
    <2>5. N \in 1..3
      BY <2>4, ArgsTakenBounds
    <2>6. Len(types[c]) \in Nat
      BY ArgsSizeProperties
    <2> HIDE DEF N
    <2> QED BY <2>2, <2>3, <2>4, <2>5, <2>6
  <1> HIDE DEF N
  <1>2. ASSUME NEW j \in 1..N
        PROVE  /\ first + j - 1 \in 1..Len(types[c])
               /\ sizeOf[types[c][first + j - 1]] \in Nat \ {0}
               /\ ArgsSize(c, first + j - 1) =
                    ArgsSize(c, first + j - 2) + sizeOf[types[c][first + j - 1]]
               /\ f[j] \in Seq(S) /\ Len(f[j]) = sizeOf[types[c][first + j - 1]]
               /\ f[j][1] = <<"raw", v[first + j - 1]>>
    <2>1. first + j - 1 \in 1..Len(types[c]) /\ (first + j - 1) - 1 = first + j - 2
      <3> DEFINE p == LastArg(c, k - 1)
                 total == Len(types[c])
                 last == LastArg(c, k)
      <3>1. N \in Nat /\ total \in Nat /\ p \in Nat /\ last = first - 1 + N
            /\ last \in 1..total /\ first = p + 1
        BY <1>1
      <3> HIDE DEF p, total, last
      <3>2. first + j - 1 \in 1..total /\ (first + j - 1) - 1 = first + j - 2
        BY ONLY <3>1, j \in 1..N
      <3> QED BY <3>2 DEF total
    <2>2. /\ sizeOf[types[c][first + j - 1]] \in Nat \ {0}
          /\ ArgsSize(c, first + j - 1) =
               ArgsSize(c, (first + j - 1) - 1) + sizeOf[types[c][first + j - 1]]
      BY <2>1, ArgsSizeProperties
    <2> DEFINE cell == <<"raw", v[first + j - 1]>>
    <2>3. {cell, Pad} \subseteq S
      <3>1. first + j - 1 \in Nat
        BY <1>1, <2>1
      <3> QED BY <3>1
    <2>4. /\ f[j] \in Seq({cell, Pad})
          /\ Len(f[j]) = sizeOf[types[c][first + j - 1]]
          /\ f[j][1] = cell
      <3>1. f[j] = Padded(cell, sizeOf[types[c][first + j - 1]])
        OBVIOUS
      <3> DEFINE size == sizeOf[types[c][first + j - 1]]
      <3> HIDE DEF cell, size, f
      <3>2. size \in Nat \ {0} /\ f[j] = Padded(cell, size)
        BY <2>2, <3>1 DEF size
      <3>3. /\ Padded(cell, size) \in Seq({cell, Pad})
            /\ Len(Padded(cell, size)) = size /\ Padded(cell, size)[1] = cell
        BY ONLY <3>2, PaddedProperties
      <3> QED BY <3>2, <3>3 DEF size
    <2> HIDE DEF cell, S, f
    <2>5. f[j] \in Seq(S)
      BY <2>3, <2>4, SeqMonotonic
    <2> QED BY <2>1, <2>2, <2>4, <2>5 DEF cell
  <1> DEFINE Good == {n \in Nat : n <= N - 1 =>
                     /\ FlattenSeq(F(n)) \in Seq(S)
                     /\ ArgsSize(c, first - 1) + Len(FlattenSeq(F(n))) =
                          ArgsSize(c, first - 1 + n)
                     /\ Hold(FlattenSeq(F(n)), n)}
  <1>3. 0 \in Good
    <2>1. F(0) = <<>>
      OBVIOUS
    <2>2. FlattenSeq(F(0)) = <<>>
      <3> HIDE DEF F
      <3> QED BY <2>1, FlattenEmpty
    <2>3. first - 1 \in 0..Len(types[c])
      BY <1>1
    <2>4. ArgsSize(c, first - 1) \in Nat
      BY <2>3, ArgsSizeProperties
    <2>5. first - 1 + 0 = first - 1 /\ <<>> \in Seq(S) /\ Len(<<>>) = 0
      BY <1>1
    <2>6. ArgsSize(c, first - 1) + 0 = ArgsSize(c, first - 1)
      BY <2>4
    <2>7. Hold(<<>>, 0)
      OBVIOUS
    <2> HIDE DEF F, S, Hold
    <2> QED BY <2>2, <2>5, <2>6, <2>7
  <1>4. ASSUME NEW n \in Nat, n \in Good PROVE n + 1 \in Good
    <2> SUFFICES ASSUME n + 1 <= N - 1
                 PROVE  /\ FlattenSeq(F(n + 1)) \in Seq(S)
                        /\ ArgsSize(c, first - 1) + Len(FlattenSeq(F(n + 1))) =
                             ArgsSize(c, first - 1 + (n + 1))
                        /\ Hold(FlattenSeq(F(n + 1)), n + 1)
      <3> HIDE DEF F, S, Hold
      <3> QED OBVIOUS
    <2>1. n + 1 \in 1..N /\ \A j \in 1..(n + 1) : j \in 1..N
      BY <1>1
    <2>2. \A j \in 1..(n + 1) : f[j] \in Seq(S)
      BY <1>2, <2>1
    <2>3. F(n) \in Seq(Seq(S)) /\ F(n + 1) = Append(F(n), f[n + 1])
      <3> HIDE DEF f, S
      <3> QED BY <2>2, FamilyExtends
    <2>4. /\ FlattenSeq(F(n)) \in Seq(S)
          /\ ArgsSize(c, first - 1) + Len(FlattenSeq(F(n))) =
               ArgsSize(c, first - 1 + n)
          /\ Hold(FlattenSeq(F(n)), n)
      <3>1. n <= N - 1
        BY ONLY <1>1, <2>1, n \in Nat
      <3> HIDE DEF F, S, Hold
      <3> QED BY <1>4, <3>1
    <2> HIDE DEF F, f, S, Hold
    <2>5. f[n + 1] \in Seq(S)
      <3>1. n + 1 \in 1..(n + 1)
        OBVIOUS
      <3> QED BY <2>2, <3>1, Zenon
    <2>6. FlattenSeq(Append(F(n), f[n + 1])) = FlattenSeq(F(n)) \o f[n + 1]
      BY <2>3, <2>5, FlattenAppend
    <2>7. /\ FlattenSeq(F(n + 1)) \in Seq(S)
          /\ Len(FlattenSeq(F(n + 1))) = Len(FlattenSeq(F(n))) + Len(f[n + 1])
          /\ FlattenSeq(F(n + 1)) = FlattenSeq(F(n)) \o f[n + 1]
      <3>1. FlattenSeq(F(n + 1)) = FlattenSeq(F(n)) \o f[n + 1]
        BY <2>3, <2>6, Zenon
      <3>2. FlattenSeq(F(n)) \in Seq(S)
        BY <2>4
      <3>3. /\ FlattenSeq(F(n)) \o f[n + 1] \in Seq(S)
            /\ Len(FlattenSeq(F(n)) \o f[n + 1]) =
                 Len(FlattenSeq(F(n))) + Len(f[n + 1])
        BY <2>5, <3>2, ConcatProperties
      <3> QED BY <3>1, <3>3, Zenon
    <2>8. /\ Len(f[n + 1]) = sizeOf[types[c][first + (n + 1) - 1]]
          /\ ArgsSize(c, first + (n + 1) - 1) =
               ArgsSize(c, first + (n + 1) - 2) + Len(f[n + 1])
      BY <1>2, <2>1
    <2>9. /\ first + (n + 1) - 1 = first - 1 + (n + 1)
          /\ first + (n + 1) - 2 = first - 1 + n
      <3>1. first \in Int /\ n \in Int
        BY <1>1
      <3> QED BY ONLY <3>1
    <2>10. Len(FlattenSeq(F(n))) \in Nat /\ Len(f[n + 1]) \in Nat
      BY <2>4, <2>5
    <2>11. ArgsSize(c, first - 1) \in Nat
      <3>1. first - 1 \in 0..Len(types[c])
        BY <1>1
      <3> QED BY <3>1, ArgsSizeProperties
    <2>12. ArgsSize(c, first - 1 + (n + 1)) =
             ArgsSize(c, first - 1 + n) + Len(f[n + 1])
      BY <2>8, <2>9
    <2> DEFINE a0 == ArgsSize(c, first - 1)
               an == ArgsSize(c, first - 1 + n)
               am == ArgsSize(c, first - 1 + (n + 1))
               ln == Len(FlattenSeq(F(n)))
               lm == Len(FlattenSeq(F(n + 1)))
               lf == Len(f[n + 1])
    <2>13. /\ a0 + ln = an /\ am = an + lf /\ lm = ln + lf
           /\ a0 \in Nat /\ ln \in Nat /\ lf \in Nat
      BY <2>4, <2>7, <2>10, <2>11, <2>12
    <2>14. a0 + lm = am
      <3> HIDE DEF a0, an, am, ln, lm, lf
      <3> QED BY <2>13
    <2>15. Hold(FlattenSeq(F(n + 1)), n + 1)
      <3> DEFINE old == FlattenSeq(F(n))
                 new == FlattenSeq(F(n + 1))
                 one == f[n + 1]
      <3>1. /\ IsSeq(old) /\ IsSeq(one) /\ new = old \o one
            /\ Hold(old, n) /\ one[1] = <<"raw", v[first + (n + 1) - 1]>>
            /\ Len(one) = sizeOf[types[c][first + (n + 1) - 1]]
            /\ sizeOf[types[c][first + (n + 1) - 1]] \in Nat \ {0}
        BY <1>2, <2>1, <2>4, <2>5, <2>7 DEF IsSeq
      <3>2. Place(n + 1) = Len(old) + 1
        <4>1. first + (n + 1) - 2 = first - 1 + n
          BY <1>1
        <4>2. Place(n + 1) = an - a0 + 1
          BY <4>1
        <4> HIDE DEF a0, an, ln
        <4>3. an - a0 + 1 = ln + 1
          BY <2>13
        <4> QED BY <4>2, <4>3 DEF ln
      <3> HIDE DEF old, new, one, Place
      <3>3. /\ Len(old) \in Nat /\ Len(new) = Len(old) + Len(one)
            /\ \A i \in 1..Len(old) : new[i] = old[i]
            /\ \A i \in 1..Len(one) : new[Len(old) + i] = one[i]
        <4>1. IsSeq(old) /\ IsSeq(one)
          BY <3>1
        <4>2. new = old \o one
          BY <3>1
        <4> QED BY <4>1, <4>2, SeqsConcat
      <3>4. ASSUME NEW j \in 1..(n + 1)
            PROVE  /\ Place(j) \in 1..Len(new)
                   /\ new[Place(j)] = <<"raw", v[first + j - 1]>>
        <4>1. CASE j = n + 1
          <5>1. 1 \in 1..Len(one) /\ Len(one) \in Nat
            BY ONLY <3>1
          <5>2. new[Len(old) + 1] = one[1]
            BY <3>3, <5>1
          <5>3. Len(old) + 1 \in 1..Len(new)
            BY <3>3, <5>1
          <5> QED BY <3>1, <3>2, <4>1, <5>2, <5>3
        <4>2. CASE j # n + 1
          <5>1. j \in 1..n
            BY <4>2
          <5>2. /\ Place(j) \in 1..Len(old)
                /\ old[Place(j)] = <<"raw", v[first + j - 1]>>
            BY <3>1, <5>1 DEF Hold
          <5>3. Len(one) \in Nat
            BY <3>1
          <5>4. Place(j) \in 1..Len(new)
            BY <3>3, <5>2, <5>3
          <5> QED BY <3>3, <5>2, <5>4
        <4> QED BY <4>1, <4>2
      <3> QED BY <3>4 DEF Hold, new
    <2> QED BY <2>7, <2>14, <2>15
  <1> HIDE DEF Good
  <1>5. N - 1 \in Nat
    BY <1>1
  <1>6. N - 1 \in Good
    BY <1>3, <1>4, <1>5, NatInductionOnSet
  <1>7. raw = FlattenSeq(F(N - 1))
    <2>1. \A j \in 1..(N - 1) : j \in 1..N
      BY <1>1
    <2>2. F(N - 1) = [j \in 1..(N - 1) |->
                     Padded(<<"raw", v[first + j - 1]>>,
                            sizeOf[types[c][first + j - 1]])]
      BY <2>1
    <2> HIDE DEF F
    <2> QED BY <2>2 DEF N
  <1>8. first - 1 + (N - 1) = LastArg(c, k) - 1
    BY ONLY <1>1, first = LastArg(c, k - 1) + 1
  <1> HIDE DEF F
  <1>9. N - 1 <= N - 1
    BY <1>1
  <1>10. Hold(raw, N - 1) /\ IsSeq(raw)
        /\ ArgsSize(c, first - 1) + Len(raw) = ArgsSize(c, LastArg(c, k) - 1)
    <2> HIDE DEF Hold, Place
    <2> QED BY <1>6, <1>7, <1>8, <1>9 DEF Good, IsSeq
  <1>11. ASSUME NEW i \in first..(LastArg(c, k) - 1)
         PROVE  /\ ArgsSize(c, i - 1) - ArgsSize(c, first - 1) + 1 \in 1..Len(raw)
                /\ raw[ArgsSize(c, i - 1) - ArgsSize(c, first - 1) + 1] = <<"raw", v[i]>>
    <2> DEFINE j == i - first + 1
    <2>1. j \in 1..(N - 1) /\ first + j - 2 = i - 1 /\ first + j - 1 = i
      <3>1. /\ first \in Nat /\ LastArg(c, k) \in Nat /\ i \in Int
            /\ first <= i /\ i <= LastArg(c, k) - 1
            /\ LastArg(c, k) = first - 1 + N /\ N \in Nat
        BY <1>1
      <3>2. i - first + 1 >= 1 /\ i - first + 1 \in Int
        BY ONLY <3>1
      <3>3. i - first + 1 <= N - 1
        BY ONLY <3>1
      <3>4. first + j - 2 = i - 1
        BY ONLY <3>1
      <3>5. first + j - 1 = i
        BY <3>1
      <3> HIDE DEF j
      <3> QED BY <3>1, <3>2, <3>3, <3>4, <3>5 DEF j
    <2>2. /\ Place(j) \in 1..Len(raw)
          /\ raw[Place(j)] = <<"raw", v[first + j - 1]>>
      <3> HIDE DEF Place, j
      <3> QED BY <1>10, <2>1
    <2>3. Place(j) = ArgsSize(c, i - 1) - ArgsSize(c, first - 1) + 1
      BY <2>1
    <2> HIDE DEF Place, j
    <2> QED BY <2>1, <2>2, <2>3
  <1> QED BY <1>10, <1>11 DEF RawHolds

\* The arguments of earlier SpecInfos lie in front of those of later ones.
LEMMA EarlierArgs ==
    ASSUME NEW c \in Call, NEW m \in Nat, NEW k \in Nat, m <= k, k <= Len(SIs[c])
    PROVE  /\ ArgsSize(c, LastArg(c, m)) \in Nat
           /\ ArgsSize(c, LastArg(c, k)) \in Nat
           /\ ArgsSize(c, LastArg(c, m)) <= ArgsSize(c, LastArg(c, k))
           /\ ArgsSize(c, LastArg(c, k)) <= kArgsSize(c)
  <1> DEFINE s == [j \in 1..Len(SIs[c]) |-> ArgsTaken(SIs[c][j])]
             t == [j \in 1..Len(types[c]) |-> sizeOf[types[c][j]]]
  <1>1. Len(SIs[c]) \in Nat /\ \A j \in 1..Len(SIs[c]) : SIs[c][j] \in SpecInfo
    BY LastArgProperties
  <1>2. s \in Seq(Nat) /\ Len(s) = Len(SIs[c])
    <2>1. \A j \in 1..Len(SIs[c]) : ArgsTaken(SIs[c][j]) \in Nat
      BY <1>1, ArgsTakenBounds
    <2> QED BY <1>1, <2>1
  <1>3. Len(types[c]) \in Nat /\ t \in Seq(Nat) /\ Len(t) = Len(types[c])
    <2>1. Len(types[c]) \in Nat
          /\ \A j \in 1..Len(types[c]) : sizeOf[types[c][j]] \in Nat
      BY ArgsSizeProperties
    <2> QED BY <2>1
  <1>4. /\ LastArg(c, m) = SumOfFirst(s, m) /\ LastArg(c, k) = SumOfFirst(s, k)
        /\ \A n : ArgsSize(c, n) = SumOfFirst(t, n)
    BY DEF LastArg, ArgsSize
  <1> HIDE DEF s, t
  <1>5. LastArg(c, m) <= LastArg(c, k)
    <2>1. k <= Len(s)
      BY <1>2
    <2> QED BY <1>2, <1>4, <2>1, SumIsMonotone
  <1>6. /\ LastArg(c, m) \in Nat /\ LastArg(c, k) \in Nat
        /\ LastArg(c, k) <= NArgs(c) /\ NArgs(c) \in Nat
        /\ NArgs(c) <= Len(types[c])
    <2>1. m \in 0..Len(SIs[c]) /\ k \in 0..Len(SIs[c])
      BY <1>1
    <2> QED BY <2>1, LastArgProperties, ArgsSizeProperties
  <1>7. LastArg(c, k) <= Len(t)
    BY <1>3, <1>6
  <1>8. ArgsSize(c, LastArg(c, m)) <= ArgsSize(c, LastArg(c, k))
    BY <1>3, <1>4, <1>5, <1>6, <1>7, SumIsMonotone
  <1>9. /\ ArgsSize(c, LastArg(c, m)) \in Nat /\ ArgsSize(c, LastArg(c, k)) \in Nat
        /\ ArgsSize(c, LastArg(c, k)) <= kArgsSize(c)
    <2>1. /\ LastArg(c, m) \in 0..Len(types[c]) /\ LastArg(c, k) \in 0..Len(types[c])
          /\ LastArg(c, k) \in 0..NArgs(c)
      BY <1>3, <1>5, <1>6
    <2> QED BY <2>1, ArgsSizeProperties
  <1> QED BY <1>8, <1>9

\* So do the copies of their strings.
LEMMA EarlierStrings ==
    ASSUME NEW c \in Call, NEW sizes \in Seq(Nat),
           Len(sizes) = StringsAmong(c, Len(SIs[c])),
           NEW m \in Nat, NEW k \in Nat, m <= k, k <= Len(SIs[c])
    PROVE  /\ SumOfFirst(sizes, StringsAmong(c, m)) \in Nat
           /\ SumOfFirst(sizes, StringsAmong(c, k)) \in Nat
           /\ SumOfFirst(sizes, Len(sizes)) \in Nat
           /\ SumOfFirst(sizes, StringsAmong(c, m))
                <= SumOfFirst(sizes, StringsAmong(c, k))
           /\ SumOfFirst(sizes, StringsAmong(c, k))
                <= SumOfFirst(sizes, Len(sizes))
  <1> DEFINE L == Len(SIs[c])
  <1>1. L \in Nat
    BY LastArgProperties
  <1>2. m \in 0..L /\ k \in 0..L /\ L \in 0..L /\ k <= L
    BY <1>1
  <1>3. /\ StringsAmong(c, m) \in Nat /\ StringsAmong(c, k) \in Nat
        /\ StringsAmong(c, m) <= StringsAmong(c, k)
        /\ StringsAmong(c, k) <= Len(sizes) /\ Len(sizes) \in Nat
    BY <1>2, StringsAmongProperties
  <1>4. /\ StringsAmong(c, m) \in 0..Len(sizes) /\ StringsAmong(c, k) \in 0..Len(sizes)
        /\ Len(sizes) \in 0..Len(sizes) /\ Len(sizes) <= Len(sizes)
    BY <1>3
  <1> QED BY <1>3, <1>4, SumProperties, SumIsMonotone

\* The text of an argument that is copied.
LEMMA TextArgument ==
    ASSUME NEW c \in Call, NEW k \in 1..Len(SIs[c]), NEW a \in values[c],
           IsText(SIs[c][k], types[c][LastArg(c, k)])
    PROVE  /\ Len(a[LastArg(c, k)]) \in Nat
           /\ a[LastArg(c, k)] \in Seq(STRING \ {"NUL"})
  <1> DEFINE text == a[LastArg(c, k)]
  <1>1. text \in Seq(STRING \ {"NUL"})
    BY CallAssumption
  <1>2. Len(text) \in Nat
    <2> HIDE DEF text
    <2> QED BY <1>1
  <1> QED BY <1>1, <1>2

\* Writing an argument and the copy of its string keeps the header and what
\* was stored for earlier SpecInfos, and stores this one's.
ArgsWritten(mem, new, c, k, a, sizes) ==
    /\ IsSeq(new) /\ Len(new) = Len(mem)
    /\ new[1] = mem[1]
    /\ ArgsStored(new, c, a, sizes, k)
    /\ \A m \in 1..(k - 1) : ArgsStored(mem, c, a, sizes, m)
                               => ArgsStored(new, c, a, sizes, m)

\* What storeArg writes: the bytes of the arguments at low, the copy at high.
Writing(mem, new, c, k, a, sizes, raw, low, high, cell, text) ==
    /\ IsSeq(mem)
    /\ Len(mem) = OneLogEntrySize + kArgsSize(c) + SumOfFirst(sizes, Len(sizes))
    /\ RawHolds(raw, c, k, LastArg(c, k - 1) + 1, a)
    /\ low = OneLogEntrySize + ArgsSize(c, LastArg(c, k - 1))
    /\ high = OneLogEntrySize + kArgsSize(c)
                 + SumOfFirst(sizes, StringsAmong(c, k - 1))
    /\ cell = IF IsText(SIs[c][k], types[c][LastArg(c, k)])
              THEN <<"offset", high - (low + Len(raw))>>
              ELSE <<"raw", a[LastArg(c, k)]>>
    /\ text = IF IsText(SIs[c][k], types[c][LastArg(c, k)])
              THEN TextCells(SIs[c][k], a[LastArg(c, k)],
                             sizes[StringsAmong(c, k)])
              ELSE <<>>
    /\ new = Write(Write(mem, low,
                         raw \o Padded(cell, sizeOf[types[c][LastArg(c, k)]])),
                   high, text)

LEMMA ArgsWriting ==
    ASSUME NEW c \in Call, NEW k \in 1..Len(SIs[c]), NEW a \in values[c],
           NEW sizes, MeasuredFor(c, sizes),
           NEW mem, NEW raw, NEW low, NEW high, NEW cell, NEW text, NEW new,
           Writing(mem, new, c, k, a, sizes, raw, low, high, cell, text)
    PROVE  ArgsWritten(mem, new, c, k, a, sizes)
  <1> DEFINE spec == SIs[c][k]
             n == LastArg(c, k)
             before == LastArg(c, k - 1)
             type == types[c][n]
             size == sizeOf[type]
             obj == raw \o Padded(cell, size)
             once == Write(mem, low, obj)
             copy == IsText(spec, type)
             K == kArgsSize(c)
             H == OneLogEntrySize
             length == sizes[StringsAmong(c, k)]
  <1>1. H \in Nat \ {0} /\ K \in Nat
    BY RecordAssumption, ArgsSizeProperties
  <1>2. /\ before \in Nat /\ n \in Nat /\ before < n /\ k - 1 \in Nat
        /\ k - 1 <= k /\ k <= Len(SIs[c]) /\ k \in Nat
        /\ k - 1 <= Len(SIs[c])
    BY NumbersOf
  <1>3. /\ sizes \in Seq(Nat) /\ Len(sizes) = StringsAmong(c, Len(SIs[c]))
    BY StrSizeArrayProperties DEF MeasuredFor
  <1>24. IsSeq(mem) /\ Len(mem) = H + K + SumOfFirst(sizes, Len(sizes))
    BY DEF Writing
  <1>25. RawHolds(raw, c, k, before + 1, a)
    BY DEF Writing
  <1>26. low = H + ArgsSize(c, before)
    BY DEF Writing
  <1>27. high = H + K + SumOfFirst(sizes, StringsAmong(c, k - 1))
    BY DEF Writing
  <1>28. cell = IF copy THEN <<"offset", high - (low + Len(raw))>>
               ELSE <<"raw", a[n]>>
    BY DEF Writing
  <1>29. text = IF copy THEN TextCells(spec, a[n], length) ELSE <<>>
    BY DEF Writing
  <1>30. new = Write(once, high, text)
    BY DEF Writing
  <1>4. /\ size \in Nat \ {0}
        /\ ArgPlace(c, n) \in Nat
        /\ ArgPlace(c, n) + size <= H + ArgsSize(c, n)
        /\ ArgsSize(c, n) <= K /\ ArgsSize(c, n) \in Nat
        /\ ArgsSize(c, before) \in Nat
    <2>1. n \in (before + 1)..n
      BY <1>2
    <2> HIDE DEF before, n
    <2> QED BY <2>1, ArgPlaces DEF before, n
  <1>5. /\ IsSeq(raw) /\ Len(raw) \in Nat
        /\ ArgsSize(c, before) + Len(raw) = ArgsSize(c, n - 1)
        /\ \A i \in (before + 1)..(n - 1) :
            /\ ArgsSize(c, i - 1) - ArgsSize(c, before) + 1 \in 1..Len(raw)
            /\ raw[ArgsSize(c, i - 1) - ArgsSize(c, before) + 1] = <<"raw", a[i]>>
    <2>1. (before + 1) - 1 = before
      BY <1>2
    <2>2. Len(raw) \in Nat
      BY <1>25 DEF RawHolds, IsSeq
    <2> QED BY <1>25, <2>1, <2>2 DEF RawHolds
  <1>6. ArgPlace(c, n) = low + Len(raw)
    <2> DEFINE x == ArgsSize(c, before)
               y == ArgsSize(c, n - 1)
               p == ArgPlace(c, n)
    <2>1. p = H + y /\ x + Len(raw) = y /\ low = H + x /\ x \in Nat /\ Len(raw) \in Nat
      BY <1>4, <1>5, <1>26 DEF ArgPlace
    <2> HIDE DEF x, y, p, H
    <2>2. p = low + Len(raw)
      BY <1>1, <2>1
    <2> QED BY <2>2 DEF p
  <1>7. /\ IsSeq(obj) /\ Len(obj) = Len(raw) + size
        /\ \A i \in 1..Len(raw) : obj[i] = raw[i]
        /\ obj[Len(raw) + 1] = cell
    <2> DEFINE pad == Padded(cell, size)
    <2>1. IsSeq(pad) /\ Len(pad) = size /\ pad[1] = cell
      <3> HIDE DEF size
      <3> QED BY <1>4, PaddedProperties
    <2>2. 1 \in 1..Len(pad)
      <3> HIDE DEF pad, size
      <3> QED BY <1>4, <2>1
    <2>3. obj = raw \o pad
      OBVIOUS
    <2> HIDE DEF pad, size, obj
    <2>4. /\ IsSeq(raw \o pad) /\ Len(raw \o pad) = Len(raw) + Len(pad)
          /\ \A i \in 1..Len(raw) : (raw \o pad)[i] = raw[i]
          /\ \A i \in 1..Len(pad) : (raw \o pad)[Len(raw) + i] = pad[i]
      <3>1. IsSeq(raw)
        BY <1>5
      <3>2. IsSeq(pad)
        BY <2>1
      <3> QED BY <3>1, <3>2, SeqsConcat
    <2> QED BY <2>1, <2>2, <2>3, <2>4
  <1> DEFINE S0 == SumOfFirst(sizes, StringsAmong(c, k - 1))
             S1 == SumOfFirst(sizes, StringsAmong(c, k))
             SN == SumOfFirst(sizes, Len(sizes))
  <1>8. S0 \in Nat /\ S1 \in Nat /\ SN \in Nat /\ S0 <= S1 /\ S1 <= SN
    BY <1>2, <1>3, EarlierStrings
  <1>9. /\ low \in Nat \ {0} /\ high \in Nat \ {0} /\ H <= low
        /\ low + Len(obj) <= H + K /\ H + K <= high /\ high <= Len(mem)
        /\ Len(mem) \in Nat /\ low <= high /\ low <= Len(mem)
        /\ Len(obj) \in Nat
    <2> DEFINE x == ArgsSize(c, before)
               y == ArgsSize(c, n)
               p == ArgPlace(c, n)
               lr == Len(raw)
               lo == Len(obj)
               lm == Len(mem)
    <2>1. /\ low = H + x /\ high = H + K + S0 /\ lm = H + K + SN
          /\ lo = lr + size /\ p = low + lr /\ p + size <= H + y /\ y <= K
          /\ x \in Nat /\ y \in Nat /\ lr \in Nat /\ size \in Nat \ {0}
          /\ S0 \in Nat /\ SN \in Nat /\ S0 <= SN
      BY <1>4, <1>5, <1>6, <1>7, <1>8, <1>24, <1>26, <1>27
    <2> HIDE DEF x, y, p, lr, lo, lm, S0, S1, SN, H, K, size
    <2>2. H \in Nat \ {0} /\ K \in Nat /\ H + K \in Nat \ {0}
      BY <1>1
    <2>3. /\ high \in Nat \ {0} /\ H + K <= high /\ high <= lm /\ lm \in Nat
      BY <2>1, <2>2, TextsInOrder, Zenon
    <2>4. (H + x) + lr + size <= H + y /\ y <= K
      BY <2>1, Zenon
    <2>5. /\ low \in Nat \ {0} /\ H <= low /\ lo \in Nat
          /\ low + lo <= H + K /\ low <= H + K
      <3>1. /\ H + x \in Nat \ {0} /\ H <= H + x /\ lr + size \in Nat
            /\ (H + x) + (lr + size) <= H + K /\ H + x <= H + K
        BY <2>1, <2>2, <2>4, ObjectInside, Zenon
      <3> QED BY <2>1, <3>1, Zenon
    <2>6. low <= high /\ low <= lm
      BY ONLY <2>2, <2>3, <2>5
    <2>7. /\ low \in Nat \ {0} /\ high \in Nat \ {0} /\ H <= low
          /\ low + lo <= H + K /\ H + K <= high /\ high <= lm
          /\ lm \in Nat /\ low <= high /\ low <= lm /\ lo \in Nat
      BY <2>3, <2>5, <2>6, Zenon
    <2> QED BY <2>7 DEF lo, lm
  <1>10. ASSUME copy
         PROVE  /\ IsSeq(text) /\ Len(text) = length
                /\ TextStored(text, 0, spec, a[n], length)
                /\ TextPlace(c, sizes, k) = high
                /\ high + length = H + K + S1
                /\ length \in Nat
                /\ \E q \in Nat : length = (q + 1) * Unit(spec)
    <2>1. /\ TextPlace(c, sizes, k) + length = H + K + S1
          /\ \E q \in Nat : length = (q + 1) * Unit(spec)
          /\ StringsAmong(c, k) \in 1..Len(sizes)
      BY <1>10, TextPlaces
    <2>2. PICK q \in Nat : length = (q + 1) * Unit(spec)
      BY <2>1
    <2>3. Len(a[n]) \in Nat
      BY <1>10, TextArgument
    <2>4. /\ IsSeq(TextCells(spec, a[n], length))
          /\ Len(TextCells(spec, a[n], length)) = length
          /\ TextStored(TextCells(spec, a[n], length), 0, spec, a[n], length)
      <3> HIDE DEF spec, n, length
      <3> QED BY <2>2, <2>3, TextCellsHold
    <2>5. text = TextCells(spec, a[n], length)
      BY <1>10, <1>29
    <2>6. StringsAmong(c, k) - 1 = StringsAmong(c, k - 1)
      <3>1. spec.terminal = "s"
        BY <1>10 DEF IsText
      <3>2. StringsAmong(c, k) = StringsAmong(c, k - 1) + 1
        BY <3>1, StringsAmongProperties
      <3>3. StringsAmong(c, k - 1) \in Nat
        BY <1>2, NumbersOf, StringsAmongProperties
      <3> QED BY <3>2, <3>3
    <2>7. TextPlace(c, sizes, k) = high
      BY <1>27, <2>6 DEF TextPlace
    <2>8. length \in Nat
      BY <1>3, <2>1
    <2> QED BY <2>1, <2>4, <2>5, <2>7, <2>8
  <1>11. IsSeq(text) /\ high + Len(text) <= Len(mem) /\ Len(text) \in Nat
    <2>1. CASE copy
      <3> DEFINE l == length
                 lm == Len(mem)
      <3>1. /\ high + l = H + K + S1 /\ S1 <= SN /\ lm = H + K + SN
            /\ l \in Nat /\ S1 \in Nat /\ SN \in Nat
        BY <1>8, <1>10, <1>24, <2>1
      <3> HIDE DEF l, lm, S1, SN, H, K
      <3>2. high + l <= lm
        BY <1>1, <1>9, <3>1
      <3> QED BY <1>10, <2>1, <3>2 DEF l, lm
    <2>2. CASE ~copy
      <3>1. text = <<>>
        BY <1>29, <2>2
      <3>2. <<>> \in Seq({}) /\ Len(<<>>) = 0
        OBVIOUS
      <3> QED BY <1>9, <3>1, <3>2 DEF IsSeq
    <2> QED BY <2>1, <2>2
  <1> HIDE DEF obj, S0, S1, SN
  <1>12. /\ IsSeq(once) /\ Len(once) = Len(mem)
         /\ \A i \in 1..Len(mem) :
              i <= low \/ low + Len(obj) < i => once[i] = mem[i]
         /\ \A j \in 1..Len(obj) :
              low + j <= Len(mem) => once[low + j] = obj[j]
    <2>1. low \in Nat /\ low \in Nat \ {0}
      BY <1>9
    <2>2. IsSeq(obj)
      BY <1>7
    <2>3. IsSeq(mem)
      BY <1>24
    <2>4. IsSeq(once) /\ Len(once) = Len(mem)
      BY <2>1, <2>2, <2>3, WriteProperties
    <2>5. /\ \A i \in 1..Len(mem) :
              i <= low \/ low + Len(obj) < i => once[i] = mem[i]
          /\ \A j \in 1..Len(obj) :
              low + j <= Len(mem) => once[low + j] = obj[j]
      BY <2>1, <2>2, <2>3, WriteElements
    <2> QED BY <2>4, <2>5
  <1>13. new = Write(once, high, text)
    BY <1>30
  <1> HIDE DEF once
  <1>14. /\ IsSeq(new) /\ Len(new) = Len(mem)
         /\ \A i \in 1..Len(mem) :
              i <= high \/ high + Len(text) < i => new[i] = once[i]
         /\ \A j \in 1..Len(text) :
              high + j <= Len(mem) => new[high + j] = text[j]
    <2>1. high \in Nat /\ high \in Nat \ {0}
      BY <1>9
    <2>2. IsSeq(once)
      BY <1>12
    <2>3. IsSeq(text)
      BY <1>11
    <2>4. /\ IsSeq(Write(once, high, text))
          /\ Len(Write(once, high, text)) = Len(once)
      BY <2>1, <2>2, <2>3, WriteProperties
    <2>5. /\ \A i \in 1..Len(once) :
              i <= high \/ high + Len(text) < i => Write(once, high, text)[i] = once[i]
          /\ \A j \in 1..Len(text) :
              high + j <= Len(once) => Write(once, high, text)[high + j] = text[j]
      BY <2>1, <2>2, <2>3, WriteElements
    <2> QED BY <1>12, <1>13, <2>4, <2>5
  <1>15. ASSUME NEW j \in 1..Len(obj) PROVE new[low + j] = obj[j]
    <2>1. low + j \in 1..Len(mem) /\ low + j <= high /\ low + j <= Len(mem)
      BY <1>1, <1>9
    <2> QED BY <1>12, <1>14, <2>1
  <1>16. ASSUME NEW i \in 1..high, i <= low \/ H + K < i PROVE new[i] = mem[i]
    <2>1. i \in 1..Len(mem) /\ i <= high
      BY <1>9
    <2>2. i <= low \/ low + Len(obj) < i
      BY <1>1, <1>9, <1>16
    <2> QED BY <1>12, <1>14, <2>1, <2>2
  <1>17. new[1] = mem[1]
    <2>1. 1 \in 1..high /\ 1 <= low
      BY <1>9
    <2> QED BY <1>16, <2>1
  <1> HIDE DEF H, K, size, type, length
  <1>18. ASSUME NEW i \in (before + 1)..(n - 1)
         PROVE  new[ArgPlace(c, i) + 1] = <<"raw", a[i]>>
    <2> DEFINE j == ArgsSize(c, i - 1) - ArgsSize(c, before) + 1
    <2>1. j \in 1..Len(raw) /\ raw[j] = <<"raw", a[i]>>
      BY <1>5
    <2>2. j \in 1..Len(obj) /\ obj[j] = raw[j]
      <3> HIDE DEF j
      <3>1. j \in 1..Len(obj)
        BY <1>4, <1>5, <1>7, <2>1
      <3> QED BY <1>7, <2>1, <3>1
    <2>3. ArgPlace(c, i) + 1 = low + j
      <3> DEFINE x == ArgsSize(c, i - 1)
                 y == ArgsSize(c, before)
                 p == ArgPlace(c, i)
      <3>1. i \in (before + 1)..n
        BY <1>2
      <3>2. y \in Nat /\ p \in Nat /\ p = H + x /\ low = H + y
        BY <1>4, <1>26, <3>1, ArgPlaces DEF ArgPlace, H
      <3>3. x \in Nat
        <4>1. i - 1 \in 0..Len(types[c])
          <5>1. i \in 1..Len(types[c])
            BY <3>1, ArgPlaces
          <5>2. Len(types[c]) \in Nat
            BY ArgsSizeProperties
          <5> QED BY <5>1, <5>2
        <4> QED BY <4>1, ArgsSizeProperties
      <3> HIDE DEF x, y, p
      <3>4. p + 1 = low + (x - y + 1)
        BY <1>1, <3>2, <3>3
      <3> QED BY <3>4 DEF x, y, p
    <2> HIDE DEF j
    <2>4. new[low + j] = obj[j]
      BY <1>15, <2>2
    <2> QED BY <2>1, <2>2, <2>3, <2>4
  <1>19. new[ArgPlace(c, n) + 1] = cell
    <2>1. Len(raw) + 1 \in 1..Len(obj)
      BY <1>4, <1>5, <1>7
    <2>2. new[low + (Len(raw) + 1)] = obj[Len(raw) + 1]
      BY <1>15, <2>1
    <2>3. ArgPlace(c, n) + 1 = low + (Len(raw) + 1)
      <3> DEFINE p == ArgPlace(c, n)
      <3>1. p = low + Len(raw)
        BY <1>6
      <3> HIDE DEF p
      <3>2. p + 1 = low + (Len(raw) + 1)
        BY <1>5, <1>9, <3>1
      <3> QED BY <3>2 DEF p
    <2> QED BY <1>7, <2>2, <2>3
  <1>20. ASSUME copy
         PROVE  TextStored(new, TextPlace(c, sizes, k), spec, a[n], length)
    <2>1. /\ TextStored(text, 0, spec, a[n], length)
          /\ TextPlace(c, sizes, k) = high /\ Len(text) = length
          /\ length \in Nat
      BY <1>10, <1>20
    <2>2. PICK q \in Nat : length = (q + 1) * Unit(spec)
      BY <1>10, <1>20
    <2>3. Len(a[n]) \in Nat
      BY <1>20, TextArgument DEF type
    <2> HIDE DEF spec, n
    <2>4. ASSUME NEW j \in 0..Shortened(spec, a[n], length)
          PROVE  new[high + j * Unit(spec) + 1] = text[0 + j * Unit(spec) + 1]
      <3> DEFINE d == j * Unit(spec)
                 u == Unit(spec)
      <3>1. d \in Nat /\ d + u <= length /\ u \in Nat \ {0}
        BY <2>2, <2>3, TextInside
      <3> HIDE DEF d, u
      <3>2. /\ d + 1 \in 1..Len(text) /\ high + (d + 1) = high + d + 1
            /\ 0 + d + 1 = d + 1 /\ high + (d + 1) <= Len(mem)
        BY <1>9, <1>11, <2>1, <3>1
      <3>3. new[high + (d + 1)] = text[d + 1]
        BY <1>14, <3>2
      <3> QED BY <3>2, <3>3 DEF d
    <2>5. TextStored(new, high, spec, a[n], length)
      <3> DEFINE text2 == a[n]
      <3>1. \A j \in 0..Shortened(spec, text2, length) :
               text[0 + j * Unit(spec) + 1] =
                 IF j < Shortened(spec, text2, length)
                 THEN <<"char", text2[j + 1]>> ELSE EndOfText
        BY <2>1 DEF TextStored
      <3>2. \A j \in 0..Shortened(spec, text2, length) :
               new[high + j * Unit(spec) + 1] = text[0 + j * Unit(spec) + 1]
        BY <2>4
      <3> HIDE DEF text2
      <3>3. TextStored(new, high, spec, text2, length)
        BY <3>1, <3>2 DEF TextStored
      <3> QED BY <3>3 DEF text2
    <2> QED BY <2>1, <2>5
  <1>21. IF IsText(spec, types[c][n])
         THEN /\ new[ArgPlace(c, n) + 1] =
                   <<"offset", TextPlace(c, sizes, k) - ArgPlace(c, n)>>
              /\ TextStored(new, TextPlace(c, sizes, k), spec, a[n],
                            sizes[StringsAmong(c, k)])
         ELSE new[ArgPlace(c, n) + 1] = <<"raw", a[n]>>
    <2>1. CASE copy
      <3>1. cell = <<"offset", high - (low + Len(raw))>>
        BY <1>28, <2>1 DEF type
      <3>2. cell = <<"offset", TextPlace(c, sizes, k) - ArgPlace(c, n)>>
        BY <1>6, <1>10, <2>1, <3>1
      <3> QED BY <1>19, <1>20, <2>1, <3>2 DEF type, length
    <2>2. CASE ~copy
      <3>1. cell = <<"raw", a[n]>>
        BY <1>28, <2>2 DEF type
      <3> QED BY <1>19, <2>2, <3>1 DEF type
    <2> QED BY <2>1, <2>2
  <1>22. ArgsStored(new, c, a, sizes, k)
    BY <1>18, <1>21 DEF ArgsStored
  <1>23. ASSUME NEW m \in 1..(k - 1), ArgsStored(mem, c, a, sizes, m)
         PROVE  ArgsStored(new, c, a, sizes, m)
    <2>1. m \in Nat /\ m <= k - 1 /\ m \in 1..Len(SIs[c])
      BY <1>2
    <2>2. OneLogEntrySize + ArgsSize(c, LastArg(c, m)) <= low
      <3> DEFINE x == ArgsSize(c, LastArg(c, m))
                 y == ArgsSize(c, before)
      <3>1. x \in Nat /\ y \in Nat /\ x <= y
        BY <1>2, <2>1, EarlierArgs
      <3>2. low = OneLogEntrySize + y
        BY <1>26 DEF H
      <3> HIDE DEF x, y
      <3>3. OneLogEntrySize + x <= low
        BY <1>1, <3>1, <3>2 DEF H
      <3> QED BY <3>3 DEF x
    <2>3. OneLogEntrySize + kArgsSize(c) + SumOfFirst(sizes, StringsAmong(c, m)) <= high
      <3> DEFINE x == SumOfFirst(sizes, StringsAmong(c, m))
                 y == SumOfFirst(sizes, StringsAmong(c, k - 1))
                 z == kArgsSize(c)
      <3>1. x \in Nat /\ y \in Nat /\ x <= y
        BY <1>2, <1>3, <2>1, EarlierStrings
      <3>2. high = OneLogEntrySize + z + y /\ z \in Nat
        BY <1>1, <1>27 DEF H, K
      <3> HIDE DEF x, y, z
      <3>3. OneLogEntrySize + z + x <= high
        BY <1>1, <3>1, <3>2 DEF H
      <3> QED BY <3>3 DEF x, z
    <2>4. \A i \in 1..low : OneLogEntrySize < i => new[i] = mem[i]
      <3> TAKE i \in 1..low
      <3>1. i \in 1..high /\ i <= low
        BY <1>9
      <3> QED BY <1>16, <3>1
    <2>5. \A i \in 1..high : OneLogEntrySize + kArgsSize(c) < i => new[i] = mem[i]
      BY <1>16 DEF H, K
    <2>6. low \in Nat /\ high \in Nat
      BY <1>9
    <2> QED BY <1>23, <2>1, <2>2, <2>3, <2>4, <2>5, <2>6, ArgsStoredKept
  <1> QED BY <1>14, <1>17, <1>22, <1>23 DEF ArgsWritten

-----------------------------------------------------------------------------
(* The entry being filled                                                  *)

\* What TZ_LOG measured of its call.
Measured ==
    pState \in {"measured", "dumping"} =>
        /\ call \in Call
        /\ \E a \in values[call] : arr = StrSizeArray(call, a)
        /\ bufSize = kArgsSize(call) + OneLogEntrySize
                       + SumOfFirst(arr, Len(arr))

\* How far storeArgs has come: the arguments of the SpecInfos before the
\* si-th are stored, and the strings among them copied.
Dumping ==
    pState = "dumping" =>
        /\ bufSize <= FORMAT_ARGS_MAXIMUM_SIZE
        /\ IsSeq(entry) /\ Len(entry) = bufSize
        /\ entry[1] = <<"header", [fmtId |-> call, entrySize |-> bufSize,
                                   status |-> "NORMAL"]>>
        /\ si \in 1..(Len(SIs[call]) + 1)
        /\ arg - 1 = LastArg(call, si - 1)
        /\ IDX - 1 = StringsAmong(call, si - 1)
        /\ arg \in Nat /\ IDX \in Nat
        /\ storage = OneLogEntrySize + ArgsSize(call, arg - 1)
        /\ storage2 = OneLogEntrySize + kArgsSize(call)
                        + SumOfFirst(arr, IDX - 1)
        /\ args \in values[call]
        /\ \A k \in 1..(si - 1) : ArgsStored(entry, call, args, arr, k)

RecordInv ==
    /\ pState \in {"idle", "measured", "dumping"}
    /\ Measured
    /\ Dumping

\* A measured call has sizes that are numbers, and a size to reserve.
LEMMA MeasuredSizes ==
    ASSUME Measured, pState \in {"measured", "dumping"}
    PROVE  /\ arr \in Seq(Nat)
           /\ Len(arr) = StringsAmong(call, Len(SIs[call]))
           /\ Len(arr) \in Nat
           /\ bufSize \in Nat /\ bufSize >= OneLogEntrySize
           /\ kArgsSize(call) \in Nat
  <1>1. call \in Call
    BY DEF Measured
  <1>2. PICK a \in values[call] : arr = StrSizeArray(call, a)
    BY DEF Measured
  <1>3. arr \in Seq(Nat) /\ Len(arr) = StringsAmong(call, Len(SIs[call]))
    BY <1>1, <1>2, StrSizeArrayProperties
  <1>4. kArgsSize(call) \in Nat
    BY <1>1, ArgsSizeProperties
  <1>5. Len(arr) \in Nat
    BY <1>3
  <1>6. SumOfFirst(arr, Len(arr)) \in Nat
    <2>1. Len(arr) \in 0..Len(arr)
      BY <1>5
    <2> QED BY <1>3, <2>1, SumProperties
  <1>7. bufSize = kArgsSize(call) + OneLogEntrySize + SumOfFirst(arr, Len(arr))
    BY DEF Measured
  <1> QED BY <1>3, <1>4, <1>5, <1>6, <1>7, RecordAssumption

\* Both regions of the entry hold what is stored in them.
LEMMA DumpingFits == RecordInv => RecordFits
  <1> SUFFICES ASSUME RecordInv, pState = "dumping"
               PROVE  /\ storage <= OneLogEntrySize + kArgsSize(call)
                      /\ storage2 <= bufSize
                      /\ si > Len(SIs[call]) =>
                           /\ storage = OneLogEntrySize + kArgsSize(call)
                           /\ storage2 = bufSize
    BY DEF RecordFits
  <1> DEFINE L == Len(SIs[call])
  <1>1. /\ call \in Call /\ si \in 1..(L + 1)
        /\ arg - 1 = LastArg(call, si - 1)
        /\ IDX - 1 = StringsAmong(call, si - 1)
        /\ storage = OneLogEntrySize + ArgsSize(call, arg - 1)
        /\ storage2 = OneLogEntrySize + kArgsSize(call) + SumOfFirst(arr, IDX - 1)
        /\ bufSize = kArgsSize(call) + OneLogEntrySize + SumOfFirst(arr, Len(arr))
    BY DEF RecordInv, Measured, Dumping
  <1>2. /\ arr \in Seq(Nat) /\ Len(arr) \in Nat
        /\ Len(arr) = StringsAmong(call, L)
        /\ kArgsSize(call) \in Nat
    BY MeasuredSizes DEF RecordInv
  <1>3. L \in Nat
    BY <1>1, LastArgProperties
  <1>4. si - 1 \in 0..L /\ L \in 0..L /\ si - 1 <= L
    BY <1>1, <1>3
  <1>5. arg - 1 \in Nat /\ arg - 1 <= NArgs(call) /\ NArgs(call) \in Nat
    <2>1. LastArg(call, si - 1) \in Nat /\ LastArg(call, si - 1) <= NArgs(call)
      BY <1>1, <1>4, LastArgProperties
    <2>2. NArgs(call) \in Nat
      BY <1>1, ArgsSizeProperties
    <2> QED BY <1>1, <2>1, <2>2
  <1>6. ArgsSize(call, arg - 1) <= kArgsSize(call)
        /\ ArgsSize(call, arg - 1) \in Nat
    <2>1. arg - 1 \in 0..NArgs(call) /\ arg - 1 \in 0..Len(types[call])
      <3>1. NArgs(call) <= Len(types[call]) /\ Len(types[call]) \in Nat
        BY <1>1, ArgsSizeProperties
      <3> QED BY <1>5, <3>1
    <2> QED BY <1>1, <2>1, ArgsSizeProperties
  <1>7. IDX - 1 \in Nat /\ IDX - 1 <= Len(arr)
    BY <1>1, <1>2, <1>4, StringsAmongProperties
  <1>8. /\ SumOfFirst(arr, IDX - 1) <= SumOfFirst(arr, Len(arr))
        /\ SumOfFirst(arr, IDX - 1) \in Nat /\ SumOfFirst(arr, Len(arr)) \in Nat
    <2>1. IDX - 1 \in 0..Len(arr) /\ Len(arr) \in 0..Len(arr)
      BY <1>2, <1>7
    <2> QED BY <1>2, <1>7, <2>1, SumIsMonotone, SumProperties
  <1>9. storage <= OneLogEntrySize + kArgsSize(call) /\ storage2 <= bufSize
    <2> DEFINE h == OneLogEntrySize
               k == kArgsSize(call)
               x == ArgsSize(call, arg - 1)
               y == SumOfFirst(arr, Len(arr))
               z == SumOfFirst(arr, IDX - 1)
    <2>1. /\ h \in Nat /\ k \in Nat /\ x \in Nat /\ y \in Nat /\ z \in Nat
          /\ x <= k /\ z <= y
      BY <1>2, <1>6, <1>8, RecordAssumption
    <2>2. storage = h + x /\ storage2 = (h + k) + z /\ bufSize = (k + h) + y
      BY <1>1, Zenon
    <2> HIDE DEF h, k, x, y, z
    <2>3. h + x <= h + k /\ (h + k) + z <= (k + h) + y
      BY <2>1, RegionsInOrder, Zenon
    <2> QED BY <2>2, <2>3, Zenon DEF h, k
  <1>10. ASSUME si > L
         PROVE  /\ storage = OneLogEntrySize + kArgsSize(call)
                /\ storage2 = bufSize
    <2>1. si - 1 = L
      BY <1>1, <1>3, <1>10
    <2>2. arg - 1 = NArgs(call) /\ IDX - 1 = Len(arr)
      BY <1>1, <1>2, <2>1 DEF NArgs
    <2>3. ArgsSize(call, arg - 1) = kArgsSize(call)
      BY <2>2 DEF kArgsSize
    <2> QED BY <1>1, <1>2, <1>8, <2>2, <2>3, RecordAssumption
  <1> QED BY <1>9, <1>10

\* storeArg writes behind the header and moves on by what was measured.
LEMMA StoreArgsPreserves == RecordInv /\ StoreArgs => RecordInv'
  <1> SUFFICES ASSUME RecordInv, StoreArgs PROVE RecordInv'
    OBVIOUS
  <1> DEFINE spec == SIs[call][si]
             last == arg + ArgsTaken(spec) - 1
             type == types[call][last]
             raw  == FlattenSeq([j \in 1..(ArgsTaken(spec) - 1) |->
                        Padded(<<"raw", args[arg + j - 1]>>,
                               sizeOf[types[call][arg + j - 1]])])
             at   == storage + Len(raw)
             copy == IsText(spec, type)
             cell == IF copy THEN <<"offset", Offset(at, storage2)>>
                     ELSE <<"raw", args[last]>>
             text == IF copy THEN TextCells(spec, args[last], arr[IDX])
                     ELSE <<>>
             new  == raw \o Padded(cell, sizeOf[type])
             L    == Len(SIs[call])
  <1>1. /\ pState = "dumping" /\ si <= L
        /\ entry' = Write(Write(entry, storage, new), storage2, text)
        /\ storage' = at + sizeOf[type]
        /\ storage2' = storage2 + (IF copy THEN arr[IDX] ELSE 0)
        /\ arg' = last + 1
        /\ IDX' = IF spec.terminal = "s" THEN IDX + 1 ELSE IDX
        /\ si' = si + 1
        /\ pState' = pState /\ call' = call /\ arr' = arr /\ bufSize' = bufSize
        /\ args' = args
    BY DEF StoreArgs
  <1>2. /\ call \in Call
        /\ bufSize <= FORMAT_ARGS_MAXIMUM_SIZE
        /\ IsSeq(entry) /\ Len(entry) = bufSize
        /\ entry[1] = <<"header", [fmtId |-> call, entrySize |-> bufSize,
                                   status |-> "NORMAL"]>>
        /\ si \in 1..(L + 1)
        /\ arg - 1 = LastArg(call, si - 1)
        /\ IDX - 1 = StringsAmong(call, si - 1)
        /\ arg \in Nat /\ IDX \in Nat
        /\ storage = OneLogEntrySize + ArgsSize(call, arg - 1)
        /\ storage2 = OneLogEntrySize + kArgsSize(call)
                        + SumOfFirst(arr, IDX - 1)
        /\ args \in values[call]
        /\ \A k \in 1..(si - 1) : ArgsStored(entry, call, args, arr, k)
        /\ bufSize = kArgsSize(call) + OneLogEntrySize + SumOfFirst(arr, Len(arr))
    BY <1>1 DEF RecordInv, Measured, Dumping
  <1>3. PICK a \in values[call] : arr = StrSizeArray(call, a)
    BY <1>1 DEF RecordInv, Measured
  <1>4. /\ arr \in Seq(Nat) /\ bufSize \in Nat /\ bufSize >= OneLogEntrySize
        /\ kArgsSize(call) \in Nat /\ Len(arr) \in Nat
    BY <1>1, MeasuredSizes DEF RecordInv
  <1>5. L \in Nat /\ si \in 1..L /\ si - 1 \in 0..L /\ si \in 0..L
    <2>1. L \in Nat
      BY <1>2, LastArgProperties
    <2> HIDE DEF L
    <2> QED BY <1>1, <1>2, <2>1
  <1> HIDE DEF L
  <1>6. /\ last = LastArg(call, si) /\ last \in 1..Len(types[call])
        /\ type \in Type /\ spec \in SpecInfo
    <2>1. /\ LastArg(call, si) \in 1..Len(types[call])
          /\ LastArg(call, si) - LastArg(call, si - 1) = ArgsTaken(spec)
          /\ types[call][LastArg(call, si)] \in Type /\ spec \in SpecInfo
      BY <1>2, <1>5, ArgumentsPassed DEF L
    <2>2. LastArg(call, si - 1) \in Nat /\ LastArg(call, si) \in Nat
      BY <1>2, <1>5, LastArgProperties DEF L
    <2>3. ArgsTaken(spec) \in 1..3
      BY <2>1, ArgsTakenBounds
    <2>4. last = LastArg(call, si)
      <3> HIDE DEF spec
      <3> QED BY <1>2, <2>1, <2>2, <2>3
    <2> HIDE DEF last
    <2> QED BY <2>1, <2>4
  <1>7. /\ sizeOf[type] \in Nat \ {0}
        /\ ArgsSize(call, last) = ArgsSize(call, last - 1) + sizeOf[type]
        /\ ArgsSize(call, last - 1) \in Nat
    <2>1. last - 1 \in 0..Len(types[call])
      <3>1. Len(types[call]) \in Nat
        BY <1>2, ArgsSizeProperties
      <3> HIDE DEF last
      <3> QED BY <1>6, <3>1
    <2> HIDE DEF last
    <2> QED BY <1>2, <1>6, <2>1, ArgsSizeProperties
  <1>8. /\ IsSeq(raw) /\ Len(raw) \in Nat
        /\ ArgsSize(call, arg - 1) + Len(raw) = ArgsSize(call, last - 1)
        /\ RawHolds(raw, call, si, LastArg(call, si - 1) + 1, args)
    <2>1. arg = LastArg(call, si - 1) + 1
      <3>1. LastArg(call, si - 1) \in Nat
        BY <1>2, <1>5, LastArgProperties DEF L
      <3> QED BY <1>2, <3>1
    <2>2. RawHolds(raw, call, si, arg, args)
      <3> DEFINE r == raw
      <3>1. r = FlattenSeq([j \in 1..(ArgsTaken(SIs[call][si]) - 1) |->
                        Padded(<<"raw", args[arg + j - 1]>>,
                               sizeOf[types[call][arg + j - 1]])])
        OBVIOUS
      <3>3. call \in Call /\ si \in 1..Len(SIs[call])
        BY <1>2, <1>5 DEF L
      <3> HIDE DEF r
      <3>2. RawHolds(r, call, si, arg, args)
        BY <2>1, <3>1, <3>3, RawCellsHold, Zenon
      <3> QED BY <3>2 DEF r
    <2>4. /\ IsSeq(raw)
          /\ ArgsSize(call, arg - 1) + Len(raw) = ArgsSize(call, LastArg(call, si) - 1)
      <3> HIDE DEF raw
      <3> QED BY <2>2 DEF RawHolds
    <2>3. Len(raw) \in Nat
      BY <2>4 DEF IsSeq
    <2> HIDE DEF raw, last
    <2> QED BY <1>6, <2>1, <2>2, <2>3, <2>4
  <1> HIDE DEF raw
  <1>19. ArgsSize(call, arg - 1) \in Nat /\ OneLogEntrySize \in Nat \ {0}
    <2>1. arg - 1 \in 0..Len(types[call])
      <3>1. LastArg(call, si - 1) \in Nat /\ LastArg(call, si - 1) <= NArgs(call)
        BY <1>2, <1>5, LastArgProperties DEF L
      <3>2. NArgs(call) <= Len(types[call]) /\ Len(types[call]) \in Nat
            /\ NArgs(call) \in Nat
        BY <1>2, ArgsSizeProperties
      <3> QED BY ONLY <1>2, <3>1, <3>2
    <2> QED BY <1>2, <2>1, ArgsSizeProperties, RecordAssumption
  <1>9. at \in Nat /\ storage \in Nat \ {0} /\ storage2 \in Nat \ {0}
    <2>2. SumOfFirst(arr, IDX - 1) \in Nat
      <3>1. StringsAmong(call, si - 1) \in Nat
            /\ StringsAmong(call, si - 1) <= StringsAmong(call, L)
        <4>1. L \in 0..L /\ si - 1 <= L
          BY <1>5
        <4> QED BY <1>2, <1>5, <4>1, StringsAmongProperties DEF L
      <3>2. Len(arr) = StringsAmong(call, L)
        BY <1>1, MeasuredSizes DEF RecordInv, L
      <3>3. IDX - 1 \in 0..Len(arr)
        BY <1>2, <1>4, <3>1, <3>2
      <3> QED BY <1>4, <3>3, SumProperties
    <2>3. storage \in Nat \ {0}
      BY <1>2, <1>19
    <2>4. storage2 \in Nat \ {0}
      BY <1>2, <1>4, <1>19, <2>2
    <2>5. at \in Nat
      BY <1>8, <2>3
    <2> QED BY <2>3, <2>4, <2>5
  <1>10. arr[IDX] \in Nat \/ spec.terminal # "s"
    <2>1. CASE spec.terminal = "s"
      <3>1. IDX = StringsAmong(call, si)
        <4>1. StringsAmong(call, si) = StringsAmong(call, si - 1) + 1
          BY <1>2, <1>5, <2>1, StringsAmongProperties DEF L
        <4>2. StringsAmong(call, si - 1) \in Nat
          BY <1>2, <1>5, StringsAmongProperties DEF L
        <4> QED BY <1>2, <4>1, <4>2
      <3>2. StringsAmong(call, si) \in 1..Len(arr)
        BY <1>2, <1>3, <1>5, <2>1, StrSizeArrayProperties DEF L
      <3> QED BY <1>4, <3>1, <3>2
    <2> QED BY <2>1
  <1>11. spec.terminal = "s" => IDX = StringsAmong(call, si)
    <2>1. /\ StringsAmong(call, si) =
               StringsAmong(call, si - 1) + IF spec.terminal = "s" THEN 1 ELSE 0
          /\ StringsAmong(call, si - 1) \in Nat
      BY <1>2, <1>5, StringsAmongProperties DEF L
    <2> HIDE DEF spec
    <2> QED BY <1>2, <2>1
  <1>12. Writing(entry, entry', call, si, args, arr, raw, storage, storage2,
                 cell, text)
    <2>1. IsSeq(entry)
          /\ Len(entry) = OneLogEntrySize + kArgsSize(call) + SumOfFirst(arr, Len(arr))
      <3>1. SumOfFirst(arr, Len(arr)) \in Nat
        <4>1. Len(arr) \in 0..Len(arr)
          BY <1>4
        <4> QED BY <1>4, <4>1, SumProperties
      <3> QED BY <1>2, <1>4, <1>19, <3>1
    <2>2. storage = OneLogEntrySize + ArgsSize(call, LastArg(call, si - 1))
          /\ storage2 = OneLogEntrySize + kArgsSize(call)
                          + SumOfFirst(arr, StringsAmong(call, si - 1))
      BY <1>2
    <2>3. cell = IF IsText(SIs[call][si], types[call][LastArg(call, si)])
                 THEN <<"offset", storage2 - (storage + Len(raw))>>
                 ELSE <<"raw", args[LastArg(call, si)]>>
      BY <1>6 DEF Offset
    <2>4. text = IF IsText(SIs[call][si], types[call][LastArg(call, si)])
                 THEN TextCells(SIs[call][si], args[LastArg(call, si)],
                                arr[StringsAmong(call, si)])
                 ELSE <<>>
      BY ONLY <1>6, <1>11 DEF IsText
    <2>5. entry' = Write(Write(entry, storage,
                               raw \o Padded(cell, sizeOf[types[call][LastArg(call, si)]])),
                         storage2, text)
      BY <1>1, <1>6
    <2> HIDE DEF spec, last, type, at, copy, cell, text, new
    <2> QED BY <1>8, <2>1, <2>2, <2>3, <2>4, <2>5 DEF Writing
  <1> HIDE DEF new, text, cell
  <1>13. /\ IsSeq(entry') /\ Len(entry') = bufSize
         /\ entry'[1] = entry[1]
         /\ ArgsStored(entry', call, args, arr, si)
         /\ \A k \in 1..(si - 1) : ArgsStored(entry', call, args, arr, k)
    <2>1. MeasuredFor(call, arr)
      BY <1>3 DEF MeasuredFor
    <2>2. call \in Call /\ si \in 1..Len(SIs[call]) /\ args \in values[call]
      BY <1>2, <1>5 DEF L
    <2>3. PICK e : e = entry'
      OBVIOUS
    <2>4. Writing(entry, e, call, si, args, arr, raw, storage, storage2, cell, text)
      BY <1>12, <2>3
    <2>5. ArgsWritten(entry, e, call, si, args, arr)
      BY <2>1, <2>2, <2>4, ArgsWriting
    <2>6. ArgsWritten(entry, entry', call, si, args, arr)
      BY <2>3, <2>5
    <2> QED BY <1>2, <2>6 DEF ArgsWritten
  <1>14. /\ si' \in 1..(L + 1) /\ si' - 1 = si
         /\ arg' \in Nat /\ arg' - 1 = LastArg(call, si)
    <2> HIDE DEF last
    <2>1. Len(types[call]) \in Nat
      BY <1>2, ArgsSizeProperties
    <2> QED BY <1>1, <1>5, <1>6, <2>1
  <1>15. storage' = OneLogEntrySize + ArgsSize(call, last)
    <2> DEFINE size == sizeOf[type]
               before == ArgsSize(call, arg - 1)
               front == ArgsSize(call, last - 1)
               all == ArgsSize(call, last)
    <2>1. /\ storage' = (storage + Len(raw)) + size
          /\ storage = OneLogEntrySize + before
          /\ all = front + size /\ before + Len(raw) = front
          /\ size \in Nat \ {0} /\ Len(raw) \in Nat /\ before \in Nat
          /\ front \in Nat /\ OneLogEntrySize \in Nat
      <3> HIDE DEF last, type
      <3> QED BY <1>1, <1>2, <1>7, <1>8, <1>19
    <2> HIDE DEF size, before, front, all
    <2>2. storage' = OneLogEntrySize + all
      BY <2>1
    <2> QED BY <2>2 DEF all
  <1>16. /\ IDX' \in Nat /\ IDX' - 1 = StringsAmong(call, si)
         /\ storage2' = OneLogEntrySize + kArgsSize(call)
                          + SumOfFirst(arr, IDX' - 1)
    <2>1. /\ StringsAmong(call, si) =
               StringsAmong(call, si - 1) + IF spec.terminal = "s" THEN 1 ELSE 0
          /\ StringsAmong(call, si - 1) \in Nat
      BY <1>2, <1>5, StringsAmongProperties DEF L
    <2>2. CASE spec.terminal # "s"
      <3>1. ~copy
        BY <2>2 DEF IsText
      <3>2. IDX' = IDX /\ storage2' = storage2
        BY <1>1, <1>9, <2>2, <3>1
      <3> HIDE DEF spec
      <3> QED BY <1>2, <2>1, <2>2, <3>2
    <2>3. CASE spec.terminal = "s"
      <3>1. IDX' = IDX + 1 /\ IDX = StringsAmong(call, si)
        <4> HIDE DEF spec
        <4> QED BY ONLY <1>1, <1>2, <2>1, <2>3
      <3>2. /\ IDX \in 1..Len(arr)
            /\ arr[IDX] = SizeForTerminal_s(spec, type, a[last])
        <4> HIDE DEF last
        <4> QED BY <1>2, <1>3, <1>5, <1>6, <2>3, <3>1, StrSizeArrayProperties DEF L
      <3>3. storage2' = storage2 + arr[IDX]
        <4>1. ~copy => arr[IDX] = 0
          BY <3>2 DEF SizeForTerminal_s
        <4> QED BY <1>1, <4>1
      <3>4. SumOfFirst(arr, IDX) = SumOfFirst(arr, IDX - 1) + arr[IDX]
            /\ SumOfFirst(arr, IDX - 1) \in Nat /\ arr[IDX] \in Nat
        <4>1. IDX - 1 \in 0..Len(arr)
          BY <1>4, <3>2
        <4> QED BY <1>4, <3>2, <4>1, SumProperties
      <3>5. IDX' - 1 = IDX
        BY <1>2, <3>1
      <3>6. storage2' = OneLogEntrySize + kArgsSize(call) + SumOfFirst(arr, IDX)
        <4> DEFINE before == SumOfFirst(arr, IDX - 1)
                   all == SumOfFirst(arr, IDX)
                   size == arr[IDX]
                   stored == kArgsSize(call)
        <4>1. /\ storage2 = OneLogEntrySize + stored + before
              /\ storage2' = storage2 + size /\ all = before + size
              /\ before \in Nat /\ size \in Nat /\ stored \in Nat
              /\ OneLogEntrySize \in Nat
          BY <1>2, <1>4, <1>19, <3>3, <3>4
        <4> HIDE DEF before, all, size, stored
        <4>2. storage2' = OneLogEntrySize + stored + all
          BY <4>1
        <4> QED BY <4>2 DEF stored, all
      <3>7. IDX' \in Nat
        BY <1>2, <3>1
      <3>8. IDX' - 1 = StringsAmong(call, si)
        BY <3>1, <3>5
      <3> HIDE DEF spec
      <3> QED BY <3>5, <3>6, <3>7, <3>8
    <2> QED BY <2>2, <2>3
  <1>17. Measured'
    <2>1. Measured
      BY DEF RecordInv
    <2> QED BY <1>1, <2>1 DEF Measured
  <1>18. Dumping'
    <2>1. ASSUME NEW k \in 1..(si' - 1)
          PROVE  ArgsStored(entry', call', args', arr', k)
      <3>1. k = si \/ k \in 1..(si - 1)
        <4>1. k \in 1..si
          BY <1>14
        <4>2. si \in Nat
          BY <1>5
        <4> QED BY <4>1, <4>2
      <3>2. call' = call /\ args' = args /\ arr' = arr
        BY <1>1
      <3>3. ArgsStored(entry', call, args, arr, k)
        BY <1>13, <3>1
      <3> QED BY <3>2, <3>3
    <2> HIDE DEF last, type, spec
    <2> QED BY <1>1, <1>2, <1>6, <1>13, <1>14, <1>15, <1>16, <2>1 DEF Dumping, L
  <1> QED BY <1>1, <1>17, <1>18 DEF RecordInv

\* A new entry is its header and padding.
LEMMA BeginDumpPreserves ==
    ASSUME NEW a
    PROVE  RecordInv /\ pState = "measured" /\ a \in values[call] /\ BeginDump(a)
             => RecordInv'
  <1> SUFFICES ASSUME RecordInv, pState = "measured", a \in values[call], BeginDump(a)
               PROVE  RecordInv'
    OBVIOUS
  <1> DEFINE header == Header(bufSize, "NORMAL")
             rest == [k \in 1..(bufSize - OneLogEntrySize) |-> Pad]
  <1>1. /\ bufSize <= FORMAT_ARGS_MAXIMUM_SIZE
        /\ entry' = header \o rest
        /\ storage' = OneLogEntrySize
        /\ storage2' = OneLogEntrySize + kArgsSize(call)
        /\ si' = 1 /\ arg' = 1 /\ IDX' = 1
        /\ pState' = "dumping" /\ args' = a
        /\ call' = call /\ arr' = arr /\ bufSize' = bufSize
    BY DEF BeginDump, FitsEntry
  <1>2. /\ arr \in Seq(Nat) /\ bufSize \in Nat /\ bufSize >= OneLogEntrySize
        /\ kArgsSize(call) \in Nat /\ call \in Call
    BY MeasuredSizes DEF RecordInv, Measured
  <1>3. IsSeq(rest) /\ Len(rest) = bufSize - OneLogEntrySize
    <2>1. bufSize - OneLogEntrySize \in Nat
      BY <1>2, RecordAssumption
    <2>2. rest \in [1..(bufSize - OneLogEntrySize) -> {Pad}]
      OBVIOUS
    <2> HIDE DEF rest
    <2>3. rest \in Seq({Pad})
      BY <2>1, <2>2, FunctionIsSeq
    <2>4. Len(rest) = bufSize - OneLogEntrySize
      BY <2>1, <2>2, <2>3, LenProperties
    <2> QED BY <2>3, <2>4 DEF IsSeq
  <1>4. /\ IsSeq(header) /\ Len(header) = OneLogEntrySize
        /\ header[1] = <<"header", [fmtId |-> call, entrySize |-> bufSize,
                                    status |-> "NORMAL"]>>
    BY HeaderProperties
  <1> HIDE DEF header, rest
  <1>5. IsSeq(entry') /\ Len(entry') = bufSize /\ entry'[1] = header[1]
    <2>1. OneLogEntrySize \in Nat \ {0}
      BY RecordAssumption
    <2>2. 1 \in 1..Len(header)
      BY <1>4, <2>1
    <2>3. /\ IsSeq(header \o rest) /\ Len(header \o rest) = Len(header) + Len(rest)
          /\ (header \o rest)[1] = header[1]
      BY <1>3, <1>4, <2>2, SeqsConcat
    <2>4. Len(header) + Len(rest) = bufSize
      BY <1>2, <1>3, <1>4, <2>1
    <2> QED BY <1>1, <2>3, <2>4
  <1>6. Measured'
    <2>1. Measured
      BY DEF RecordInv
    <2> QED BY <1>1, <2>1 DEF Measured
  <1>7. Dumping'
    <2>1. Len(SIs[call]) \in Nat /\ LastArg(call, 0) = 0
          /\ StringsAmong(call, 0) = 0 /\ ArgsSize(call, 0) = 0
      BY <1>2, LastArgProperties, StringsAmongProperties, ArgsSizeProperties
    <2>2. SumOfFirst(arr, 0) = 0
      BY <1>2, SumProperties
    <2>3. OneLogEntrySize \in Nat
      BY RecordAssumption
    <2>4. /\ si' \in 1..(Len(SIs[call]) + 1) /\ si' - 1 = 0
          /\ arg' - 1 = 0 /\ IDX' - 1 = 0 /\ arg' \in Nat /\ IDX' \in Nat
      BY <1>1, <2>1
    <2>5. /\ storage' = OneLogEntrySize + ArgsSize(call, arg' - 1)
          /\ storage2' = OneLogEntrySize + kArgsSize(call) + SumOfFirst(arr, IDX' - 1)
      BY <1>1, <1>2, <2>1, <2>2, <2>3, <2>4
    <2>6. args' \in values[call'] /\ 1..(si' - 1) = {}
      BY <1>1
    <2> QED BY <1>1, <1>4, <1>5, <2>1, <2>4, <2>5, <2>6 DEF Dumping
  <1> QED BY <1>1, <1>6, <1>7 DEF RecordInv

LEMMA RecordInvInit == Init => RecordInv
  BY DEF Init, RecordInv, Measured, Dumping

LEMMA RecordInvStep == RecordInv /\ [Next]_vars => RecordInv'
  <1> SUFFICES ASSUME RecordInv, [Next]_vars PROVE RecordInv'
    OBVIOUS
  <1>1. ASSUME NEW c \in Call, NEW a \in values[c], Measure(c, a)
        PROVE  RecordInv'
    <2>1. /\ pState' = "measured" /\ call' = c /\ arr' = StrSizeArray(c, a)
          /\ bufSize' = kArgsSize(c) + OneLogEntrySize + SumOfFirst(arr', Len(arr'))
      BY <1>1 DEF Measure
    <2>2. Measured'
      BY <2>1 DEF Measured
    <2> QED BY <2>1, <2>2 DEF RecordInv, Dumping
  <1>2. ASSUME pState = "measured", NEW a \in values[call], BeginDump(a)
        PROVE  RecordInv'
    BY <1>2, BeginDumpPreserves
  <1>3. CASE StoreArgs
    BY <1>3, StoreArgsPreserves
  <1>4. CASE Finish \/ LogOversize
    BY <1>4 DEF Finish, LogOversize, CallReturns, RecordInv, Measured, Dumping
  <1>5. CASE UNCHANGED logVars
    BY <1>5 DEF logVars, RecordInv, Measured, Dumping
  <1>6. CASE AppendBlock \/ Sink
    BY <1>5, <1>6 DEF AppendBlock, Sink, TakeBuffer, NextBlock, NextEntry,
          Formator, FormatorEnds, EntryDone
  <1>7. ASSUME NEW level, SetLogLevel(level) PROVE RecordInv'
    BY <1>5, <1>7 DEF SetLogLevel
  <1>8. CASE UNCHANGED vars
    BY <1>5, <1>8 DEF vars
  <1> QED BY <1>1, <1>2, <1>3, <1>4, <1>6, <1>7, <1>8 DEF Next, Log

\* TZ_LOG's assertion: whatever the second evaluation of the arguments gives,
\* an entry is filled exactly, its arguments and its strings each staying in
\* the part of the reservation measured for them.
THEOREM EntriesAreFilled == Spec => []RecordFits
  <1>1. Spec => []RecordInv
    BY RecordInvInit, RecordInvStep, PTL DEF Spec
  <1> QED BY <1>1, DumpingFits, PTL

-----------------------------------------------------------------------------
(* What an entry holds                                                     *)

\* The bytes of an entry for which x is expected: the arguments and strings
\* TZ_LOG stored, or the report of an oversize call.
LoggedEntry(e, x) ==
    \E c \in Call : \E a \in values[c] : \E sizes :
        /\ MeasuredFor(c, sizes)
        /\ x = <<c, Direct(c, a, sizes)>>
        /\ e[1] = <<"header", [fmtId |-> c, entrySize |-> Len(e),
                              status |-> "NORMAL"]>>
        /\ Len(e) = OneLogEntrySize + kArgsSize(c) + SumOfFirst(sizes, Len(sizes))
        /\ \A k \in 1..Len(SIs[c]) : ArgsStored(e, c, a, sizes, k)

OversizeReport(e, x) ==
    \E c, v :
        /\ x = <<c, <<[shown |-> v]>>>>
        /\ e[1] = <<"header", [fmtId |-> c, entrySize |-> Len(e),
                              status |-> "ILLEGAL_ARGS_SIZE"]>>
        /\ OneLogEntrySize < Len(e)
        /\ e[OneLogEntrySize + 1] = <<"raw", v>>

EntryOf(e, x) ==
    IsSeq(e) /\ Len(e) # 0 /\ (LoggedEntry(e, x) \/ OversizeReport(e, x))

\* The cells behind a place are such an entry.
CellsAre(cells, at, e) == \A j \in 1..Len(e) : cells[at + j] = e[j]
Holds(cells, at, x) == \E e : EntryOf(e, x) /\ CellsAre(cells, at, e)

LEMMA EntryOfSize ==
    ASSUME NEW e, NEW x, EntryOf(e, x)
    PROVE  /\ Len(e) \in Nat \ {0} /\ 1 \in 1..Len(e)
           /\ e[1][1] = "header" /\ e[1][2].entrySize = Len(e)
  <1>1. Len(e) \in Nat
    BY DEF EntryOf, IsSeq
  <1>2. Len(e) # 0
    BY DEF EntryOf
  <1>3. e[1][1] = "header" /\ e[1][2].entrySize = Len(e)
    <2>1. CASE LoggedEntry(e, x)
      BY <2>1 DEF LoggedEntry
    <2>2. CASE OversizeReport(e, x)
      BY <2>2 DEF OversizeReport
    <2> QED BY <2>1, <2>2 DEF EntryOf
  <1> QED BY <1>1, <1>2, <1>3

\* The same bytes further back in a longer sequence.
LEMMA HoldsCarried ==
    ASSUME NEW cells, IsSeq(cells), NEW big, NEW k \in Nat,
           \A i \in 1..Len(cells) : big[k + i] = cells[i],
           NEW at \in Nat, at + cells[at + 1][2].entrySize <= Len(cells),
           NEW x, Holds(cells, at, x)
    PROVE  Holds(big, k + at, x)
  <1>1. PICK e : EntryOf(e, x) /\ CellsAre(cells, at, e)
    BY DEF Holds
  <1>2. /\ Len(e) \in Nat \ {0} /\ 1 \in 1..Len(e)
        /\ e[1][2].entrySize = Len(e)
    BY <1>1, EntryOfSize
  <1>3. cells[at + 1] = e[1]
    BY <1>1, <1>2 DEF CellsAre
  <1>4. at + Len(e) <= Len(cells) /\ Len(cells) \in Nat
    BY <1>2, <1>3 DEF IsSeq
  <1>5. ASSUME NEW j \in 1..Len(e) PROVE big[(k + at) + j] = e[j]
    <2>1. at + j \in 1..Len(cells) /\ k + (at + j) = (k + at) + j
      BY <1>2, <1>4
    <2>2. cells[at + j] = e[j]
      BY <1>1 DEF CellsAre
    <2> QED BY <2>1, <2>2
  <1>6. CellsAre(big, k + at, e)
    BY <1>5 DEF CellsAre
  <1> QED BY <1>1, <1>6 DEF Holds

-----------------------------------------------------------------------------
(* Entries one behind the other                                            *)

\* b holds the n + 1 ends of n entries that fill the cells from one place to
\* another (counted from 0), each as long as its header says; the entries are
\* those of xs behind the o-th.
EntriesAlong(cells, from, to, n, xs, o, b) ==
    /\ b \in [0..n -> 0..to]
    /\ b[0] = from /\ b[n] = to
    /\ \A i \in 0..(n - 1) :
          /\ cells[b[i] + 1][1] = "header"
          /\ cells[b[i] + 1][2].entrySize \in Nat \ {0}
          /\ b[i + 1] = b[i] + cells[b[i] + 1][2].entrySize
          /\ Holds(cells, b[i], xs[o + i + 1])

EntriesIn(cells, from, to, n, xs, o) ==
    /\ n \in Nat /\ to \in 0..Len(cells)
    /\ \E b : EntriesAlong(cells, from, to, n, xs, o, b)

LEMMA NoEntries ==
    ASSUME NEW cells, IsSeq(cells), NEW at \in 0..Len(cells), NEW xs, NEW o
    PROVE  EntriesIn(cells, at, at, 0, xs, o)
  <1>1. Len(cells) \in Nat
    BY DEF IsSeq
  <1>2. at \in 0..at
    BY <1>1
  <1>3. EntriesAlong(cells, at, at, 0, xs, o, [i \in 0..0 |-> at])
    BY <1>2 DEF EntriesAlong
  <1> QED BY <1>3 DEF EntriesIn

\* The same bytes further back in a longer sequence.
LEMMA EntriesCarried ==
    ASSUME NEW cells, IsSeq(cells), NEW big, IsSeq(big), NEW k \in Nat,
           k + Len(cells) <= Len(big),
           \A i \in 1..Len(cells) : big[k + i] = cells[i],
           NEW from, NEW to, NEW n, NEW xs, NEW o,
           EntriesIn(cells, from, to, n, xs, o)
    PROVE  EntriesIn(big, k + from, k + to, n, xs, o)
  <1>1. Len(cells) \in Nat /\ Len(big) \in Nat
    BY DEF IsSeq
  <1>2. n \in Nat /\ to \in 0..Len(cells)
    BY DEF EntriesIn
  <1>3. PICK b : EntriesAlong(cells, from, to, n, xs, o, b)
    BY DEF EntriesIn
  <1>4. /\ b \in [0..n -> 0..to] /\ b[0] = from /\ b[n] = to
        /\ \A i \in 0..(n - 1) :
              /\ cells[b[i] + 1][1] = "header"
              /\ cells[b[i] + 1][2].entrySize \in Nat \ {0}
              /\ b[i + 1] = b[i] + cells[b[i] + 1][2].entrySize
              /\ Holds(cells, b[i], xs[o + i + 1])
    BY <1>3 DEF EntriesAlong
  <1> DEFINE d == [i \in 0..n |-> k + b[i]]
  <1>5. \A i \in 0..n : d[i] = k + b[i] /\ b[i] \in 0..to
    BY <1>4
  <1>6. k + to \in 0..Len(big) /\ to \in Nat
    BY <1>1, <1>2
  <1>7. d \in [0..n -> 0..(k + to)]
    <2>1. \A i \in 0..n : k + b[i] \in 0..(k + to)
      BY <1>5, <1>6
    <2> QED BY <2>1
  <1> HIDE DEF d
  <1>8. d[0] = k + from /\ d[n] = k + to
    <2>1. 0 \in 0..n /\ n \in 0..n
      BY <1>2
    <2> QED BY <1>4, <1>5, <2>1
  <1>9. ASSUME NEW i \in 0..(n - 1)
        PROVE  /\ big[d[i] + 1][1] = "header"
               /\ big[d[i] + 1][2].entrySize \in Nat \ {0}
               /\ d[i + 1] = d[i] + big[d[i] + 1][2].entrySize
               /\ Holds(big, d[i], xs[o + i + 1])
    <2>1. i \in 0..n /\ i + 1 \in 0..n
      BY <1>2
    <2> DEFINE size == cells[b[i] + 1][2].entrySize
    <2>2. /\ cells[b[i] + 1][1] = "header" /\ size \in Nat \ {0}
          /\ b[i + 1] = b[i] + size
      BY <1>4
    <2>3. /\ b[i] \in 0..to /\ b[i + 1] \in 0..to
          /\ d[i] = k + b[i] /\ d[i + 1] = k + b[i + 1]
      BY <1>5, <2>1
    <2> DEFINE this == b[i]
               next == b[i + 1]
    <2>7. this \in Nat /\ this + size <= Len(cells)
      <3>1. this \in 0..to /\ next \in 0..to /\ next = this + size
        BY <2>2, <2>3
      <3> HIDE DEF this, next, size
      <3> QED BY <1>1, <1>2, <3>1
    <2>8. Holds(big, k + this, xs[o + i + 1])
      <3>1. Holds(cells, this, xs[o + i + 1])
        BY <1>4
      <3>2. this + cells[this + 1][2].entrySize <= Len(cells)
        BY <2>7
      <3> HIDE DEF this
      <3> QED BY <2>7, <3>1, <3>2, HoldsCarried
    <2>4. b[i] + 1 \in 1..Len(cells) /\ d[i] + 1 = k + (b[i] + 1)
      <3>1. /\ this \in 0..to /\ next \in 0..to /\ size \in Nat \ {0}
            /\ next = this + size /\ d[i] = k + this
        BY <2>2, <2>3
      <3> HIDE DEF this, next, size
      <3>2. this + 1 \in 1..Len(cells) /\ d[i] + 1 = k + (this + 1)
        BY <1>1, <1>2, <3>1
      <3> QED BY <3>2 DEF this
    <2> HIDE DEF size
    <2>5. big[d[i] + 1] = cells[b[i] + 1]
      BY <2>4
    <2>6. d[i + 1] = d[i] + size
      BY <2>2, <2>3
    <2> QED BY <2>2, <2>3, <2>5, <2>6, <2>8 DEF size
  <1>10. EntriesAlong(big, k + from, k + to, n, xs, o, d)
    BY <1>7, <1>8, <1>9 DEF EntriesAlong
  <1> QED BY <1>2, <1>6, <1>10 DEF EntriesIn

\* Where there is room for an entry there is one, and the rest behind it.
LEMMA FirstEntry ==
    ASSUME NEW cells, IsSeq(cells), NEW from \in Nat, NEW to, NEW n,
           NEW xs, NEW o \in Nat, EntriesIn(cells, from, to, n, xs, o), from < to
    PROVE  /\ cells[from + 1][1] = "header"
           /\ cells[from + 1][2].entrySize \in Nat \ {0}
           /\ from + cells[from + 1][2].entrySize <= to
           /\ n - 1 \in Nat
           /\ Holds(cells, from, xs[o + 1])
           /\ EntriesIn(cells, from + cells[from + 1][2].entrySize, to, n - 1,
                        xs, o + 1)
  <1> DEFINE size == cells[from + 1][2].entrySize
  <1>1. Len(cells) \in Nat /\ n \in Nat /\ to \in 0..Len(cells)
    BY DEF IsSeq, EntriesIn
  <1>2. PICK b : EntriesAlong(cells, from, to, n, xs, o, b)
    BY DEF EntriesIn
  <1>3. /\ b \in [0..n -> 0..to] /\ b[0] = from /\ b[n] = to
        /\ \A i \in 0..(n - 1) :
              /\ cells[b[i] + 1][1] = "header"
              /\ cells[b[i] + 1][2].entrySize \in Nat \ {0}
              /\ b[i + 1] = b[i] + cells[b[i] + 1][2].entrySize
              /\ Holds(cells, b[i], xs[o + i + 1])
    BY <1>2 DEF EntriesAlong
  <1>4. n # 0
    BY <1>1, <1>3
  <1>5. n - 1 \in Nat /\ 0 \in 0..(n - 1) /\ 1 \in 0..n /\ 0 + 1 = 1
    BY <1>1, <1>4
  <1>6. /\ cells[from + 1][1] = "header" /\ size \in Nat \ {0}
        /\ b[1] = from + size
        /\ Holds(cells, from, xs[o + 1])
    <2>1. o + 0 + 1 = o + 1
      OBVIOUS
    <2> QED BY <1>3, <1>5, <2>1
  <1>7. from + size <= to
    <2>1. b[1] \in 0..to
      BY <1>3, <1>5
    <2> HIDE DEF size
    <2> QED BY <1>1, <1>6, <2>1
  <1> DEFINE d == [i \in 0..(n - 1) |-> b[i + 1]]
  <1>8. ASSUME NEW i \in 0..(n - 1) PROVE d[i] = b[i + 1] /\ i + 1 \in 0..n
    BY <1>1
  <1>9. d \in [0..(n - 1) -> 0..to]
    BY <1>3, <1>8
  <1> HIDE DEF d
  <1>10. d[0] = from + size /\ d[n - 1] = to
    <2>1. d[0] = b[1]
      BY <1>5, <1>8
    <2>2. d[n - 1] = b[n]
      <3>1. n - 1 \in 0..(n - 1) /\ (n - 1) + 1 = n
        BY <1>1, <1>5
      <3> QED BY <1>8, <3>1
    <2> QED BY <1>3, <1>6, <2>1, <2>2
  <1>11. ASSUME NEW i \in 0..((n - 1) - 1)
         PROVE  /\ cells[d[i] + 1][1] = "header"
                /\ cells[d[i] + 1][2].entrySize \in Nat \ {0}
                /\ d[i + 1] = d[i] + cells[d[i] + 1][2].entrySize
                /\ Holds(cells, d[i], xs[(o + 1) + i + 1])
    <2>1. /\ i \in 0..(n - 1) /\ i + 1 \in 0..(n - 1)
          /\ (o + 1) + i + 1 = o + (i + 1) + 1
      BY <1>5
    <2>2. d[i] = b[i + 1] /\ d[i + 1] = b[(i + 1) + 1]
      BY <1>8, <2>1
    <2> QED BY <1>3, <2>1, <2>2
  <1>12. EntriesAlong(cells, from + size, to, n - 1, xs, o + 1, d)
    BY <1>9, <1>10, <1>11 DEF EntriesAlong
  <1>13. EntriesIn(cells, from + size, to, n - 1, xs, o + 1)
    BY <1>1, <1>5, <1>12 DEF EntriesIn
  <1> QED BY <1>5, <1>6, <1>7, <1>13

\* Where there is no room there is no entry.
LEMMA NoRoomNoEntries ==
    ASSUME NEW cells, NEW at \in Nat, NEW n, NEW xs, NEW o,
           EntriesIn(cells, at, at, n, xs, o)
    PROVE  n = 0
  <1>1. n \in Nat
    BY DEF EntriesIn
  <1>2. PICK b : EntriesAlong(cells, at, at, n, xs, o, b)
    BY DEF EntriesIn
  <1>3. ASSUME n # 0 PROVE FALSE
    <2>1. 0 \in 0..(n - 1) /\ 1 \in 0..n /\ 0 + 1 = 1
      BY <1>1, <1>3
    <2> DEFINE size == cells[b[0] + 1][2].entrySize
    <2>2. /\ size \in Nat \ {0} /\ b[0 + 1] = b[0] + size /\ b[0] = at
          /\ b[1] \in 0..at
      BY <1>2, <2>1 DEF EntriesAlong
    <2> HIDE DEF size
    <2> QED BY <2>1, <2>2
  <1> QED BY <1>3

\* One more entry behind the others.
LEMMA EntryAppended ==
    ASSUME NEW cells, IsSeq(cells), NEW n, NEW xs, NEW o \in Nat,
           EntriesIn(cells, 0, Len(cells), n, xs, o),
           NEW e, EntryOf(e, xs[o + n + 1])
    PROVE  /\ IsSeq(cells \o e)
           /\ EntriesIn(cells \o e, 0, Len(cells \o e), n + 1, xs, o)
  <1> DEFINE all == cells \o e
             end == Len(cells)
  <1>14. IsSeq(e)
    BY DEF EntryOf
  <1>15. /\ Len(e) \in Nat \ {0}
         /\ e[1][1] = "header" /\ e[1][2].entrySize = Len(e)
    BY EntryOfSize
  <1>1. /\ IsSeq(all) /\ end \in Nat /\ Len(e) \in Nat
        /\ Len(all) = end + Len(e)
        /\ \A i \in 1..end : all[i] = cells[i]
        /\ \A i \in 1..Len(e) : all[end + i] = e[i]
    BY <1>14, SeqsConcat
  <1> HIDE DEF all
  <1>2. EntriesIn(all, 0, end, n, xs, o)
    <2>1. /\ 0 + end <= Len(all) /\ \A i \in 1..end : all[0 + i] = cells[i]
          /\ 0 + end = end
      BY <1>1
    <2>2. EntriesIn(all, 0 + 0, 0 + end, n, xs, o)
      BY <1>1, <2>1, EntriesCarried
    <2> QED BY <2>1, <2>2
  <1>3. n \in Nat
    BY <1>2 DEF EntriesIn
  <1>4. PICK b : EntriesAlong(all, 0, end, n, xs, o, b)
    BY <1>2 DEF EntriesIn
  <1>5. /\ b \in [0..n -> 0..end] /\ b[0] = 0 /\ b[n] = end
        /\ \A i \in 0..(n - 1) :
              /\ all[b[i] + 1][1] = "header"
              /\ all[b[i] + 1][2].entrySize \in Nat \ {0}
              /\ b[i + 1] = b[i] + all[b[i] + 1][2].entrySize
              /\ Holds(all, b[i], xs[o + i + 1])
    BY <1>4 DEF EntriesAlong
  <1> DEFINE d == [i \in 0..(n + 1) |-> IF i <= n THEN b[i] ELSE Len(all)]
  <1>6. \A i \in 0..n : d[i] = b[i]
    BY <1>3
  <1>7. d[n + 1] = Len(all)
    BY <1>3
  <1>8. d \in [0..(n + 1) -> 0..Len(all)]
    <2> SUFFICES ASSUME NEW i \in 0..(n + 1)
                 PROVE  (IF i <= n THEN b[i] ELSE Len(all)) \in 0..Len(all)
      OBVIOUS
    <2>1. CASE i <= n
      <3>1. i \in 0..n
        BY <1>3, <2>1
      <3>2. b[i] \in 0..end
        BY <1>5, <3>1
      <3> QED BY <1>1, <2>1, <3>2
    <2>2. CASE ~(i <= n)
      BY <1>1, <2>2
    <2> QED BY <2>1, <2>2
  <1> HIDE DEF d, end
  <1>9. ASSUME NEW i \in 0..((n + 1) - 1)
        PROVE  /\ all[d[i] + 1][1] = "header"
               /\ all[d[i] + 1][2].entrySize \in Nat \ {0}
               /\ d[i + 1] = d[i] + all[d[i] + 1][2].entrySize
               /\ Holds(all, d[i], xs[o + i + 1])
    <2>1. CASE i = n
      <3>1. d[i] = end /\ d[i + 1] = end + Len(e)
        BY <1>1, <1>3, <1>5, <1>6, <1>7, <2>1
      <3>2. 1 \in 1..Len(e)
        BY <1>15
      <3>3. all[end + 1] = e[1]
        BY <1>1, <3>2
      <3>4. Holds(all, end, xs[o + i + 1])
        BY <1>1, <2>1 DEF Holds, CellsAre
      <3> QED BY <1>1, <1>15, <3>1, <3>3, <3>4
    <2>2. CASE i # n
      <3>1. i \in 0..(n - 1) /\ i \in 0..n /\ i + 1 \in 0..n
        BY <1>3, <2>2
      <3>2. d[i] = b[i] /\ d[i + 1] = b[i + 1]
        BY <1>6, <3>1
      <3> QED BY <1>5, <3>1, <3>2
    <2> QED BY <2>1, <2>2
  <1>10. d[0] = 0
    BY <1>3, <1>5, <1>6
  <1>11. EntriesAlong(all, 0, Len(all), n + 1, xs, o, d)
    BY <1>7, <1>8, <1>9, <1>10 DEF EntriesAlong
  <1>12. n + 1 \in Nat /\ Len(all) \in 0..Len(all)
    BY <1>1, <1>3 DEF end
  <1>13. EntriesIn(all, 0, Len(all), n + 1, xs, o)
    BY <1>11, <1>12 DEF EntriesIn
  <1> QED BY <1>1, <1>13 DEF all

\* The same entries counted in another list.
LEMMA EntriesRecounted ==
    ASSUME NEW cells, NEW from, NEW to, NEW n, NEW xs, NEW o \in Nat,
           EntriesIn(cells, from, to, n, xs, o),
           NEW ys, NEW q \in Nat, \A i \in 1..n : ys[q + i] = xs[o + i]
    PROVE  EntriesIn(cells, from, to, n, ys, q)
  <1>1. n \in Nat
    BY DEF EntriesIn
  <1>2. PICK b : EntriesAlong(cells, from, to, n, xs, o, b)
    BY DEF EntriesIn
  <1>3. ASSUME NEW i \in 0..(n - 1) PROVE ys[q + i + 1] = xs[o + i + 1]
    <2>1. i + 1 \in 1..n /\ q + (i + 1) = q + i + 1 /\ o + (i + 1) = o + i + 1
      BY <1>1
    <2> QED BY <2>1
  <1>4. EntriesAlong(cells, from, to, n, ys, q, b)
    BY <1>2, <1>3 DEF EntriesAlong
  <1> QED BY <1>4 DEF EntriesIn

-----------------------------------------------------------------------------
(* Blocks one behind the other                                             *)

\* b holds the ends of m blocks, each a check point and as many bytes of
\* whole entries as it says; c counts the entries up to each end.
BlocksAlong(cells, from, to, n, xs, o, m, b, c) ==
    /\ m \in Nat
    /\ b \in [0..m -> 0..to] /\ c \in [0..m -> 0..n]
    /\ b[0] = from /\ b[m] = to /\ c[0] = 0 /\ c[m] = n
    /\ \A i \in 0..(m - 1) :
          /\ cells[b[i] + 1][1] = "checkpoint"
          /\ cells[b[i] + 1][2] \in Nat
          /\ b[i + 1] = b[i] + ThreadCheckPointSize + cells[b[i] + 1][2]
          /\ EntriesIn(cells, b[i] + ThreadCheckPointSize, b[i + 1],
                       c[i + 1] - c[i], xs, o + c[i])

BlocksIn(cells, from, to, n, xs, o) ==
    /\ n \in Nat /\ to \in 0..Len(cells)
    /\ \E m, b, c : BlocksAlong(cells, from, to, n, xs, o, m, b, c)

LEMMA NoBlocks ==
    ASSUME NEW cells, IsSeq(cells), NEW at \in 0..Len(cells), NEW xs, NEW o
    PROVE  BlocksIn(cells, at, at, 0, xs, o)
  <1>1. Len(cells) \in Nat
    BY DEF IsSeq
  <1>2. at \in 0..at /\ 0 \in 0..0
    BY <1>1
  <1>3. BlocksAlong(cells, at, at, 0, xs, o, 0, [i \in 0..0 |-> at],
                    [i \in 0..0 |-> 0])
    BY <1>2 DEF BlocksAlong
  <1> QED BY <1>3 DEF BlocksIn

\* Where there is room for a block there is one, and the rest behind it.
LEMMA FirstBlock ==
    ASSUME NEW cells, IsSeq(cells), NEW from \in Nat, NEW to, NEW n,
           NEW xs, NEW o \in Nat, BlocksIn(cells, from, to, n, xs, o), from < to
    PROVE  /\ cells[from + 1][1] = "checkpoint"
           /\ cells[from + 1][2] \in Nat
           /\ from + ThreadCheckPointSize + cells[from + 1][2] <= to
           /\ \E p \in 0..n :
                 /\ EntriesIn(cells, from + ThreadCheckPointSize,
                       from + ThreadCheckPointSize + cells[from + 1][2], p,
                       xs, o)
                 /\ BlocksIn(cells,
                       from + ThreadCheckPointSize + cells[from + 1][2], to,
                       n - p, xs, o + p)
  <1> DEFINE size == cells[from + 1][2]
             next == from + ThreadCheckPointSize + size
  <1>1. Len(cells) \in Nat /\ n \in Nat /\ to \in 0..Len(cells)
        /\ ThreadCheckPointSize \in Nat \ {0}
    BY RecordAssumption DEF IsSeq, BlocksIn
  <1>2. PICK m, b, c : BlocksAlong(cells, from, to, n, xs, o, m, b, c)
    BY DEF BlocksIn
  <1>3. /\ m \in Nat
        /\ b \in [0..m -> 0..to] /\ c \in [0..m -> 0..n]
        /\ b[0] = from /\ b[m] = to /\ c[0] = 0 /\ c[m] = n
        /\ \A i \in 0..(m - 1) :
              /\ cells[b[i] + 1][1] = "checkpoint"
              /\ cells[b[i] + 1][2] \in Nat
              /\ b[i + 1] = b[i] + ThreadCheckPointSize + cells[b[i] + 1][2]
              /\ EntriesIn(cells, b[i] + ThreadCheckPointSize, b[i + 1],
                           c[i + 1] - c[i], xs, o + c[i])
    BY <1>2 DEF BlocksAlong
  <1>4. m # 0
    BY <1>1, <1>3
  <1>5. m - 1 \in Nat /\ 0 \in 0..(m - 1) /\ 1 \in 0..m /\ 0 + 1 = 1
        /\ m \in 0..m
    BY <1>3, <1>4
  <1>6. /\ cells[from + 1][1] = "checkpoint" /\ size \in Nat
        /\ b[1] = next
        /\ EntriesIn(cells, from + ThreadCheckPointSize, b[1], c[1] - 0, xs, o)
    <2>1. o + 0 = o
      OBVIOUS
    <2> QED BY <1>3, <1>5, <2>1
  <1>7. b[1] \in 0..to /\ c[1] \in 0..n
    BY <1>3, <1>5
  <1>8. next <= to
    <2> HIDE DEF next
    <2> QED BY <1>1, <1>6, <1>7
  <1>9. EntriesIn(cells, from + ThreadCheckPointSize, next, c[1], xs, o)
    <2>1. c[1] - 0 = c[1]
      BY <1>1, <1>7
    <2> QED BY <1>6, <2>1
  <1> HIDE DEF next, size
  <1> DEFINE d == [i \in 0..(m - 1) |-> b[i + 1]]
             e == [i \in 0..(m - 1) |-> c[i + 1] - c[1]]
             \* the counts behind the first block
             rest == n - c[1]
  <1>10. \A i \in 0..(m - 1) :
            /\ d[i] = b[i + 1] /\ e[i] = c[i + 1] - c[1]
            /\ i + 1 \in 0..m /\ b[i + 1] \in 0..to /\ c[i + 1] \in 0..n
    <2> TAKE i \in 0..(m - 1)
    <2>1. i + 1 \in 0..m
      BY <1>5
    <2> QED BY <1>3, <2>1
  <1>11. d \in [0..(m - 1) -> 0..to]
    BY <1>10
  <1> HIDE DEF d
  <1>12. rest \in Nat
    BY <1>1, <1>7
  <1> DEFINE Good == {i \in Nat : i <= m - 1 => c[1] <= c[i + 1]}
  <1>13. \A i \in 0..(m - 1) : c[1] <= c[i + 1]
    <2>1. 0 \in Good
      BY <1>1, <1>5, <1>7
    <2>2. ASSUME NEW i \in Nat, i \in Good PROVE i + 1 \in Good
      <3> SUFFICES ASSUME i + 1 <= m - 1 PROVE c[1] <= c[(i + 1) + 1]
        OBVIOUS
      <3>1. c[1] <= c[i + 1]
        BY <1>5, <2>2
      <3>2. i + 1 \in 0..(m - 1) /\ i \in 0..(m - 1)
        BY <1>5
      <3>3. c[(i + 1) + 1] - c[i + 1] \in Nat
        BY <1>3, <3>2 DEF EntriesIn
      <3>4. c[i + 1] \in 0..n /\ c[(i + 1) + 1] \in 0..n
        BY <1>10, <3>2
      <3> DEFINE x == c[1]
                 y == c[i + 1]
                 z == c[(i + 1) + 1]
      <3>5. x <= y /\ z - y \in Nat /\ y \in 0..n /\ z \in 0..n /\ x \in 0..n
        BY <1>7, <3>1, <3>3, <3>4
      <3> HIDE DEF x, y, z
      <3>6. x <= z
        BY <1>1, <3>5
      <3> QED BY <3>6 DEF x, z
    <2> HIDE DEF Good
    <2>3. \A i \in Nat : i \in Good
      BY <2>1, <2>2, NatInductionOnSet
    <2> QED BY <1>5, <2>3 DEF Good
  <1> HIDE DEF Good
  <1>14. e \in [0..(m - 1) -> 0..rest]
    <2> SUFFICES ASSUME NEW i \in 0..(m - 1) PROVE c[i + 1] - c[1] \in 0..rest
      OBVIOUS
    <2> DEFINE x == c[1]
               y == c[i + 1]
    <2>1. x <= y /\ x \in 0..n /\ y \in 0..n
      BY <1>7, <1>10, <1>13
    <2> HIDE DEF x, y
    <2>2. y - x \in 0..(n - x)
      BY <1>1, <2>1
    <2> QED BY <2>2 DEF x, y
  <1> HIDE DEF e
  <1>15. d[0] = next /\ e[0] = 0
    <2>1. d[0] = b[1] /\ e[0] = c[1] - c[1]
      BY <1>5, <1>10
    <2> QED BY <1>1, <1>6, <1>7, <2>1
  <1>16. d[m - 1] = to /\ e[m - 1] = rest
    <2>1. m - 1 \in 0..(m - 1) /\ (m - 1) + 1 = m
      BY <1>3, <1>5
    <2> QED BY <1>3, <1>10, <2>1
  <1>17. ASSUME NEW i \in 0..((m - 1) - 1)
         PROVE  /\ cells[d[i] + 1][1] = "checkpoint"
                /\ cells[d[i] + 1][2] \in Nat
                /\ d[i + 1] = d[i] + ThreadCheckPointSize + cells[d[i] + 1][2]
                /\ EntriesIn(cells, d[i] + ThreadCheckPointSize, d[i + 1],
                             e[i + 1] - e[i], xs, (o + c[1]) + e[i])
    <2>1. i \in 0..(m - 1) /\ i + 1 \in 0..(m - 1)
      BY <1>5
    <2>2. /\ d[i] = b[i + 1] /\ d[i + 1] = b[(i + 1) + 1]
          /\ e[i] = c[i + 1] - c[1] /\ e[i + 1] = c[(i + 1) + 1] - c[1]
          /\ c[i + 1] \in 0..n /\ c[(i + 1) + 1] \in 0..n
      BY <1>10, <2>1
    <2>3. e[i + 1] - e[i] = c[(i + 1) + 1] - c[i + 1]
      <3> DEFINE x == c[1]
                 y == c[i + 1]
                 z == c[(i + 1) + 1]
      <3>1. /\ e[i] = y - x /\ e[i + 1] = z - x
            /\ x \in 0..n /\ y \in 0..n /\ z \in 0..n
        BY <1>7, <2>2
      <3> HIDE DEF x, y, z
      <3>2. e[i + 1] - e[i] = z - y
        BY <1>1, <3>1
      <3> QED BY <3>2 DEF y, z
    <2>4. (o + c[1]) + e[i] = o + c[i + 1]
      <3> DEFINE x == c[1]
                 y == c[i + 1]
      <3>1. e[i] = y - x /\ x \in 0..n /\ y \in 0..n
        BY <1>7, <2>2
      <3> HIDE DEF x, y
      <3>2. (o + x) + e[i] = o + y
        BY <1>1, <3>1
      <3> QED BY <3>2 DEF x, y
    <2> QED BY <1>3, <2>1, <2>2, <2>3, <2>4
  <1>18. BlocksAlong(cells, next, to, rest, xs, o + c[1], m - 1, d, e)
    BY <1>5, <1>11, <1>14, <1>15, <1>16, <1>17 DEF BlocksAlong
  <1>19. BlocksIn(cells, next, to, n - c[1], xs, o + c[1])
    BY <1>1, <1>12, <1>18 DEF BlocksIn
  <1> QED BY <1>6, <1>7, <1>8, <1>9, <1>19 DEF next, size

\* Where there is no room there is no block.
LEMMA NoRoomNoBlocks ==
    ASSUME NEW cells, NEW at \in Nat, NEW n, NEW xs, NEW o,
           BlocksIn(cells, at, at, n, xs, o)
    PROVE  n = 0
  <1>1. PICK m, b, c : BlocksAlong(cells, at, at, n, xs, o, m, b, c)
    BY DEF BlocksIn
  <1>2. m \in Nat
    BY <1>1 DEF BlocksAlong
  <1>3. ASSUME m # 0 PROVE FALSE
    <2>1. 0 \in 0..(m - 1) /\ 1 \in 0..m /\ 0 + 1 = 1
      BY <1>2, <1>3
    <2> DEFINE size == cells[b[0] + 1][2]
    <2>2. /\ size \in Nat /\ b[0 + 1] = b[0] + ThreadCheckPointSize + size
          /\ b[0] = at /\ b[1] \in 0..at
      BY <1>1, <2>1 DEF BlocksAlong
    <2> HIDE DEF size
    <2> QED BY <2>1, <2>2, RecordAssumption
  <1>4. c[0] = 0 /\ c[m] = n
    BY <1>1 DEF BlocksAlong
  <1> QED BY <1>3, <1>4

\* One more block behind the others: its check point and its entries.
LEMMA BlockAppended ==
    ASSUME NEW cells, IsSeq(cells), NEW n, NEW xs, NEW o \in Nat,
           BlocksIn(cells, 0, Len(cells), n, xs, o),
           NEW bytes, IsSeq(bytes), NEW p,
           EntriesIn(bytes, 0, Len(bytes), p, xs, o + n),
           NEW all,
           all = cells \o Padded(<<"checkpoint", Len(bytes)>>,
                                 ThreadCheckPointSize)
                       \o bytes
    PROVE  IsSeq(all) /\ BlocksIn(all, 0, Len(all), n + p, xs, o)
  <1> DEFINE mark == Padded(<<"checkpoint", Len(bytes)>>, ThreadCheckPointSize)
             front == cells \o mark
             end == Len(cells)
             start == end + ThreadCheckPointSize
             size == Len(bytes)
  <1>1. ThreadCheckPointSize \in Nat \ {0}
    BY RecordAssumption
  <1>2. /\ IsSeq(mark) /\ Len(mark) = ThreadCheckPointSize
        /\ mark[1] = <<"checkpoint", size>>
    BY <1>1, PaddedProperties
  <1> HIDE DEF mark
  <1>3. /\ IsSeq(front) /\ end \in Nat /\ Len(front) = start
        /\ \A i \in 1..end : front[i] = cells[i]
        /\ \A i \in 1..Len(mark) : front[end + i] = mark[i]
    <2>1. /\ IsSeq(front) /\ Len(cells) \in Nat
          /\ Len(front) = Len(cells) + Len(mark)
          /\ \A i \in 1..Len(cells) : front[i] = cells[i]
          /\ \A i \in 1..Len(mark) : front[Len(cells) + i] = mark[i]
      <3>1. IsSeq(mark)
        BY <1>2
      <3> QED BY <3>1, SeqsConcat
    <2> HIDE DEF front
    <2> QED BY <1>2, <2>1
  <1> HIDE DEF front
  <1>4. all = front \o bytes
    BY DEF front, mark
  <1>5. /\ IsSeq(all) /\ size \in Nat /\ Len(all) = start + size
        /\ \A i \in 1..Len(front) : all[i] = front[i]
        /\ \A i \in 1..size : all[Len(front) + i] = bytes[i]
    <2>1. /\ IsSeq(front \o bytes) /\ Len(bytes) \in Nat
          /\ Len(front \o bytes) = Len(front) + Len(bytes)
          /\ \A i \in 1..Len(front) : (front \o bytes)[i] = front[i]
          /\ \A i \in 1..Len(bytes) : (front \o bytes)[Len(front) + i] = bytes[i]
      <3>1. IsSeq(front)
        BY <1>3
      <3> QED BY <3>1, SeqsConcat
    <2> QED BY <1>3, <1>4, <2>1
  <1> HIDE DEF start, size, end
  <1>6. start \in Nat /\ start = end + ThreadCheckPointSize
    BY <1>1, <1>3 DEF start
  <1>7. \A i \in 1..end : all[0 + i] = cells[i]
    <2> TAKE i \in 1..end
    <2>1. i \in 1..Len(front) /\ 0 + i = i
      BY <1>1, <1>3, <1>6
    <2> QED BY <1>3, <1>5, <2>1
  <1>8. all[end + 1] = <<"checkpoint", size>>
    <2>1. 1 \in 1..Len(mark) /\ end + 1 \in 1..Len(front)
      BY ONLY <1>1, <1>2, <1>3, <1>6
    <2> QED BY <1>2, <1>3, <1>5, <2>1
  <1>9. \A from, to, q, i : EntriesIn(cells, from, to, q, xs, i)
                             => EntriesIn(all, 0 + from, 0 + to, q, xs, i)
    <2>1. 0 + Len(cells) <= Len(all)
      BY <1>1, <1>3, <1>5, <1>6 DEF end
    <2>2. \A i \in 1..Len(cells) : all[0 + i] = cells[i]
      BY <1>7 DEF end
    <2> QED BY <1>5, <2>1, <2>2, EntriesCarried
  <1>10. EntriesIn(all, start, start + size, p, xs, o + n)
    <2>1. start + Len(bytes) <= Len(all) /\ start + 0 = start
      <3>1. Len(all) = start + size /\ size \in Nat
        BY <1>5
      <3>2. start + size <= Len(all)
        BY <1>6, <3>1
      <3> QED BY <1>6, <3>2 DEF size
    <2>2. \A i \in 1..Len(bytes) : all[start + i] = bytes[i]
      BY <1>3, <1>5 DEF size
    <2>3. EntriesIn(all, start + 0, start + Len(bytes), p, xs, o + n)
      BY <1>5, <1>6, <2>1, <2>2, EntriesCarried
    <2> QED BY <2>1, <2>3 DEF size
  <1>11. n \in Nat /\ p \in Nat
    BY DEF BlocksIn, EntriesIn
  <1>12. PICK m, b, c : BlocksAlong(cells, 0, end, n, xs, o, m, b, c)
    BY DEF BlocksIn, end
  <1>13. /\ m \in Nat
         /\ b \in [0..m -> 0..end] /\ c \in [0..m -> 0..n]
         /\ b[0] = 0 /\ b[m] = end /\ c[0] = 0 /\ c[m] = n
         /\ \A i \in 0..(m - 1) :
              /\ cells[b[i] + 1][1] = "checkpoint"
              /\ cells[b[i] + 1][2] \in Nat
              /\ b[i + 1] = b[i] + ThreadCheckPointSize + cells[b[i] + 1][2]
              /\ EntriesIn(cells, b[i] + ThreadCheckPointSize, b[i + 1],
                           c[i + 1] - c[i], xs, o + c[i])
    BY <1>12 DEF BlocksAlong
  <1> DEFINE d == [i \in 0..(m + 1) |-> IF i <= m THEN b[i] ELSE Len(all)]
             e == [i \in 0..(m + 1) |-> IF i <= m THEN c[i] ELSE n + p]
  <1>14. /\ \A i \in 0..m : /\ d[i] = b[i] /\ e[i] = c[i]
                            /\ b[i] \in 0..end /\ c[i] \in 0..n
         /\ d[m + 1] = Len(all) /\ e[m + 1] = n + p
    BY ONLY <1>13
  <1>15. \A i \in 0..(m + 1) : d[i] \in 0..Len(all) /\ e[i] \in 0..(n + p)
    <2> TAKE i \in 0..(m + 1)
    <2> HIDE DEF d, e
    <2>1. CASE i <= m
      <3>1. i \in 0..m
        BY <1>13, <2>1
      <3>2. /\ d[i] = b[i] /\ e[i] = c[i] /\ b[i] \in 0..end /\ c[i] \in 0..n
        BY <1>14, <3>1
      <3>3. end <= Len(all) /\ Len(all) \in Nat
        <4>1. end \in Nat /\ size \in Nat /\ Len(all) = start + size
          BY <1>3, <1>5
        <4> QED BY <1>1, <1>6, <4>1
      <3> QED BY ONLY <1>3, <1>11, <3>2, <3>3
    <2>2. CASE ~(i <= m)
      <3>1. i = m + 1
        BY <1>13, <2>2
      <3>2. Len(all) \in Nat /\ n + p \in Nat
        <4>1. Len(all) \in Nat
          BY <1>5, <1>6
        <4>2. n + p \in Nat
          BY <1>11
        <4> QED BY <4>1, <4>2
      <3> QED BY <1>14, <3>1, <3>2
    <2> QED BY <2>1, <2>2
  <1>16. d \in [0..(m + 1) -> 0..Len(all)] /\ e \in [0..(m + 1) -> 0..(n + p)]
    <2>1. d = [i \in 0..(m + 1) |-> d[i]] /\ e = [i \in 0..(m + 1) |-> e[i]]
      OBVIOUS
    <2> HIDE DEF d, e
    <2> QED BY <1>15, <2>1
  <1> HIDE DEF d, e
  <1>17. d[0] = 0 /\ e[0] = 0
    <2>1. 0 \in 0..m
      BY <1>13
    <2> QED BY <1>13, <1>14, <2>1
  <1>18. ASSUME NEW i \in 0..((m + 1) - 1)
         PROVE  /\ all[d[i] + 1][1] = "checkpoint"
                /\ all[d[i] + 1][2] \in Nat
                /\ d[i + 1] = d[i] + ThreadCheckPointSize + all[d[i] + 1][2]
                /\ EntriesIn(all, d[i] + ThreadCheckPointSize, d[i + 1],
                             e[i + 1] - e[i], xs, o + e[i])
    <2>1. CASE i = m
      <3>1. /\ d[i] = end /\ e[i] = n /\ d[i + 1] = start + size
            /\ e[i + 1] = n + p
        <4>1. m \in 0..m
          BY <1>13
        <4> QED BY <1>5, <1>13, <1>14, <2>1, <4>1
      <3>2. e[i + 1] - e[i] = p
        BY <1>11, <3>1
      <3>3. all[d[i] + 1][1] = "checkpoint" /\ all[d[i] + 1][2] = size
        <4>1. all[d[i] + 1] = <<"checkpoint", size>>
          BY <1>8, <3>1
        <4>2. <<"checkpoint", size>>[1] = "checkpoint" /\ <<"checkpoint", size>>[2] = size
          OBVIOUS
        <4> QED BY <4>1, <4>2, Zenon
      <3>4. d[i] + ThreadCheckPointSize = start
        BY <1>6, <3>1
      <3> QED BY <1>5, <1>10, <3>1, <3>2, <3>3, <3>4
    <2>2. CASE i # m
      <3>1. i \in 0..(m - 1) /\ i \in 0..m /\ i + 1 \in 0..m
        BY ONLY <1>13, <2>2
      <3>2. d[i] = b[i] /\ d[i + 1] = b[i + 1] /\ e[i] = c[i] /\ e[i + 1] = c[i + 1]
            /\ b[i] \in 0..end /\ b[i + 1] \in 0..end
        BY <1>14, <3>1
      <3> DEFINE len == cells[b[i] + 1][2]
      <3>3. /\ cells[b[i] + 1][1] = "checkpoint" /\ len \in Nat
            /\ b[i + 1] = b[i] + ThreadCheckPointSize + len
            /\ EntriesIn(cells, b[i] + ThreadCheckPointSize, b[i + 1],
                         c[i + 1] - c[i], xs, o + c[i])
        BY <1>13, <3>1
      <3>4. all[b[i] + 1] = cells[b[i] + 1]
        <4> DEFINE x == b[i]
        <4>1. x + 1 \in 1..end /\ 0 + (x + 1) = x + 1
          <5> DEFINE y == b[i + 1]
          <5>1. x \in 0..end /\ y \in 0..end /\ y = x + ThreadCheckPointSize + len
            BY <3>2, <3>3
          <5>2. x \in Nat /\ end \in Nat /\ (x + ThreadCheckPointSize) + len <= end
                /\ len \in Nat
            <6> HIDE DEF x, y, len
            <6> QED BY <1>3, <3>3, <5>1 DEF len
          <5> HIDE DEF x, y, len
          <5> QED BY <1>1, <5>2, BlockInside, Zenon
        <4> HIDE DEF x
        <4>2. all[0 + (x + 1)] = cells[x + 1]
          BY <1>7, <4>1
        <4>3. all[x + 1] = cells[x + 1]
          BY <4>1, <4>2
        <4> QED BY <4>3 DEF x
      <3>5. EntriesIn(all, b[i] + ThreadCheckPointSize, b[i + 1],
                      c[i + 1] - c[i], xs, o + c[i])
        <4>1. EntriesIn(all, 0 + (b[i] + ThreadCheckPointSize), 0 + b[i + 1],
                        c[i + 1] - c[i], xs, o + c[i])
          BY <1>9, <3>3, Zenon
        <4>2. 0 + (b[i] + ThreadCheckPointSize) = b[i] + ThreadCheckPointSize
              /\ 0 + b[i + 1] = b[i + 1]
          BY ONLY <1>1, <3>2
        <4> QED BY <4>1, <4>2
      <3> HIDE DEF len
      <3> QED BY <3>2, <3>3, <3>4, <3>5 DEF len
    <2> QED BY <2>1, <2>2
  <1>19. m + 1 \in Nat /\ n + p \in Nat
    BY <1>11, <1>13
  <1>20. BlocksAlong(all, 0, Len(all), n + p, xs, o, m + 1, d, e)
    BY <1>14, <1>16, <1>17, <1>18, <1>19 DEF BlocksAlong
  <1>21. Len(all) \in 0..Len(all)
    BY <1>5, <1>6
  <1> QED BY <1>5, <1>19, <1>20, <1>21 DEF BlocksIn

\* The same blocks with their entries counted in another list.
LEMMA BlocksRecounted ==
    ASSUME NEW cells, NEW from, NEW to, NEW n, NEW xs, NEW o \in Nat,
           BlocksIn(cells, from, to, n, xs, o),
           NEW ys, NEW q \in Nat, \A i \in 1..n : ys[q + i] = xs[o + i]
    PROVE  BlocksIn(cells, from, to, n, ys, q)
  <1>1. n \in Nat
    BY DEF BlocksIn
  <1>2. PICK m, b, c : BlocksAlong(cells, from, to, n, xs, o, m, b, c)
    BY DEF BlocksIn
  <1>3. m \in Nat /\ c \in [0..m -> 0..n]
    BY <1>2 DEF BlocksAlong
  <1>4. ASSUME NEW i \in 0..(m - 1)
        PROVE  EntriesIn(cells, b[i] + ThreadCheckPointSize, b[i + 1],
                         c[i + 1] - c[i], ys, q + c[i])
    <2> DEFINE this == c[i]
               next == c[i + 1]
               count == next - this
    <2>1. this \in 0..n /\ next \in 0..n
      <3>1. i \in 0..m /\ i + 1 \in 0..m
        BY <1>3
      <3> QED BY <1>3, <3>1
    <2>2. EntriesIn(cells, b[i] + ThreadCheckPointSize, b[i + 1], count,
                    xs, o + this)
      BY <1>2 DEF BlocksAlong
    <2> HIDE DEF this, next
    <2>3. count \in Nat /\ this + count <= n /\ this \in Nat
      <3>1. count \in Nat
        BY <2>2 DEF EntriesIn
      <3> QED BY <1>1, <2>1, <3>1
    <2>4. \A j \in 1..count : ys[(q + this) + j] = xs[(o + this) + j]
      <3> HIDE DEF count
      <3> TAKE j \in 1..count
      <3>1. this + j \in 1..n /\ (q + this) + j = q + (this + j)
            /\ (o + this) + j = o + (this + j)
        BY <1>1, <2>3
      <3> QED BY <3>1
    <2>5. q + this \in Nat /\ o + this \in Nat
      BY <2>3
    <2> HIDE DEF count
    <2>6. EntriesIn(cells, b[i] + ThreadCheckPointSize, b[i + 1], count,
                    ys, q + this)
      BY <2>2, <2>4, <2>5, EntriesRecounted
    <2> QED BY <2>6 DEF this, next, count
  <1>5. BlocksAlong(cells, from, to, n, ys, q, m, b, c)
    BY <1>2, <1>4 DEF BlocksAlong
  <1> QED BY <1>5 DEF BlocksIn

LEMMA SeqsAssociative ==
    ASSUME NEW s, NEW t, NEW u, IsSeq(s), IsSeq(t), IsSeq(u)
    PROVE  (s \o t) \o u = s \o (t \o u)
  <1>1. PICK S : s \in Seq(S)
    BY DEF IsSeq
  <1>2. PICK R : t \in Seq(R)
    BY DEF IsSeq
  <1>3. PICK Q : u \in Seq(Q)
    BY DEF IsSeq
  <1> DEFINE U == S \cup R \cup Q
  <1>4. S \subseteq U /\ R \subseteq U /\ Q \subseteq U
    OBVIOUS
  <1> HIDE DEF U
  <1>5. s \in Seq(U) /\ t \in Seq(U) /\ u \in Seq(U)
    BY <1>1, <1>2, <1>3, <1>4, SeqMonotonic
  <1> QED BY <1>5, ConcatAssociative

-----------------------------------------------------------------------------
(* The walk                                                                *)

\* Every call not yet formatted is one entry that holds what is expected of
\* it, in the order of the calls: first the rest of the sink's block, then
\* the blocks behind it, the sink's buffer and the staging buffer.
EntriesAreCounted ==
    \E np, nb, ne, nd \in Nat :
        /\ Len(expected) = np + nb + ne + nd
        /\ EntriesIn(published, 0, Len(published), np, expected, ne + nd + nb)
        /\ BlocksIn(buffer, 0, Len(buffer), nb, expected, ne + nd)
        /\ EntriesIn(data, pos, pos + remaining, ne, expected, 0)
        /\ BlocksIn(data, pos + remaining, Len(data), nd, expected, ne)

\* pos, remaining and bufLen divide the buffer that is walked.
WalkPlace ==
    /\ pos \in Nat /\ remaining \in Nat /\ bufLen \in Nat
    /\ pos + remaining + bufLen = Len(data)
    /\ sState \in {"idle", "block", "entry", "convert", "entryDone"}
    /\ sState \in {"idle", "block"} => remaining = 0
    /\ sState = "idle" => bufLen = 0
    /\ sState \in {"convert", "entryDone"} => remaining > 0

PendingBound ==
    /\ Len(expected) <= MaxPending
    /\ pState # "idle" => Len(expected) < MaxPending

WalkInv ==
    /\ IsSeq(published) /\ IsSeq(buffer) /\ IsSeq(data) /\ IsSeq(expected)
    /\ EntriesAreCounted
    /\ WalkPlace
    /\ PendingBound

\* The cell the walk looks at.
LEMMA CellInData ==
    ASSUME WalkPlace, IsSeq(data), remaining > 0 \/ bufLen > 0
    PROVE  Cell(pos) = data[pos + 1] /\ pos \in Nat
  <1>1. Len(data) \in Nat
    BY DEF IsSeq
  <1>2. pos < Len(data)
    BY <1>1 DEF WalkPlace
  <1> QED BY <1>2 DEF Cell, WalkPlace

LEMMA WalkLands == WalkInv => WalkLandsOnEntries
  <1> SUFFICES ASSUME WalkInv PROVE WalkLandsOnEntries
    OBVIOUS
  <1>1. PICK np, nb, ne, nd \in Nat :
          /\ Len(expected) = np + nb + ne + nd
          /\ EntriesIn(published, 0, Len(published), np, expected, ne + nd + nb)
          /\ BlocksIn(buffer, 0, Len(buffer), nb, expected, ne + nd)
          /\ EntriesIn(data, pos, pos + remaining, ne, expected, 0)
          /\ BlocksIn(data, pos + remaining, Len(data), nd, expected, ne)
    BY DEF WalkInv, EntriesAreCounted
  <1>2. WalkPlace /\ IsSeq(data) /\ Len(data) \in Nat
    BY DEF WalkInv, IsSeq
  <1>3. CASE remaining > 0
    <2>1. Cell(pos) = data[pos + 1] /\ pos \in Nat
      BY <1>2, <1>3, CellInData
    <2>2. pos < pos + remaining
      BY <1>2, <1>3, <2>1 DEF WalkPlace
    <2>3. /\ data[pos + 1][1] = "header"
          /\ data[pos + 1][2].entrySize \in Nat \ {0}
          /\ pos + data[pos + 1][2].entrySize <= pos + remaining
      BY <1>1, <1>2, <2>1, <2>2, FirstEntry
    <2>4. data[pos + 1][2].entrySize <= remaining
      BY ONLY <1>2, <2>1, <2>3 DEF WalkPlace
    <2> QED BY <1>2, <1>3, <2>1, <2>3, <2>4
            DEF WalkLandsOnEntries, WalkPlace, IsEntry, EntryAt
  <1>4. CASE ~(remaining > 0)
    <2>1. remaining = 0
      BY <1>2, <1>4 DEF WalkPlace
    <2>2. ASSUME bufLen > 0 PROVE Cell(pos)[1] = "checkpoint"
      <3>1. Cell(pos) = data[pos + 1] /\ pos \in Nat
        BY <1>2, <2>2, CellInData
      <3>2. pos + remaining = pos /\ pos < Len(data)
        BY <1>2, <2>1, <2>2, <3>1 DEF WalkPlace
      <3>3. BlocksIn(data, pos, Len(data), nd, expected, ne)
        BY <1>1, <3>2
      <3>4. data[pos + 1][1] = "checkpoint"
        BY <1>2, <3>1, <3>2, <3>3, FirstBlock
      <3> QED BY <3>1, <3>4
    <2>3. pos + bufLen = Len(data)
      BY <1>2, <2>1 DEF WalkPlace
    <2> QED BY <1>2, <2>1, <2>2, <2>3 DEF WalkLandsOnEntries, WalkPlace
  <1> QED BY <1>3, <1>4

LEMMA AppendedElements ==
    ASSUME NEW s, IsSeq(s), NEW x
    PROVE  /\ IsSeq(Append(s, x)) /\ Len(Append(s, x)) = Len(s) + 1
           /\ Len(s) \in Nat
           /\ \A i \in 1..Len(s) : Append(s, x)[i] = s[i]
           /\ Append(s, x)[Len(s) + 1] = x
  <1>1. PICK S : s \in Seq(S)
    BY DEF IsSeq
  <1> DEFINE U == S \cup {x}
  <1>2. S \subseteq U /\ x \in U
    OBVIOUS
  <1> HIDE DEF U
  <1>3. s \in Seq(U)
    BY <1>1, <1>2, SeqMonotonic
  <1>4. /\ Append(s, x) \in Seq(U) /\ Len(Append(s, x)) = Len(s) + 1
        /\ Len(s) \in Nat
        /\ \A i \in 1..Len(s) : Append(s, x)[i] = s[i]
        /\ Append(s, x)[Len(s) + 1] = x
    BY <1>2, <1>3, AppendProperties
  <1> QED BY <1>4 DEF IsSeq

\* Publishing an entry that holds what is expected of it.
LEMMA PublishPreserves ==
    ASSUME WalkInv, Len(expected) < MaxPending, UNCHANGED <<buffer, sinkVars>>,
           NEW x, NEW e, EntryOf(e, x),
           published' = published \o e,
           expected' = Append(expected, x), pState' = "idle"
    PROVE  WalkInv'
  <1>1. PICK np, nb, ne, nd \in Nat :
          /\ Len(expected) = np + nb + ne + nd
          /\ EntriesIn(published, 0, Len(published), np, expected, ne + nd + nb)
          /\ BlocksIn(buffer, 0, Len(buffer), nb, expected, ne + nd)
          /\ EntriesIn(data, pos, pos + remaining, ne, expected, 0)
          /\ BlocksIn(data, pos + remaining, Len(data), nd, expected, ne)
    BY DEF WalkInv, EntriesAreCounted
  <1>2. /\ buffer' = buffer /\ data' = data /\ pos' = pos
        /\ remaining' = remaining /\ bufLen' = bufLen /\ sState' = sState
    BY DEF sinkVars
  <1> DEFINE all == Append(expected, x)
  <1>3. /\ IsSeq(all) /\ Len(all) = Len(expected) + 1 /\ Len(expected) \in Nat
        /\ \A i \in 1..Len(expected) : all[i] = expected[i]
        /\ all[Len(expected) + 1] = x
    BY AppendedElements DEF WalkInv
  <1>4. expected' = all
    OBVIOUS
  <1> HIDE DEF all
  <1>5. EntriesAreCounted'
    <2>1. /\ np \in Nat /\ nb \in Nat /\ ne \in Nat /\ nd \in Nat
          /\ 0 \in Nat /\ ne + nd \in Nat /\ ne + nd + nb \in Nat
      OBVIOUS
    <2>2. EntriesIn(data, pos, pos + remaining, ne, all, 0)
      <3>1. \A i \in 1..ne : all[0 + i] = expected[0 + i]
        BY <1>1, <1>3
      <3> QED BY <1>1, <2>1, <3>1, EntriesRecounted
    <2>3. BlocksIn(data, pos + remaining, Len(data), nd, all, ne)
      <3>1. \A i \in 1..nd : all[ne + i] = expected[ne + i]
        <4> TAKE i \in 1..nd
        <4>1. ne + i \in 1..Len(expected)
          BY <1>1
        <4> QED BY <1>3, <4>1
      <3> QED BY <1>1, <2>1, <3>1, BlocksRecounted
    <2>4. BlocksIn(buffer, 0, Len(buffer), nb, all, ne + nd)
      <3>1. \A i \in 1..nb : all[(ne + nd) + i] = expected[(ne + nd) + i]
        <4> TAKE i \in 1..nb
        <4>1. (ne + nd) + i \in 1..Len(expected)
          BY <1>1
        <4> QED BY <1>3, <4>1
      <3> QED BY <1>1, <2>1, <3>1, BlocksRecounted
    <2>5. EntriesIn(published, 0, Len(published), np, all, ne + nd + nb)
      <3>1. \A i \in 1..np : all[(ne + nd + nb) + i] = expected[(ne + nd + nb) + i]
        <4> TAKE i \in 1..np
        <4>1. (ne + nd + nb) + i \in 1..Len(expected)
          BY <1>1
        <4> QED BY <1>3, <4>1
      <3> QED BY <1>1, <2>1, <3>1, EntriesRecounted
    <2>6. EntryOf(e, all[(ne + nd + nb) + np + 1])
      <3>1. (ne + nd + nb) + np + 1 = Len(expected) + 1
        BY <1>1
      <3> QED BY <1>3, <3>1
    <2>7. EntriesIn(published', 0, Len(published'), np + 1, all, ne + nd + nb)
      <3>1. IsSeq(published)
        BY DEF WalkInv
      <3>2. EntriesIn(published \o e, 0, Len(published \o e), np + 1, all,
                      ne + nd + nb)
        BY <2>1, <2>5, <2>6, <3>1, EntryAppended
      <3> QED BY <3>2
    <2>8. Len(all) = (np + 1) + nb + ne + nd /\ np + 1 \in Nat
      BY <1>1, <1>3
    <2> QED BY <1>2, <1>4, <2>1, <2>2, <2>3, <2>4, <2>7, <2>8 DEF EntriesAreCounted
  <1>6. WalkPlace' /\ IsSeq(buffer') /\ IsSeq(data')
    BY <1>2 DEF WalkInv, WalkPlace
  <1>7. PendingBound'
    BY <1>3, <1>4, RecordAssumption DEF PendingBound
  <1>8. IsSeq(published')
    <2>1. IsSeq(published) /\ IsSeq(e)
      BY DEF WalkInv, EntryOf
    <2>2. IsSeq(published \o e)
      BY <2>1, SeqsConcat
    <2> QED BY <2>2
  <1> QED BY <1>3, <1>4, <1>5, <1>6, <1>7, <1>8 DEF WalkInv

\* The entry TZ_LOG has filled holds what its call is expected to print.
LEMMA FinishPreserves == RecordInv /\ WalkInv /\ Finish => WalkInv'
  <1> SUFFICES ASSUME RecordInv, WalkInv, Finish PROVE WalkInv'
    OBVIOUS
  <1> DEFINE x == <<call, Direct(call, args, arr)>>
  <1>1. /\ pState = "dumping" /\ pState' = "idle" /\ si > Len(SIs[call])
        /\ published' = published \o entry
        /\ expected' = Append(expected, x)
        /\ UNCHANGED <<buffer, sinkVars>>
    BY DEF Finish, CallReturns
  <1>2. /\ call \in Call /\ args \in values[call] /\ MeasuredFor(call, arr)
        /\ IsSeq(entry) /\ Len(entry) = bufSize
        /\ entry[1] = <<"header", [fmtId |-> call, entrySize |-> bufSize,
                                   status |-> "NORMAL"]>>
        /\ si \in 1..(Len(SIs[call]) + 1)
        /\ \A k \in 1..(si - 1) : ArgsStored(entry, call, args, arr, k)
        /\ bufSize = kArgsSize(call) + OneLogEntrySize + SumOfFirst(arr, Len(arr))
    BY <1>1 DEF RecordInv, Measured, Dumping, MeasuredFor
  <1>3. /\ bufSize \in Nat /\ bufSize >= OneLogEntrySize
        /\ arr \in Seq(Nat) /\ Len(arr) \in Nat /\ kArgsSize(call) \in Nat
    BY <1>1, MeasuredSizes DEF RecordInv
  <1>4. Len(entry) # 0
    BY <1>2, <1>3, RecordAssumption
  <1>5. Len(entry) = OneLogEntrySize + kArgsSize(call) + SumOfFirst(arr, Len(arr))
    <2>1. SumOfFirst(arr, Len(arr)) \in Nat
      <3>1. Len(arr) \in 0..Len(arr)
        BY <1>3
      <3> QED BY <1>3, <3>1, SumProperties
    <2> QED BY <1>2, <1>3, <2>1, RecordAssumption
  <1>6. \A k \in 1..Len(SIs[call]) : ArgsStored(entry, call, args, arr, k)
    <2>1. Len(SIs[call]) \in Nat
      BY <1>2, LastArgProperties
    <2>2. si - 1 = Len(SIs[call])
      BY <1>1, <1>2, <2>1
    <2> QED BY <1>2, <2>2
  <1>7. LoggedEntry(entry, x)
    <2>1. entry[1] = <<"header", [fmtId |-> call, entrySize |-> Len(entry),
                                  status |-> "NORMAL"]>>
      BY <1>2
    <2> QED BY <1>2, <1>5, <1>6, <2>1 DEF LoggedEntry
  <1> HIDE DEF x
  <1>8. EntryOf(entry, x)
    BY <1>2, <1>4, <1>7 DEF EntryOf
  <1>9. Len(expected) < MaxPending
    BY <1>1 DEF WalkInv, PendingBound
  <1> QED BY <1>1, <1>8, <1>9, PublishPreserves

\* An oversize report is a header and one number.
LEMMA LogOversizePreserves == RecordInv /\ WalkInv /\ LogOversize => WalkInv'
  <1> SUFFICES ASSUME RecordInv, WalkInv, LogOversize PROVE WalkInv'
    OBVIOUS
  <1> DEFINE size == OneLogEntrySize + sizeOf["size_t"]
             header == Header(size, "ILLEGAL_ARGS_SIZE")
             number == Padded(<<"raw", bufSize>>, sizeOf["size_t"])
             e == header \o number
             x == <<call, <<[shown |-> bufSize]>>>>
  <1>1. /\ pState = "measured" /\ pState' = "idle"
        /\ published' = published \o header \o number
        /\ expected' = Append(expected, x)
        /\ UNCHANGED <<buffer, sinkVars>>
    BY DEF LogOversize, CallReturns
  <1>2. sizeOf["size_t"] \in Nat \ {0} /\ OneLogEntrySize \in Nat \ {0}
    BY RecordAssumption DEF Type
  <1>3. /\ IsSeq(header) /\ Len(header) = OneLogEntrySize
        /\ header[1] = <<"header", [fmtId |-> call, entrySize |-> size,
                                    status |-> "ILLEGAL_ARGS_SIZE"]>>
    BY HeaderProperties
  <1>4. /\ IsSeq(number) /\ Len(number) = sizeOf["size_t"]
        /\ number[1] = <<"raw", bufSize>>
    BY <1>2, PaddedProperties
  <1> HIDE DEF header, number
  <1>5. /\ IsSeq(e) /\ Len(e) = Len(header) + Len(number)
        /\ \A i \in 1..Len(header) : e[i] = header[i]
        /\ \A i \in 1..Len(number) : e[Len(header) + i] = number[i]
    <2>1. IsSeq(header)
      BY <1>3
    <2>2. IsSeq(number)
      BY <1>4
    <2> QED BY <2>1, <2>2, SeqsConcat
  <1>6. /\ Len(e) = size /\ Len(e) # 0 /\ e[1] = header[1]
        /\ OneLogEntrySize < Len(e)
        /\ e[OneLogEntrySize + 1] = <<"raw", bufSize>>
    <2>1. 1 \in 1..Len(header) /\ 1 \in 1..Len(number)
      BY <1>2, <1>3, <1>4
    <2> HIDE DEF e
    <2>2. Len(e) = size /\ Len(e) # 0 /\ OneLogEntrySize < Len(e)
      BY <1>2, <1>3, <1>4, <1>5
    <2>3. e[1] = header[1]
      BY <1>5, <2>1
    <2>4. e[OneLogEntrySize + 1] = number[1]
      BY <1>3, <1>5, <2>1
    <2> QED BY <1>4, <2>2, <2>3, <2>4
  <1>7. published' = published \o e
    <2>1. IsSeq(published)
      BY DEF WalkInv
    <2>2. IsSeq(header)
      BY <1>3
    <2>3. IsSeq(number)
      BY <1>4
    <2>4. (published \o header) \o number = published \o (header \o number)
      BY <2>1, <2>2, <2>3, SeqsAssociative
    <2> QED BY <1>1, <2>4
  <1> HIDE DEF e, size
  <1>10. OversizeReport(e, x)
    BY <1>3, <1>6 DEF OversizeReport
  <1> HIDE DEF x
  <1>8. EntryOf(e, x)
    BY <1>5, <1>6, <1>10 DEF EntryOf
  <1>9. Len(expected) < MaxPending
    BY <1>1 DEF WalkInv, PendingBound
  <1> QED BY <1>1, <1>7, <1>8, <1>9, PublishPreserves

\* The poll thread moves what is published into a block of its own.
LEMMA AppendBlockPreserves == WalkInv /\ AppendBlock => WalkInv'
  <1> SUFFICES ASSUME WalkInv, AppendBlock PROVE WalkInv'
    OBVIOUS
  <1>1. /\ buffer' = buffer \o Padded(<<"checkpoint", Len(published)>>,
                                      ThreadCheckPointSize)
                            \o published
        /\ published' = <<>> /\ data' = data /\ expected' = expected
        /\ pState' = pState /\ pos' = pos /\ remaining' = remaining
        /\ bufLen' = bufLen /\ sState' = sState
    BY DEF AppendBlock, BlockSize, logVars, sinkVars
  <1>2. PICK np, nb, ne, nd \in Nat :
          /\ Len(expected) = np + nb + ne + nd
          /\ EntriesIn(published, 0, Len(published), np, expected, ne + nd + nb)
          /\ BlocksIn(buffer, 0, Len(buffer), nb, expected, ne + nd)
          /\ EntriesIn(data, pos, pos + remaining, ne, expected, 0)
          /\ BlocksIn(data, pos + remaining, Len(data), nd, expected, ne)
    BY DEF WalkInv, EntriesAreCounted
  <1>3. /\ IsSeq(buffer')
        /\ BlocksIn(buffer', 0, Len(buffer'), nb + np, expected, ne + nd)
    <2>1. IsSeq(buffer) /\ IsSeq(published) /\ ne + nd \in Nat
      BY DEF WalkInv
    <2> DEFINE all == buffer \o Padded(<<"checkpoint", Len(published)>>,
                                      ThreadCheckPointSize)
                            \o published
    <2>2. IsSeq(all) /\ BlocksIn(all, 0, Len(all), nb + np, expected, ne + nd)
      <3> DEFINE all2 == all
      <3>1. EntriesIn(published, 0, Len(published), np, expected, (ne + nd) + nb)
        BY <1>2
      <3>2. BlocksIn(buffer, 0, Len(buffer), nb, expected, ne + nd)
        BY <1>2
      <3> QED BY <2>1, <3>1, <3>2, BlockAppended
    <2>3. buffer' = all
      BY <1>1
    <2> HIDE DEF all
    <2> QED BY <2>2, <2>3
  <1>4. /\ IsSeq(<<>>) /\ Len(<<>>) = 0
    <2>1. <<>> \in Seq({})
      OBVIOUS
    <2> QED BY <2>1 DEF IsSeq
  <1>5. EntriesIn(published', 0, Len(published'), 0, expected,
                  ne + nd + (nb + np))
    <2>1. EntriesIn(<<>>, 0, 0, 0, expected, ne + nd + (nb + np))
      BY <1>4, NoEntries
    <2> QED BY <1>1, <1>4, <2>1
  <1>6. EntriesAreCounted'
    <2>1. Len(expected') = 0 + (nb + np) + ne + nd /\ nb + np \in Nat /\ 0 \in Nat
      BY <1>1, <1>2
    <2>2. /\ EntriesIn(data', pos', pos' + remaining', ne, expected', 0)
          /\ BlocksIn(data', pos' + remaining', Len(data'), nd, expected', ne)
      BY <1>1, <1>2
    <2>3. /\ BlocksIn(buffer', 0, Len(buffer'), nb + np, expected', ne + nd)
          /\ EntriesIn(published', 0, Len(published'), 0, expected',
                       ne + nd + (nb + np))
      BY <1>1, <1>3, <1>5
    <2> QED BY <2>1, <2>2, <2>3 DEF EntriesAreCounted
  <1>7. WalkPlace' /\ PendingBound' /\ IsSeq(data') /\ IsSeq(expected')
    BY <1>1 DEF WalkInv, WalkPlace, PendingBound
  <1> QED BY <1>1, <1>3, <1>4, <1>6, <1>7 DEF WalkInv

\* What the walk's steps leave alone, and what they must show.
LEMMA WalkStep ==
    ASSUME WalkInv,
           published' = published, pState' = pState,
           IsSeq(buffer'), IsSeq(data'), IsSeq(expected'),
           Len(expected') <= Len(expected),
           WalkPlace',
           NEW np \in Nat, NEW nb \in Nat, NEW ne \in Nat, NEW nd \in Nat,
           Len(expected') = np + nb + ne + nd,
           EntriesIn(published, 0, Len(published), np, expected', ne + nd + nb),
           BlocksIn(buffer', 0, Len(buffer'), nb, expected', ne + nd),
           EntriesIn(data', pos', pos' + remaining', ne, expected', 0),
           BlocksIn(data', pos' + remaining', Len(data'), nd, expected', ne)
    PROVE  WalkInv'
  <1>1. EntriesAreCounted'
    BY DEF EntriesAreCounted
  <1>2. PendingBound'
    <2>1. Len(expected) \in Nat /\ Len(expected') \in Nat
      BY DEF WalkInv, IsSeq
    <2> QED BY <2>1, RecordAssumption DEF WalkInv, PendingBound
  <1> QED BY <1>1, <1>2 DEF WalkInv

LEMMA TakeBufferPreserves == WalkInv /\ TakeBuffer => WalkInv'
  <1> SUFFICES ASSUME WalkInv, TakeBuffer PROVE WalkInv'
    OBVIOUS
  <1>1. /\ sState = "idle" /\ sState' = "block"
        /\ data' = buffer /\ buffer' = <<>>
        /\ pos' = 0 /\ bufLen' = Len(buffer) /\ remaining' = 0
        /\ published' = published /\ expected' = expected /\ pState' = pState
    BY DEF TakeBuffer, logVars
  <1>2. PICK np, nb, ne, nd \in Nat :
          /\ Len(expected) = np + nb + ne + nd
          /\ EntriesIn(published, 0, Len(published), np, expected, ne + nd + nb)
          /\ BlocksIn(buffer, 0, Len(buffer), nb, expected, ne + nd)
          /\ EntriesIn(data, pos, pos + remaining, ne, expected, 0)
          /\ BlocksIn(data, pos + remaining, Len(data), nd, expected, ne)
    BY DEF WalkInv, EntriesAreCounted
  <1>3. pos \in Nat /\ pos + remaining = pos /\ Len(data) = pos
    BY <1>1 DEF WalkInv, WalkPlace
  <1>4. ne = 0
    <2>1. EntriesIn(data, pos, pos, ne, expected, 0)
      BY <1>2, <1>3
    <2> QED BY <1>3, <2>1, NoRoomNoEntries
  <1>5. nd = 0
    <2>1. BlocksIn(data, pos, pos, nd, expected, ne)
      BY <1>2, <1>3
    <2> QED BY <1>3, <2>1, NoRoomNoBlocks
  <1>6. /\ IsSeq(<<>>) /\ Len(<<>>) = 0
    <2>1. <<>> \in Seq({})
      OBVIOUS
    <2> QED BY <2>1 DEF IsSeq
  <1>7. BlocksIn(buffer', 0, Len(buffer'), 0, expected', 0 + nb)
    <2>1. BlocksIn(<<>>, 0, 0, 0, expected, 0 + nb)
      BY <1>6, NoBlocks
    <2> QED BY <1>1, <1>6, <2>1
  <1>8. IsSeq(buffer) /\ IsSeq(expected) /\ Len(buffer) \in Nat
        /\ Len(expected) \in Nat
    BY DEF WalkInv, IsSeq
  <1>9. EntriesIn(data', pos', pos' + remaining', 0, expected', 0)
    <2>1. EntriesIn(buffer, 0, 0, 0, expected, 0)
      BY <1>8, NoEntries
    <2> QED BY <1>1, <2>1
  <1>10. BlocksIn(data', pos' + remaining', Len(data'), nb, expected', 0)
    <2>1. BlocksIn(buffer, 0, Len(buffer), nb, expected, 0)
      BY <1>2, <1>4, <1>5
    <2>2. pos' + remaining' = 0
      BY <1>1
    <2> QED BY <1>1, <2>1, <2>2
  <1>14. EntriesIn(published, 0, Len(published), np, expected', 0 + nb + 0)
    <2>1. ne + nd + nb = 0 + nb + 0
      BY <1>4, <1>5
    <2> QED BY <1>1, <1>2, <2>1
  <1>11. WalkPlace'
    BY <1>1, <1>8 DEF WalkPlace
  <1>12. Len(expected') = np + 0 + 0 + nb
    BY <1>1, <1>2, <1>4, <1>5
  <1>13. Len(expected') <= Len(expected) /\ 0 \in Nat
    BY <1>1, <1>8
  <1> QED BY <1>1, <1>2, <1>6, <1>7, <1>8, <1>9, <1>10, <1>11, <1>12, <1>13, <1>14, WalkStep

LEMMA NextBlockPreserves == WalkInv /\ NextBlock => WalkInv'
  <1> SUFFICES ASSUME WalkInv, NextBlock PROVE WalkInv'
    OBVIOUS
  <1>1. /\ sState = "block" /\ published' = published /\ buffer' = buffer
        /\ expected' = expected /\ pState' = pState
    BY DEF NextBlock, logVars
  <1>2. PICK np, nb, ne, nd \in Nat :
          /\ Len(expected) = np + nb + ne + nd
          /\ EntriesIn(published, 0, Len(published), np, expected, ne + nd + nb)
          /\ BlocksIn(buffer, 0, Len(buffer), nb, expected, ne + nd)
          /\ EntriesIn(data, pos, pos + remaining, ne, expected, 0)
          /\ BlocksIn(data, pos + remaining, Len(data), nd, expected, ne)
    BY DEF WalkInv, EntriesAreCounted
  <1>3. /\ pos \in Nat /\ bufLen \in Nat /\ pos + remaining = pos
        /\ pos + bufLen = Len(data)
        /\ IsSeq(data) /\ IsSeq(buffer) /\ IsSeq(expected)
        /\ WalkPlace
    BY <1>1 DEF WalkInv, WalkPlace
  <1>4. ne = 0
    <2>1. EntriesIn(data, pos, pos, ne, expected, 0)
      BY <1>2, <1>3
    <2> QED BY <1>3, <2>1, NoRoomNoEntries
  <1>5. BlocksIn(data, pos, Len(data), nd, expected, 0)
    BY <1>2, <1>3, <1>4
  <1>6. Len(expected) \in Nat /\ Len(expected') <= Len(expected)
    BY <1>1, <1>3 DEF IsSeq
  <1>7. CASE bufLen > 0
    <2> DEFINE size == data[pos + 1][2]
               next == pos + ThreadCheckPointSize + size
    <2>1. pos < Len(data)
      BY <1>3, <1>7
    <2>2. /\ data[pos + 1][1] = "checkpoint" /\ size \in Nat
          /\ next <= Len(data)
          /\ \E p \in 0..nd :
                /\ EntriesIn(data, pos + ThreadCheckPointSize, next, p,
                             expected, 0)
                /\ BlocksIn(data, next, Len(data), nd - p, expected, 0 + p)
      BY <1>3, <1>5, <2>1, FirstBlock
    <2>3. PICK p \in 0..nd :
                /\ EntriesIn(data, pos + ThreadCheckPointSize, next, p,
                             expected, 0)
                /\ BlocksIn(data, next, Len(data), nd - p, expected, 0 + p)
      BY <2>2
    <2>4. CheckPointAt(pos) = size
      <3>1. Cell(pos) = data[pos + 1]
        BY <1>3, <1>7, CellInData
      <3> QED BY <2>2, <3>1 DEF CheckPointAt
    <2>5. /\ remaining' = size /\ sState' = "entry" /\ data' = data
          /\ bufLen' = bufLen - (size + ThreadCheckPointSize)
          /\ pos' = pos + ThreadCheckPointSize
      BY <1>7, <2>4 DEF NextBlock
    <2>6. ThreadCheckPointSize \in Nat
      BY RecordAssumption
    <2> HIDE DEF size
    <2>7. pos' + remaining' = next
      BY <2>5
    <2>8. /\ EntriesIn(data', pos', pos' + remaining', p, expected', 0)
          /\ BlocksIn(data', pos' + remaining', Len(data'), nd - p, expected', p)
      <3>1. 0 + p = p
        OBVIOUS
      <3> QED BY <1>1, <2>3, <2>5, <2>7, <3>1
    <2>11. /\ BlocksIn(buffer', 0, Len(buffer'), nb, expected', p + (nd - p))
           /\ EntriesIn(published, 0, Len(published), np, expected',
                        p + (nd - p) + nb)
      <3>1. p + (nd - p) = ne + nd
        BY <1>2, <1>4
      <3> QED BY <1>1, <1>2, <3>1
    <2>9. WalkPlace'
      <3>1. /\ bufLen' = Len(data) - next /\ bufLen' \in Nat
            /\ Len(data') = Len(data)
        BY <1>3, <2>2, <2>5, <2>6
      <3>2. pos' + remaining' + bufLen' = Len(data')
        <4>1. next \in Nat /\ Len(data) \in Nat
          BY <1>3, <2>2, <2>6
        <4> HIDE DEF next
        <4> QED BY <2>7, <3>1, <4>1
      <3>3. pos' \in Nat /\ remaining' \in Nat
        BY <1>3, <2>2, <2>5, <2>6
      <3> QED BY <2>5, <3>1, <3>2, <3>3 DEF WalkPlace
    <2> HIDE DEF next
    <2>10. Len(expected') = np + nb + p + (nd - p) /\ nd - p \in Nat /\ p \in Nat
      BY <1>1, <1>2, <1>4
    <2> QED BY <1>1, <1>2, <1>3, <1>6, <2>5, <2>8, <2>9, <2>10, <2>11, WalkStep
  <1>8. CASE ~(bufLen > 0)
    <2>1. /\ sState' = "idle" /\ data' = <<>> /\ pos' = 0 /\ remaining' = 0
          /\ bufLen' = 0
      BY <1>8 DEF NextBlock, WalkEnds
    <2>2. nd = 0
      <3>1. Len(data) = pos
        BY <1>3, <1>8
      <3>2. BlocksIn(data, pos, pos, nd, expected, ne)
        BY <1>4, <1>5, <3>1
      <3> QED BY <1>3, <3>2, NoRoomNoBlocks
    <2>3. /\ IsSeq(<<>>) /\ Len(<<>>) = 0
      <3>1. <<>> \in Seq({})
        OBVIOUS
      <3> QED BY <3>1 DEF IsSeq
    <2>4. EntriesIn(<<>>, 0, 0, 0, expected, 0) /\ BlocksIn(<<>>, 0, 0, 0, expected, 0)
      BY <2>3, NoEntries, NoBlocks
    <2>5. /\ EntriesIn(data', pos', pos' + remaining', 0, expected', 0)
          /\ BlocksIn(data', pos' + remaining', Len(data'), 0, expected', 0)
      BY <1>1, <2>1, <2>3, <2>4
    <2>9. /\ BlocksIn(buffer', 0, Len(buffer'), nb, expected', 0 + 0)
          /\ EntriesIn(published, 0, Len(published), np, expected', 0 + 0 + nb)
      <3>1. ne + nd = 0 + 0
        BY <1>4, <2>2
      <3> QED BY <1>1, <1>2, <3>1
    <2>6. WalkPlace'
      BY <2>1, <2>3 DEF WalkPlace
    <2>7. Len(expected') = np + nb + 0 + 0
      BY <1>1, <1>2, <1>4, <2>2
    <2>8. IsSeq(data') /\ 0 \in Nat
      BY <2>1, <2>3
    <2> QED BY <1>1, <1>2, <1>3, <1>6, <2>5, <2>6, <2>7, <2>8, <2>9, WalkStep
  <1> QED BY <1>7, <1>8

\* A step that leaves the bytes, the place and the calls alone.
LEMMA WalkStays ==
    ASSUME WalkInv, UNCHANGED <<published, buffer, data, pos, remaining, bufLen,
                                expected>>,
           WalkPlace', PendingBound'
    PROVE  WalkInv'
  BY DEF WalkInv, EntriesAreCounted

LEMMA NextEntryPreserves ==
    WalkInv /\ (NextEntry \/ Formator \/ FormatorEnds) => WalkInv'
  <1> SUFFICES ASSUME WalkInv, NextEntry \/ Formator \/ FormatorEnds
               PROVE  WalkInv'
    OBVIOUS
  <1>1. /\ UNCHANGED <<published, buffer, data, pos, remaining, bufLen, expected>>
        /\ pState' = pState
    BY DEF NextEntry, Formator, FormatorEnds, logVars
  <1>2. PendingBound'
    BY <1>1 DEF WalkInv, PendingBound
  <1>3. WalkPlace
    BY DEF WalkInv
  <1>4. WalkPlace'
    <2>1. CASE NextEntry
      BY ONLY <1>1, <1>3, <2>1 DEF NextEntry, WalkPlace
    <2>2. CASE Formator
      BY <1>1, <1>3, <2>2 DEF Formator, WalkPlace
    <2>3. CASE FormatorEnds
      BY <1>1, <1>3, <2>3 DEF FormatorEnds, WalkPlace
    <2> QED BY <2>1, <2>2, <2>3
  <1> QED BY <1>1, <1>2, <1>4, WalkStays

\* entrySize leads to the next entry of the block.
LEMMA EntryDonePreserves == WalkInv /\ EntryDone => WalkInv'
  <1> SUFFICES ASSUME WalkInv, EntryDone PROVE WalkInv'
    OBVIOUS
  <1> DEFINE size == data[pos + 1][2].entrySize
  <1>1. /\ sState = "entryDone" /\ sState' = "entry"
        /\ pos' = pos + EntryAt(pos).entrySize
        /\ remaining' = remaining - EntryAt(pos).entrySize
        /\ expected' = Tail(expected) /\ data' = data /\ bufLen' = bufLen
        /\ published' = published /\ buffer' = buffer /\ pState' = pState
    BY DEF EntryDone, logVars
  <1>2. PICK np, nb, ne, nd \in Nat :
          /\ Len(expected) = np + nb + ne + nd
          /\ EntriesIn(published, 0, Len(published), np, expected, ne + nd + nb)
          /\ BlocksIn(buffer, 0, Len(buffer), nb, expected, ne + nd)
          /\ EntriesIn(data, pos, pos + remaining, ne, expected, 0)
          /\ BlocksIn(data, pos + remaining, Len(data), nd, expected, ne)
    BY DEF WalkInv, EntriesAreCounted
  <1>3. /\ pos \in Nat /\ remaining \in Nat /\ remaining > 0 /\ bufLen \in Nat
        /\ pos + remaining + bufLen = Len(data) /\ WalkPlace
        /\ IsSeq(data) /\ IsSeq(buffer) /\ IsSeq(expected)
    BY <1>1 DEF WalkInv, WalkPlace
  <1>4. pos < pos + remaining
    BY <1>3
  <1>5. /\ size \in Nat \ {0} /\ pos + size <= pos + remaining
        /\ ne - 1 \in Nat
        /\ EntriesIn(data, pos + size, pos + remaining, ne - 1, expected, 0 + 1)
    BY <1>2, <1>3, <1>4, FirstEntry
  <1>6. EntryAt(pos).entrySize = size
    <2>1. Cell(pos) = data[pos + 1]
      BY <1>3, CellInData
    <2> QED BY <2>1 DEF EntryAt
  <1> HIDE DEF size
  <1>7. /\ pos' = pos + size /\ remaining' = remaining - size
        /\ pos' \in Nat /\ remaining' \in Nat
        /\ pos' + remaining' = pos + remaining
    BY <1>1, <1>3, <1>5, <1>6
  <1>8. WalkPlace'
    BY <1>1, <1>3, <1>7 DEF WalkPlace
  <1>9. /\ IsSeq(Tail(expected)) /\ Len(Tail(expected)) = Len(expected) - 1
        /\ Len(expected) \in Nat
        /\ \A i \in 1..(Len(expected) - 1) : Tail(expected)[i] = expected[i + 1]
    <2>1. PICK S : expected \in Seq(S)
      BY <1>3 DEF IsSeq
    <2>2. Len(expected) \in Nat
      BY <2>1
    <2>3. Len(expected) # 0
      BY <1>2, <1>5, <2>2
    <2>4. expected # <<>>
      BY <2>3
    <2>5. Tail(expected) \in Seq(S) /\ Len(Tail(expected)) = Len(expected) - 1
      BY <2>1, <2>4
    <2>6. \A i \in 1..(Len(expected) - 1) : Tail(expected)[i] = expected[i + 1]
      BY <2>1, <2>4, HeadTailProperties
    <2> QED BY <2>2, <2>5, <2>6 DEF IsSeq
  <1> DEFINE xs == Tail(expected)
  <1>10. expected' = xs
    BY <1>1
  <1> HIDE DEF xs
  <1>11. /\ Len(expected') = np + nb + (ne - 1) + nd
         /\ Len(expected') <= Len(expected)
    BY <1>2, <1>5, <1>9, <1>10 DEF xs
  <1>12. /\ 0 \in Nat /\ 0 + 1 \in Nat /\ ne \in Nat /\ ne + nd \in Nat
         /\ ne + nd + nb \in Nat
         /\ (ne - 1) + nd \in Nat /\ (ne - 1) + nd + nb \in Nat
    BY <1>5
  <1>13. \A i \in 1..(Len(expected) - 1) : xs[i] = expected[i + 1]
    BY <1>9 DEF xs
  <1>14. EntriesIn(data, pos + size, pos + remaining, ne - 1, xs, 0)
    <2>1. ASSUME NEW i \in 1..(ne - 1)
          PROVE  xs[0 + i] = expected[(0 + 1) + i]
      <3>1. 0 + i = i /\ (0 + 1) + i = i + 1 /\ i \in 1..(Len(expected) - 1)
        BY <1>2, <1>5
      <3> QED BY <1>13, <3>1, Zenon
    <2> QED BY <1>5, <1>12, <2>1, EntriesRecounted
  <1>15. BlocksIn(data, pos + remaining, Len(data), nd, xs, ne - 1)
    <2>1. \A i \in 1..nd : xs[(ne - 1) + i] = expected[ne + i]
      <3> TAKE i \in 1..nd
      <3>1. /\ (ne - 1) + i \in 1..(Len(expected) - 1)
            /\ ((ne - 1) + i) + 1 = ne + i
        BY <1>2, <1>5
      <3> QED BY <1>13, <3>1
    <2> QED BY <1>2, <1>5, <1>12, <2>1, BlocksRecounted
  <1>16. BlocksIn(buffer, 0, Len(buffer), nb, xs, (ne - 1) + nd)
    <2>1. \A i \in 1..nb : xs[((ne - 1) + nd) + i] = expected[(ne + nd) + i]
      <3> TAKE i \in 1..nb
      <3>1. /\ ((ne - 1) + nd) + i \in 1..(Len(expected) - 1)
            /\ (((ne - 1) + nd) + i) + 1 = (ne + nd) + i
        BY <1>2, <1>5
      <3> QED BY <1>13, <3>1
    <2> QED BY <1>2, <1>12, <2>1, BlocksRecounted
  <1>17. EntriesIn(published, 0, Len(published), np, xs, (ne - 1) + nd + nb)
    <2>1. \A i \in 1..np :
             xs[((ne - 1) + nd + nb) + i] = expected[(ne + nd + nb) + i]
      <3> TAKE i \in 1..np
      <3>1. /\ ((ne - 1) + nd + nb) + i \in 1..(Len(expected) - 1)
            /\ (((ne - 1) + nd + nb) + i) + 1 = (ne + nd + nb) + i
        BY <1>2, <1>5
      <3> QED BY <1>13, <3>1
    <2> QED BY <1>2, <1>12, <2>1, EntriesRecounted
  <1>18. /\ EntriesIn(data', pos', pos' + remaining', ne - 1, expected', 0)
         /\ BlocksIn(data', pos' + remaining', Len(data'), nd, expected', ne - 1)
         /\ BlocksIn(buffer', 0, Len(buffer'), nb, expected', (ne - 1) + nd)
         /\ EntriesIn(published, 0, Len(published), np, expected',
                      (ne - 1) + nd + nb)
    BY <1>1, <1>7, <1>10, <1>14, <1>15, <1>16, <1>17
  <1>19. IsSeq(expected') /\ IsSeq(data') /\ IsSeq(buffer')
    BY <1>1, <1>3, <1>9
  <1> QED BY <1>1, <1>2, <1>5, <1>8, <1>11, <1>18, <1>19, WalkStep

LEMMA WalkInvInit == Init => WalkInv
  <1> SUFFICES ASSUME Init PROVE WalkInv
    OBVIOUS
  <1>1. /\ IsSeq(<<>>) /\ Len(<<>>) = 0
    <2>1. <<>> \in Seq({})
      OBVIOUS
    <2> QED BY <2>1 DEF IsSeq
  <1>2. EntriesIn(<<>>, 0, 0, 0, expected, 0) /\ BlocksIn(<<>>, 0, 0, 0, expected, 0)
    BY <1>1, NoEntries, NoBlocks
  <1>3. /\ published = <<>> /\ buffer = <<>> /\ data = <<>> /\ expected = <<>>
        /\ pos = 0 /\ remaining = 0 /\ bufLen = 0 /\ sState = "idle"
        /\ pState = "idle"
    BY DEF Init
  <1>4. EntriesAreCounted
    <2>1. /\ Len(expected) = 0 + 0 + 0 + 0 /\ pos + remaining = 0 /\ 0 \in Nat
          /\ 0 + 0 = 0 /\ 0 + 0 + 0 = 0
      BY <1>1, <1>3
    <2>2. /\ EntriesIn(published, 0, Len(published), 0, expected, 0 + 0 + 0)
          /\ BlocksIn(buffer, 0, Len(buffer), 0, expected, 0 + 0)
          /\ EntriesIn(data, pos, pos + remaining, 0, expected, 0)
          /\ BlocksIn(data, pos + remaining, Len(data), 0, expected, 0)
      BY <1>1, <1>2, <1>3, <2>1
    <2> QED BY <2>1, <2>2 DEF EntriesAreCounted
  <1>5. WalkPlace /\ PendingBound
    BY <1>1, <1>3, RecordAssumption DEF WalkPlace, PendingBound
  <1> QED BY <1>1, <1>3, <1>4, <1>5 DEF WalkInv

LEMMA WalkInvStep == RecordInv /\ WalkInv /\ [Next]_vars => WalkInv'
  <1> SUFFICES ASSUME RecordInv, WalkInv, [Next]_vars PROVE WalkInv'
    OBVIOUS
  <1>1. ASSUME UNCHANGED <<published, buffer, sinkVars, expected>>,
               pState # "idle" \/ Len(expected) < MaxPending \/ pState' = "idle"
        PROVE  WalkInv'
    <2>1. UNCHANGED <<published, buffer, data, pos, remaining, bufLen, expected>>
          /\ sState' = sState
      BY <1>1 DEF sinkVars
    <2>2. WalkPlace' /\ PendingBound'
      BY <1>1, <2>1 DEF WalkInv, WalkPlace, PendingBound
    <2> QED BY <2>1, <2>2, WalkStays
  <1>2. ASSUME NEW c, NEW a, Measure(c, a) PROVE WalkInv'
    BY <1>1, <1>2 DEF Measure
  <1>3. ASSUME NEW a, pState = "measured", BeginDump(a) PROVE WalkInv'
    BY ONLY <1>1, <1>3 DEF BeginDump
  <1>4. CASE StoreArgs
    BY <1>1, <1>4 DEF StoreArgs
  <1>5. CASE Finish \/ LogOversize
    BY <1>5, FinishPreserves, LogOversizePreserves
  <1>6. CASE AppendBlock
    BY <1>6, AppendBlockPreserves
  <1>7. CASE Sink
    BY <1>7, TakeBufferPreserves, NextBlockPreserves, NextEntryPreserves,
       EntryDonePreserves DEF Sink
  <1>8. ASSUME UNCHANGED logVars, UNCHANGED <<published, buffer, sinkVars, expected>>
        PROVE  WalkInv'
    BY <1>1, <1>8 DEF logVars
  <1>9. ASSUME NEW level, SetLogLevel(level) PROVE WalkInv'
    BY <1>8, <1>9 DEF SetLogLevel
  <1>10. CASE UNCHANGED vars
    BY <1>8, <1>10 DEF vars
  <1> QED BY <1>2, <1>3, <1>4, <1>5, <1>6, <1>7, <1>9, <1>10 DEF Next, Log

LEMMA LogRecordInv == Spec => [](RecordInv /\ WalkInv)
  <1>1. RecordInv /\ WalkInv /\ [Next]_vars => RecordInv' /\ WalkInv'
    BY RecordInvStep, WalkInvStep
  <1> QED BY <1>1, RecordInvInit, WalkInvInit, PTL DEF Spec

\* An entry is as long as its reservation, and the walk's counters stay in
\* range: the sink never takes more entries than were logged.
THEOREM TypeCorrect == Spec => []TypeOK
  <1>1. RecordInv /\ WalkInv => TypeOK
    <2> SUFFICES ASSUME RecordInv, WalkInv PROVE TypeOK
      OBVIOUS
    <2>1. Len(expected) \in Nat
      BY DEF WalkInv, IsSeq
    <2>2. Len(expected) \in 0..MaxPending
      BY <2>1, RecordAssumption DEF WalkInv, PendingBound
    <2>3. pos >= 0 /\ remaining >= 0 /\ bufLen >= 0
      BY DEF WalkInv, WalkPlace
    <2> QED BY <2>2, <2>3 DEF TypeOK, RecordInv, Dumping
  <1> QED BY <1>1, LogRecordInv, PTL

\* The sink's walk, which knows only sizes written by two other threads,
\* lands on a check point or an entry with every step and ends with the
\* buffer, for every mix of calls, sizes and interleavings.
THEOREM WalkStaysOnEntries == Spec => []WalkLandsOnEntries
  <1>1. RecordInv /\ WalkInv => WalkLandsOnEntries
    BY WalkLands
  <1> QED BY <1>1, LogRecordInv, PTL

-----------------------------------------------------------------------------
(* What the sink prints                                                    *)

\* A call that was logged whole, whose entry is the one the sink is at.
Logged(c, a, sizes) ==
    /\ c \in Call /\ a \in values[c] /\ MeasuredFor(c, sizes)
    /\ expected[1] = <<c, Direct(c, a, sizes)>>
    /\ EntryAt(pos).fmtId = c /\ EntryAt(pos).status = "NORMAL"

\* Its bytes e lie where the sink is.
Lies(e) ==
    /\ pos + Len(e) <= Len(data)
    /\ \A j \in 1..Len(e) : Cell(pos + (j - 1)) = e[j]

LogLies(c, a, sizes, e) ==
    /\ Logged(c, a, sizes)
    /\ IsSeq(e) /\ Lies(e)
    /\ Len(e) = OneLogEntrySize + kArgsSize(c) + SumOfFirst(sizes, Len(sizes))
    /\ \A k \in 1..Len(SIs[c]) : ArgsStored(e, c, a, sizes, k)

ReportLies ==
    /\ EntryAt(pos).status = "ILLEGAL_ARGS_SIZE"
    /\ expected[1] =
         <<EntryAt(pos).fmtId, <<[shown |-> Cell(pos + OneLogEntrySize)[2]]>>>>

SomeLogLies == \E c, a, sizes, e : LogLies(c, a, sizes, e)

\* The entry the sink is at is that of the oldest call not yet formatted.
LEMMA EntryWalked ==
    ASSUME WalkInv, remaining > 0
    PROVE  /\ Len(expected) \in Nat \ {0}
           /\ SomeLogLies \/ ReportLies
  <1>1. PICK np, nb, ne, nd \in Nat :
          /\ Len(expected) = np + nb + ne + nd
          /\ EntriesIn(data, pos, pos + remaining, ne, expected, 0)
    BY DEF WalkInv, EntriesAreCounted
  <1>2. /\ pos \in Nat /\ remaining \in Nat /\ bufLen \in Nat
        /\ pos + remaining + bufLen = Len(data) /\ IsSeq(data) /\ WalkPlace
    BY DEF WalkInv, WalkPlace
  <1>3. pos < pos + remaining /\ 0 \in Nat
    BY <1>2
  <1>4. /\ data[pos + 1][2].entrySize \in Nat \ {0}
        /\ pos + data[pos + 1][2].entrySize <= pos + remaining
        /\ ne - 1 \in Nat
        /\ Holds(data, pos, expected[0 + 1])
    BY <1>1, <1>2, <1>3, FirstEntry
  <1>5. Len(expected) \in Nat \ {0}
    BY <1>1, <1>4
  <1>6. PICK e : EntryOf(e, expected[1]) /\ CellsAre(data, pos, e)
    <2>1. 0 + 1 = 1
      OBVIOUS
    <2> QED BY <1>4, <2>1 DEF Holds
  <1>7. /\ Len(e) \in Nat \ {0} /\ 1 \in 1..Len(e)
        /\ e[1][1] = "header" /\ e[1][2].entrySize = Len(e)
    BY <1>6, EntryOfSize
  <1>8. \A j \in 1..Len(e) : data[pos + j] = e[j]
    BY <1>6 DEF CellsAre
  <1>9. pos + Len(e) <= Len(data)
    <2>1. data[pos + 1] = e[1]
      BY <1>7, <1>8
    <2> QED BY <1>2, <1>4, <1>7, <2>1
  <1>10. ASSUME NEW j \in 1..Len(e) PROVE Cell(pos + (j - 1)) = e[j]
    <2>1. pos + (j - 1) < Len(data) /\ (pos + (j - 1)) + 1 = pos + j
      BY <1>2, <1>7, <1>9
    <2> QED BY <1>8, <2>1 DEF Cell
  <1>11. IsSeq(e) /\ Lies(e)
    BY <1>6, <1>9, <1>10 DEF EntryOf, Lies
  <1>12. Cell(pos) = e[1] /\ EntryAt(pos) = e[1][2]
    <2>1. pos + (1 - 1) = pos
      BY <1>2
    <2> QED BY <1>7, <1>10, <2>1 DEF EntryAt
  <1>13. CASE LoggedEntry(e, expected[1])
    <2>3. PICK c \in Call :
            \E a \in values[c] : \E sizes :
              /\ MeasuredFor(c, sizes)
              /\ expected[1] = <<c, Direct(c, a, sizes)>>
              /\ e[1] = <<"header", [fmtId |-> c, entrySize |-> Len(e),
                                    status |-> "NORMAL"]>>
              /\ Len(e) = OneLogEntrySize + kArgsSize(c)
                            + SumOfFirst(sizes, Len(sizes))
              /\ \A k \in 1..Len(SIs[c]) : ArgsStored(e, c, a, sizes, k)
      BY <1>13 DEF LoggedEntry
    <2>4. PICK a \in values[c] :
            \E sizes :
              /\ MeasuredFor(c, sizes)
              /\ expected[1] = <<c, Direct(c, a, sizes)>>
              /\ e[1] = <<"header", [fmtId |-> c, entrySize |-> Len(e),
                                    status |-> "NORMAL"]>>
              /\ Len(e) = OneLogEntrySize + kArgsSize(c)
                            + SumOfFirst(sizes, Len(sizes))
              /\ \A k \in 1..Len(SIs[c]) : ArgsStored(e, c, a, sizes, k)
      BY <2>3
    <2>1. PICK sizes :
            /\ MeasuredFor(c, sizes)
            /\ expected[1] = <<c, Direct(c, a, sizes)>>
            /\ e[1] = <<"header", [fmtId |-> c, entrySize |-> Len(e),
                                  status |-> "NORMAL"]>>
            /\ Len(e) = OneLogEntrySize + kArgsSize(c)
                          + SumOfFirst(sizes, Len(sizes))
            /\ \A k \in 1..Len(SIs[c]) : ArgsStored(e, c, a, sizes, k)
      BY <2>4
    <2>2. EntryAt(pos).fmtId = c /\ EntryAt(pos).status = "NORMAL"
      BY <1>12, <2>1
    <2> QED BY <1>5, <1>11, <2>1, <2>2 DEF SomeLogLies, LogLies, Logged
  <1>14. CASE OversizeReport(e, expected[1])
    <2>1. PICK c, v :
            /\ expected[1] = <<c, <<[shown |-> v]>>>>
            /\ e[1] = <<"header", [fmtId |-> c, entrySize |-> Len(e),
                                  status |-> "ILLEGAL_ARGS_SIZE"]>>
            /\ OneLogEntrySize < Len(e)
            /\ e[OneLogEntrySize + 1] = <<"raw", v>>
      BY <1>14 DEF OversizeReport
    <2>2. EntryAt(pos).fmtId = c /\ EntryAt(pos).status = "ILLEGAL_ARGS_SIZE"
      BY <1>12, <2>1
    <2>3. /\ OneLogEntrySize + 1 \in 1..Len(e)
          /\ pos + ((OneLogEntrySize + 1) - 1) = pos + OneLogEntrySize
      BY <1>2, <1>7, <2>1, RecordAssumption
    <2>4. Cell(pos + OneLogEntrySize) = <<"raw", v>>
      BY <1>10, <2>1, <2>3
    <2> QED BY <1>5, <2>1, <2>2, <2>4 DEF ReportLies
  <1> QED BY <1>6, <1>13, <1>14 DEF EntryOf

\* The characters up to the first terminator are the text.
TextLies(at, unit, text, m) ==
    \A j \in 0..m :
        /\ at + j * unit < Len(data)
        /\ Cell(at + j * unit) =
             IF j < m THEN <<"char", text[j + 1]>> ELSE EndOfText

LEMMA TextRead ==
    ASSUME IsSeq(data), NEW at \in Nat, NEW unit \in Nat \ {0},
           NEW text \in Seq(STRING \ {"NUL"}), NEW m \in 0..Len(text),
           TextLies(at, unit, text, m)
    PROVE  TextAt(at, unit) = SubSeq(text, 1, m)
  <1> DEFINE Ends(j) == \/ at + j * unit >= Len(data)
                        \/ Cell(at + j * unit) = EndOfText
             ends == {j \in 0..Len(data) : Ends(j)}
  <1>1. /\ Len(data) \in Nat /\ Len(text) \in Nat /\ m \in Nat
        /\ \A j \in 1..Len(text) : text[j] \in STRING \ {"NUL"}
    BY DEF IsSeq
  <1>2. \A j \in Nat : j * unit \in Nat /\ j <= j * unit
    <2> TAKE j \in Nat
    <2>1. PICK d \in Nat : unit = 1 + d
      <3>1. unit - 1 \in Nat /\ unit = 1 + (unit - 1)
        OBVIOUS
      <3> QED BY <3>1
    <2>2. j * d \in Nat /\ j * unit = j + j * d
      BY <2>1
    <2> QED BY <2>2
  <1>3. ASSUME NEW j \in 0..m
        PROVE  /\ at + j * unit < Len(data)
               /\ Cell(at + j * unit) =
                    IF j < m THEN <<"char", text[j + 1]>> ELSE EndOfText
    BY DEF TextLies
  <1>4. m \in ends
    <2>1. m \in 0..m
      BY <1>1
    <2>2. m * unit \in Nat /\ m <= m * unit /\ at + m * unit < Len(data)
      BY <1>1, <1>2, <1>3, <2>1
    <2>3. m \in 0..Len(data)
      <3> DEFINE d == m * unit
      <3> HIDE DEF d
      <3>1. d \in Nat /\ m <= d /\ at + d < Len(data)
        BY <2>2 DEF d
      <3> QED BY <1>1, <3>1
    <2>4. Cell(at + m * unit) = EndOfText
      <3>1. Cell(at + m * unit) =
              IF m < m THEN <<"char", text[m + 1]>> ELSE EndOfText
        BY <1>3, <2>1, Zenon
      <3>2. ~(m < m)
        BY <1>1
      <3> QED BY <3>1, <3>2, Zenon
    <2> QED BY <2>3, <2>4
  <1>5. ASSUME NEW j \in ends, j < m PROVE FALSE
    <2>1. j \in 0..m /\ j + 1 \in 1..Len(text)
      BY <1>1, <1>5
    <2>2. at + j * unit < Len(data)
      BY <1>3, <2>1
    <2>3. Cell(at + j * unit) = <<"char", text[j + 1]>>
      BY <1>3, <1>5, <2>1
    <2>4. at + j * unit \in Int
      <3>1. j \in Nat
        BY <1>1
      <3>2. j * unit \in Nat
        BY <1>2, <3>1
      <3> QED BY <3>2
    <2>5. <<"char", text[j + 1]>> = EndOfText
      <3>1. Ends(j)
        OBVIOUS
      <3> HIDE DEF ends
      <3> QED BY <1>1, <2>2, <2>3, <2>4, <3>1
    <2>6. text[j + 1] = "NUL"
      BY <2>5 DEF EndOfText
    <2> QED BY <1>1, <2>1, <2>6
  <1>6. \A j \in ends : j \in Int /\ m <= j
    BY <1>1, <1>5
  <1> HIDE DEF ends
  <1>7. Min(ends) = m
    <2> DEFINE Least(x) == x \in ends /\ \A y \in ends : x <= y
               x == CHOOSE x : Least(x)
    <2>1. Least(m)
      BY <1>4, <1>6
    <2>2. Least(x)
      <3> HIDE DEF Least
      <3> QED BY <2>1
    <2>3. x <= m /\ m <= x /\ x \in Int
      BY <1>4, <1>6, <2>2
    <2>4. Min(ends) = x
      BY DEF Min
    <2> HIDE DEF x, Least
    <2> QED BY <1>1, <2>3, <2>4
  <1>8. TextAt(at, unit) = [j \in 1..m |-> Cell(at + (j - 1) * unit)[2]]
    BY <1>7 DEF TextAt, ends
  <1>9. ASSUME NEW j \in 1..m PROVE Cell(at + (j - 1) * unit)[2] = text[j]
    <2>1. j - 1 \in 0..m /\ j - 1 < m /\ (j - 1) + 1 = j
      BY <1>1
    <2>2. Cell(at + (j - 1) * unit) = <<"char", text[(j - 1) + 1]>>
      BY <1>3, <2>1
    <2> QED BY <2>1, <2>2
  <1>10. SubSeq(text, 1, m) = [j \in 1..m |-> text[j]]
    OBVIOUS
  <1> QED BY <1>8, <1>9, <1>10

\* The byte at a place of the entry.
LEMMA PlaceRead ==
    ASSUME WalkInv, NEW e, IsSeq(e), Lies(e), NEW p \in Nat, p + 1 <= Len(e)
    PROVE  Cell(pos + p) = e[p + 1] /\ pos + p < Len(data)
  <1>1. pos \in Nat /\ Len(e) \in Nat /\ Len(data) \in Nat
    BY DEF WalkInv, WalkPlace, IsSeq
  <1>2. p + 1 \in 1..Len(e) /\ pos + ((p + 1) - 1) = pos + p
    BY <1>1
  <1>3. Cell(pos + ((p + 1) - 1)) = e[p + 1] /\ pos + Len(e) <= Len(data)
    BY <1>2 DEF Lies
  <1> QED BY <1>1, <1>2, <1>3

\* Arguments and texts have their places inside the entry.
LEMMA LogIsLong ==
    ASSUME NEW c \in Call, NEW sizes, MeasuredFor(c, sizes)
    PROVE  /\ sizes \in Seq(Nat) /\ kArgsSize(c) \in Nat
           /\ SumOfFirst(sizes, Len(sizes)) \in Nat
           /\ \A k \in 1..Len(SIs[c]) :
                /\ SumOfFirst(sizes, StringsAmong(c, k)) \in Nat
                /\ SumOfFirst(sizes, StringsAmong(c, k))
                     <= SumOfFirst(sizes, Len(sizes))
  <1>1. PICK b \in values[c] : sizes = StrSizeArray(c, b)
    BY DEF MeasuredFor
  <1>2. sizes \in Seq(Nat) /\ Len(sizes) = StringsAmong(c, Len(SIs[c]))
    BY <1>1, StrSizeArrayProperties
  <1>3. kArgsSize(c) \in Nat
    BY ArgsSizeProperties
  <1>4. Len(SIs[c]) \in Nat
    BY LastArgProperties
  <1>5. SumOfFirst(sizes, Len(sizes)) \in Nat
    <2>1. 0 \in Nat /\ 0 <= Len(SIs[c])
      BY <1>4
    <2> QED BY <1>2, <2>1, EarlierStrings
  <1>6. ASSUME NEW k \in 1..Len(SIs[c])
        PROVE  /\ SumOfFirst(sizes, StringsAmong(c, k)) \in Nat
               /\ SumOfFirst(sizes, StringsAmong(c, k))
                    <= SumOfFirst(sizes, Len(sizes))
    <2>1. k \in Nat /\ k <= Len(SIs[c]) /\ k <= k
      BY <1>4
    <2> QED BY <1>2, <2>1, EarlierStrings
  <1> QED BY <1>2, <1>3, <1>5, <1>6

\* A width or a precision comes out as it went in.
LEMMA StarRead ==
    ASSUME WalkInv, NEW c, NEW a, NEW sizes, NEW e, LogLies(c, a, sizes, e),
           NEW k \in 1..Len(SIs[c]), NEW i \in (LastArg(c, k - 1) + 1)..(LastArg(c, k) - 1)
    PROVE  Cell(pos + ArgPlace(c, i))[2] = a[i]
  <1>1. /\ c \in Call /\ MeasuredFor(c, sizes) /\ IsSeq(e) /\ Lies(e)
        /\ Len(e) = OneLogEntrySize + kArgsSize(c) + SumOfFirst(sizes, Len(sizes))
        /\ ArgsStored(e, c, a, sizes, k)
    BY DEF LogLies, Logged
  <1>2. e[ArgPlace(c, i) + 1] = <<"raw", a[i]>>
    BY <1>1 DEF ArgsStored
  <1>3. LastArg(c, k - 1) \in Nat /\ LastArg(c, k) \in Nat
    BY <1>1, NumbersOf
  <1>4. i \in (LastArg(c, k - 1) + 1)..LastArg(c, k)
    BY <1>3
  <1>5. /\ ArgPlace(c, i) \in Nat
        /\ ArgPlace(c, i) + 1 <= OneLogEntrySize + ArgsSize(c, LastArg(c, k))
        /\ ArgsSize(c, LastArg(c, k)) \in Nat
        /\ ArgsSize(c, LastArg(c, k)) <= kArgsSize(c)
    BY <1>1, <1>4, ArgPlaces
  <1>6. kArgsSize(c) \in Nat /\ SumOfFirst(sizes, Len(sizes)) \in Nat
    BY <1>1, LogIsLong
  <1>7. ArgPlace(c, i) + 1 <= Len(e)
    BY <1>1, <1>5, <1>6, RecordAssumption
  <1>8. Cell(pos + ArgPlace(c, i)) = e[ArgPlace(c, i) + 1]
    BY <1>1, <1>5, <1>7, PlaceRead
  <1> QED BY <1>2, <1>8

\* What converter_single shows of the k-th conversion, from the caller's
\* arguments.
ShownAtOnce(c, a, sizes, k) ==
    LET spec == SIs[c][k]
        n    == LastArg(c, k)
    IN  IF IsText(spec, types[c][n])
        THEN LET measured == sizes[StringsAmong(c, k)] \div Unit(spec) - 1
             IN  <<"text", SubSeq(a[n], 1, Min({measured, Len(a[n])}))>>
        ELSE Shown(spec, types[c][n], a[n])

\* The sink shows the same, from the bytes.
LEMMA LastRead ==
    ASSUME WalkInv, NEW c, NEW a, NEW sizes, NEW e, LogLies(c, a, sizes, e),
           NEW k \in 1..Len(SIs[c])
    PROVE  Fetched(SIs[c][k], types[c][LastArg(c, k)],
                   pos + ArgPlace(c, LastArg(c, k)))
             = ShownAtOnce(c, a, sizes, k)
  <1> DEFINE n == LastArg(c, k)
             spec == SIs[c][k]
             at == ArgPlace(c, n)
             place == TextPlace(c, sizes, k)
             size == sizes[StringsAmong(c, k)]
             m == Shortened(spec, a[n], size)
  <1>1. /\ c \in Call /\ a \in values[c] /\ MeasuredFor(c, sizes)
        /\ IsSeq(e) /\ Lies(e)
        /\ Len(e) = OneLogEntrySize + kArgsSize(c) + SumOfFirst(sizes, Len(sizes))
        /\ ArgsStored(e, c, a, sizes, k)
    BY DEF LogLies, Logged
  <1>2. /\ IsText(spec, types[c][n]) =>
             /\ e[at + 1] = <<"offset", place - at>>
             /\ TextStored(e, place, spec, a[n], size)
        /\ ~IsText(spec, types[c][n]) => e[at + 1] = <<"raw", a[n]>>
    BY <1>1 DEF ArgsStored
  <1>3. kArgsSize(c) \in Nat /\ SumOfFirst(sizes, Len(sizes)) \in Nat
    BY <1>1, LogIsLong
  <1>4. at \in Nat /\ at + 1 <= Len(e)
    <2>1. LastArg(c, k - 1) \in Nat /\ n \in Nat /\ LastArg(c, k - 1) < n
      BY <1>1, NumbersOf
    <2>2. n \in (LastArg(c, k - 1) + 1)..LastArg(c, k)
      BY <2>1
    <2>3. /\ ArgPlace(c, n) \in Nat
          /\ ArgPlace(c, n) + 1 <= OneLogEntrySize + ArgsSize(c, LastArg(c, k))
          /\ ArgsSize(c, LastArg(c, k)) \in Nat
          /\ ArgsSize(c, LastArg(c, k)) <= kArgsSize(c)
      BY <1>1, <2>2, ArgPlaces
    <2> HIDE DEF n
    <2> QED BY <1>1, <1>3, <2>3, RecordAssumption
  <1>5. Cell(pos + at) = e[at + 1]
    <2> HIDE DEF at
    <2> QED BY <1>1, <1>4, PlaceRead
  <1>6. pos \in Nat /\ IsSeq(data) /\ Len(data) \in Nat
    BY DEF WalkInv, WalkPlace, IsSeq
  <1>7. CASE IsText(spec, types[c][n])
    <2>1. /\ place \in Nat
          /\ place + size = OneLogEntrySize + kArgsSize(c)
                              + SumOfFirst(sizes, StringsAmong(c, k))
          /\ StringsAmong(c, k) \in 1..Len(sizes) /\ sizes \in Seq(Nat)
          /\ \E q \in Nat : size = (q + 1) * Unit(spec)
      BY <1>1, <1>7, TextPlaces
    <2>2. PICK q \in Nat : size = (q + 1) * Unit(spec)
      BY <2>1
    <2>3. size \in Nat
      BY <2>1
    <2>4. place + size <= Len(e)
      <3>1. /\ SumOfFirst(sizes, StringsAmong(c, k)) \in Nat
            /\ SumOfFirst(sizes, StringsAmong(c, k))
                 <= SumOfFirst(sizes, Len(sizes))
        BY <1>1, LogIsLong
      <3> HIDE DEF place, size
      <3> QED BY <1>1, <1>3, <2>1, <3>1, RecordAssumption
    <2>5. Len(a[n]) \in Nat /\ a[n] \in Seq(STRING \ {"NUL"})
      BY <1>1, <1>7, TextArgument
    <2> DEFINE text == a[n]
    <2>6. Len(text) \in Nat /\ text \in Seq(STRING \ {"NUL"})
      BY <2>5
    <2>7. /\ TextStored(e, place, spec, text, size)
          /\ e[at + 1] = <<"offset", place - at>>
      BY <1>2, <1>7
    <2>8. m = Shortened(spec, text, size)
      OBVIOUS
    <2> HIDE DEF n, spec, at, place, size, text, m
    <2>9. m \in 0..Len(text) /\ Unit(spec) \in Nat \ {0} /\ m \in Nat
      <3>1. /\ Shortened(spec, text, size) = Min({size \div Unit(spec) - 1, Len(text)})
        BY DEF Shortened
      <3>2. Unit(spec) \in Nat \ {0}
        BY RecordAssumption DEF Unit
      <3>3. size \div Unit(spec) - 1 = q
        BY <2>2, <3>2, MeasuredLength
      <3>4. m = IF q <= Len(text) THEN q ELSE Len(text)
        BY <2>6, <2>8, <3>1, <3>3, MinOfTwo
      <3> QED BY <2>6, <3>2, <3>4
    <2>10. ASSUME NEW j \in 0..m
           PROVE  /\ (pos + place) + j * Unit(spec) < Len(data)
                  /\ Cell((pos + place) + j * Unit(spec)) =
                       IF j < m THEN <<"char", text[j + 1]>> ELSE EndOfText
      <3> DEFINE d == j * Unit(spec)
      <3>1. /\ d \in Nat /\ d + Unit(spec) <= size
        BY <2>2, <2>6, <2>8, TextInside
      <3>2. e[place + d + 1] = IF j < m THEN <<"char", text[j + 1]>> ELSE EndOfText
        BY <2>7, <2>8 DEF TextStored
      <3> HIDE DEF d
      <3>3. place + d \in Nat /\ (place + d) + 1 <= Len(e)
            /\ (pos + place) + d = pos + (place + d)
        <4>1. Len(e) \in Nat
          BY <1>1 DEF IsSeq
        <4>2. place \in Nat /\ pos \in Nat /\ size \in Nat
          BY <1>6, <2>1, <2>3
        <4>3. Unit(spec) \in Nat \ {0}
          BY <2>9
        <4> QED BY <2>4, <3>1, <4>1, <4>2, <4>3
      <3>4. Cell(pos + (place + d)) = e[(place + d) + 1]
            /\ pos + (place + d) < Len(data)
        BY <1>1, <3>3, PlaceRead
      <3>5. /\ (pos + place) + d < Len(data)
            /\ Cell((pos + place) + d) =
                 IF j < m THEN <<"char", text[j + 1]>> ELSE EndOfText
        BY <3>2, <3>3, <3>4
      <3> QED BY <3>5 DEF d
    <2>11. TextLies(pos + place, Unit(spec), text, m)
      BY <2>10 DEF TextLies
    <2>12. TextAt(pos + place, Unit(spec)) = SubSeq(text, 1, m)
      <3>1. pos + place \in Nat
        BY <1>6, <2>1
      <3> QED BY <1>6, <2>6, <2>9, <2>11, <3>1, TextRead
    <2>13. Cell(pos + at)[1] = "offset" /\ (pos + at) + Cell(pos + at)[2] = pos + place
      <3>1. Cell(pos + at) = <<"offset", place - at>>
        BY <1>5, <2>7, Zenon
      <3>2. Cell(pos + at)[1] = "offset" /\ Cell(pos + at)[2] = place - at
        BY <3>1
      <3>3. pos \in Nat /\ at \in Nat /\ place \in Nat
        BY <1>4, <1>6, <2>1
      <3>4. (pos + at) + (place - at) = pos + place
        BY <3>3
      <3> QED BY <3>2, <3>4
    <2>14. Fetched(spec, types[c][n], pos + at) = <<"text", SubSeq(text, 1, m)>>
      BY <1>7, <2>12, <2>13 DEF Fetched
    <2>15. ShownAtOnce(c, a, sizes, k) = <<"text", SubSeq(text, 1, m)>>
      BY <1>7, <2>8 DEF ShownAtOnce, Shortened, n, spec, size, text
    <2> QED BY <2>14, <2>15 DEF n, spec, at
  <1>8. CASE ~IsText(spec, types[c][n])
    <2>1. Cell(pos + at)[2] = a[n]
      BY <1>2, <1>5, <1>8
    <2> HIDE DEF at, n, spec
    <2>2. Fetched(spec, types[c][n], pos + at) = Shown(spec, types[c][n], a[n])
      BY <1>8, <2>1 DEF Fetched
    <2>3. ShownAtOnce(c, a, sizes, k) = Shown(spec, types[c][n], a[n])
      BY <1>8 DEF ShownAtOnce, n, spec
    <2> QED BY <2>2, <2>3 DEF n, spec, at
  <1> QED BY <1>7, <1>8

\* What formator appends for a conversion whose first argument is the t-th,
\* each argument being where it was stored.
Printed(c, spec, t) ==
    LET last == t + ArgsTaken(spec) - 1
        both == spec.width = DYNAMIC /\ spec.prec = DYNAMIC
        w == IF both /\ ~spec.wFirst THEN t + 1 ELSE t
        p == IF both /\ spec.wFirst THEN t + 1 ELSE t
    IN  [width |-> IF spec.width # DYNAMIC THEN spec.width
                   ELSE Width(types[c][w], Cell(pos + ArgPlace(c, w))[2]),
         prec  |-> IF spec.prec # DYNAMIC THEN spec.prec
                   ELSE Precision(types[c][p], Cell(pos + ArgPlace(c, p))[2]),
         shown |-> Fetched(spec, types[c][last], pos + ArgPlace(c, last))]

\* The arguments of the k-th conversion, by number, the t-th being the first.
TakesFrom(c, k, t) == t \in Nat /\ t - 1 = LastArg(c, k - 1)
Takes(c, k, t) ==
    /\ ArgsTaken(SIs[c][k]) \in 1..3
    /\ LastArg(c, k) = t + ArgsTaken(SIs[c][k]) - 1
    /\ LastArg(c, k) - ArgsTaken(SIs[c][k]) + 1 = t
    /\ t \in 1..LastArg(c, k) /\ LastArg(c, k) <= Len(types[c])
    /\ LastArg(c, k) \in Nat /\ Len(types[c]) \in Nat
    /\ LastArg(c, k - 1) + 1 = t
    /\ SIs[c][k] \in SpecInfo

LEMMA NumbersTaken ==
    ASSUME NEW c \in Call, NEW k \in 1..Len(SIs[c]), NEW t, TakesFrom(c, k, t)
    PROVE  Takes(c, k, t)
  <1>1. /\ LastArg(c, k - 1) \in Nat /\ LastArg(c, k) \in Nat
        /\ LastArg(c, k) <= NArgs(c)
        /\ NArgs(c) \in Nat /\ NArgs(c) <= Len(types[c])
        /\ Len(types[c]) \in Nat
    BY NumbersOf
  <1>2. /\ LastArg(c, k) - LastArg(c, k - 1) = ArgsTaken(SIs[c][k])
        /\ SIs[c][k] \in SpecInfo
    BY ArgumentsPassed
  <1>3. ArgsTaken(SIs[c][k]) \in 1..3
    BY <1>2, ArgsTakenBounds
  <1> DEFINE taken == ArgsTaken(SIs[c][k])
             n == LastArg(c, k)
             before == LastArg(c, k - 1)
  <1>4. /\ before \in Nat /\ n \in Nat /\ n <= NArgs(c)
        /\ NArgs(c) \in Nat /\ NArgs(c) <= Len(types[c])
        /\ Len(types[c]) \in Nat
        /\ n - before = taken /\ taken \in 1..3
        /\ t \in Nat /\ t - 1 = before
    BY <1>1, <1>2, <1>3 DEF TakesFrom
  <1>5. /\ taken \in 1..3 /\ n = t + taken - 1 /\ n - taken + 1 = t
        /\ t \in 1..n /\ n <= Len(types[c]) /\ n \in Nat
        /\ Len(types[c]) \in Nat /\ before + 1 = t
    <2> HIDE DEF taken, n, before
    <2> QED BY <1>4
  <1> QED BY <1>2, <1>5 DEF Takes

\* The arguments a conversion takes, cut out of a list.
LEMMA CutOut ==
    ASSUME NEW s, NEW t \in Nat, NEW n \in Nat, NEW i \in 1..(n - t + 1)
    PROVE  SubSeq(s, t, n)[i] = s[t + (i - 1)]
  <1>1. SubSeq(s, t, n)[i] = s[i + t - 1]
    BY SMT
  <1>2. i + t - 1 = t + (i - 1)
    OBVIOUS
  <1> QED BY <1>1, <1>2

\* One conversion, from the bytes, is what converter_impl makes of the
\* caller's arguments.
LEMMA ConversionRead ==
    ASSUME WalkInv, NEW c, NEW a, NEW sizes, NEW e, LogLies(c, a, sizes, e),
           NEW k \in 1..Len(SIs[c]), NEW t \in Nat, t - 1 = LastArg(c, k - 1)
    PROVE  Printed(c, SIs[c][k], t) = Direct(c, a, sizes)[k]
  <1> DEFINE spec == SIs[c][k]
             n == LastArg(c, k)
             taken == ArgsTaken(spec)
             ts == SubSeq(types[c], t, n)
             vs == SubSeq(a, t, n)
             both == spec.width = DYNAMIC /\ spec.prec = DYNAMIC
             w == IF both /\ ~spec.wFirst THEN t + 1 ELSE t
             p == IF both /\ spec.wFirst THEN t + 1 ELSE t
             shown == ShownAtOnce(c, a, sizes, k)
  <1>1. c \in Call
    BY DEF LogLies, Logged
  <1>2. /\ taken \in 1..3 /\ n = t + taken - 1 /\ n - taken + 1 = t
        /\ t \in 1..n /\ n \in Nat /\ LastArg(c, k - 1) + 1 = t
        /\ spec \in SpecInfo
    <2>1. TakesFrom(c, k, t)
      BY DEF TakesFrom
    <2>2. Takes(c, k, t)
      BY <1>1, <2>1, NumbersTaken
    <2> QED BY <2>2 DEF Takes
  <1>3. Direct(c, a, sizes)[k] = Conversion(spec, ts, vs, shown)
    <2>1. Direct(c, a, sizes)[k] =
            Conversion(spec, SubSeq(types[c], n - taken + 1, n),
                       SubSeq(a, n - taken + 1, n), shown)
      BY DEF Direct, ShownAtOnce
    <2> QED BY <1>2, <2>1
  <1>4. ASSUME NEW i \in t..(n - 1)
        PROVE  Cell(pos + ArgPlace(c, i))[2] = a[i]
    <2>1. i \in (LastArg(c, k - 1) + 1)..(LastArg(c, k) - 1)
      BY <1>2
    <2> QED BY <2>1, StarRead
  <1>5. Fetched(spec, types[c][n], pos + ArgPlace(c, n)) = shown
    BY LastRead
  <1>6. /\ ts[1] = types[c][t] /\ vs[1] = a[t]
        /\ taken > 1 => ts[2] = types[c][t + 1] /\ vs[2] = a[t + 1]
    <2>1. \A i \in 1..taken : ts[i] = types[c][t + (i - 1)]
                                /\ vs[i] = a[t + (i - 1)]
      <3> TAKE i \in 1..taken
      <3>1. i \in 1..(n - t + 1)
        BY <1>2
      <3> HIDE DEF n, taken
      <3> QED BY <1>2, <3>1, CutOut
    <2>2. t + (1 - 1) = t /\ t + (2 - 1) = t + 1 /\ 1 \in 1..taken
      BY <1>2
    <2>3. taken > 1 => 2 \in 1..taken
      BY <1>2
    <2> HIDE DEF ts, vs, taken
    <2> QED BY <2>1, <2>2, <2>3
  <1>7. /\ spec.width \in Int /\ spec.prec \in Int /\ spec.wFirst \in BOOLEAN
        /\ taken = 1 + (IF spec.width = DYNAMIC THEN 1 ELSE 0)
                     + (IF spec.prec = DYNAMIC THEN 1 ELSE 0)
    BY <1>2 DEF ArgsTaken, SpecInfo
  <1> HIDE DEF spec, n, taken, ts, vs, shown
  <1>8. /\ spec.width = DYNAMIC \/ spec.prec = DYNAMIC => t \in t..(n - 1)
        /\ both => t + 1 \in t..(n - 1)
        /\ spec.width = DYNAMIC \/ spec.prec = DYNAMIC => taken > 1
    BY <1>2, <1>7
  <1>9. spec.width = DYNAMIC =>
          Width(types[c][w], Cell(pos + ArgPlace(c, w))[2]) =
            IF both /\ ~spec.wFirst THEN Width(ts[2], vs[2])
            ELSE Width(ts[1], vs[1])
    BY <1>4, <1>6, <1>8
  <1>10. spec.prec = DYNAMIC =>
           Precision(types[c][p], Cell(pos + ArgPlace(c, p))[2]) =
             IF both /\ spec.wFirst THEN Precision(ts[2], vs[2])
             ELSE Precision(ts[1], vs[1])
    BY <1>4, <1>6, <1>8
  <1>11. Printed(c, spec, t) =
           [width |-> IF spec.width # DYNAMIC THEN spec.width
                      ELSE Width(types[c][w], Cell(pos + ArgPlace(c, w))[2]),
            prec  |-> IF spec.prec # DYNAMIC THEN spec.prec
                      ELSE Precision(types[c][p], Cell(pos + ArgPlace(c, p))[2]),
            shown |-> shown]
    BY <1>2, <1>5 DEF Printed, taken
  <1>12. Conversion(spec, ts, vs, shown) =
           [width |-> IF spec.width # DYNAMIC THEN spec.width
                      ELSE IF both /\ ~spec.wFirst THEN Width(ts[2], vs[2])
                      ELSE Width(ts[1], vs[1]),
            prec  |-> IF spec.prec # DYNAMIC THEN spec.prec
                      ELSE IF both /\ spec.wFirst THEN Precision(ts[2], vs[2])
                      ELSE Precision(ts[1], vs[1]),
            shown |-> shown]
    BY <1>7 DEF Conversion
  <1>13. Printed(c, spec, t) = Conversion(spec, ts, vs, shown)
    <2> HIDE DEF w, p, both
    <2> QED BY <1>9, <1>10, <1>11, <1>12
  <1> QED BY <1>3, <1>13 DEF spec

\* While an entry is converted: the arguments taken so far, where the next
\* one is, and the conversions done, which are those of the oldest call.
Converting ==
    sState = "convert" =>
        LET c == EntryAt(pos).fmtId
        IN  /\ EntryAt(pos).status = "NORMAL"
            /\ SI \in 1..(Len(SIs[c]) + 1)
            /\ T \in Nat /\ T - 1 = LastArg(c, SI - 1)
            /\ input = pos + ArgPlace(c, T)
            /\ IsSeq(out) /\ Len(out) = SI - 1
            /\ \A k \in 1..(SI - 1) : out[k] = expected[1][2][k]

Converted ==
    sState = "entryDone" => expected[1] = <<EntryAt(pos).fmtId, out>>

PrintInv == Converting /\ Converted

\* A step that leaves the walk and the oldest call alone.
LEMMA PrintStays ==
    ASSUME PrintInv, UNCHANGED sinkVars,
           sState \in {"convert", "entryDone"} => expected'[1] = expected[1]
    PROVE  PrintInv'
  <1>1. UNCHANGED <<sState, data, pos, input, SI, T, out>>
    BY DEF sinkVars
  <1>2. EntryAt(pos)' = EntryAt(pos)
    BY <1>1 DEF EntryAt, Cell
  <1>3. Converting'
    BY <1>1, <1>2 DEF PrintInv, Converting
  <1>4. Converted'
    BY <1>1, <1>2 DEF PrintInv, Converted
  <1> QED BY <1>3, <1>4 DEF PrintInv

\* Another call behind the oldest one.
LEMMA PrintStaysAppend ==
    ASSUME WalkInv, PrintInv, UNCHANGED sinkVars,
           NEW x, expected' = Append(expected, x)
    PROVE  PrintInv'
  <1>1. ASSUME sState \in {"convert", "entryDone"}
        PROVE  expected'[1] = expected[1]
    <2>1. remaining > 0
      BY <1>1 DEF WalkInv, WalkPlace
    <2>2. Len(expected) \in Nat \ {0}
      BY <2>1, EntryWalked
    <2>3. 1 \in 1..Len(expected)
      BY <2>2
    <2>4. IsSeq(expected)
      BY DEF WalkInv
    <2> QED BY <2>3, <2>4, AppendedElements
  <1> QED BY <1>1, PrintStays

LEMMA NextEntryPrints == WalkInv /\ PrintInv /\ NextEntry => PrintInv'
  <1> SUFFICES ASSUME WalkInv, PrintInv, NextEntry PROVE PrintInv'
    OBVIOUS
  <1>1. /\ data' = data /\ pos' = pos /\ expected' = expected
        /\ SI' = 1 /\ T' = 1 /\ sState = "entry"
    BY DEF NextEntry
  <1>2. EntryAt(pos)' = EntryAt(pos)
    BY <1>1 DEF EntryAt, Cell
  <1>3. CASE remaining > 0
    <2>1. input' = pos + OneLogEntrySize
      BY <1>3 DEF NextEntry
    <2>2. SomeLogLies \/ ReportLies
      BY <1>3, EntryWalked
    <2>3. CASE EntryAt(pos).status = "NORMAL"
      <3>1. out' = <<>> /\ sState' = "convert"
        BY <1>3, <2>3 DEF NextEntry
      <3>2. SomeLogLies
        BY <2>2, <2>3 DEF ReportLies
      <3>3. PICK c, a, sizes, e : LogLies(c, a, sizes, e)
        BY <3>2 DEF SomeLogLies
      <3>4. c \in Call /\ EntryAt(pos).fmtId = c
        BY <3>3 DEF LogLies, Logged
      <3>5. LastArg(c, 0) = 0 /\ Len(SIs[c]) \in Nat
        BY <3>4, LastArgProperties
      <3>6. ArgPlace(c, 1) = OneLogEntrySize
        <4>1. ArgsSize(c, 0) = 0
          BY <3>4, ArgsSizeProperties
        <4>2. 1 - 1 = 0 /\ OneLogEntrySize + 0 = OneLogEntrySize
          BY RecordAssumption
        <4> QED BY <4>1, <4>2 DEF ArgPlace
      <3>7. IsSeq(<<>>) /\ Len(<<>>) = 0
        <4>1. <<>> \in Seq({})
          OBVIOUS
        <4> QED BY <4>1 DEF IsSeq
      <3>8. /\ SI' \in 1..(Len(SIs[c]) + 1)
            /\ T' \in Nat /\ T' - 1 = LastArg(c, SI' - 1)
            /\ input' = pos' + ArgPlace(c, T')
            /\ IsSeq(out') /\ Len(out') = SI' - 1
            /\ \A k \in 1..(SI' - 1) : out'[k] = expected'[1][2][k]
        BY <1>1, <2>1, <3>1, <3>5, <3>6, <3>7
      <3>9. Converting'
        BY <1>2, <2>3, <3>4, <3>8 DEF Converting
      <3>10. Converted'
        BY <3>1 DEF Converted
      <3> QED BY <3>9, <3>10 DEF PrintInv
    <2>4. CASE EntryAt(pos).status # "NORMAL"
      <3>1. /\ sState' = "entryDone"
            /\ out' = <<[shown |-> Cell(input')[2]]>>
        BY <1>3, <2>4 DEF NextEntry
      <3>2. ReportLies
        BY <2>2, <2>4 DEF SomeLogLies, LogLies, Logged
      <3>3. Converted'
        BY <1>1, <1>2, <2>1, <3>1, <3>2 DEF Converted, ReportLies
      <3>4. Converting'
        BY <3>1 DEF Converting
      <3> QED BY <3>3, <3>4 DEF PrintInv
    <2> QED BY <2>3, <2>4
  <1>4. CASE ~(remaining > 0)
    BY <1>4 DEF NextEntry, PrintInv, Converting, Converted
  <1> QED BY <1>3, <1>4

\* The call of an entry that is being converted.
LEMMA EntryConverted ==
    ASSUME WalkInv, PrintInv, sState = "convert"
    PROVE  \E c, a, sizes, e : /\ LogLies(c, a, sizes, e)
                               /\ EntryAt(pos).fmtId = c
                               /\ expected[1][2] = Direct(c, a, sizes)
  <1>1. remaining > 0
    BY DEF WalkInv, WalkPlace
  <1>2. EntryAt(pos).status = "NORMAL"
    BY DEF PrintInv, Converting
  <1>3. SomeLogLies
    BY <1>1, <1>2, EntryWalked DEF ReportLies
  <1>4. PICK c, a, sizes, e : LogLies(c, a, sizes, e)
    BY <1>3 DEF SomeLogLies
  <1>5. EntryAt(pos).fmtId = c /\ expected[1] = <<c, Direct(c, a, sizes)>>
    BY <1>4 DEF LogLies, Logged
  <1>6. expected[1][2] = Direct(c, a, sizes)
    BY <1>5
  <1> QED BY <1>4, <1>5, <1>6

LEMMA FormatorEndsPrints == WalkInv /\ PrintInv /\ FormatorEnds => PrintInv'
  <1> SUFFICES ASSUME WalkInv, PrintInv, FormatorEnds PROVE PrintInv'
    OBVIOUS
  <1>1. /\ sState = "convert" /\ sState' = "entryDone"
        /\ SI > Len(SIs[EntryAt(pos).fmtId])
        /\ UNCHANGED <<data, pos, expected, out>>
    BY DEF FormatorEnds
  <1>2. PICK c, a, sizes, e : /\ LogLies(c, a, sizes, e)
                              /\ EntryAt(pos).fmtId = c
                              /\ expected[1][2] = Direct(c, a, sizes)
    BY <1>1, EntryConverted
  <1>3. c \in Call /\ expected[1] = <<c, Direct(c, a, sizes)>>
    BY <1>2 DEF LogLies, Logged
  <1>4. Len(SIs[c]) \in Nat
    BY <1>3, LastArgProperties
  <1>5. /\ SI \in 1..(Len(SIs[c]) + 1)
        /\ IsSeq(out) /\ Len(out) = SI - 1
        /\ \A k \in 1..(SI - 1) : out[k] = expected[1][2][k]
    BY <1>1, <1>2 DEF PrintInv, Converting
  <1>6. SI - 1 = Len(SIs[c])
    BY <1>1, <1>2, <1>4, <1>5
  <1>7. out = [k \in 1..Len(SIs[c]) |-> out[k]]
    <2>1. PICK S : out \in Seq(S)
      BY <1>5 DEF IsSeq
    <2>2. out = [k \in 1..Len(out) |-> out[k]]
      BY <2>1
    <2> QED BY <1>5, <1>6, <2>2
  <1>8. out = Direct(c, a, sizes)
    <2> DEFINE d == Direct(c, a, sizes)
    <2>1. d = [k \in 1..Len(SIs[c]) |-> d[k]]
      BY DEF Direct
    <2>2. \A k \in 1..Len(SIs[c]) : out[k] = d[k]
      BY <1>2, <1>5, <1>6
    <2> HIDE DEF d
    <2>3. out = d
      BY <1>7, <2>1, <2>2
    <2> QED BY <2>3 DEF d
  <1>9. EntryAt(pos)' = EntryAt(pos)
    BY <1>1 DEF EntryAt, Cell
  <1>10. Converted'
    BY <1>1, <1>2, <1>3, <1>8, <1>9 DEF Converted
  <1>11. Converting'
    BY <1>1 DEF Converting
  <1> QED BY <1>10, <1>11 DEF PrintInv

\* Where formator looks, and what it appends.
LEMMA FormatorAppends ==
    ASSUME Formator, NEW c \in Call, EntryAt(pos).fmtId = c,
           SI \in 1..Len(SIs[c]), T \in Nat, T - 1 = LastArg(c, SI - 1),
           pos \in Nat, input = pos + ArgPlace(c, T)
    PROVE  /\ out' = Append(out, Printed(c, SIs[c][SI], T))
           /\ T' = T + ArgsTaken(SIs[c][SI])
           /\ input' = pos + ArgPlace(c, T')
  <1> DEFINE spec == SIs[c][SI]
             last == T + ArgsTaken(spec) - 1
             At(n) == input + ArgsSize(c, n - 1) - ArgsSize(c, T - 1)
             both == spec.width = DYNAMIC /\ spec.prec = DYNAMIC
             w == IF both /\ ~spec.wFirst THEN T + 1 ELSE T
             p == IF both /\ spec.wFirst THEN T + 1 ELSE T
  <1>1. /\ out' = Append(out,
                [width |-> IF spec.width # DYNAMIC THEN spec.width
                           ELSE Width(types[c][w], Cell(At(w))[2]),
                 prec  |-> IF spec.prec # DYNAMIC THEN spec.prec
                           ELSE Precision(types[c][p], Cell(At(p))[2]),
                 shown |-> Fetched(spec, types[c][last], At(last))])
        /\ input' = At(last + 1)
        /\ T' = last + 1
    BY DEF Formator, FormatorWidthFirst
  <1>2. /\ ArgsTaken(spec) \in 1..3 /\ LastArg(c, SI) = last
        /\ T \in 1..LastArg(c, SI) /\ LastArg(c, SI) <= Len(types[c])
        /\ LastArg(c, SI) \in Nat /\ Len(types[c]) \in Nat
        /\ spec \in SpecInfo
    <2>1. TakesFrom(c, SI, T)
      BY DEF TakesFrom
    <2>2. Takes(c, SI, T)
      BY <2>1, NumbersTaken
    <2> QED BY <2>2 DEF Takes
  <1>3. \A n \in 0..Len(types[c]) : ArgsSize(c, n) \in Nat
    BY ArgsSizeProperties
  <1>4. ASSUME NEW n \in 1..(Len(types[c]) + 1) PROVE At(n) = pos + ArgPlace(c, n)
    <2>1. n - 1 \in 0..Len(types[c]) /\ T - 1 \in 0..Len(types[c])
      BY <1>2
    <2>2. ArgsSize(c, n - 1) \in Nat /\ ArgsSize(c, T - 1) \in Nat
      BY <1>3, <2>1
    <2> DEFINE x == ArgsSize(c, n - 1)
               y == ArgsSize(c, T - 1)
    <2>3. input = pos + (OneLogEntrySize + y) /\ x \in Nat /\ y \in Nat
      BY <2>2 DEF ArgPlace
    <2>4. At(n) = input + x - y
      OBVIOUS
    <2> HIDE DEF x, y, At
    <2>5. At(n) = pos + (OneLogEntrySize + x)
      BY <2>3, <2>4, RecordAssumption
    <2> QED BY <2>5 DEF ArgPlace, x
  <1>5. spec.width = DYNAMIC \/ spec.prec = DYNAMIC => T + 1 <= last
    <2>1. ArgsTaken(spec) = 1 + (IF spec.width = DYNAMIC THEN 1 ELSE 0)
                              + (IF spec.prec = DYNAMIC THEN 1 ELSE 0)
      BY DEF ArgsTaken
    <2> HIDE DEF spec
    <2> QED BY ONLY <1>2, <2>1
  <1>6. /\ last \in 1..(Len(types[c]) + 1)
        /\ last + 1 \in 1..(Len(types[c]) + 1)
        /\ T \in 1..(Len(types[c]) + 1)
        /\ both => T + 1 \in 1..(Len(types[c]) + 1)
        /\ last + 1 = T + ArgsTaken(spec)
    <2> DEFINE t == Len(types[c])
               g == ArgsTaken(spec)
    <2>1. /\ g \in Nat \ {0} /\ last <= t /\ t \in Nat /\ T \in Nat \ {0}
          /\ last = T + (g - 1)
      <3> HIDE DEF spec
      <3> QED BY ONLY <1>2
    <2>2. both => T + 1 \in 1..(t + 1)
      <3> HIDE DEF spec, t, g, last
      <3> QED BY <1>5, <2>1
    <2>3. /\ last \in 1..(t + 1) /\ last + 1 \in 1..(t + 1)
          /\ T \in 1..(t + 1) /\ last + 1 = T + g
      <3> HIDE DEF spec, t, g, last
      <3> QED BY <2>1, NumbersWithin, Zenon
    <2> QED BY <2>2, <2>3, Zenon
  <1>7. w \in 1..(Len(types[c]) + 1) /\ p \in 1..(Len(types[c]) + 1)
    BY <1>6
  <1>8. /\ At(w) = pos + ArgPlace(c, w) /\ At(p) = pos + ArgPlace(c, p)
        /\ At(last) = pos + ArgPlace(c, last)
        /\ At(last + 1) = pos + ArgPlace(c, last + 1)
    <2> HIDE DEF At, w, p, last
    <2> QED BY <1>4, <1>6, <1>7
  <1>9. Printed(c, spec, T) =
          [width |-> IF spec.width # DYNAMIC THEN spec.width
                     ELSE Width(types[c][w], Cell(pos + ArgPlace(c, w))[2]),
           prec  |-> IF spec.prec # DYNAMIC THEN spec.prec
                     ELSE Precision(types[c][p], Cell(pos + ArgPlace(c, p))[2]),
           shown |-> Fetched(spec, types[c][last], pos + ArgPlace(c, last))]
    BY DEF Printed
  <1>10. out' = Append(out, Printed(c, spec, T))
    <2> HIDE DEF spec, last, At, w, p
    <2> QED BY <1>1, <1>8, <1>9
  <1>11. T' = T + ArgsTaken(spec) /\ input' = pos + ArgPlace(c, T')
    <2> HIDE DEF spec, last, At
    <2> QED BY ONLY <1>1, <1>6, <1>8
  <1> QED BY <1>10, <1>11

LEMMA FormatorPrints == WalkInv /\ PrintInv /\ Formator => PrintInv'
  <1> SUFFICES ASSUME WalkInv, PrintInv, Formator PROVE PrintInv'
    OBVIOUS
  <1>1. /\ sState = "convert" /\ sState' = sState
        /\ SI <= Len(SIs[EntryAt(pos).fmtId]) /\ SI' = SI + 1
        /\ UNCHANGED <<data, pos, expected>>
    BY DEF Formator
  <1>2. PICK c, a, sizes, e : /\ LogLies(c, a, sizes, e)
                              /\ EntryAt(pos).fmtId = c
                              /\ expected[1][2] = Direct(c, a, sizes)
    BY <1>1, EntryConverted
  <1>3. c \in Call
    BY <1>2 DEF LogLies, Logged
  <1>4. Len(SIs[c]) \in Nat
    BY <1>3, LastArgProperties
  <1>5. /\ EntryAt(pos).status = "NORMAL"
        /\ SI \in 1..(Len(SIs[c]) + 1)
        /\ T \in Nat /\ T - 1 = LastArg(c, SI - 1)
        /\ input = pos + ArgPlace(c, T)
        /\ IsSeq(out) /\ Len(out) = SI - 1
        /\ \A k \in 1..(SI - 1) : out[k] = expected[1][2][k]
    BY <1>1, <1>2 DEF PrintInv, Converting
  <1>6. SI \in 1..Len(SIs[c]) /\ pos \in Nat
    BY <1>1, <1>2, <1>4, <1>5 DEF WalkInv, WalkPlace
  <1> DEFINE record == Printed(c, SIs[c][SI], T)
  <1>7. /\ out' = Append(out, record)
        /\ T' = T + ArgsTaken(SIs[c][SI])
        /\ input' = pos + ArgPlace(c, T')
    BY <1>2, <1>3, <1>5, <1>6, FormatorAppends
  <1>8. record = expected[1][2][SI]
    <2>1. Direct(c, a, sizes)[SI] = record
      BY <1>2, <1>5, <1>6, ConversionRead
    <2> QED BY <1>2, <2>1
  <1> HIDE DEF record
  <1>9. /\ SI' - 1 = SI /\ SI' \in 1..(Len(SIs[c]) + 1)
        /\ Len(out) + 1 = SI
    BY ONLY <1>1, <1>4, <1>5, <1>6
  <1>10. T' \in Nat /\ T' - 1 = LastArg(c, SI' - 1)
    <2>1. /\ ArgsTaken(SIs[c][SI]) \in 1..3
          /\ LastArg(c, SI) = T + ArgsTaken(SIs[c][SI]) - 1
      <3>1. TakesFrom(c, SI, T)
        BY <1>5 DEF TakesFrom
      <3>2. Takes(c, SI, T)
        BY <1>3, <1>6, <3>1, NumbersTaken
      <3> QED BY <3>2 DEF Takes
    <2> DEFINE taken == ArgsTaken(SIs[c][SI])
    <2>2. taken \in 1..3 /\ LastArg(c, SI) = T + taken - 1 /\ T' = T + taken
      BY <1>7, <2>1
    <2>3. SI' - 1 = SI /\ T \in Nat
      BY <1>5, <1>9
    <2> HIDE DEF taken
    <2>4. T' \in Nat /\ T' - 1 = LastArg(c, SI)
      BY <2>2, <2>3
    <2> QED BY <2>3, <2>4
  <1>11. /\ IsSeq(out') /\ Len(out') = SI' - 1
         /\ \A k \in 1..(SI' - 1) : out'[k] = expected'[1][2][k]
    <2>1. /\ IsSeq(Append(out, record)) /\ Len(Append(out, record)) = Len(out) + 1
          /\ \A i \in 1..Len(out) : Append(out, record)[i] = out[i]
          /\ Append(out, record)[Len(out) + 1] = record
      BY <1>5, AppendedElements
    <2>2. ASSUME NEW k \in 1..SI PROVE out'[k] = expected[1][2][k]
      <3>1. k \in 1..(SI - 1) \/ k = SI
        BY <1>6
      <3> QED BY <1>5, <1>7, <1>8, <1>9, <2>1, <3>1
    <2> QED BY <1>1, <1>7, <1>9, <2>1, <2>2
  <1>12. EntryAt(pos)' = EntryAt(pos)
    BY <1>1 DEF EntryAt, Cell
  <1>13. Converting'
    BY <1>1, <1>2, <1>5, <1>7, <1>9, <1>10, <1>11, <1>12 DEF Converting
  <1>14. Converted'
    BY <1>1 DEF Converted
  <1> QED BY <1>13, <1>14 DEF PrintInv

LEMMA PrintInvStep == WalkInv /\ PrintInv /\ [Next]_vars => PrintInv'
  <1> SUFFICES ASSUME WalkInv, PrintInv, [Next]_vars PROVE PrintInv'
    OBVIOUS
  <1>1. ASSUME UNCHANGED <<sinkVars, expected>> PROVE PrintInv'
    BY <1>1, PrintStays
  <1>2. ASSUME NEW c, NEW a, Measure(c, a) PROVE PrintInv'
    BY <1>1, <1>2 DEF Measure
  <1>3. ASSUME NEW a, BeginDump(a) PROVE PrintInv'
    BY ONLY <1>1, <1>3 DEF BeginDump
  <1>4. CASE StoreArgs
    BY <1>1, <1>4 DEF StoreArgs
  <1>5. CASE Finish
    BY <1>5, PrintStaysAppend DEF Finish
  <1>6. CASE LogOversize
    BY <1>6, PrintStaysAppend DEF LogOversize
  <1>7. CASE AppendBlock
    BY <1>1, <1>7 DEF AppendBlock
  <1>8. CASE TakeBuffer
    BY <1>8 DEF TakeBuffer, PrintInv, Converting, Converted
  <1>9. CASE NextBlock
    BY <1>9 DEF NextBlock, WalkEnds, PrintInv, Converting, Converted
  <1>10. CASE EntryDone
    BY <1>10 DEF EntryDone, PrintInv, Converting, Converted
  <1>11. ASSUME NEW level, SetLogLevel(level) PROVE PrintInv'
    BY <1>1, <1>11 DEF SetLogLevel
  <1>12. CASE UNCHANGED vars
    BY <1>1, <1>12 DEF vars
  <1> QED BY <1>2, <1>3, <1>4, <1>5, <1>6, <1>7, <1>8, <1>9, <1>10, <1>11,
             <1>12, NextEntryPrints, FormatorPrints, FormatorEndsPrints
          DEF Next, Log, Sink

\* For every statement, argument list, size and interleaving: what the sink
\* prints for an entry, from bytes moved twice whose strings it finds by
\* offsets (convertFN_), is what converter_impl makes of the caller's
\* arguments, in the order of the calls.
THEOREM PrintsWhatWasLogged == Spec => []SinkPrintsWhatWasLogged
  <1>1. Init => PrintInv
    BY DEF Init, PrintInv, Converting, Converted
  <1>2. RecordInv /\ WalkInv /\ PrintInv /\ [Next]_vars => PrintInv'
    BY PrintInvStep
  <1>3. PrintInv => SinkPrintsWhatWasLogged
    BY DEF PrintInv, Converted, SinkPrintsWhatWasLogged
  <1> QED BY <1>1, <1>2, <1>3, LogRecordInv, PTL DEF Spec
=============================================================================
