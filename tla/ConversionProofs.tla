---------------------------- MODULE ConversionProofs ----------------------------
(***************************************************************************)
(* For every specification, argument, width of the integer types, MAXFRACT *)
(* and size of the buffer: what one conversion writes is the field that    *)
(* C's printf writes.  Then, for every capacity, text and PADSIZE: the     *)
(* output it writes to keeps the longest beginning that leaves room for    *)
(* the terminator, and nothing behind the capacity is touched.             *)
(***************************************************************************)
EXTENDS Conversion, OutbufArg, DataLemmas, TLAPS

-----------------------------------------------------------------------------
(* Recursion by division *)

\* f answers below b at once and above it from what it answers for v \div b.
Descends(f, b, low, step) ==
    f = [v \in Nat |-> IF v < b THEN low[v] ELSE step[<<f[v \div b], v>>]]

\* Dividing makes a number smaller.
LEMMA QuotientIsLess ==
    ASSUME NEW b \in Nat, b >= 2, NEW v \in Nat, v >= b
    PROVE  v \div b \in Nat /\ v \div b < v /\ v \div b >= 1
  OBVIOUS

\* One round of the same, which takes the answer for v \div b from h.
Once(h, b, low, step) ==
    [v \in Nat |-> IF v < b THEN low[v] ELSE step[<<h[v \div b], v>>]]

LEMMA OnceType ==
    ASSUME NEW S, NEW b \in Nat, b >= 2, NEW low \in [Nat -> S],
           NEW step \in [S \X Nat -> S], NEW h \in [Nat -> S]
    PROVE  Once(h, b, low, step) \in [Nat -> S]
  <1>1. ASSUME NEW v \in Nat, v >= b PROVE step[<<h[v \div b], v>>] \in S
    <2>1. v \div b \in Nat
      BY QuotientIsLess
    <2> QED BY ONLY <2>1, v \in Nat, h \in [Nat -> S], step \in [S \X Nat -> S]
  <1>2. \A v \in Nat : v < b \/ v >= b
    OBVIOUS
  <1>3. ASSUME NEW v \in Nat
        PROVE  (IF v < b THEN low[v] ELSE step[<<h[v \div b], v>>]) \in S
    BY ONLY <1>1, <1>2, low \in [Nat -> S], v \in Nat
  <1> QED BY ONLY <1>3 DEF Once

\* There is such a function.
LEMMA DescentExists ==
    ASSUME NEW S, NEW b \in Nat, b >= 2, NEW low \in [Nat -> S],
           NEW step \in [S \X Nat -> S]
    PROVE  \E f \in [Nat -> S] : Descends(f, b, low, step)
  <1> DEFINE F == [Nat -> S]
             O(h) == Once(h, b, low, step)
             turn == [x \in Nat \X F |-> O(x[2])]
  <1>1. ASSUME NEW h \in F PROVE O(h) \in F
    BY OnceType
  <1>2. ASSUME NEW h \in F, NEW v \in Nat
        PROVE  /\ v < b => O(h)[v] = low[v]
               /\ ~(v < b) => O(h)[v] = step[<<h[v \div b], v>>]
    BY ONLY v \in Nat DEF Once
  <1> HIDE DEF O
  <1>3. PICK g : Recursion(g, F, low, turn)
    <2>1. turn \in [Nat \X F -> F]
      BY ONLY <1>1
    <2>2. low \in F
      OBVIOUS
    <2> HIDE DEF F, turn
    <2>3. \E h : Recursion(h, F, low, turn)
      BY ONLY <2>1, <2>2, NatRecursion, Zenon
    <2> QED BY ONLY <2>3, Zenon
  <1>4. g \in [Nat -> F] /\ g[0] = low /\ \A i \in Nat : g[i + 1] = turn[<<i, g[i]>>]
    BY ONLY <1>3 DEF Recursion
  <1>5. \A i \in Nat : g[i] \in F
    BY ONLY <1>4, Zenon
  <1> HIDE DEF F
  <1>6. ASSUME NEW i \in Nat PROVE g[i + 1] = O(g[i])
    <2>1. turn[<<i, g[i]>>] = O(g[i])
      BY ONLY <1>5, i \in Nat
    <2> QED BY ONLY <1>4, <2>1, i \in Nat, Zenon
  <1> HIDE DEF turn
  <1>7. ASSUME NEW i \in Nat, NEW v \in Nat
        PROVE  /\ v < b => g[i + 1][v] = low[v]
               /\ ~(v < b) => g[i + 1][v] = step[<<g[i][v \div b], v>>]
    <2>1. g[i] \in F /\ g[i + 1] = O(g[i])
      BY ONLY <1>5, <1>6, i \in Nat, Zenon
    <2> QED BY ONLY <1>2, <2>1, v \in Nat, Zenon
  <1>8. g[0] = low
    BY ONLY <1>4, Zenon
  <1> DEFINE Stable == {i \in Nat : \A v \in Nat : v <= i => g[i + 1][v] = g[i][v]}
  <1>9. 0 \in Stable
    <2>1. ASSUME NEW v \in Nat, v <= 0 PROVE g[0 + 1][v] = g[0][v]
      <3>1. v < b /\ 0 \in Nat
        BY ONLY b \in Nat, b >= 2, v \in Nat, v <= 0
      <3> QED BY ONLY <1>7, <1>8, <3>1, v \in Nat, Zenon
    <2> QED BY ONLY <2>1
  <1>10. ASSUME NEW i \in Nat, i \in Stable PROVE i + 1 \in Stable
    <2>1. i + 1 \in Nat
      BY ONLY i \in Nat
    <2>2. ASSUME NEW v \in Nat, v <= i + 1 PROVE g[(i + 1) + 1][v] = g[i + 1][v]
      <3>1. CASE v < b
        BY ONLY <1>7, <2>1, <3>1, i \in Nat, v \in Nat, Zenon
      <3>2. CASE ~(v < b)
        <4>1. v \div b \in Nat /\ v \div b <= i
          BY ONLY <2>2, <3>2, QuotientIsLess, b \in Nat, b >= 2, i \in Nat, v \in Nat
        <4>2. g[i + 1][v \div b] = g[i][v \div b]
          BY ONLY <1>10, <4>1
        <4>3. /\ g[(i + 1) + 1][v] = step[<<g[i + 1][v \div b], v>>]
              /\ g[i + 1][v] = step[<<g[i][v \div b], v>>]
          BY ONLY <1>7, <2>1, <3>2, i \in Nat, v \in Nat, Zenon
        <4> QED BY ONLY <4>2, <4>3, Zenon
      <3> QED BY ONLY <3>1, <3>2, Zenon
    <2> QED BY ONLY <2>1, <2>2
  <1>11. \A i \in Nat : \A v \in Nat : v <= i => g[i + 1][v] = g[i][v]
    <2> HIDE DEF Stable
    <2>1. \A i \in Nat : i \in Stable
      BY ONLY <1>9, <1>10, NatInductionOnSet
    <2> QED BY ONLY <2>1 DEF Stable
  <1>12. ASSUME NEW u \in Nat, NEW k \in Nat PROVE g[u + k][u] = g[u][u]
    <2> DEFINE T == {j \in Nat : g[u + j][u] = g[u][u]}
    <2>1. 0 \in T
      BY ONLY u \in Nat
    <2>2. ASSUME NEW j \in Nat, j \in T PROVE j + 1 \in T
      <3>1. u + j \in Nat /\ u <= u + j /\ u + (j + 1) = (u + j) + 1
        BY ONLY u \in Nat, j \in Nat
      <3>2. g[(u + j) + 1][u] = g[u + j][u]
        BY ONLY <1>11, <3>1, u \in Nat
      <3> QED BY ONLY <2>2, <3>1, <3>2
    <2> HIDE DEF T
    <2>3. k \in T
      BY ONLY <2>1, <2>2, NatInductionOnSet, k \in Nat
    <2> QED BY ONLY <2>3 DEF T
  <1> DEFINE f == [v \in Nat |-> g[v][v]]
  <1>13. f \in [Nat -> S]
    BY ONLY <1>5 DEF F
  <1>14. \A v \in Nat : f[v] = g[v][v]
    OBVIOUS
  <1> HIDE DEF f
  <1>15. ASSUME NEW v \in Nat
         PROVE  f[v] = IF v < b THEN low[v] ELSE step[<<f[v \div b], v>>]
    <2>1. g[v + 1][v] = g[v][v]
      BY ONLY <1>11, v \in Nat
    <2>2. CASE v < b
      BY ONLY <1>7, <1>14, <2>1, <2>2, v \in Nat, Zenon
    <2>3. CASE ~(v < b)
      <3> DEFINE u == v \div b
      <3>1. u \in Nat /\ v - u \in Nat /\ u + (v - u) = v
        BY ONLY <2>3, QuotientIsLess, b \in Nat, b >= 2, v \in Nat
      <3> HIDE DEF u
      <3>2. g[u + (v - u)][u] = g[u][u]
        BY ONLY <1>12, <3>1, Zenon
      <3>3. g[v][u] = f[u]
        BY ONLY <1>14, <3>1, <3>2
      <3>4. g[v + 1][v] = step[<<g[v][u], v>>]
        BY ONLY <1>7, <2>3, v \in Nat, Zenon DEF u
      <3>5. f[v] = step[<<f[u], v>>]
        BY ONLY <1>14, <2>1, <3>3, <3>4, v \in Nat, Zenon
      <3> QED BY ONLY <2>3, <3>5 DEF u
    <2> QED BY ONLY <2>2, <2>3
  <1>16. Descends(f, b, low, step)
    <2>1. f = [v \in Nat |-> f[v]]
      BY ONLY <1>13
    <2> QED BY ONLY <1>15, <2>1 DEF Descends
  <1> QED BY ONLY <1>13, <1>16

\* Power obeys the law it is defined by.
LEMMA PowerRecursion ==
    ASSUME NEW b \in Nat
    PROVE  /\ Power(b, 0) = 1
           /\ \A k \in Nat : Power(b, k) \in Nat /\ Power(b, k + 1) = b * Power(b, k)
  <1> DEFINE step == [x \in Nat \X Nat |-> b * x[2]]
             R(h) == h = [i \in Nat |-> IF i = 0 THEN 1 ELSE b * h[i - 1]]
             c == CHOOSE h : R(h)
  <1>1. PICK f : Recursion(f, Nat, 1, step)
    <2>1. step \in [Nat \X Nat -> Nat]
      OBVIOUS
    <2> HIDE DEF step
    <2> QED BY <2>1, NatRecursion
  <1>2. R(f)
    <2>1. f \in [Nat -> Nat] /\ f[0] = 1 /\ \A i \in Nat : f[i + 1] = b * f[i]
      BY <1>1 DEF Recursion
    <2>2. ASSUME NEW i \in Nat PROVE f[i] = IF i = 0 THEN 1 ELSE b * f[i - 1]
      <3>1. CASE i = 0
        BY <2>1, <3>1
      <3>2. CASE i # 0
        <4>1. i - 1 \in Nat /\ (i - 1) + 1 = i
          BY <3>2
        <4>2. f[(i - 1) + 1] = b * f[i - 1]
          BY <2>1, <4>1, Zenon
        <4> QED BY <3>2, <4>1, <4>2
      <3> QED BY <3>1, <3>2
    <2> QED BY <2>1, <2>2
  <1>3. R(c)
    <2> HIDE DEF R
    <2> QED BY ONLY <1>2 DEF c
  <1>4. \A k \in Nat : Power(b, k) = c[k]
    BY DEF Power
  <1>5. ASSUME NEW k \in Nat PROVE c[k] = IF k = 0 THEN 1 ELSE b * c[k - 1]
    <2> HIDE DEF c
    <2> QED BY <1>3
  <1> HIDE DEF c
  <1>6. c[0] = 1 /\ \A k \in Nat : c[k + 1] = b * c[k]
    <2>1. \A k \in Nat : k + 1 \in Nat /\ k + 1 # 0 /\ (k + 1) - 1 = k
      OBVIOUS
    <2> QED BY <1>5, <2>1
  <1> DEFINE T == {k \in Nat : c[k] \in Nat}
  <1>7. \A k \in Nat : k \in T
    <2>1. 0 \in T
      BY <1>6
    <2>2. ASSUME NEW k \in Nat, k \in T PROVE k + 1 \in T
      BY <1>6, <2>2
    <2> HIDE DEF T
    <2> QED BY <2>1, <2>2, NatInductionOnSet
  <1> QED BY <1>4, <1>6, <1>7

LEMMA PowersOfTen ==
    /\ Power(10, 0) = 1
    /\ \A k \in Nat : Power(10, k) \in Nat \ {0} /\ Power(10, k + 1) = 10 * Power(10, k)
  <1>1. /\ Power(10, 0) = 1
        /\ \A k \in Nat : Power(10, k) \in Nat /\ Power(10, k + 1) = 10 * Power(10, k)
    BY PowerRecursion
  <1> DEFINE T == {k \in Nat : Power(10, k) \in Nat \ {0}}
  <1> HIDE DEF Power
  <1>2. 0 \in T
    BY ONLY <1>1
  <1>3. ASSUME NEW k \in Nat, k \in T PROVE k + 1 \in T
    <2>1. Power(10, k) \in Nat \ {0} /\ Power(10, k + 1) = 10 * Power(10, k)
      BY ONLY <1>1, <1>3
    <2> QED BY ONLY <2>1, k \in Nat
  <1>4. \A k \in Nat : k \in T
    <2> HIDE DEF T
    <2> QED BY ONLY <1>2, <1>3, NatInductionOnSet
  <1> QED BY ONLY <1>1, <1>4

\* Halves of powers of two, and which of them is larger.
LEMMA PowersOfTwo ==
    ASSUME NEW m \in Nat
    PROVE  \A k \in 1..m :
             /\ Power(2, k - 1) \in Nat \ {0} /\ Power(2, m - 1) \in Nat
             /\ Power(2, k) = 2 * Power(2, k - 1)
             /\ Power(2, k - 1) <= Power(2, m - 1)
  <1>1. /\ Power(2, 0) = 1
        /\ \A k \in Nat : Power(2, k) \in Nat /\ Power(2, k + 1) = 2 * Power(2, k)
    BY PowerRecursion
  <1> HIDE DEF Power
  <1> DEFINE T == {j \in Nat : \A k \in Nat :
                     k <= j => Power(2, k) >= 1 /\ Power(2, k) <= Power(2, j)}
  <1>2. 0 \in T
    <2>1. \A k \in Nat : k <= 0 => k = 0
      OBVIOUS
    <2> QED BY ONLY <1>1, <2>1
  <1>3. ASSUME NEW j \in Nat, j \in T PROVE j + 1 \in T
    <2>1. Power(2, j + 1) = 2 * Power(2, j) /\ Power(2, j) \in Nat
      BY ONLY <1>1, j \in Nat, Zenon
    <2>2. Power(2, j) >= 1
      BY ONLY <1>3
    <2>3. ASSUME NEW k \in Nat, k <= j + 1
          PROVE  Power(2, k) >= 1 /\ Power(2, k) <= Power(2, j + 1)
      <3>1. Power(2, k) \in Nat
        BY ONLY <1>1, k \in Nat, Zenon
      <3>2. CASE k <= j
        BY ONLY <1>3, <2>1, <2>2, <3>1, <3>2
      <3>3. CASE k = j + 1
        BY ONLY <2>1, <2>2, <3>3
      <3> QED BY ONLY <2>3, <3>2, <3>3, j \in Nat
    <2> QED BY ONLY <2>3, j \in Nat
  <1>4. \A j \in Nat : j \in T
    <2> HIDE DEF T
    <2> QED BY ONLY <1>2, <1>3, NatInductionOnSet
  <1> TAKE k \in 1..m
  <1>5. k - 1 \in Nat /\ m - 1 \in Nat /\ k - 1 <= m - 1 /\ (k - 1) + 1 = k
    OBVIOUS
  <1>6. Power(2, k - 1) >= 1 /\ Power(2, k - 1) <= Power(2, m - 1)
    BY ONLY <1>4, <1>5
  <1>7. /\ Power(2, k - 1) \in Nat /\ Power(2, m - 1) \in Nat
        /\ Power(2, (k - 1) + 1) = 2 * Power(2, k - 1)
    BY ONLY <1>1, <1>5, Zenon
  <1> QED BY ONLY <1>5, <1>6, <1>7

\* A number that is negative by no more than the modulus.
LEMMA ModOfNegative ==
    ASSUME NEW m \in Nat \ {0}, NEW x \in Int, 0 - m <= x, x < 0
    PROVE  x % m = x + m
  OBVIOUS

\* Two's complement: low is a number of the narrow type, whose sign bit is
\* worth h, seen through a type of twice g values and back.
LEMMA TwosComplement ==
    ASSUME NEW h \in Nat \ {0}, NEW g \in Nat, h <= g,
           NEW low \in Nat, low < 2 * h, low >= h,
           NEW seen, seen = (low - 2 * h) % (2 * g)
    PROVE  seen \in Nat /\ seen >= g /\ (0 - seen) % (2 * g) = 2 * h - low
  <1>1. seen = (low - 2 * h) + 2 * g
    BY ModOfNegative
  <1>2. seen \in Int /\ 2 * g \in Nat \ {0} /\ 0 - (2 * g) <= 0 - seen /\ 0 - seen < 0
    BY ONLY <1>1, h \in Nat \ {0}, g \in Nat, low \in Nat, h <= g, low < 2 * h, low >= h
  <1>3. (0 - seen) % (2 * g) = (0 - seen) + 2 * g
    BY ONLY <1>2, ModOfNegative
  <1> QED BY ONLY <1>1, <1>3, h \in Nat \ {0}, g \in Nat, low \in Nat, h <= g,
                  low < 2 * h, low >= h

\* Induction along the same descent.
LEMMA DivisionInduction ==
    ASSUME NEW b \in Nat, b >= 2, NEW T,
           \A v \in Nat : v < b => v \in T,
           \A v \in Nat : v >= b /\ v \div b \in T => v \in T
    PROVE  \A v \in Nat : v \in T
  <1> DEFINE U == {u \in Nat : \A v \in Nat : v <= u => v \in T}
  <1>1. 0 \in U
    <2>1. \A v \in Nat : v <= 0 => v < b
      BY ONLY b \in Nat, b >= 2
    <2> QED BY <2>1
  <1>2. ASSUME NEW u \in Nat, u \in U PROVE u + 1 \in U
    <2>1. ASSUME NEW v \in Nat, v <= u + 1 PROVE v \in T
      <3>1. CASE v >= b
        <4>1. v \div b \in Nat /\ v \div b <= u
          BY ONLY <2>1, <3>1, QuotientIsLess, b \in Nat, b >= 2, u \in Nat, v \in Nat
        <4>2. v \div b \in T
          BY ONLY <1>2, <4>1
        <4> QED BY <3>1, <4>2
      <3>2. CASE v < b
        BY <3>2
      <3> QED BY ONLY <3>1, <3>2, b \in Nat, v \in Nat
    <2> QED BY ONLY <2>1, u \in Nat
  <1>3. \A u \in Nat : u \in U
    <2> HIDE DEF U
    <2> QED BY ONLY <1>1, <1>2, NatInductionOnSet
  <1>4. \A u \in Nat : u <= u
    OBVIOUS
  <1> QED BY ONLY <1>3, <1>4

-----------------------------------------------------------------------------
(* Digits *)

\* What a field can consist of.  Its characters are listed because the provers
\* do not know of a string that it is in STRING.
DigitGlyph == {"0", "1", "2", "3", "4", "5", "6", "7", "8", "9",
               "a", "b", "c", "d", "e", "f"}
OtherGlyph == {"x", ".", Blank, "+", "-", "(", ")", "n", "u", "l", "i"}
Glyph == STRING \cup DigitGlyph \cup OtherGlyph \cup {ToString(k) : k \in Int}

\* A digit's character; only zero's is "0".
LEMMA DigitCharProperties ==
    ASSUME NEW i \in 0..15
    PROVE  DigitChar[i + 1] \in Glyph /\ (DigitChar[i + 1] = "0" <=> i = 0)
  <1>1. /\ DigitChar[1] = "0" /\ DigitChar[2] = "1" /\ DigitChar[3] = "2"
        /\ DigitChar[4] = "3" /\ DigitChar[5] = "4" /\ DigitChar[6] = "5"
        /\ DigitChar[7] = "6" /\ DigitChar[8] = "7" /\ DigitChar[9] = "8"
        /\ DigitChar[10] = "9" /\ DigitChar[11] = "a" /\ DigitChar[12] = "b"
        /\ DigitChar[13] = "c" /\ DigitChar[14] = "d" /\ DigitChar[15] = "e"
        /\ DigitChar[16] = "f"
    BY DEF DigitChar
  <1> HIDE DEF DigitChar
  <1>2. CASE i = 0
    <2>1. DigitChar[i + 1] = "0"
      BY ONLY <1>1, <1>2
    <2>2. "0" \in Glyph
      BY DEF Glyph, DigitGlyph
    <2> QED BY ONLY <1>2, <2>1, <2>2
  <1>3. CASE i # 0
    <2> DEFINE letter == DigitChar[i + 1]
    <2>1. i + 1 \in 2..16
      BY ONLY <1>3, i \in 0..15
    <2>2. letter \in DigitGlyph \ {"0"}
      BY ONLY <1>1, <2>1 DEF DigitGlyph
    <2> HIDE DEF letter
    <2>3. letter \in Glyph /\ letter # "0"
      BY ONLY <2>2 DEF Glyph
    <2> QED BY ONLY <1>3, <2>3 DEF letter
  <1> QED BY ONLY <1>2, <1>3

\* All that Digits and formatBase compute, one and two digits at a time.
OneByOne(b) ==
    CHOOSE f : f = [u \in Nat |->
                      IF u < b THEN <<DigitChar[u + 1]>>
                      ELSE Append(f[u \div b], DigitChar[(u % b) + 1])]

PairByPair(b) ==
    CHOOSE f : f = [v \in Nat |->
                      IF v < b * b THEN LeadingPair(b, v)
                      ELSE f[v \div (b * b)] \o Pair(b, v % (b * b))]

LEMMA DigitsAre ==
    ASSUME NEW b, NEW v, NEW least
    PROVE  /\ Digits(v, b, least) =
                Run("0", least - Len(OneByOne(b)[v])) \o OneByOne(b)[v]
           /\ formatBase(b, v) = PairByPair(b)[v]
  BY ONLY DEF Digits, formatBase, OneByOne, PairByPair

LEMMA OneByOneRecursion ==
    ASSUME NEW b \in 2..16
    PROVE  /\ OneByOne(b) = [v \in Nat |-> OneByOne(b)[v]]
           /\ \A v \in Nat :
                /\ v < b => OneByOne(b)[v] = <<DigitChar[v + 1]>>
                /\ v >= b => OneByOne(b)[v] =
                               Append(OneByOne(b)[v \div b], DigitChar[(v % b) + 1])
  <1> DEFINE S == Seq(Glyph)
             low == [v \in Nat |-> IF v < b THEN <<DigitChar[v + 1]>> ELSE <<>>]
             step == [x \in S \X Nat |-> Append(x[1], DigitChar[(x[2] % b) + 1])]
             R(h) == h = [u \in Nat |->
                            IF u < b THEN <<DigitChar[u + 1]>>
                            ELSE Append(h[u \div b], DigitChar[(u % b) + 1])]
  <1>1. b \in Nat /\ b >= 2
    BY ONLY b \in 2..16
  <1>2. ASSUME NEW v \in Nat
        PROVE  /\ DigitChar[(v % b) + 1] \in Glyph
               /\ v < b => DigitChar[v + 1] \in Glyph
    <2>1. v % b \in 0..15 /\ (v < b => v \in 0..15)
      BY ONLY b \in 2..16, v \in Nat
    <2> QED BY ONLY <2>1, DigitCharProperties, Zenon
  <1>3. low \in [Nat -> S]
    <2>1. ASSUME NEW v \in Nat
          PROVE  (IF v < b THEN <<DigitChar[v + 1]>> ELSE <<>>) \in S
      <3>1. <<>> \in S
        OBVIOUS
      <3>2. ASSUME v < b PROVE <<DigitChar[v + 1]>> \in S
        <4>1. DigitChar[v + 1] \in Glyph
          BY ONLY <1>2, <3>2, v \in Nat
        <4> QED BY ONLY <4>1
      <3> QED BY ONLY <3>1, <3>2
    <2> QED BY ONLY <2>1
  <1>4. step \in [S \X Nat -> S]
    <2>1. ASSUME NEW x \in S \X Nat PROVE Append(x[1], DigitChar[(x[2] % b) + 1]) \in S
      <3>1. x[1] \in S /\ x[2] \in Nat
        <4> HIDE DEF S
        <4> QED BY ONLY x \in S \X Nat
      <3>2. DigitChar[(x[2] % b) + 1] \in Glyph
        BY ONLY <1>2, <3>1, Zenon
      <3> QED BY ONLY <3>1, <3>2, AppendProperties
    <2> QED BY ONLY <2>1
  <1>5. PICK f \in [Nat -> S] : Descends(f, b, low, step)
    <2> HIDE DEF S, low, step
    <2> QED BY ONLY <1>1, <1>3, <1>4, DescentExists
  <1>6. \A v \in Nat : v < b => low[v] = <<DigitChar[v + 1]>>
    BY ONLY TRUE
  <1>7. ASSUME NEW v \in Nat, ~(v < b)
        PROVE  step[<<f[v \div b], v>>] = Append(f[v \div b], DigitChar[(v % b) + 1])
    <2>1. v \div b \in Nat
      BY ONLY <1>1, v \in Nat
    <2>2. f[v \div b] \in S
      BY ONLY <1>5, <2>1
    <2> DEFINE u == f[v \div b]
    <2> HIDE DEF u
    <2>3. <<u, v>> \in S \X Nat
      BY ONLY <2>2, v \in Nat DEF u
    <2>4. step[<<u, v>>] = Append(u, DigitChar[(v % b) + 1])
      BY ONLY <2>3
    <2> QED BY ONLY <2>4 DEF u
  <1> HIDE DEF low, step, S
  <1>8. R(f)
    BY ONLY <1>5, <1>6, <1>7 DEF Descends
  <1>9. R(OneByOne(b))
    <2> HIDE DEF R
    <2>1. OneByOne(b) = CHOOSE h : R(h)
      BY DEF OneByOne, R
    <2> QED BY ONLY <1>8, <2>1, Zenon
  <1>10. \A v \in Nat : v >= b <=> ~(v < b)
    BY ONLY <1>1
  <1> DEFINE D == OneByOne(b)
  <1> HIDE DEF D
  <1>11. ASSUME NEW v \in Nat
         PROVE  D[v] = IF v < b THEN <<DigitChar[v + 1]>>
                       ELSE Append(D[v \div b], DigitChar[(v % b) + 1])
    BY ONLY <1>9, v \in Nat DEF D
  <1>12. D = [v \in Nat |-> D[v]]
    BY ONLY <1>9 DEF D
  <1> QED BY ONLY <1>10, <1>11, <1>12 DEF D

\* Digits of a number never are without a digit, and only zero's start with "0".
LEMMA OneByOneProperties ==
    ASSUME NEW b \in 2..16
    PROVE  \A v \in Nat :
             /\ OneByOne(b)[v] \in Seq(Glyph) /\ OneByOne(b)[v] # <<>>
             /\ OneByOne(b)[v][1] = "0" <=> v = 0
             /\ v = 0 => OneByOne(b)[v] = <<"0">>
  <1> DEFINE D == OneByOne(b)
             T == {v \in Nat : /\ D[v] \in Seq(Glyph) /\ D[v] # <<>>
                               /\ D[v][1] = "0" <=> v = 0}
  <1>1. \A v \in Nat :
          /\ v < b => D[v] = <<DigitChar[v + 1]>>
          /\ v >= b => D[v] = Append(D[v \div b], DigitChar[(v % b) + 1])
    BY OneByOneRecursion
  <1> HIDE DEF D
  <1>2. b \in Nat /\ b >= 2
    OBVIOUS
  <1>3. ASSUME NEW v \in Nat, v < b PROVE v \in T
    <2>1. v \in 0..15
      BY <1>3
    <2>2. DigitChar[v + 1] \in Glyph /\ (DigitChar[v + 1] = "0" <=> v = 0)
      BY ONLY <2>1, DigitCharProperties, Zenon
    <2>3. D[v] = <<DigitChar[v + 1]>>
      BY ONLY <1>1, <1>3, Zenon
    <2> DEFINE x == DigitChar[v + 1]
    <2> HIDE DEF x
    <2>4. <<x>> \in Seq(Glyph) /\ <<x>> # <<>> /\ <<x>>[1] = x
      BY ONLY <2>2 DEF x
    <2>5. D[v] \in Seq(Glyph) /\ D[v] # <<>> /\ D[v][1] = x
      BY ONLY <2>3, <2>4 DEF x
    <2> QED BY ONLY <2>2, <2>5, v \in Nat DEF x
  <1>4. ASSUME NEW v \in Nat, v >= b, v \div b \in T PROVE v \in T
    <2> DEFINE u == v \div b
    <2>1. v % b \in 0..15 /\ u # 0 /\ v # 0
      BY ONLY <1>2, <1>4, QuotientIsLess, b \in 2..16, v \in Nat
    <2>2. DigitChar[(v % b) + 1] \in Glyph
      BY ONLY <2>1, DigitCharProperties, Zenon
    <2>3. D[v] = Append(D[u], DigitChar[(v % b) + 1])
      BY ONLY <1>1, <1>4, Zenon
    <2>4. D[u] \in Seq(Glyph) /\ D[u] # <<>> /\ (D[u][1] = "0" <=> u = 0)
      BY ONLY <1>4
    <2> HIDE DEF u
    <2>5. 1 \in 1..Len(D[u])
      BY ONLY <2>4
    <2>6. D[v] \in Seq(Glyph) /\ D[v] # <<>> /\ D[v][1] = D[u][1]
      BY ONLY <2>2, <2>3, <2>4, <2>5, AppendProperties
    <2> QED BY ONLY <2>1, <2>4, <2>6, v \in Nat
  <1>5. \A v \in Nat : v \in T
    <2> HIDE DEF T
    <2> QED BY ONLY <1>2, <1>3, <1>4, DivisionInduction
  <1>6. D[0] = <<"0">>
    <2>1. D[0] = <<DigitChar[1]>>
      BY ONLY <1>1, <1>2
    <2>2. DigitChar[1] = "0"
      BY ONLY DEF DigitChar
    <2> QED BY ONLY <2>1, <2>2
  <1> QED BY ONLY <1>5, <1>6 DEF D

\* The bases that are written.
LEMMA DivisionByPairs ==
    ASSUME NEW b \in {8, 10, 16}, NEW v \in Nat
    PROVE  /\ b \in 2..16 /\ b * b \in Nat /\ b * b >= 2
           /\ v < b * b => /\ v \div b \in 0..15 /\ v % b \in 0..15
                           /\ v \div b < b /\ v \div b \in Nat
           /\ v \div b \in Nat /\ v \div (b * b) = (v \div b) \div b
           /\ v \div (b * b) \in Nat
           /\ (v % (b * b)) \div b = (v \div b) % b
           /\ (v % (b * b)) % b = v % b
           /\ v >= b * b => v >= b /\ v \div b >= b
           /\ v < b => v % b = v
  <1>1. CASE b = 8
    BY <1>1
  <1>2. CASE b = 10
    BY <1>2
  <1>3. CASE b = 16
    BY <1>3
  <1> QED BY <1>1, <1>2, <1>3

\* Two digits at a time write what one at a time does: formatDec, formatOct and
\* formatHex find the shortest digits of every number.
THEOREM PairsWriteDigits ==
    ASSUME NEW b \in {8, 10, 16}
    PROVE  \A v \in Nat : formatBase(b, v) = OneByOne(b)[v]
  <1> DEFINE D == OneByOne(b)
             R(h) == h = [v \in Nat |->
                            IF v < b * b THEN LeadingPair(b, v)
                            ELSE h[v \div (b * b)] \o Pair(b, v % (b * b))]
             c == PairByPair(b)
  <1>1. b \in 2..16 /\ b * b \in Nat /\ b * b >= 2
    BY DivisionByPairs
  <1>2. /\ D = [v \in Nat |-> D[v]]
        /\ \A v \in Nat :
             /\ v < b => D[v] = <<DigitChar[v + 1]>>
             /\ v >= b => D[v] = Append(D[v \div b], DigitChar[(v % b) + 1])
    BY <1>1, OneByOneRecursion
  <1>3. \A v \in Nat : D[v] \in Seq(Glyph)
    BY <1>1, OneByOneProperties
  <1> HIDE DEF D
  <1>4. ASSUME NEW v \in Nat, v < b * b
        PROVE  LeadingPair(b, v) = D[v]
    <2>1. /\ v \div b \in 0..15 /\ v % b \in 0..15 /\ v \div b < b /\ v \div b \in Nat
          /\ v < b => v % b = v
      BY ONLY <1>4, b \in {8, 10, 16}, v \in Nat, DivisionByPairs
    <2> DEFINE x == DigitChar[v \div b + 1]
               y == DigitChar[(v % b) + 1]
    <2>2. Pair(b, v) = <<x, y>>
      BY DEF Pair
    <2> HIDE DEF x, y
    <2>3. CASE v < b
      <3>1. LeadingPair(b, v) = <<y>>
        BY ONLY <2>2, <2>3 DEF LeadingPair
      <3>2. D[v] = <<y>>
        BY ONLY <1>2, <2>1, <2>3, v \in Nat DEF y
      <3> QED BY ONLY <3>1, <3>2
    <2>4. CASE v >= b
      <3>1. LeadingPair(b, v) = <<x, y>>
        BY ONLY <1>1, <2>2, <2>4, v \in Nat DEF LeadingPair
      <3>2. D[v] = Append(D[v \div b], y)
        BY ONLY <1>2, <2>4, v \in Nat DEF y
      <3>3. D[v \div b] = <<x>>
        BY ONLY <1>2, <2>1 DEF x
      <3> QED BY ONLY <3>1, <3>2, <3>3
    <2> QED BY ONLY <1>1, <2>3, <2>4, v \in Nat
  <1>5. ASSUME NEW v \in Nat, v >= b * b
        PROVE  /\ v \div (b * b) \in Nat
               /\ D[v] = D[v \div (b * b)] \o Pair(b, v % (b * b))
    <2> DEFINE u == v \div b
               w == v \div (b * b)
               x == DigitChar[(u % b) + 1]
               y == DigitChar[(v % b) + 1]
    <2>1. /\ u \in Nat /\ w = u \div b /\ w \in Nat /\ v >= b /\ u >= b
          /\ (v % (b * b)) \div b = u % b /\ (v % (b * b)) % b = v % b
      BY ONLY <1>5, b \in {8, 10, 16}, v \in Nat, DivisionByPairs
    <2>2. Pair(b, v % (b * b)) = <<x, y>>
      BY ONLY <2>1 DEF Pair
    <2>3. D[v] = Append(D[u], y) /\ D[u] = Append(D[w], x)
      BY ONLY <1>2, <2>1, v \in Nat
    <2>4. D[w] \in Seq(Glyph)
      BY ONLY <1>3, <2>1
    <2> HIDE DEF x, y, w
    <2>5. Append(Append(D[w], x), y) = D[w] \o <<x, y>>
      BY ONLY <2>4
    <2> QED BY ONLY <2>1, <2>2, <2>3, <2>5 DEF w
  <1>6. \A v \in Nat : v >= b * b <=> ~(v < b * b)
    BY ONLY <1>1
  <1>7. R(D)
    <2>1. ASSUME NEW v \in Nat
          PROVE  D[v] = IF v < b * b THEN LeadingPair(b, v)
                        ELSE D[v \div (b * b)] \o Pair(b, v % (b * b))
      BY ONLY <1>4, <1>5, <1>6, v \in Nat, Zenon
    <2> QED BY ONLY <1>2, <2>1
  <1>8. R(c)
    <2> HIDE DEF R
    <2>1. c = CHOOSE h : R(h)
      BY DEF PairByPair, R
    <2> QED BY ONLY <1>7, <2>1, Zenon
  <1> HIDE DEF c
  <1>9. ASSUME NEW v \in Nat
        PROVE  c[v] = IF v < b * b THEN LeadingPair(b, v)
                      ELSE c[v \div (b * b)] \o Pair(b, v % (b * b))
    BY ONLY <1>8, v \in Nat
  <1> DEFINE T == {v \in Nat : c[v] = D[v]}
  <1>10. ASSUME NEW v \in Nat, v < b * b PROVE v \in T
    BY ONLY <1>4, <1>9, <1>10
  <1>11. ASSUME NEW v \in Nat, v >= b * b, v \div (b * b) \in T PROVE v \in T
    BY ONLY <1>5, <1>6, <1>9, <1>11
  <1>12. \A v \in Nat : v \in T
    <2> HIDE DEF T
    <2> QED BY ONLY <1>1, <1>10, <1>11, DivisionInduction
  <1>13. \A v \in Nat : formatBase(b, v) = c[v]
    BY DigitsAre DEF c
  <1> QED BY ONLY <1>12, <1>13 DEF D

-----------------------------------------------------------------------------
(* Arguments *)

LEMMA ArgumentKinds ==
    ASSUME NEW a \in Argument
    PROVE  /\ Is(a, "int") => a.int \in Int /\ ~Is(a, "n") /\ ~Is(a, "special")
           /\ Is(a, "ptr") => a.ptr \in Nat /\ ~Is(a, "n") /\ ~Is(a, "special")
           /\ Is(a, "text") => /\ a.text \in Seq(STRING) /\ ~Is(a, "null")
                               /\ ~Is(a, "special")
           /\ Is(a, "null") => ~Is(a, "ptr") /\ ~Is(a, "n") /\ ~Is(a, "special")
           /\ Is(a, "n") => /\ a.neg \in BOOLEAN /\ a.n \in Nat /\ a.m \in Nat
                            /\ ~Is(a, "special") /\ ~Is(a, "int")
           /\ Is(a, "special") => /\ a.neg \in BOOLEAN /\ ~Is(a, "n") /\ ~Is(a, "int")
                                  /\ a.special \in {<<"i", "n", "f">>, <<"n", "a", "n">>}
  <1>1. CASE a \in [int : Int]
    <2>1. DOMAIN a = {"int"} /\ a.int \in Int
      BY <1>1
    <2> QED BY ONLY <2>1 DEF Is
  <1>2. CASE a \in [ptr : Nat]
    <2>1. DOMAIN a = {"ptr"} /\ a.ptr \in Nat
      BY <1>2
    <2> QED BY ONLY <2>1 DEF Is
  <1>3. CASE a \in [text : Seq(STRING), ptr : Nat]
    <2>1. DOMAIN a = {"text", "ptr"} /\ a.text \in Seq(STRING) /\ a.ptr \in Nat
      BY <1>3
    <2> QED BY ONLY <2>1 DEF Is
  <1>4. CASE a = Null
    <2>1. DOMAIN a = {"null"}
      BY <1>4 DEF Null
    <2> QED BY ONLY <2>1 DEF Is
  <1>5. CASE a \in [neg : BOOLEAN, n : Nat, m : Nat]
    <2>1. DOMAIN a = {"neg", "n", "m"} /\ a.neg \in BOOLEAN /\ a.n \in Nat /\ a.m \in Nat
      BY <1>5
    <2> QED BY ONLY <2>1 DEF Is
  <1>6. CASE a \in {Infinite(TRUE), Infinite(FALSE), NaN}
    <2>1. /\ DOMAIN a = {"neg", "special"} /\ a.neg \in BOOLEAN
          /\ a.special \in {<<"i", "n", "f">>, <<"n", "a", "n">>}
      <3>1. CASE a \in {Infinite(TRUE), Infinite(FALSE)}
        <4>1. PICK neg \in BOOLEAN : a = Infinite(neg)
          BY ONLY <3>1
        <4>2. a = [neg |-> neg, special |-> <<"i", "n", "f">>]
          BY ONLY <4>1 DEF Infinite
        <4> DEFINE inf == <<"i", "n", "f">>
        <4> HIDE DEF inf
        <4>3. DOMAIN a = {"neg", "special"} /\ a.neg = neg /\ a.special = inf
          BY ONLY <4>2 DEF inf
        <4> QED BY ONLY <4>3 DEF inf
      <3>2. CASE a = NaN
        <4>1. a = [neg |-> FALSE, special |-> <<"n", "a", "n">>]
          BY ONLY <3>2 DEF NaN
        <4> DEFINE nan == <<"n", "a", "n">>
        <4> HIDE DEF nan
        <4>2. DOMAIN a = {"neg", "special"} /\ a.neg = FALSE /\ a.special = nan
          BY ONLY <4>1 DEF nan
        <4> QED BY ONLY <4>2 DEF nan
      <3> QED BY ONLY <1>6, <3>1, <3>2
    <2> QED BY ONLY <2>1 DEF Is
  <1> QED BY <1>1, <1>2, <1>3, <1>4, <1>5, <1>6 DEF Argument

LEMMA MaxOfTwo ==
    ASSUME NEW x \in Int, NEW y \in Int
    PROVE  Max({x, y}) = IF x >= y THEN x ELSE y
  <1> DEFINE M == Max({x, y})
             largest == IF x >= y THEN x ELSE y
  <1>1. largest \in {x, y} /\ \A z \in {x, y} : largest >= z
    OBVIOUS
  <1>2. M \in {x, y} /\ \A z \in {x, y} : M >= z
    <2> HIDE DEF largest
    <2> QED BY ONLY <1>1 DEF Max
  <1> HIDE DEF M
  <1>3. M = largest
    BY ONLY <1>2, x \in Int, y \in Int
  <1> QED BY ONLY <1>3 DEF M

\* Padding.
LEMMA RunProperties ==
    ASSUME NEW S, NEW ch \in S, NEW k \in Int
    PROVE  /\ Run(ch, k) \in Seq(S)
           /\ Len(Run(ch, k)) = IF k >= 0 THEN k ELSE 0
           /\ k <= 0 => Run(ch, k) = <<>>
           /\ k > 0 => Run(ch, k)[1] = ch /\ Run(ch, k) = Run(ch, k - 1) \o <<ch>>
  <1> DEFINE R(j) == Run(ch, j)
  <1>1. ASSUME NEW j \in Int
        PROVE  R(j) = [i \in 1..(IF j >= 0 THEN j ELSE 0) |-> ch]
    <2>1. Max0(j) = IF j >= 0 THEN j ELSE 0
      BY MaxOfTwo DEF Max0
    <2> QED BY ONLY <2>1 DEF Run
  <1> HIDE DEF R
  <1>2. ASSUME NEW j \in Int
        PROVE  R(j) \in Seq(S) /\ Len(R(j)) = IF j >= 0 THEN j ELSE 0
    BY ONLY <1>1, ch \in S, j \in Int
  <1>3. ASSUME k <= 0 PROVE R(k) = <<>>
    BY ONLY <1>1, <1>3, k \in Int
  <1>4. ASSUME k > 0 PROVE R(k)[1] = ch /\ R(k) = R(k - 1) \o <<ch>>
    <2>1. k - 1 \in Int /\ k - 1 >= 0 /\ 1 \in 1..k
      BY <1>4
    <2>2. R(k) = [i \in 1..k |-> ch] /\ R(k - 1) = [i \in 1..(k - 1) |-> ch]
      BY ONLY <1>1, <1>4, <2>1, k \in Int
    <2> DEFINE t == [i \in 1..(k - 1) |-> ch]
    <2>3. t \in Seq(S) /\ Len(t) = k - 1
      BY ONLY <2>1, ch \in S
    <2>4. [i \in 1..k |-> ch] = t \o <<ch>>
      BY ONLY <1>4, <2>1, <2>3, k \in Int, ch \in S
    <2> QED BY ONLY <2>1, <2>2, <2>4
  <1> QED BY ONLY <1>2, <1>3, <1>4, k \in Int DEF R

-----------------------------------------------------------------------------
(* Integers *)

LEMMA Remainder ==
    ASSUME NEW v \in Int, NEW w \in Nat \ {0}
    PROVE  v % w \in Nat /\ v % w < w
  OBVIOUS

\* What is written of an integer is the size of its value, and a '-' is written
\* for the values below zero: the casts to intmax_t and to uintmax_t lose none.
LEMMA MagnitudeIsValue ==
    ASSUME SI \in Specification, SI.terminal \in IntegerTerminal, arg.int \in Int
    PROVE  /\ Value \in Int /\ Magnitude(SI, arg.int) \in Nat
           /\ Magnitude(SI, arg.int) = Abs(Value)
           /\ IsNegative(SI, arg.int) <=> SI.terminal = "d" /\ Value < 0
           /\ Abs(Value) = 0 <=> Value = 0
           /\ SI.terminal # "d" => Value >= 0
  <1> DEFINE l == SI.length
             v == arg.int
             b == Bits[l]
             h == Power(2, b - 1)
             g == Power(2, MaxBits - 1)
             low == v % Power(2, b)
             seen == SARG(l, v)
  <1>1. b \in 1..MaxBits /\ MaxBits \in Nat
    BY ConversionAssumption DEF Specification
  <1> HIDE DEF b
  <1>2. /\ h \in Nat \ {0} /\ g \in Nat /\ h <= g
        /\ Power(2, b) = 2 * h /\ Power(2, MaxBits) = 2 * g
    <2>1. b \in 1..MaxBits /\ MaxBits \in 1..MaxBits
      BY ONLY <1>1
    <2> QED BY ONLY <1>1, <2>1, PowersOfTwo
  <1> HIDE DEF h, g
  <1>3. low \in Nat /\ low < 2 * h
    <2>1. Power(2, b) \in Nat \ {0}
      BY ONLY <1>2
    <2>2. low \in Nat /\ low < Power(2, b)
      BY <2>1, Remainder
    <2> QED BY ONLY <1>2, <2>2
  <1>4. /\ UARG(l, v) = low
        /\ seen = IF low >= h THEN (low - 2 * h) % (2 * g) ELSE low
    BY ONLY <1>2 DEF SARG, UARG, b, h
  <1>5. /\ Value = IF SI.terminal = "d" /\ low >= h THEN low - 2 * h ELSE low
        /\ IsNegative(SI, v) <=> SI.terminal = "d" /\ seen >= g
        /\ Magnitude(SI, v) = IF SI.terminal # "d" THEN low
                              ELSE IF IsNegative(SI, v) THEN (0 - seen) % (2 * g)
                              ELSE seen
    BY ONLY <1>2, <1>4 DEF Value, IsNegative, Magnitude, b, h, g
  <1> DEFINE d == SI.terminal = "d"
  <1> HIDE DEF low, seen, l, v, d
  <1>6. CASE d /\ low >= h
    <2>1. seen = (low - 2 * h) % (2 * g)
      BY ONLY <1>4, <1>6
    <2>2. seen \in Nat /\ seen >= g /\ (0 - seen) % (2 * g) = 2 * h - low
      BY ONLY <1>2, <1>3, <1>6, <2>1, TwosComplement
    <2>3. Value = low - 2 * h /\ IsNegative(SI, v) /\ Magnitude(SI, v) = 2 * h - low
      BY ONLY <1>5, <1>6, <2>2 DEF d
    <2>4. /\ Value \in Int /\ Value < 0 /\ Magnitude(SI, v) \in Nat
          /\ Magnitude(SI, v) = 0 - Value /\ Magnitude(SI, v) # 0
      BY ONLY <1>2, <1>3, <1>6, <2>3
    <2> QED BY ONLY <1>6, <2>3, <2>4 DEF Abs, v, d
  <1>7. CASE ~(d /\ low >= h)
    <2>1. Value = low
      BY ONLY <1>5, <1>7 DEF d
    <2>2. ~IsNegative(SI, v) /\ Magnitude(SI, v) = low
      <3>1. CASE d
        <4>1. seen = low /\ low < h
          BY ONLY <1>2, <1>3, <1>4, <1>7, <3>1
        <4>2. ~(seen >= g)
          BY ONLY <1>2, <1>3, <4>1
        <4> QED BY ONLY <1>5, <3>1, <4>1, <4>2 DEF d
      <3>2. CASE ~d
        BY ONLY <1>5, <3>2 DEF d
      <3> QED BY ONLY <3>1, <3>2
    <2>3. Value \in Nat /\ ~(Value < 0)
      BY ONLY <1>3, <2>1
    <2> QED BY ONLY <2>1, <2>2, <2>3 DEF Abs, v
  <1> QED BY ONLY <1>6, <1>7

-----------------------------------------------------------------------------
(* The parts of a field *)

\* The digits of a finite number that are left over, and where they belong.
FloatPrepared ==
    SI.terminal \in FloatTerminal /\ Is(arg, "n") =>
      /\ fpprec = Leftover(Style(SI, Magnitude_f(arg), P))
      /\ gtoe <=> Style(SI, Magnitude_f(arg), P).style = "e"

\* Width and precision in force are the ones asked for.
AsAsked ==
    W = Abs(AskedWidth) /\ P = AskedPrecision /\ ("-" \in flags <=> LeftJustified)

\* What Begin leaves behind for the parts to be written from.
Prepared ==
    /\ <<SI, arg>> \in Calls /\ Convertible(SI, arg)
    /\ W \in Nat /\ P \in Nat \cup {-1} /\ AsAsked
    /\ flags \subseteq {"-", "0", "#"} /\ ("#" \in flags <=> "#" \in SI.flags)
    /\ "0" \in flags <=> "0" \in SI.flags /\ ZeroPadIgnored(SI, arg, P) = {}
    /\ sign = SignOf(SI, arg)
    /\ cp = TextProper(SI, arg, P)
    /\ fpprec \in Nat /\ gtoe \in BOOLEAN
    /\ fpprec > 0 \/ gtoe => SI.terminal \in FloatTerminal /\ Is(arg, "n")
    /\ FloatPrepared

\* Everything but a finite floating-point number.
NotFinite == SI.terminal \in FloatTerminal => ~Is(arg, "n")

SignPart  == IF HasSign THEN <<sign>> ELSE <<>>
PrecZeros == IF SI.terminal \in IntegerTerminal THEN Run("0", P - Len(cp)) ELSE <<>>

\* "0x" stands before the digits.
Prefixed == SI.terminal = "x" /\ "#" \in SI.flags /\ Value # 0

\* The number without prefix and padding.
Shortest == OneByOne(Base[SI.terminal])[Abs(Value)]

LEMMA CallTypes ==
    ASSUME <<SI, arg>> \in Calls
    PROVE  /\ SI \in Specification /\ arg \in Argument
           /\ SI.flags \subseteq {"-", "0", "#"} /\ SI.sign \in {NoSign, "+", Blank}
           /\ SI.terminal \in IntegerTerminal \cup FloatTerminal \cup {"c", "s", "p"}
           /\ SI.width \in Nat \cup {DYNAMIC_WIDTH}
           /\ SI.prec \in Nat \cup {-1, DYNAMIC_PRECISION}
           /\ SI.terminal \in {"c", "s"} => "0" \notin SI.flags
           /\ SI.terminal = "c" => ~Is(arg, "special")
  <1>1. SI \in Specification /\ arg \in Argument
    BY ConversionAssumption
  <1>2. /\ SI.terminal \in {"c", "s"} => "0" \notin SI.flags
        /\ SI.terminal = "c" => ~Is(arg, "special")
    <2>1. <<SI, arg>>[1] = SI /\ <<SI, arg>>[2] = arg
      OBVIOUS
    <2> QED BY <2>1, ConversionAssumption
  <1> QED BY ONLY <1>1, <1>2 DEF Specification

LEMMA TerminalKinds ==
    /\ IntegerTerminal \cap FloatTerminal = {}
    /\ {"c", "s", "p"} \cap (IntegerTerminal \cup FloatTerminal) = {}
    /\ {"d", "u", "o", "x"} = IntegerTerminal
  BY DEF IntegerTerminal, FloatTerminal

\* What each terminal converts.
LEMMA ConvertibleKinds ==
    ASSUME SI \in Specification, arg \in Argument, Convertible(SI, arg)
    PROVE  /\ SI.terminal \in IntegerTerminal => Is(arg, "int") /\ arg.int \in Int
           /\ SI.terminal = "c" => Is(arg, "int") \/ Is(arg, "n") \/ Is(arg, "special")
           /\ SI.terminal \in FloatTerminal => Is(arg, "n") \/ Is(arg, "special")
           /\ SI.terminal = "s" => Is(arg, "text") \/ Is(arg, "null")
           /\ SI.terminal = "p" => Is(arg, "ptr") \/ Is(arg, "null")
  <1> DEFINE t == SI.terminal
             isInt == Is(arg, "int")
             isFloat == Is(arg, "n") \/ Is(arg, "special")
             isText == Is(arg, "text") \/ Is(arg, "null")
             isPtr == Is(arg, "ptr") \/ Is(arg, "null")
             isNumber == isInt \/ isFloat
  <1>1. (CASE t \in IntegerTerminal -> isInt
           [] t \in FloatTerminal   -> isFloat
           [] t = "c" -> isNumber
           [] t = "s" -> isText
           [] t = "p" -> isPtr)
    BY DEF Convertible
  <1>2. isInt => arg.int \in Int
    BY ArgumentKinds
  <1> HIDE DEF isInt, isFloat, isText, isPtr, isNumber, t
  <1>3. /\ t \in IntegerTerminal => isInt
        /\ t \in FloatTerminal => isFloat
        /\ t = "c" => isNumber
        /\ t = "s" => isText
        /\ t = "p" => isPtr
    BY ONLY <1>1, TerminalKinds DEF FloatTerminal
  <1> QED BY ONLY <1>2, <1>3 DEF isInt, isFloat, isText, isPtr, isNumber, t

LEMMA SignsAreSigns ==
    "-" # NoSign /\ "+" # NoSign /\ Blank # NoSign
  BY Zenon DEF NoSign, Blank

\* Signs and prefixes are the standard's.
LEMMA SignIsLead ==
    ASSUME Prepared, NotFinite
    PROVE  /\ Prefixed => SignPart = <<>> /\ PrintfLead = <<"0", "x">>
           /\ ~Prefixed => PrintfLead = SignPart
           /\ SignPart \in Seq(Glyph) /\ PrintfLead \in Seq(Glyph)
           /\ Len(SignPart) = IF HasSign THEN 1 ELSE 0
  <1>1. /\ SI \in Specification /\ arg \in Argument /\ SI.sign \in {NoSign, "+", Blank}
        /\ sign = SignOf(SI, arg) /\ Convertible(SI, arg)
    BY CallTypes DEF Prepared
  <1>2. {"-", "+", Blank, "0", "x"} \subseteq Glyph
    BY DEF Glyph, DigitGlyph, OtherGlyph
  <1>3. SignPart \in Seq(Glyph) /\ Len(SignPart) = IF HasSign THEN 1 ELSE 0
    <2>1. sign = "-" \/ sign = SI.sign
      BY ONLY <1>1, Zenon DEF SignOf
    <2>2. HasSign => sign \in Glyph
      BY ONLY <1>1, <1>2, <2>1 DEF HasSign
    <2> QED BY ONLY <2>2 DEF SignPart
  <1>4. /\ Prefixed => SignPart = <<>> /\ PrintfLead = <<"0", "x">>
        /\ ~Prefixed => PrintfLead = SignPart
    <2>1. CASE SI.terminal = "d"
      <3>1. IsNegative(SI, arg.int) <=> Value < 0
        <4>1. SI.terminal \in IntegerTerminal /\ arg.int \in Int
          BY ONLY <1>1, <2>1, ConvertibleKinds, TerminalKinds
        <4> QED BY ONLY <1>1, <2>1, <4>1, MagnitudeIsValue
      <3>2. SI.terminal \in IntegerTerminal /\ SI.terminal \notin FloatTerminal
        BY ONLY <2>1, TerminalKinds
      <3>3. /\ Value < 0 => sign = "-"
            /\ ~(Value < 0) => sign = SI.sign
        BY ONLY <1>1, <3>1, <3>2, Zenon DEF SignOf
      <3> QED BY ONLY <1>1, <2>1, <3>3, SignsAreSigns
              DEF Prefixed, PrintfLead, SignPart, HasSign
    <2>2. CASE SI.terminal \in FloatTerminal
      <3>1. IsBelowZero(arg) <=> arg.neg
        BY <1>1, <2>2, ArgumentKinds, ConvertibleKinds DEF NotFinite, IsBelowZero
      <3>2. SI.terminal \notin IntegerTerminal /\ SI.terminal \notin {"d", "x"}
        BY ONLY <2>2, TerminalKinds
      <3>3. /\ arg.neg => sign = "-"
            /\ ~arg.neg => sign = SI.sign
        BY ONLY <1>1, <2>2, <3>1, <3>2, Zenon DEF SignOf
      <3> QED BY ONLY <1>1, <2>2, <3>2, <3>3, SignsAreSigns
              DEF Prefixed, PrintfLead, SignPart, HasSign
    <2>3. CASE SI.terminal \notin {"d"} \cup FloatTerminal
      BY ONLY <2>3 DEF Prefixed, PrintfLead, SignPart, HasSign
    <2> QED BY ONLY <2>1, <2>2, <2>3
  <1>5. <<"0", "x">> \in Seq(Glyph)
    BY ONLY <1>2
  <1> QED BY ONLY <1>3, <1>4, <1>5

\* A number with at least so many digits.
LEMMA DigitsProperties ==
    ASSUME NEW b \in 2..16, NEW v \in Nat, NEW least \in Int,
           NEW d, d = OneByOne(b)[v]
    PROVE  /\ d \in Seq(Glyph) /\ Len(d) \in Nat \ {0}
           /\ Digits(v, b, least) \in Seq(Glyph)
           /\ Len(Digits(v, b, least)) = IF least >= Len(d) THEN least ELSE Len(d)
           /\ least <= Len(d) => Digits(v, b, least) = d
           /\ least > Len(d) => Digits(v, b, least)[1] = "0"
  <1> DEFINE r == Run("0", least - Len(d))
             t == Digits(v, b, least)
  <1>1. d \in Seq(Glyph) /\ d # <<>>
    BY OneByOneProperties
  <1>2. Len(d) \in Nat \ {0}
    BY ONLY <1>1
  <1>3. t = r \o d
    BY DigitsAre
  <1>4. "0" \in Glyph
    BY DEF Glyph, DigitGlyph
  <1>5. least - Len(d) \in Int
    BY ONLY <1>2, least \in Int
  <1>6. /\ r \in Seq(Glyph)
        /\ Len(r) = IF least - Len(d) >= 0 THEN least - Len(d) ELSE 0
        /\ least - Len(d) <= 0 => r = <<>>
        /\ least - Len(d) > 0 => r[1] = "0"
    BY ONLY <1>4, <1>5, RunProperties
  <1> HIDE DEF r, t
  <1>7. t \in Seq(Glyph) /\ Len(t) = Len(r) + Len(d)
    BY ONLY <1>1, <1>3, <1>6, ConcatProperties
  <1>8. Len(t) = IF least >= Len(d) THEN least ELSE Len(d)
    BY ONLY <1>2, <1>6, <1>7, least \in Int
  <1>9. ASSUME least <= Len(d) PROVE t = d
    <2>1. r = <<>>
      BY ONLY <1>2, <1>6, <1>9, least \in Int
    <2> QED BY ONLY <1>1, <1>3, <2>1, ConcatEmptySeq
  <1>10. ASSUME least > Len(d) PROVE t[1] = "0"
    <2>1. r[1] = "0" /\ 1 \in 1..Len(r)
      BY ONLY <1>2, <1>6, <1>10, least \in Int
    <2> QED BY ONLY <1>1, <1>3, <1>6, <2>1
  <1> QED BY ONLY <1>1, <1>2, <1>7, <1>8, <1>9, <1>10 DEF t

\* The digits of an integer and their prefix.
LEMMA IntegerText ==
    ASSUME Prepared, SI.terminal \in IntegerTerminal, NEW d, d = Shortest
    PROVE  /\ Base[SI.terminal] \in 2..16 /\ Abs(Value) \in Nat /\ P \in Int
           /\ d \in Seq(Glyph) /\ Len(d) \in Nat \ {0}
           /\ d[1] = "0" <=> Value = 0
           /\ d[1] = "0" => d = <<"0">>
           /\ cp = IF Prefixed THEN <<"0", "x">> \o d
                   ELSE IF SI.terminal = "o" /\ "#" \in SI.flags /\ Value # 0
                   THEN <<"0">> \o d ELSE d
  <1>1. /\ SI \in Specification /\ arg \in Argument /\ Convertible(SI, arg)
        /\ cp = TextProper(SI, arg, P) /\ P \in Nat \cup {-1}
    BY CallTypes DEF Prepared
  <1>2. arg.int \in Int
    BY <1>1, ConvertibleKinds
  <1>3. /\ Magnitude(SI, arg.int) = Abs(Value) /\ Abs(Value) \in Nat
        /\ Abs(Value) = 0 <=> Value = 0
    BY <1>1, <1>2, MagnitudeIsValue
  <1>4. Base[SI.terminal] \in {8, 10, 16} /\ Base[SI.terminal] \in 2..16
    <2>1. Base["d"] = 10 /\ Base["u"] = 10 /\ Base["o"] = 8 /\ Base["x"] = 16
      BY DEF Base
    <2>2. SI.terminal \in {"d", "u", "o", "x"}
      BY DEF IntegerTerminal
    <2> HIDE DEF Base
    <2> QED BY ONLY <2>1, <2>2
  <1> DEFINE b == Base[SI.terminal]
             v == Abs(Value)
  <1> HIDE DEF b, v
  <1>0. d = OneByOne(b)[v] /\ b \in {8, 10, 16} /\ b \in 2..16 /\ v \in Nat
    <2>1. d = OneByOne(b)[v]
      BY Zenon DEF Shortest, b, v
    <2>2. b \in {8, 10, 16} /\ b \in 2..16 /\ v \in Nat
      BY ONLY <1>3, <1>4 DEF b, v
    <2> QED BY ONLY <2>1, <2>2
  <1>5. d = formatBase(b, v)
    <2>1. formatBase(b, v) = OneByOne(b)[v]
      BY ONLY <1>0, PairsWriteDigits, Zenon
    <2> QED BY ONLY <1>0, <2>1
  <1>6. /\ d \in Seq(Glyph) /\ d # <<>> /\ (d[1] = "0" <=> Value = 0)
        /\ Value = 0 => d = <<"0">>
    <2>1. /\ d \in Seq(Glyph) /\ d # <<>> /\ (d[1] = "0" <=> v = 0)
          /\ v = 0 => d = <<"0">>
      <3> DEFINE D == OneByOne(b)
      <3>1. /\ D[v] \in Seq(Glyph) /\ D[v] # <<>> /\ (D[v][1] = "0" <=> v = 0)
            /\ v = 0 => D[v] = <<"0">>
        BY ONLY <1>0, OneByOneProperties, Zenon
      <3> QED BY ONLY <1>0, <3>1
    <2> QED BY ONLY <1>3, <2>1 DEF v
  <1>7. cp = Number(SI, arg.int)
    <2> DEFINE t == SI.terminal
               rest == CASE t \in FloatTerminal -> FloatText(SI, arg, P)
                         [] t = "c" -> CharText(arg)
                         [] t = "s" -> StringText(arg, P)
                         [] t = "p" -> PointerText(arg)
    <2> QED BY <1>1, TerminalKinds DEF TextProper
  <1>8. cp = Prefix(SI, d) \o d
    BY ONLY <1>3, <1>5, <1>7 DEF Number, b, v
  <1>9. Len(d) \in Nat \ {0}
    BY ONLY <1>6
  <1>10. cp = IF Prefixed THEN <<"0", "x">> \o d
              ELSE IF SI.terminal = "o" /\ "#" \in SI.flags /\ Value # 0
              THEN <<"0">> \o d ELSE d
    <2>1. CASE Prefixed
      <3>1. Prefix(SI, d) = <<"0", "x">>
        BY ONLY <1>6, <2>1, Zenon DEF Prefix, Prefixed
      <3> QED BY ONLY <1>8, <2>1, <3>1
    <2>2. CASE ~Prefixed /\ SI.terminal = "o" /\ "#" \in SI.flags /\ Value # 0
      <3>1. Prefix(SI, d) = <<"0">>
        BY ONLY <1>6, <2>2, Zenon DEF Prefix, Prefixed
      <3> QED BY ONLY <1>8, <2>2, <3>1
    <2>3. CASE ~Prefixed /\ ~(SI.terminal = "o" /\ "#" \in SI.flags /\ Value # 0)
      <3>1. Prefix(SI, d) = <<>>
        BY ONLY <1>6, <2>3, Zenon DEF Prefix, Prefixed
      <3>2. <<>> \o d = d
        BY ONLY <1>6, ConcatEmptySeq
      <3> QED BY ONLY <1>8, <2>3, <3>1, <3>2
    <2> QED BY ONLY <2>1, <2>2, <2>3
  <1> QED BY ONLY <1>1, <1>3, <1>4, <1>6, <1>9, <1>10

\* What the standard prints between the padding, one kind at a time.
LEMMA BodyKinds ==
    ASSUME Prepared, NotFinite
    PROVE  /\ SI.terminal \in IntegerTerminal =>
                LET plain == Digits(Abs(Value), Base[SI.terminal], Max({P, 1}))
                IN  PrintfBody =
                      IF SI.terminal = "o" /\ "#" \in SI.flags /\ plain[1] # "0"
                      THEN <<"0">> \o plain ELSE plain
           /\ SI.terminal \in FloatTerminal => PrintfBody = arg.special
           /\ SI.terminal = "c" => PrintfBody = CharText(arg)
           /\ SI.terminal = "s" => PrintfBody = StringText(arg, P)
           /\ SI.terminal = "p" =>
                PrintfBody = Digits(IF Is(arg, "ptr") THEN arg.ptr ELSE 0, 16,
                                    MaxBits \div 4)
  <1>1. /\ SI \in Specification /\ arg \in Argument /\ Convertible(SI, arg)
        /\ SI.terminal = "c" => ~Is(arg, "special")
    BY CallTypes DEF Prepared
  <1>2. /\ SI.terminal \in IntegerTerminal \cup {"c", "s", "p"} => ~Is(arg, "special")
        /\ SI.terminal \in FloatTerminal => Is(arg, "special")
    <2>1. Is(arg, "int") \/ Is(arg, "ptr") \/ Is(arg, "text") \/ Is(arg, "null")
            => ~Is(arg, "special")
      BY ONLY <1>1, ArgumentKinds, Zenon
    <2>2. /\ SI.terminal \in IntegerTerminal => Is(arg, "int")
          /\ SI.terminal \in FloatTerminal => Is(arg, "n") \/ Is(arg, "special")
          /\ SI.terminal = "s" => Is(arg, "text") \/ Is(arg, "null")
          /\ SI.terminal = "p" => Is(arg, "ptr") \/ Is(arg, "null")
      BY ONLY <1>1, ConvertibleKinds
    <2>3. SI.terminal \in FloatTerminal => ~Is(arg, "n")
      BY DEF NotFinite
    <2> QED BY ONLY <1>1, <2>1, <2>2, <2>3
  <1> DEFINE t == SI.terminal
             plain == Digits(Abs(Value), Base[t], Max({P, 1}))
             int == IF t = "o" /\ "#" \in SI.flags /\ plain[1] # "0"
                    THEN <<"0">> \o plain ELSE plain
             special == Is(arg, "special")
             inf == arg.special
             char == CharText(arg)
             text == StringText(arg, P)
             ptr == Digits(IF Is(arg, "ptr") THEN arg.ptr ELSE 0, 16, MaxBits \div 4)
  <1>3. PrintfBody = (CASE t \in IntegerTerminal -> int
                        [] special -> inf
                        [] t \in FloatTerminal /\ ~special -> PrintfFloat
                        [] t = "c" -> char
                        [] t = "s" -> text
                        [] t = "p" -> ptr)
    <2>1. AskedPrecision = P
      BY ONLY Prepared, Zenon DEF Prepared, AsAsked
    <2> QED BY ONLY <2>1 DEF PrintfBody
  <1> HIDE DEF t, int, special, inf, char, text, ptr
  <1>4. /\ t \in IntegerTerminal \cup {"c", "s", "p"} => ~special
        /\ t \in FloatTerminal => special
    BY <1>2 DEF t, special
  <1>5. /\ t \in IntegerTerminal => PrintfBody = int
        /\ t \in FloatTerminal => PrintfBody = inf
        /\ t = "c" => PrintfBody = char
        /\ t = "s" => PrintfBody = text
        /\ t = "p" => PrintfBody = ptr
    BY ONLY <1>3, <1>4, TerminalKinds
  <1> QED BY ONLY <1>5 DEF t, int, special, inf, char, text, ptr

\* An octal number whose precision asks for a zero gets none as a prefix.
LEMMA OctalPrefix ==
    ASSUME NEW S, NEW d \in Seq(S), NEW zero \in S, NEW p \in Int, p > Len(d)
    PROVE  Run(zero, p - Len(d)) \o d = Run(zero, p - (Len(d) + 1)) \o (<<zero>> \o d)
  <1> DEFINE k == p - Len(d)
             r == Run(zero, k - 1)
             one == <<zero>>
  <1>1. Len(d) \in Nat /\ k \in Int /\ k > 0 /\ k - 1 = p - (Len(d) + 1) /\ k - 1 \in Int
    OBVIOUS
  <1> HIDE DEF k
  <1>2. Run(zero, k) = r \o one /\ r \in Seq(S)
    BY ONLY <1>1, RunProperties, zero \in S
  <1>3. one \in Seq(S)
    OBVIOUS
  <1> HIDE DEF r, one
  <1>4. (r \o one) \o d = r \o (one \o d)
    BY ONLY <1>2, <1>3, d \in Seq(S), ConcatAssociative, SMTT(30)
  <1> QED BY ONLY <1>1, <1>2, <1>4 DEF k, r, one

\* The precision of an integer and its prefix are the standard's.
LEMMA IntegerBody ==
    ASSUME Prepared, SI.terminal \in IntegerTerminal
    PROVE  /\ cp \in Seq(Glyph) /\ Len(cp) \in Nat \ {0} /\ PrintfBody \in Seq(Glyph)
           /\ Len(cp) > 1 /\ cp[1] = "0" => "#" \in SI.flags
           /\ ~Prefixed => PrintfBody = PrecZeros \o cp
           /\ Prefixed => <<"0", "x">> \o Shortest = cp /\ Shortest \in Seq(Glyph)
           /\ Prefixed /\ P <= Len(cp) - 2 => PrintfBody = Shortest
  <1> DEFINE d == Shortest
             b == Base[SI.terminal]
             v == Abs(Value)
             plain == Digits(v, b, Max({P, 1}))
             octal == SI.terminal = "o" /\ "#" \in SI.flags /\ Value # 0
             one == <<"0">>
             two == <<"0", "x">>
  <1>1. /\ b \in 2..16 /\ v \in Nat /\ P \in Int
        /\ d \in Seq(Glyph) /\ Len(d) \in Nat \ {0}
        /\ d[1] = "0" <=> Value = 0
        /\ d[1] = "0" => d = one
        /\ cp = IF Prefixed THEN two \o d ELSE IF octal THEN one \o d ELSE d
    BY IntegerText
  <1>2. d = OneByOne(b)[v]
    BY DEF Shortest
  <1>0. PrintfBody = IF SI.terminal = "o" /\ "#" \in SI.flags /\ plain[1] # "0"
                     THEN one \o plain ELSE plain
    <2>1. NotFinite
      BY TerminalKinds DEF NotFinite
    <2> QED BY <2>1, BodyKinds
  <1> HIDE DEF d, b, v
  <1>21. b \in 2..16 /\ v \in Nat /\ P \in Int
    BY ONLY <1>1
  <1>22. d \in Seq(Glyph) /\ Len(d) \in Nat \ {0}
    BY ONLY <1>1
  <1>23. (d[1] = "0" <=> Value = 0) /\ (d[1] = "0" => d = one)
    BY ONLY <1>1
  <1> DEFINE least == Max({P, 1})
  <1>3. least = IF P >= 1 THEN P ELSE 1
    BY <1>21, MaxOfTwo
  <1>4. least \in Int
    BY ONLY <1>21, <1>3
  <1> HIDE DEF least
  <1>5. /\ plain = Run("0", least - Len(d)) \o d /\ plain \in Seq(Glyph)
        /\ least <= Len(d) => plain = d
        /\ least > Len(d) => plain[1] = "0"
    <2> DEFINE t == Digits(v, b, least)
    <2>1. plain = t
      BY DEF plain, least
    <2>2. /\ t = Run("0", least - Len(d)) \o d /\ t \in Seq(Glyph)
          /\ least <= Len(d) => t = d
          /\ least > Len(d) => t[1] = "0"
      <3>1. b \in 2..16 /\ v \in Nat /\ least \in Int /\ d = OneByOne(b)[v]
        BY ONLY <1>2, <1>4, <1>21
      <3>2. t = Run("0", least - Len(d)) \o d
        BY ONLY <3>1, DigitsAre
      <3>3. t \in Seq(Glyph)
        BY ONLY <3>1, DigitsProperties, ZenonT(30)
      <3>4. least <= Len(d) => t = d
        BY ONLY <3>1, DigitsProperties, ZenonT(30)
      <3>5. least > Len(d) => t[1] = "0"
        BY ONLY <3>1, DigitsProperties, ZenonT(30)
      <3> QED BY ONLY <3>2, <3>3, <3>4, <3>5
    <2> HIDE DEF t
    <2> QED BY ONLY <2>1, <2>2, Zenon
  <1>6. plain \in Seq(Glyph)
    BY ONLY <1>5
  <1>7. PrecZeros = Run("0", P - Len(cp))
    BY DEF PrecZeros
  <1> HIDE DEF plain
  <1>8. /\ P <= Len(d) => plain = d
        /\ P > Len(d) => plain[1] = "0" /\ plain = Run("0", P - Len(d)) \o d
    <2>1. P <= Len(d) => least <= Len(d)
      BY ONLY <1>3, <1>21, <1>22
    <2>2. P > Len(d) => least > Len(d) /\ least = P
      BY ONLY <1>3, <1>21, <1>22
    <2> QED BY ONLY <1>5, <2>1, <2>2
  <1>9. "0" \in Glyph /\ "x" \in Glyph
    BY DEF Glyph, DigitGlyph, OtherGlyph
  <1>10. one \in Seq(Glyph) /\ Len(one) = 1 /\ one[1] = "0"
    BY ONLY <1>9
  <1>11. two \in Seq(Glyph) /\ Len(two) = 2
    BY ONLY <1>9
  <1>12. \A k \in Int : k <= 0 => Run("0", k) = <<>>
    BY ONLY <1>9, RunProperties
  <1> HIDE DEF one, two, octal
  <1>13. /\ Prefixed => cp = two \o d
         /\ ~Prefixed /\ octal => cp = one \o d
         /\ ~Prefixed /\ ~octal => cp = d
    BY ONLY <1>1
  <1>14. ASSUME NEW t \in Seq(Glyph), cp = t \o d
         PROVE  cp \in Seq(Glyph) /\ Len(cp) = Len(t) + Len(d)
    BY ONLY <1>14, <1>22, ConcatProperties
  <1>15. cp \in Seq(Glyph) /\ Len(cp) \in Nat \ {0}
    <2>1. CASE Prefixed
      <3>1. cp \in Seq(Glyph) /\ Len(cp) = Len(two) + Len(d)
        BY ONLY <1>11, <1>13, <1>14, <2>1, Zenon
      <3> QED BY ONLY <1>11, <1>22, <3>1
    <2>2. CASE ~Prefixed /\ octal
      <3>1. cp \in Seq(Glyph) /\ Len(cp) = Len(one) + Len(d)
        BY ONLY <1>10, <1>13, <1>14, <2>2, Zenon
      <3> QED BY ONLY <1>10, <1>22, <3>1
    <2>3. CASE ~Prefixed /\ ~octal
      BY ONLY <1>13, <1>22, <2>3
    <2> QED BY ONLY <2>1, <2>2, <2>3
  <1>16. PrintfBody \in Seq(Glyph)
    <2>1. one \o plain \in Seq(Glyph)
      BY ONLY <1>6, <1>10, ConcatProperties
    <2> QED BY ONLY <1>0, <1>6, <2>1
  <1>17. Len(cp) > 1 /\ cp[1] = "0" => "#" \in SI.flags
    <2>1. CASE Prefixed \/ octal
      BY ONLY <2>1 DEF Prefixed, octal
    <2>2. CASE ~Prefixed /\ ~octal
      <3>1. cp = d
        BY ONLY <1>13, <2>2
      <3>2. ASSUME Len(cp) > 1, cp[1] = "0" PROVE FALSE
        <4>1. cp = one
          BY ONLY <1>23, <3>1, <3>2
        <4>2. Len(cp) = 1
          BY ONLY <1>10, <4>1
        <4> QED BY ONLY <3>2, <4>2
      <3> QED BY ONLY <3>2
    <2> QED BY ONLY <2>1, <2>2
  <1>18. ASSUME Prefixed PROVE PrintfBody = plain /\ Len(cp) = 2 + Len(d)
    <2>1. PrintfBody = plain
      BY ONLY <1>0, <1>18 DEF Prefixed
    <2>2. Len(cp) = 2 + Len(d)
      <3>1. Len(cp) = Len(two) + Len(d)
        BY ONLY <1>11, <1>13, <1>14, <1>18, Zenon
      <3> QED BY ONLY <1>11, <1>22, <3>1
    <2> QED BY ONLY <2>1, <2>2
  <1>19. ASSUME ~Prefixed, octal PROVE PrintfBody = PrecZeros \o cp
    <2>1. cp = one \o d /\ SI.terminal = "o" /\ "#" \in SI.flags
      BY ONLY <1>13, <1>19 DEF octal
    <2>2. Len(cp) = Len(d) + 1
      <3>1. Len(cp) = Len(one) + Len(d)
        BY ONLY <1>10, <1>14, <2>1, Zenon
      <3> QED BY ONLY <1>10, <1>22, <3>1
    <2>3. d[1] # "0"
      BY ONLY <1>19, <1>23 DEF octal
    <2>4. CASE P <= Len(d)
      <3>1. PrintfBody = cp
        BY ONLY <1>0, <1>8, <2>1, <2>3, <2>4
      <3>2. P - Len(cp) \in Int /\ P - Len(cp) <= 0
        BY ONLY <1>21, <1>22, <2>2, <2>4
      <3>3. PrecZeros = <<>>
        BY ONLY <1>7, <1>12, <3>2
      <3>4. <<>> \o cp = cp
        BY ONLY <1>15, ConcatEmptySeq
      <3> QED BY ONLY <3>1, <3>3, <3>4
    <2>5. CASE P > Len(d)
      <3>1. PrintfBody = Run("0", P - Len(d)) \o d
        BY ONLY <1>0, <1>8, <2>5
      <3>2. Run("0", P - Len(d)) \o d = Run("0", P - (Len(d) + 1)) \o (<<"0">> \o d)
        BY ONLY <1>9, <1>21, <1>22, <2>5, OctalPrefix
      <3> QED BY ONLY <1>7, <2>1, <2>2, <3>1, <3>2 DEF one
    <2> QED BY ONLY <1>21, <1>22, <2>4, <2>5
  <1>20. ASSUME ~Prefixed, ~octal PROVE PrintfBody = PrecZeros \o cp
    <2>1. cp = d
      BY ONLY <1>13, <1>20
    <2>2. PrintfBody = plain
      <3>1. CASE Value = 0
        <4>1. d[1] = "0"
          BY ONLY <1>23, <3>1
        <4>2. plain[1] = "0"
          BY ONLY <1>8, <1>21, <1>22, <4>1
        <4> QED BY ONLY <1>0, <4>2
      <3>2. CASE Value # 0
        BY ONLY <1>0, <1>20, <3>2 DEF octal
      <3> QED BY ONLY <3>1, <3>2
    <2>3. CASE P <= Len(d)
      <3>1. P - Len(d) \in Int /\ P - Len(d) <= 0
        BY ONLY <1>21, <1>22, <2>3
      <3>2. PrecZeros = <<>>
        BY ONLY <1>7, <1>12, <2>1, <3>1
      <3>3. <<>> \o d = d
        BY ONLY <1>22, ConcatEmptySeq
      <3> QED BY ONLY <1>8, <2>1, <2>2, <2>3, <3>2, <3>3
    <2>4. CASE P > Len(d)
      BY ONLY <1>7, <1>8, <2>1, <2>2, <2>4
    <2> QED BY ONLY <1>21, <1>22, <2>3, <2>4
  <1>24. ASSUME Prefixed, P <= Len(cp) - 2 PROVE PrintfBody = d
    BY ONLY <1>8, <1>18, <1>21, <1>22, <1>24
  <1>25. ~Prefixed => PrintfBody = PrecZeros \o cp
    BY ONLY <1>19, <1>20
  <1>26. Prefixed => <<"0", "x">> \o d = cp /\ d \in Seq(Glyph)
    BY ONLY <1>13, <1>22 DEF two
  <1> QED BY ONLY <1>15, <1>16, <1>17, <1>24, <1>25, <1>26 DEF d

\* The texts proper of the other kinds.
LEMMA ProperIs ==
    ASSUME Prepared, NotFinite
    PROVE  /\ SI.terminal \in FloatTerminal => cp = arg.special
           /\ SI.terminal = "c" => cp = CharText(arg)
           /\ SI.terminal = "s" => cp = StringText(arg, P)
           /\ SI.terminal = "p" => cp = PointerText(arg)
  <1>1. /\ SI \in Specification /\ arg \in Argument /\ Convertible(SI, arg)
        /\ cp = TextProper(SI, arg, P)
    BY CallTypes DEF Prepared
  <1> DEFINE t == SI.terminal
             int == Number(SI, arg.int)
             float == FloatText(SI, arg, P)
             char == CharText(arg)
             text == StringText(arg, P)
             ptr == PointerText(arg)
  <1>2. cp = (CASE t \in IntegerTerminal -> int
                [] t \in FloatTerminal   -> float
                [] t = "c" -> char
                [] t = "s" -> text
                [] t = "p" -> ptr)
    BY <1>1 DEF TextProper
  <1>3. t \in FloatTerminal => float = arg.special
    <2>1. t \in FloatTerminal => Is(arg, "special")
      BY <1>1, ConvertibleKinds DEF NotFinite
    <2> QED BY ONLY <2>1, Zenon DEF FloatText
  <1> HIDE DEF t, int, float, char, text, ptr
  <1>4. /\ t \in FloatTerminal => cp = float
        /\ t = "c" => cp = char
        /\ t = "s" => cp = text
        /\ t = "p" => cp = ptr
    BY ONLY <1>2, TerminalKinds DEF FloatTerminal
  <1> QED BY ONLY <1>3, <1>4 DEF t, char, text, ptr

LEMMA StringTextType ==
    ASSUME NEW a \in Argument, Is(a, "text") \/ Is(a, "null"),
           NEW p \in Nat \cup {-1}
    PROVE  StringText(a, p) \in Seq(Glyph)
  <1> DEFINE null == <<"(", "n", "u", "l", "l", ")">>
             text == IF Is(a, "null") THEN null ELSE a.text
  <1>1. null \in Seq(Glyph)
    BY DEF Glyph, OtherGlyph
  <1>2. ~Is(a, "null") => a.text \in Seq(Glyph)
    <2>1. ~Is(a, "null") => a.text \in Seq(STRING)
      BY ArgumentKinds
    <2>2. STRING \subseteq Glyph
      BY DEF Glyph
    <2> DEFINE String == STRING
    <2> HIDE DEF String
    <2>3. \A x \in Seq(String) : String \subseteq Glyph => x \in Seq(Glyph)
      OBVIOUS
    <2> QED BY ONLY <2>1, <2>2, <2>3 DEF String
  <1> HIDE DEF null
  <1>3. text \in Seq(Glyph)
    BY ONLY <1>1, <1>2
  <1> HIDE DEF text
  <1>4. p >= 0 /\ p < Len(text) => SubSeq(text, 1, p) \in Seq(Glyph)
    BY ONLY <1>3, p \in Nat \cup {-1}
  <1>5. StringText(a, p) = IF p >= 0 /\ p < Len(text) THEN SubSeq(text, 1, p) ELSE text
    BY DEF StringText, text, null
  <1> QED BY ONLY <1>3, <1>4, <1>5

\* A pointer is written with all its digits.
LEMMA PointerIsPadded ==
    ASSUME NEW a \in Argument
    PROVE  /\ PointerText(a) = Digits(IF Is(a, "ptr") THEN a.ptr ELSE 0, 16, MaxBits \div 4)
           /\ PointerText(a) \in Seq(Glyph)
  <1> DEFINE v == IF Is(a, "ptr") THEN a.ptr ELSE 0
             size == MaxBits \div 4
             d == OneByOne(16)[v]
  <1>1. v \in Nat
    BY ArgumentKinds
  <1>2. size \in Nat
    BY ConversionAssumption
  <1> HIDE DEF v, size, d
  <1>3. formatBase(16, v) = d
    BY ONLY <1>1, PairsWriteDigits DEF d
  <1>4. PointerText(a) = [i \in 1..(size - Len(d)) |-> "0"] \o d
    BY ONLY <1>3 DEF PointerText, v, size
  <1>5. Digits(v, 16, size) = Run("0", size - Len(d)) \o d
    BY ONLY DigitsAre DEF d
  <1>6. d \in Seq(Glyph) /\ Len(d) \in Nat \ {0} /\ Digits(v, 16, size) \in Seq(Glyph)
    <2> DEFINE sixteen == 16
    <2>1. sixteen \in 2..16 /\ size \in Int /\ d = OneByOne(sixteen)[v]
      BY ONLY <1>2 DEF d
    <2> HIDE DEF sixteen
    <2>2. /\ d \in Seq(Glyph) /\ Len(d) \in Nat \ {0}
          /\ Digits(v, sixteen, size) \in Seq(Glyph)
      BY ONLY <1>1, <2>1, DigitsProperties
    <2> QED BY ONLY <2>2 DEF sixteen
  <1>7. [i \in 1..(size - Len(d)) |-> "0"] = Run("0", size - Len(d))
    <2> DEFINE k == size - Len(d)
    <2>1. k \in Int
      BY ONLY <1>2, <1>6
    <2> HIDE DEF k
    <2>2. Max0(k) = IF 0 >= k THEN 0 ELSE k
      BY ONLY <2>1, MaxOfTwo DEF Max0
    <2>3. 1..k = 1..Max0(k)
      BY ONLY <2>1, <2>2
    <2> QED BY ONLY <2>3 DEF Run, k
  <1> QED BY ONLY <1>4, <1>5, <1>6, <1>7 DEF v, size

LEMMA ToIntType ==
    ASSUME NEW a \in Argument, Is(a, "int") \/ Is(a, "n")
    PROVE  ToInt(a) \in Int
  <1>1. /\ Is(a, "int") => a.int \in Int
        /\ ~Is(a, "int") => a.neg \in BOOLEAN /\ a.n \in Nat /\ a.m \in Nat
    BY ONLY a \in Argument, Is(a, "int") \/ Is(a, "n"), ArgumentKinds, Zenon
  <1>2. CASE Is(a, "int")
    BY ONLY <1>1, <1>2 DEF ToInt
  <1>3. CASE ~Is(a, "int")
    <2> DEFINE unit == Power(10, a.m)
               whole == a.n \div unit
    <2>1. 10 \in Nat \ {0} /\ a.m \in Nat /\ a.n \in Nat
      BY ONLY <1>1, <1>3
    <2>2. unit \in Nat \ {0}
      BY ONLY <2>1, PowersOfTen
    <2> HIDE DEF unit
    <2>3. whole \in Nat
      BY ONLY <2>1, <2>2
    <2> HIDE DEF whole
    <2>4. ToInt(a) = IF a.neg THEN -whole ELSE whole
      BY ONLY <1>3, Zenon DEF ToInt, whole, unit
    <2> QED BY ONLY <2>3, <2>4
  <1> QED BY ONLY <1>2, <1>3

\* Precision and padding of everything else.
LEMMA OtherBody ==
    ASSUME Prepared, NotFinite, SI.terminal \notin IntegerTerminal
    PROVE  PrintfBody = cp /\ cp \in Seq(Glyph) /\ PrecZeros = <<>>
  <1>1. /\ SI \in Specification /\ arg \in Argument /\ Convertible(SI, arg)
        /\ P \in Nat \cup {-1}
        /\ SI.terminal \in FloatTerminal \cup {"c", "s", "p"}
        /\ SI.terminal = "c" => ~Is(arg, "special")
    BY CallTypes DEF Prepared
  <1>2. CASE SI.terminal \in FloatTerminal
    <2>1. Is(arg, "special")
      BY <1>1, <1>2, ConvertibleKinds DEF NotFinite
    <2>2. arg.special \in {<<"i", "n", "f">>, <<"n", "a", "n">>}
      BY ONLY <1>1, <2>1, ArgumentKinds, Zenon
    <2>3. <<"i", "n", "f">> \in Seq(Glyph) /\ <<"n", "a", "n">> \in Seq(Glyph)
      BY DEF Glyph, DigitGlyph, OtherGlyph
    <2>4. PrintfBody = arg.special /\ cp = arg.special
      BY <1>2, BodyKinds, ProperIs
    <2>5. arg.special \in Seq(Glyph)
      BY ONLY <2>2, <2>3, Zenon
    <2> QED BY <2>4, <2>5 DEF PrecZeros
  <1>3. CASE SI.terminal = "c"
    <2>1. ToInt(arg) % 256 \in Int
      <3>1. Is(arg, "int") \/ Is(arg, "n")
        BY ONLY <1>1, <1>3, ConvertibleKinds
      <3>2. ToInt(arg) \in Int
        BY ONLY <1>1, <3>1, ToIntType
      <3> QED BY ONLY <3>2
    <2>3. ToString(ToInt(arg) % 256) \in Glyph
      BY ONLY <2>1, Zenon DEF Glyph
    <2>4. CharText(arg) \in Seq(Glyph)
      BY ONLY <2>3 DEF CharText
    <2> QED BY <1>3, <2>4, BodyKinds, ProperIs DEF PrecZeros
  <1>4. CASE SI.terminal = "s"
    <2>1. StringText(arg, P) \in Seq(Glyph)
      BY <1>1, <1>4, ConvertibleKinds, StringTextType
    <2> QED BY <1>4, <2>1, BodyKinds, ProperIs DEF PrecZeros
  <1>5. CASE SI.terminal = "p"
    BY <1>1, <1>5, BodyKinds, ProperIs, PointerIsPadded DEF PrecZeros
  <1> QED BY ONLY <1>1, <1>2, <1>3, <1>4, <1>5

-----------------------------------------------------------------------------
(* The invariant: what has been written is the parts up to pc *)

Unprepared ==
    W = 0 /\ P = -1 /\ flags = {} /\ sign = NoSign /\ fpprec = 0 /\ gtoe = FALSE

BlankPart == IF flags \cap {"0", "-"} = {} THEN Run(Blank, W - realsz) ELSE <<>>
ZeroPart  == IF PaddedWithZeros THEN Run("0", W - realsz) ELSE <<>>
Number1   == SubSeq(cp, 1, LeftoverAt)
Number2   == Run("0", fpprec) \o SubSeq(cp, LeftoverAt + 1, Len(cp))
LeftPart  == IF "-" \in flags THEN Run(Blank, W - realsz) ELSE <<>>

Written ==
    /\ pc = "blanks"    => outbuf = <<>>
    /\ pc = "sign"      => outbuf = <<>> \o BlankPart
    /\ pc = "zeros"     => outbuf = (<<>> \o BlankPart) \o SignPart
    /\ pc = "precision" => outbuf = ((<<>> \o BlankPart) \o SignPart) \o ZeroPart
    /\ pc = "number"    => outbuf = (((<<>> \o BlankPart) \o SignPart) \o ZeroPart)
                                        \o PrecZeros
    /\ pc = "leftover"  => outbuf = ((((<<>> \o BlankPart) \o SignPart) \o ZeroPart)
                                        \o PrecZeros) \o Number1
    /\ pc = "left"      => outbuf = (((((<<>> \o BlankPart) \o SignPart) \o ZeroPart)
                                        \o PrecZeros) \o Number1) \o Number2
    /\ pc = "done"      => outbuf = ((((((<<>> \o BlankPart) \o SignPart) \o ZeroPart)
                                        \o PrecZeros) \o Number1) \o Number2) \o LeftPart

Layout ==
    /\ <<SI, arg>> \in Calls
    /\ given \in [width : Widths \cup {0}, prec : Precisions \cup {-1}]
    /\ pc \in {"begin", "blanks", "sign", "zeros", "precision", "number", "leftover",
               "left", "done"}
    /\ pc = "begin" => Unprepared /\ outbuf = <<>>
    /\ pc # "begin" /\ Convertible(SI, arg) => Prepared /\ Written
    /\ pc # "begin" /\ ~Convertible(SI, arg) =>
         pc = "done" /\ Unprepared /\ outbuf = <<"(", "E", "R", ")">>

\* Every number of digits that can be left over.
LEMMA LeftoverType ==
    ASSUME SI \in Specification, arg \in Argument, SI.terminal \in FloatTerminal,
           Is(arg, "n"), NEW p \in Nat \cup {-1},
           NEW st, st = Style(SI, Magnitude_f(arg), p)
    PROVE  Leftover(st) \in Nat
  <1> DEFINE v == Magnitude_f(arg)
             len == Len(Digits(v.n, 10, 1))
             sig == Significant(p)
             exp == Log10(v)
  <1>1. arg \in [neg : BOOLEAN, n : Nat, m : Nat]
    <2>1. /\ \A a \in [int : Int] : ~Is(a, "n")
          /\ \A a \in [ptr : Nat] : ~Is(a, "n")
          /\ \A a \in [text : Seq(STRING), ptr : Nat] : ~Is(a, "n")
      BY DEF Is
    <2>2. ~Is(Null, "n")
      BY DEF Is, Null
    <2>3. \A a \in {Infinite(TRUE), Infinite(FALSE), NaN} : ~Is(a, "n")
      BY DEF Is, Infinite, NaN
    <2> QED BY <2>1, <2>2, <2>3 DEF Argument
  <1>2. v.n \in Nat /\ v.m \in Nat
    BY <1>1 DEF Magnitude_f
  <1> HIDE DEF v
  <1>3. len \in Nat
    <2>1. 10 \in 2..16 /\ 1 \in Int
      OBVIOUS
    <2> DEFINE t == Digits(v.n, 10, 1)
    <2>2. t \in Seq(Glyph)
      BY ONLY <1>2, <2>1, DigitsProperties, Zenon
    <2> HIDE DEF t
    <2>3. Len(t) \in Nat
      BY ONLY <2>2
    <2> QED BY <2>3 DEF t
  <1>4. exp \in Int
    BY ONLY <1>2, <1>3 DEF Log10
  <1>5. sig \in Int
    BY MaxOfTwo, ConversionAssumption DEF Significant
  <1> HIDE DEF sig, exp
  <1>6. st.style \in {"f", "e", "g"} /\ st.prec \in Int
    <2>1. st = IF SI.terminal # "g" \/ "#" \notin SI.flags
               THEN [style |-> SI.terminal, prec |-> p]
               ELSE IF sig > exp /\ exp >= -4
               THEN [style |-> "f", prec |-> sig - (exp + 1)]
               ELSE [style |-> "e", prec |-> sig - 1]
      BY DEF Style, sig, exp, v
    <2>2. SI.terminal \in {"f", "e", "g"}
      BY DEF FloatTerminal
    <2> QED BY ONLY <1>4, <1>5, <2>1, <2>2, p \in Nat \cup {-1}
  <1>7. st.style # "g" => st.prec - MAXFRACT[st.style] \in Int
    BY ONLY <1>6, ConversionAssumption
  <1>8. \A k \in Int : Max0(k) \in Nat
    BY MaxOfTwo DEF Max0
  <1> QED BY ONLY <1>7, <1>8 DEF Leftover

LEMMA LayoutInit ==
    ASSUME Init
    PROVE  Layout
  <1>1. <<SI, arg>> \in Calls
    <2>1. PICK call \in Calls : SI = call[1] /\ arg = call[2]
      BY DEF Init
    <2>2. call \in Specification \X Argument
      BY ConversionAssumption
    <2>3. call = <<SI, arg>>
      BY ONLY <2>1, <2>2
    <2> QED BY <2>3
  <1>2. given \in [width : Widths \cup {0}, prec : Precisions \cup {-1}]
    <2> DEFINE ws == IF SI.width = DYNAMIC_WIDTH THEN Widths ELSE {0}
               ps == IF SI.prec = DYNAMIC_PRECISION THEN Precisions ELSE {-1}
    <2>1. given \in [width : ws, prec : ps]
      BY DEF Init
    <2>2. ws \subseteq Widths \cup {0} /\ ps \subseteq Precisions \cup {-1}
      OBVIOUS
    <2> HIDE DEF ws, ps
    <2> QED BY ONLY <2>1, <2>2
  <1> QED BY <1>1, <1>2, Zenon DEF Init, Layout, Unprepared

\* Begin prepares.
LEMMA LayoutBegin ==
    ASSUME Layout, Begin
    PROVE  Layout'
  <1>1. /\ SI' = SI /\ arg' = arg /\ outbuf' = <<>> /\ pc' = "blanks"
        /\ Convertible(SI, arg) /\ <<SI, arg>> \in Calls /\ Unprepared
        /\ given' = given
        /\ given \in [width : Widths \cup {0}, prec : Precisions \cup {-1}]
    BY DEF Begin, Layout
  <1>2. /\ SI \in Specification /\ arg \in Argument
        /\ SI.flags \subseteq {"-", "0", "#"}
        /\ SI.width \in Nat \cup {DYNAMIC_WIDTH}
        /\ SI.prec \in Nat \cup {-1, DYNAMIC_PRECISION}
    BY <1>1, CallTypes
  <1> DEFINE w == given.width
             p == given.prec
  <1>3. /\ W' = IF SI.width = DYNAMIC_WIDTH THEN Abs(w) ELSE SI.width
        /\ P' = IF SI.prec = DYNAMIC_PRECISION THEN Max({p, -1}) ELSE SI.prec
        /\ flags' = (SI.flags \cup Justified(SI, w)) \ ZeroPadIgnored(SI, arg, P')
    BY DEF Begin
  <1>4. w \in Int /\ p \in Int
    <2>1. w \in Widths \cup {0} /\ p \in Precisions \cup {-1}
      BY ONLY <1>1
    <2> QED BY <2>1, ConversionAssumption
  <1> HIDE DEF w, p
  <1>5. W' \in Nat
    BY <1>2, <1>3, <1>4 DEF Abs
  <1>6. P' \in Nat \cup {-1}
    <2>1. Max({p, -1}) \in Nat \cup {-1}
      BY <1>4, MaxOfTwo
    <2> QED BY ONLY <1>2, <1>3, <2>1
  <1>7. /\ flags' \subseteq {"-", "0", "#"} /\ ("#" \in flags' <=> "#" \in SI.flags)
        /\ "0" \in flags' <=> "0" \in SI.flags /\ ZeroPadIgnored(SI, arg, P') = {}
    <2> DEFINE j == Justified(SI, w)
               z == ZeroPadIgnored(SI, arg, P')
    <2>1. j = {"-"} \/ j = {}
      BY Zenon DEF Justified
    <2>2. z = {"0"} \/ z = {}
      BY Zenon DEF ZeroPadIgnored
    <2> HIDE DEF j, z
    <2>3. flags' = (SI.flags \cup j) \ z
      BY <1>3 DEF j, z
    <2> QED BY ONLY <1>2, <2>1, <2>2, <2>3 DEF z
  <1>13. AsAsked'
    <2> DEFINE z == ZeroPadIgnored(SI, arg, P')
               j == Justified(SI, w)
    <2>1. AskedWidth' = IF SI.width = DYNAMIC_WIDTH THEN w ELSE SI.width
      BY ONLY <1>1, Zenon DEF AskedWidth, w
    <2>2. AskedPrecision' =
            LET q == IF SI.prec = DYNAMIC_PRECISION THEN p ELSE SI.prec
            IN  IF q < 0 THEN -1 ELSE q
      BY ONLY <1>1, Zenon DEF AskedPrecision, p
    <2>3. SI.width # DYNAMIC_WIDTH => SI.width \in Nat
      BY ONLY <1>2
    <2>4. W' = Abs(AskedWidth')
      BY ONLY <1>3, <1>4, <2>1, <2>3 DEF Abs
    <2>5. P' = AskedPrecision'
      <3>1. Max({p, -1}) = IF p >= -1 THEN p ELSE -1
        BY ONLY <1>4, MaxOfTwo
      <3> QED BY ONLY <1>2, <1>3, <1>4, <2>2, <3>1 DEF DYNAMIC_PRECISION
    <2>6. LeftJustified' <=> "-" \in SI.flags \/ AskedWidth' < 0
      BY ONLY <1>1, Zenon DEF LeftJustified
    <2>7. AskedWidth' < 0 <=> SI.width = DYNAMIC_WIDTH /\ w < 0
      BY ONLY <2>1, <2>3
    <2>8. j = IF SI.width = DYNAMIC_WIDTH /\ w < 0 THEN {"-"} ELSE {}
      BY ONLY Zenon DEF Justified
    <2>9. z = {"0"} \/ z = {}
      BY Zenon DEF ZeroPadIgnored
    <2> HIDE DEF j, z
    <2>10. "-" \in flags' <=> LeftJustified'
      <3>1. flags' = (SI.flags \cup j) \ z
        BY ONLY <1>3, Zenon DEF j, z
      <3>2. "-" \in flags' <=> "-" \in SI.flags \/ "-" \in j
        BY ONLY <2>9, <3>1
      <3> QED BY ONLY <2>6, <2>7, <2>8, <3>2
    <2> QED BY ONLY <2>4, <2>5, <2>10, Zenon DEF AsAsked
  <1>8. sign' = SignOf(SI, arg) /\ cp' = TextProper(SI, arg, P')
    BY DEF Begin
  <1>9. /\ fpprec' \in Nat /\ gtoe' \in BOOLEAN
        /\ fpprec' > 0 \/ gtoe' => SI.terminal \in FloatTerminal /\ Is(arg, "n")
    <2>1. CASE SI.terminal \in FloatTerminal /\ Is(arg, "n")
      <3> DEFINE st == Style(SI, Magnitude_f(arg), P')
      <3>1. fpprec' = Leftover(st) /\ gtoe' = (st.style = "e")
        BY <2>1 DEF Begin
      <3>2. Leftover(st) \in Nat
        BY <1>2, <1>6, <2>1, LeftoverType
      <3> HIDE DEF st
      <3> QED BY ONLY <2>1, <3>1, <3>2
    <2>2. CASE ~(SI.terminal \in FloatTerminal /\ Is(arg, "n"))
      <3>1. fpprec' = fpprec /\ gtoe' = gtoe
        BY <2>2 DEF Begin
      <3>2. fpprec' = 0
        BY <1>1, <3>1 DEF Unprepared
      <3>3. ~gtoe' /\ gtoe' \in BOOLEAN
        BY <1>1, <3>1, Zenon DEF Unprepared
      <3>4. ~(fpprec' > 0) /\ fpprec' \in Nat
        BY ONLY <3>2
      <3> QED BY ONLY <3>3, <3>4, Zenon
    <2> QED BY <2>1, <2>2
  <1>10. Prepared'
    <2>1. FloatPrepared'
      <3>1. SI.terminal \in FloatTerminal /\ Is(arg, "n") =>
              /\ fpprec' = Leftover(Style(SI, Magnitude_f(arg), P'))
              /\ gtoe' <=> Style(SI, Magnitude_f(arg), P').style = "e"
        BY DEF Begin
      <3> QED BY ONLY <1>1, <3>1, Zenon DEF FloatPrepared
    <2> QED BY ONLY <1>1, <1>5, <1>6, <1>7, <1>8, <1>9, <1>13, <2>1, Zenon DEF Prepared
  <1>11. Written'
    BY ONLY <1>1 DEF Written
  <1>12. /\ Convertible(SI', arg') /\ <<SI', arg'>> \in Calls
         /\ given' \in [width : Widths \cup {0}, prec : Precisions \cup {-1}]
    BY ONLY <1>1, Zenon
  <1> QED BY ONLY <1>1, <1>10, <1>11, <1>12 DEF Layout

LEMMA LayoutMismatch ==
    ASSUME Layout, Mismatch
    PROVE  Layout'
  <1>1. /\ SI' = SI /\ arg' = arg /\ pc' = "done" /\ outbuf' = <<"(", "E", "R", ")">>
        /\ ~Convertible(SI, arg) /\ <<SI, arg>> \in Calls
        /\ UNCHANGED <<given, W, P, flags, sign, fpprec, gtoe>>
        /\ given \in [width : Widths \cup {0}, prec : Precisions \cup {-1}]
    BY DEF Mismatch, Layout
  <1>2. Unprepared
    BY DEF Mismatch, Layout
  <1>3. Unprepared'
    BY ONLY <1>1, <1>2 DEF Unprepared
  <1>4. /\ ~Convertible(SI', arg') /\ <<SI', arg'>> \in Calls
        /\ given' \in [width : Widths \cup {0}, prec : Precisions \cup {-1}]
    BY ONLY <1>1
  <1> QED BY ONLY <1>1, <1>3, <1>4 DEF Layout

\* Nothing that the parts are written from changes any more.
LEMMA PartsStay ==
    ASSUME UNCHANGED <<SI, arg, given, W, P, flags, sign, cp, fpprec, gtoe>>
    PROVE  /\ Convertible(SI, arg) => Convertible(SI', arg')
           /\ Prepared => Prepared'
           /\ BlankPart' = BlankPart /\ SignPart' = SignPart /\ ZeroPart' = ZeroPart
           /\ PrecZeros' = PrecZeros /\ Number1' = Number1 /\ Number2' = Number2
           /\ LeftPart' = LeftPart
  <1>1. /\ SI' = SI /\ arg' = arg /\ W' = W /\ P' = P /\ flags' = flags /\ sign' = sign
        /\ cp' = cp /\ fpprec' = fpprec /\ gtoe' = gtoe /\ given' = given
    OBVIOUS
  <1>2. HasSign' = HasSign /\ PaddedWithZeros' = PaddedWithZeros
    BY ONLY <1>1, Zenon DEF HasSign, PaddedWithZeros
  <1>3. realsz' = realsz
    BY ONLY <1>1, <1>2, Zenon DEF realsz
  <1>4. LeftoverAt' = LeftoverAt
    BY ONLY <1>1, Zenon DEF LeftoverAt
  <1>5. Convertible(SI, arg) => Convertible(SI', arg')
    BY ONLY <1>1, Zenon
  <1>6. Prepared => Prepared'
    <2>1. AsAsked' <=> AsAsked
      BY ONLY <1>1, Zenon DEF AsAsked, AskedWidth, AskedPrecision, LeftJustified
    <2> QED BY ONLY <1>1, <2>1, Zenon DEF Prepared, FloatPrepared
  <1>7. BlankPart' = BlankPart /\ LeftPart' = LeftPart
    BY ONLY <1>1, <1>3, Zenon DEF BlankPart, LeftPart
  <1>8. SignPart' = SignPart /\ ZeroPart' = ZeroPart
    BY ONLY <1>1, <1>2, <1>3, Zenon DEF SignPart, ZeroPart
  <1>9. PrecZeros' = PrecZeros
    BY ONLY <1>1, Zenon DEF PrecZeros
  <1>10. Number1' = Number1 /\ Number2' = Number2
    BY ONLY <1>1, <1>4, Zenon DEF Number1, Number2
  <1> QED BY ONLY <1>5, <1>6, <1>7, <1>8, <1>9, <1>10

\* Each part is appended in its turn.
LEMMA LayoutParts ==
    ASSUME Layout,
           \/ LeadingBlanks \/ WriteSign \/ LeadingZeros \/ PrecisionZeros
           \/ WriteNumber \/ LeftoverZeros \/ TrailingBlanks
    PROVE  Layout'
  <1> DEFINE Stages == {"blanks", "sign", "zeros", "precision", "number", "leftover",
                        "left"}
  <1>1. ASSUME NEW name, NEW text, NEW next, Part(name, text, next), Written => Written',
               name \in Stages /\ next \in Stages \cup {"done"}
        PROVE  Layout'
    <2>1. pc = name /\ pc' = next /\ UNCHANGED <<SI, arg, given, W, P, flags, sign, cp, fpprec, gtoe>>
      BY ONLY <1>1 DEF Part
    <2>2. pc # "begin" /\ pc # "done" /\ pc' # "begin"
      BY ONLY <1>1, <2>1
    <2>3. /\ Convertible(SI, arg) /\ Prepared /\ Written /\ <<SI, arg>> \in Calls
          /\ given \in [width : Widths \cup {0}, prec : Precisions \cup {-1}]
      BY ONLY <2>2, Layout, Zenon DEF Layout
    <2>4. Convertible(SI', arg') /\ Prepared'
      BY ONLY <2>1, <2>3, PartsStay
    <2>5. /\ <<SI', arg'>> \in Calls
          /\ given' \in [width : Widths \cup {0}, prec : Precisions \cup {-1}]
      BY ONLY <2>1, <2>3
    <2>6. pc' \in {"begin", "blanks", "sign", "zeros", "precision", "number", "leftover",
                   "left", "done"}
      BY ONLY <1>1, <2>1
    <2>7. Written'
      BY ONLY <1>1, <2>3
    <2> QED BY ONLY <2>2, <2>4, <2>5, <2>6, <2>7, Zenon DEF Layout
  <1>2. ASSUME NEW name, NEW text, NEW next, Part(name, text, next)
        PROVE  /\ pc = name /\ outbuf' = outbuf \o text /\ pc' = next
               /\ BlankPart' = BlankPart /\ SignPart' = SignPart /\ ZeroPart' = ZeroPart
               /\ PrecZeros' = PrecZeros /\ Number1' = Number1 /\ Number2' = Number2
               /\ LeftPart' = LeftPart
    BY ONLY <1>2, PartsStay DEF Part
  <1>3. CASE LeadingBlanks
    <2>1. Part("blanks", BlankPart, "sign")
      BY ONLY <1>3, Zenon DEF LeadingBlanks, BlankPart
    <2>2. Written => Written'
      <3>1. /\ pc = "blanks" /\ outbuf' = outbuf \o BlankPart /\ pc' = "sign"
          /\ BlankPart' = BlankPart
        BY ONLY <1>2, <2>1, Zenon
      <3> QED BY ONLY <3>1 DEF Written
    <2>3. "blanks" \in Stages /\ "sign" \in Stages \cup {"done"}
      BY ONLY TRUE
    <2> QED BY ONLY <1>1, <2>1, <2>2, <2>3, Zenon
  <1>4. CASE WriteSign
    <2>1. Part("sign", SignPart, "zeros")
      BY ONLY <1>4, Zenon DEF WriteSign, SignPart
    <2>2. Written => Written'
      <3>1. /\ pc = "sign" /\ outbuf' = outbuf \o SignPart /\ pc' = "zeros"
          /\ BlankPart' = BlankPart /\ SignPart' = SignPart
        BY ONLY <1>2, <2>1, Zenon
      <3> QED BY ONLY <3>1 DEF Written
    <2>3. "sign" \in Stages /\ "zeros" \in Stages \cup {"done"}
      BY ONLY TRUE
    <2> QED BY ONLY <1>1, <2>1, <2>2, <2>3, Zenon
  <1>5. CASE LeadingZeros
    <2>1. Part("zeros", ZeroPart, "precision")
      BY ONLY <1>5, Zenon DEF LeadingZeros, ZeroPart
    <2>2. Written => Written'
      <3>1. /\ pc = "zeros" /\ outbuf' = outbuf \o ZeroPart /\ pc' = "precision"
          /\ BlankPart' = BlankPart /\ SignPart' = SignPart /\ ZeroPart' = ZeroPart
        BY ONLY <1>2, <2>1, Zenon
      <3> QED BY ONLY <3>1 DEF Written
    <2>3. "zeros" \in Stages /\ "precision" \in Stages \cup {"done"}
      BY ONLY TRUE
    <2> QED BY ONLY <1>1, <2>1, <2>2, <2>3, Zenon
  <1>6. CASE PrecisionZeros
    <2>1. Part("precision", PrecZeros, "number")
      BY ONLY <1>6, Zenon DEF PrecisionZeros, PrecZeros
    <2>2. Written => Written'
      <3>1. /\ pc = "precision" /\ outbuf' = outbuf \o PrecZeros /\ pc' = "number"
          /\ BlankPart' = BlankPart /\ SignPart' = SignPart /\ ZeroPart' = ZeroPart
          /\ PrecZeros' = PrecZeros
        BY ONLY <1>2, <2>1, Zenon
      <3> QED BY ONLY <3>1 DEF Written
    <2>3. "precision" \in Stages /\ "number" \in Stages \cup {"done"}
      BY ONLY TRUE
    <2> QED BY ONLY <1>1, <2>1, <2>2, <2>3, Zenon
  <1>7. CASE WriteNumber
    <2>1. Part("number", Number1, "leftover")
      BY ONLY <1>7, Zenon DEF WriteNumber, Number1
    <2>2. Written => Written'
      <3>1. /\ pc = "number" /\ outbuf' = outbuf \o Number1 /\ pc' = "leftover"
          /\ BlankPart' = BlankPart /\ SignPart' = SignPart /\ ZeroPart' = ZeroPart
          /\ PrecZeros' = PrecZeros /\ Number1' = Number1
        BY ONLY <1>2, <2>1, Zenon
      <3> QED BY ONLY <3>1 DEF Written
    <2>3. "number" \in Stages /\ "leftover" \in Stages \cup {"done"}
      BY ONLY TRUE
    <2> QED BY ONLY <1>1, <2>1, <2>2, <2>3, Zenon
  <1>8. CASE LeftoverZeros
    <2>1. Part("leftover", Number2, "left")
      BY ONLY <1>8, Zenon DEF LeftoverZeros, Number2
    <2>2. Written => Written'
      <3>1. /\ pc = "leftover" /\ outbuf' = outbuf \o Number2 /\ pc' = "left"
          /\ BlankPart' = BlankPart /\ SignPart' = SignPart /\ ZeroPart' = ZeroPart
          /\ PrecZeros' = PrecZeros /\ Number1' = Number1 /\ Number2' = Number2
        BY ONLY <1>2, <2>1, Zenon
      <3> QED BY ONLY <3>1 DEF Written
    <2>3. "leftover" \in Stages /\ "left" \in Stages \cup {"done"}
      BY ONLY TRUE
    <2> QED BY ONLY <1>1, <2>1, <2>2, <2>3, Zenon
  <1>9. CASE TrailingBlanks
    <2>1. Part("left", LeftPart, "done")
      BY ONLY <1>9, Zenon DEF TrailingBlanks, LeftPart
    <2>2. Written => Written'
      <3>1. /\ pc = "left" /\ outbuf' = outbuf \o LeftPart /\ pc' = "done"
          /\ BlankPart' = BlankPart /\ SignPart' = SignPart /\ ZeroPart' = ZeroPart
          /\ PrecZeros' = PrecZeros /\ Number1' = Number1 /\ Number2' = Number2
          /\ LeftPart' = LeftPart
        BY ONLY <1>2, <2>1, Zenon
      <3> QED BY ONLY <3>1 DEF Written
    <2>3. "left" \in Stages /\ "done" \in Stages \cup {"done"}
      BY ONLY TRUE
    <2> QED BY ONLY <1>1, <2>1, <2>2, <2>3, Zenon
  <1> QED BY ONLY <1>3, <1>4, <1>5, <1>6, <1>7, <1>8, <1>9,
          LeadingBlanks \/ WriteSign \/ LeadingZeros \/ PrecisionZeros
            \/ WriteNumber \/ LeftoverZeros \/ TrailingBlanks

LEMMA LayoutNext ==
    ASSUME Layout, [Next]_vars
    PROVE  Layout'
  <1>1. CASE Begin
    BY ONLY <1>1, Layout, LayoutBegin
  <1>2. CASE Mismatch
    BY ONLY <1>2, Layout, LayoutMismatch
  <1>3. CASE \/ LeadingBlanks \/ WriteSign \/ LeadingZeros \/ PrecisionZeros
             \/ WriteNumber \/ LeftoverZeros \/ TrailingBlanks
    BY ONLY <1>3, Layout, LayoutParts
  <1>4. CASE UNCHANGED vars
    <2>1. /\ UNCHANGED <<SI, arg, given, W, P, flags, sign, cp, fpprec, gtoe>>
          /\ SI' = SI /\ arg' = arg /\ pc' = pc /\ outbuf' = outbuf
          /\ W' = W /\ P' = P /\ flags' = flags /\ sign' = sign
          /\ fpprec' = fpprec /\ gtoe' = gtoe /\ given' = given
      BY ONLY <1>4 DEF vars
    <2>2. /\ Prepared => Prepared'
          /\ BlankPart' = BlankPart /\ SignPart' = SignPart /\ ZeroPart' = ZeroPart
          /\ PrecZeros' = PrecZeros /\ Number1' = Number1 /\ Number2' = Number2
          /\ LeftPart' = LeftPart
      BY ONLY <2>1, PartsStay
    <2>3. Written => Written'
      BY ONLY <2>1, <2>2, Zenon DEF Written
    <2>4. Convertible(SI', arg') <=> Convertible(SI, arg)
      BY ONLY <2>1, Zenon
    <2>5. Unprepared => Unprepared'
      BY ONLY <2>1, Zenon DEF Unprepared
    <2>6. pc' \in {"begin", "blanks", "sign", "zeros", "precision", "number", "leftover",
                   "left", "done"} /\ <<SI', arg'>> \in Calls
          /\ given' \in [width : Widths \cup {0}, prec : Precisions \cup {-1}]
      BY ONLY <2>1, Layout, Zenon DEF Layout
    <2>7. pc' = "begin" => Unprepared' /\ outbuf' = <<>>
      BY ONLY <2>1, <2>5, Layout, Zenon DEF Layout
    <2>8. pc' # "begin" /\ Convertible(SI', arg') => Prepared' /\ Written'
      BY ONLY <2>1, <2>2, <2>3, <2>4, Layout, Zenon DEF Layout
    <2>9. pc' # "begin" /\ ~Convertible(SI', arg') =>
            pc' = "done" /\ Unprepared' /\ outbuf' = <<"(", "E", "R", ")">>
      BY ONLY <2>1, <2>4, <2>5, Layout, Zenon DEF Layout
    <2> QED BY ONLY <2>6, <2>7, <2>8, <2>9, Zenon DEF Layout
  <1> QED BY ONLY <1>1, <1>2, <1>3, <1>4, [Next]_vars, Zenon DEF Next

\* In every state the code reaches, what it has written is the parts of the
\* field up to the one it writes next, and what it writes them from is what the
\* specification, the argument, the width and the precision make of each other.
THEOREM FieldIsItsParts == Spec => []Layout
  <1>1. Init => Layout
    BY LayoutInit
  <1>2. Layout /\ [Next]_vars => Layout'
    BY LayoutNext
  <1> QED BY <1>1, <1>2, PTL DEF Spec

LEMMA LayoutGivesType ==
    ASSUME Layout
    PROVE  TypeOK
  <1>0. given \in [width : Widths \cup {0}, prec : Precisions \cup {-1}]
    BY ONLY Layout, Zenon DEF Layout
  <1>1. CASE Prepared
    <2>1. /\ <<SI, arg>> \in Calls /\ W \in Nat /\ P \in Nat \cup {-1}
          /\ flags \subseteq {"-", "0", "#"} /\ ("#" \in flags <=> "#" \in SI.flags)
          /\ sign = SignOf(SI, arg) /\ fpprec \in Nat /\ gtoe \in BOOLEAN
          /\ fpprec > 0 => SI.terminal \in FloatTerminal
      BY ONLY <1>1, Zenon DEF Prepared
    <2>2. sign \in {NoSign, "-", "+", Blank}
      <3>1. SI.sign \in {NoSign, "+", Blank}
        BY ONLY <2>1, CallTypes
      <3>2. sign = "-" \/ sign = SI.sign
        BY ONLY <2>1, Zenon DEF SignOf
      <3> QED BY ONLY <3>1, <3>2
    <2>3. ASSUME SI.terminal \in IntegerTerminal
          PROVE  cp # <<>> /\ (Len(cp) > 1 /\ cp[1] = "0" => "#" \in flags)
      <3>1. Len(cp) \in Nat \ {0} /\ (Len(cp) > 1 /\ cp[1] = "0" => "#" \in SI.flags)
        BY ONLY <1>1, <2>3, IntegerBody
      <3>2. cp # <<>>
        BY ONLY <3>1
      <3> QED BY ONLY <2>1, <3>1, <3>2
    <2> QED BY ONLY <1>0, <2>1, <2>2, <2>3, Zenon DEF TypeOK
  <1>2. CASE ~Prepared
    <2>1. /\ <<SI, arg>> \in Calls /\ Unprepared /\ pc \in {"begin", "done"}
      BY ONLY <1>2, Layout, Zenon DEF Layout
    <2>2. /\ W = 0 /\ P = -1 /\ flags = {} /\ sign = NoSign /\ fpprec = 0
      BY ONLY <2>1 DEF Unprepared
    <2>3. gtoe \in BOOLEAN
      BY ONLY <2>1, Zenon DEF Unprepared
    <2>4. /\ W \in Nat /\ P \in Nat \cup {-1} /\ flags \subseteq {"-", "0", "#"}
          /\ sign \in {NoSign, "-", "+", Blank} /\ fpprec \in Nat /\ ~(fpprec > 0)
      BY ONLY <2>2
    <2> QED BY ONLY <1>0, <2>1, <2>3, <2>4, Zenon DEF TypeOK
  <1> QED BY ONLY <1>1, <1>2

\* An integer is never without a digit and has no leading zero that was not
\* asked for, width and precision are never negative once a dynamic one has been
\* taken, and only floating point has leftover precision, whatever the calls.
THEOREM ConversionTypes == Spec => []TypeOK
  <1>1. Layout => TypeOK
    BY LayoutGivesType
  <1> QED BY <1>1, FieldIsItsParts, PTL

-----------------------------------------------------------------------------
(* Powers of ten *)

LEMMA PowerOfSum ==
    ASSUME NEW j \in Nat
    PROVE  \A k \in Nat : Power(10, j + k) = Power(10, j) * Power(10, k)
  <1> DEFINE p(k) == Power(10, k)
             T == {k \in Nat : p(j + k) = p(j) * p(k)}
  <1>1. /\ p(0) = 1
        /\ \A k \in Nat : p(k) \in Nat \ {0} /\ p(k + 1) = 10 * p(k)
    BY PowersOfTen
  <1> HIDE DEF p
  <1>2. 0 \in T
    <2>1. p(j) \in Nat /\ p(0) = 1 /\ j + 0 = j
      BY ONLY <1>1, j \in Nat
    <2>2. p(j) * p(0) = p(j)
      BY ONLY <2>1
    <2> QED BY ONLY <2>1, <2>2
  <1>3. ASSUME NEW k \in Nat, k \in T PROVE k + 1 \in T
    <2> DEFINE x == p(j)
               y == p(k)
    <2>1. j + k \in Nat /\ j + (k + 1) = (j + k) + 1
      BY ONLY j \in Nat, k \in Nat
    <2>2. p(j + (k + 1)) = 10 * p(j + k) /\ p(k + 1) = 10 * y
      BY ONLY <1>1, <2>1, k \in Nat
    <2>3. p(j + k) = x * y
      BY ONLY <1>3
    <2>4. x \in Nat /\ y \in Nat
      BY ONLY <1>1, j \in Nat, k \in Nat
    <2> HIDE DEF x, y
    <2>5. 10 * (x * y) = x * (10 * y)
      BY ONLY <2>4
    <2>6. p(j + (k + 1)) = x * p(k + 1)
      BY ONLY <2>2, <2>3, <2>5
    <2> QED BY ONLY <2>6, k \in Nat DEF x
  <1>4. \A k \in Nat : k \in T
    <2> HIDE DEF T
    <2> QED BY ONLY <1>2, <1>3, NatInductionOnSet
  <1> QED BY ONLY <1>4 DEF p

\* Division without a remainder, and back.
LEMMA ExactDivision ==
    ASSUME NEW u \in Nat \ {0}
    PROVE  /\ \A q \in Nat : (q * u) \div u = q /\ (q * u) % u = 0
           /\ \A w \in Nat : w % u = 0 => w \div u \in Nat /\ w = (w \div u) * u
  <1>1. ASSUME NEW q \in Nat PROVE (q * u) \div u = q /\ (q * u) % u = 0
    OBVIOUS
  <1>2. ASSUME NEW w \in Nat, w % u = 0 PROVE w \div u \in Nat /\ w = (w \div u) * u
    BY <1>2
  <1> QED BY ONLY <1>1, <1>2

-----------------------------------------------------------------------------
(* Decimal digits *)

Decimal  == {"0", "1", "2", "3", "4", "5", "6", "7", "8", "9"}
Fraction == Decimal \cup {"."}

LEMMA DecimalIsGlyph ==
    /\ Decimal \subseteq Fraction /\ Fraction \subseteq Glyph
    /\ "0" \in Decimal /\ "." \in Fraction
    /\ "e" \in Glyph /\ "+" \in Glyph /\ "-" \in Glyph
    /\ "e" \notin Fraction
  <1>1. /\ Decimal \subseteq Fraction /\ "0" \in Decimal /\ "." \in Fraction
        /\ "e" \notin Fraction
    BY DEF Decimal, Fraction
  <1>2. Decimal \subseteq Glyph /\ "." \in Glyph /\ "e" \in Glyph /\ "+" \in Glyph /\ "-" \in Glyph
    BY DEF Decimal, Glyph, DigitGlyph, OtherGlyph
  <1> QED BY ONLY <1>1, <1>2 DEF Fraction

LEMMA DecimalChar ==
    ASSUME NEW i \in 0..9
    PROVE  DigitChar[i + 1] \in Decimal
  <1>1. /\ DigitChar[1] = "0" /\ DigitChar[2] = "1" /\ DigitChar[3] = "2"
        /\ DigitChar[4] = "3" /\ DigitChar[5] = "4" /\ DigitChar[6] = "5"
        /\ DigitChar[7] = "6" /\ DigitChar[8] = "7" /\ DigitChar[9] = "8"
        /\ DigitChar[10] = "9"
    BY DEF DigitChar
  <1> HIDE DEF DigitChar
  <1>2. i + 1 \in 1..10
    OBVIOUS
  <1> DEFINE k == i + 1
  <1> HIDE DEF k
  <1>3. k \in {1, 2, 3, 4, 5, 6, 7, 8, 9, 10}
    BY ONLY <1>2 DEF k
  <1>4. DigitChar[k] \in Decimal
    BY ONLY <1>1, <1>3, Zenon DEF Decimal
  <1> QED BY ONLY <1>4 DEF k

\* In base 10 there are decimal digits only.
LEMMA DecimalDigits == \A v \in Nat : OneByOne(10)[v] \in Seq(Decimal)
  <1> DEFINE D == OneByOne(10)
             T == {v \in Nat : D[v] \in Seq(Decimal)}
  <1>1. 10 \in 2..16 /\ 10 \in Nat /\ 10 >= 2
    OBVIOUS
  <1>2. \A v \in Nat :
          /\ v < 10 => D[v] = <<DigitChar[v + 1]>>
          /\ v >= 10 => D[v] = Append(D[v \div 10], DigitChar[(v % 10) + 1])
    BY ONLY <1>1, OneByOneRecursion
  <1> HIDE DEF D
  <1>3. ASSUME NEW v \in Nat, v < 10 PROVE v \in T
    <2> DEFINE x == DigitChar[v + 1]
    <2>1. v \in 0..9
      BY ONLY <1>3
    <2>2. x \in Decimal
      BY ONLY <2>1, DecimalChar
    <2>3. D[v] = <<x>>
      BY ONLY <1>2, <1>3
    <2> HIDE DEF x
    <2>4. <<x>> \in Seq(Decimal)
      BY ONLY <2>2
    <2> QED BY ONLY <2>3, <2>4, v \in Nat
  <1>4. ASSUME NEW v \in Nat, v >= 10, v \div 10 \in T PROVE v \in T
    <2> DEFINE x == DigitChar[(v % 10) + 1]
               u == v \div 10
    <2>1. v % 10 \in 0..9
      BY ONLY v \in Nat
    <2>2. x \in Decimal
      BY ONLY <2>1, DecimalChar
    <2>3. D[v] = Append(D[u], x)
      BY ONLY <1>2, <1>4
    <2>4. D[u] \in Seq(Decimal)
      BY ONLY <1>4
    <2> DEFINE d == D[u]
    <2> HIDE DEF x, u, d
    <2>5. Append(d, x) \in Seq(Decimal)
      BY ONLY <2>2, <2>4, AppendProperties DEF d
    <2>6. D[v] \in Seq(Decimal)
      BY ONLY <2>3, <2>5, Zenon DEF d
    <2> QED BY ONLY <2>6, v \in Nat
  <1>5. \A v \in Nat : v \in T
    <2> HIDE DEF T
    <2> QED BY ONLY <1>1, <1>3, <1>4, DivisionInduction
  <1> QED BY ONLY <1>5 DEF D

\* Two runs of one character make one.
LEMMA RunOfSum ==
    ASSUME NEW S, NEW ch \in S, NEW j \in Nat, NEW k \in Nat
    PROVE  Run(ch, j) \o Run(ch, k) = Run(ch, j + k)
  <1> DEFINE R(i) == Run(ch, i)
  <1>1. ASSUME NEW i \in Nat
        PROVE  R(i) \in Seq(S) /\ Len(R(i)) = i /\ \A c \in 1..i : R(i)[c] = ch
    <2>1. Max0(i) = i
      BY MaxOfTwo DEF Max0
    <2>2. R(i) = [c \in 1..i |-> ch]
      BY ONLY <2>1 DEF Run
    <2> HIDE DEF R
    <2> QED BY ONLY <2>2, ch \in S, i \in Nat
  <1> HIDE DEF R
  <1>2. j + k \in Nat
    OBVIOUS
  <1> DEFINE s == R(j)
             t == R(k)
             u == R(j + k)
  <1>3. /\ s \in Seq(S) /\ t \in Seq(S) /\ u \in Seq(S)
        /\ Len(s) = j /\ Len(t) = k /\ Len(u) = j + k
        /\ \A c \in 1..j : s[c] = ch
        /\ \A c \in 1..k : t[c] = ch
        /\ \A c \in 1..j + k : u[c] = ch
    BY ONLY <1>1, <1>2, j \in Nat, k \in Nat
  <1> HIDE DEF s, t, u
  <1>4. Len(u) = Len(s) + Len(t)
    BY ONLY <1>3
  <1>5. \A i \in 1..Len(s) : u[i] = s[i]
    BY ONLY <1>3, j \in Nat, k \in Nat
  <1>6. \A i \in 1..Len(t) : u[Len(s) + i] = t[i]
    <2>1. ASSUME NEW i \in 1..k PROVE u[j + i] = t[i]
      <3>1. j + i \in 1..j + k
        BY ONLY j \in Nat, k \in Nat
      <3> QED BY ONLY <1>3, <3>1, i \in 1..k
    <2> QED BY ONLY <1>3, <2>1
  <1>7. u = s \o t
    BY ONLY <1>3, <1>4, <1>5, <1>6, IsConcat
  <1> QED BY ONLY <1>7 DEF s, t, u, R

\* Times ten is a zero at the end.
LEMMA TrailingZeros ==
    ASSUME NEW v \in Nat \ {0}
    PROVE  \A j \in Nat : OneByOne(10)[v * Power(10, j)] = OneByOne(10)[v] \o Run("0", j)
  <1> DEFINE D == OneByOne(10)
             p(j) == Power(10, j)
             R(j) == Run("0", j)
             T == {j \in Nat : D[v * p(j)] = D[v] \o R(j)}
  <1>1. 10 \in 2..16
    OBVIOUS
  <1>2. \A u \in Nat : u >= 10 => D[u] = Append(D[u \div 10], DigitChar[(u % 10) + 1])
    BY ONLY <1>1, OneByOneRecursion
  <1>3. \A u \in Nat : D[u] \in Seq(Decimal)
    BY ONLY DecimalDigits
  <1>4. "0" \in Decimal
    BY ONLY DecimalIsGlyph
  <1>5. \A j \in Int : /\ R(j) \in Seq(Decimal) /\ (j <= 0 => R(j) = <<>>)
                       /\ j > 0 => R(j) = R(j - 1) \o <<"0">>
    BY ONLY <1>4, RunProperties
  <1>6. p(0) = 1 /\ \A j \in Nat : p(j) \in Nat \ {0} /\ p(j + 1) = 10 * p(j)
    BY ONLY PowersOfTen
  <1>7. DigitChar[0 + 1] = "0"
    BY ONLY DEF DigitChar
  <1> HIDE DEF D, p, R
  <1>8. 0 \in T
    <2>1. v * p(0) = v /\ R(0) = <<>>
      BY ONLY <1>5, <1>6, v \in Nat \ {0}
    <2>2. D[v] \o <<>> = D[v]
      BY ONLY <1>3, v \in Nat \ {0}, ConcatEmptySeq
    <2> QED BY ONLY <2>1, <2>2
  <1>9. ASSUME NEW j \in Nat, j \in T PROVE j + 1 \in T
    <2> DEFINE u == v * p(j)
               w == v * p(j + 1)
    <2>1. u \in Nat \ {0} /\ w = 10 * u
      <3> DEFINE x == p(j)
      <3>1. x \in Nat \ {0} /\ p(j + 1) = 10 * x
        BY ONLY <1>6, j \in Nat
      <3> HIDE DEF x
      <3>2. v * x \in Nat \ {0} /\ v * (10 * x) = 10 * (v * x)
        BY ONLY <3>1, v \in Nat \ {0}
      <3> QED BY ONLY <3>1, <3>2 DEF x
    <2>2. D[u] = D[v] \o R(j)
      BY ONLY <1>9
    <2> HIDE DEF u, w
    <2>3. w \in Nat /\ w >= 10 /\ w \div 10 = u /\ w % 10 = 0
      BY ONLY <2>1
    <2>4. D[w] = Append(D[u], "0")
      BY ONLY <1>2, <1>7, <2>3
    <2>5. j + 1 \in Int /\ j + 1 > 0 /\ (j + 1) - 1 = j /\ j \in Int
      BY ONLY j \in Nat
    <2>6. R(j + 1) = R(j) \o <<"0">> /\ R(j) \in Seq(Decimal)
      BY ONLY <1>5, <2>5
    <2> DEFINE s == D[v]
               t == R(j)
    <2>7. s \in Seq(Decimal) /\ t \in Seq(Decimal)
      BY ONLY <1>3, <2>6, v \in Nat \ {0}
    <2> HIDE DEF s, t
    <2>8. s \o t \in Seq(Decimal)
      BY ONLY <2>7, ConcatProperties
    <2>9. Append(s \o t, "0") = (s \o t) \o <<"0">>
      BY ONLY <1>4, <2>8, AppendIsConcat
    <2>10. <<"0">> \in Seq(Decimal)
      BY ONLY <1>4
    <2>11. (s \o t) \o <<"0">> = s \o (t \o <<"0">>)
      BY ONLY <2>7, <2>10, ConcatAssociative
    <2>12. D[w] = s \o R(j + 1)
      BY ONLY <2>2, <2>4, <2>6, <2>9, <2>11 DEF s, t
    <2>13. j + 1 \in Nat
      BY ONLY j \in Nat
    <2> QED BY ONLY <2>12, <2>13, Zenon DEF s, w
  <1>10. \A j \in Nat : j \in T
    <2> HIDE DEF T
    <2> QED BY ONLY <1>8, <1>9, NatInductionOnSet
  <1> QED BY ONLY <1>10 DEF D, p, R

LEMMA ProductRegroups ==
    \A x, y, z \in Nat : x * y \in Nat /\ x * (y * z) = (x * y) * z
  OBVIOUS

LEMMA DecimalLength ==
    ASSUME NEW v \in Nat
    PROVE  /\ OneByOne(10)[v] \in Seq(Decimal) /\ Len(OneByOne(10)[v]) \in Nat \ {0}
           /\ Digits(v, 10, 1) = OneByOne(10)[v]
           /\ v = 0 => OneByOne(10)[v] = <<"0">>
  <1> DEFINE ten == 10
             d == OneByOne(ten)[v]
  <1>1. ten \in 2..16
    OBVIOUS
  <1> HIDE DEF ten
  <1>2. d # <<>> /\ (v = 0 => d = <<"0">>)
    BY ONLY <1>1, v \in Nat, OneByOneProperties
  <1>3. d \in Seq(Decimal)
    BY ONLY v \in Nat, DecimalDigits DEF ten
  <1>4. Digits(v, ten, 1) = Run("0", 1 - Len(d)) \o d
    BY ONLY DigitsAre DEF d
  <1> HIDE DEF d
  <1>5. Len(d) \in Nat \ {0}
    BY ONLY <1>2, <1>3
  <1>6. Run("0", 1 - Len(d)) = <<>>
    <2> DEFINE k == 1 - Len(d)
    <2>1. k \in Int /\ k <= 0 /\ "0" \in Decimal
      BY ONLY <1>5, DecimalIsGlyph
    <2> HIDE DEF k
    <2>2. Run("0", k) = <<>>
      BY ONLY <2>1, RunProperties
    <2> QED BY ONLY <2>2 DEF k
  <1>7. Digits(v, ten, 1) = d
    BY ONLY <1>3, <1>4, <1>6, ConcatEmptySeq
  <1> QED BY ONLY <1>2, <1>3, <1>5, <1>7 DEF d, ten

-----------------------------------------------------------------------------
(* Rounding *)

LEMMA RoundType ==
    ASSUME NEW v \in Nat, NEW k \in Int
    PROVE  Round(v, k) \in Nat
  <1>1. CASE k <= 0
    <2> DEFINE p == Power(10, -k)
    <2>1. -k \in Nat
      BY ONLY <1>1, k \in Int
    <2>2. p \in Nat
      BY ONLY <2>1, PowersOfTen
    <2>3. Round(v, k) = v * p
      BY ONLY <1>1 DEF Round
    <2> HIDE DEF p
    <2>4. v * p \in Nat
      BY ONLY <2>2, v \in Nat
    <2> QED BY ONLY <2>3, <2>4
  <1>2. CASE ~(k <= 0)
    <2> DEFINE u == Power(10, k)
               q == v \div u
               zero == k > Len(Digits(v, 10, 1))
               up == 2 * (v % u) > u \/ (2 * (v % u) = u /\ q % 2 = 1)
    <2>1. k \in Nat
      BY ONLY <1>2, k \in Int
    <2>2. u \in Nat \ {0}
      BY ONLY <2>1, PowersOfTen
    <2>3. Round(v, k) = IF zero THEN 0 ELSE IF up THEN q + 1 ELSE q
      BY ONLY <1>2, Zenon DEF Round
    <2> HIDE DEF zero, up, u
    <2>4. q \in Nat
      BY ONLY <2>2, v \in Nat
    <2> HIDE DEF q
    <2> QED BY ONLY <2>3, <2>4
  <1> QED BY ONLY <1>1, <1>2

\* num / 10^k is a whole number.
Exact(num, k) == k <= 0 \/ num % Power(10, k) = 0

\* Then it is what Round finds.
LEMMA RoundExact ==
    ASSUME NEW v \in Nat, NEW k \in Int, Exact(v, k)
    PROVE  /\ k <= 0 => Round(v, k) = v * Power(10, -k)
           /\ k > 0 => v = Round(v, k) * Power(10, k)
  <1>1. k <= 0 => Round(v, k) = v * Power(10, -k)
    BY ONLY Zenon DEF Round
  <1>2. ASSUME k > 0 PROVE v = Round(v, k) * Power(10, k)
    <2> DEFINE u == Power(10, k)
               q == v \div u
               len == Len(Digits(v, 10, 1))
               up == 2 * (v % u) > u \/ (2 * (v % u) = u /\ q % 2 = 1)
    <2>1. k \in Nat /\ k # 0 /\ ~(k <= 0)
      BY ONLY <1>2, k \in Int
    <2>2. u \in Nat \ {0}
      BY ONLY <2>1, PowersOfTen
    <2>3. v % u = 0
      BY ONLY <2>1, Exact(v, k) DEF Exact
    <2>4. Round(v, k) = IF k > len THEN 0 ELSE IF up THEN q + 1 ELSE q
      BY ONLY <2>1, Zenon DEF Round
    <2>5. q \in Nat /\ v = q * u
      BY ONLY <2>2, <2>3, v \in Nat, ExactDivision
    <2>6. ~up
      <3> HIDE DEF u, q
      <3> QED BY ONLY <2>2, <2>3
    <2>7. k > len => q = 0
      <3> SUFFICES ASSUME q # 0 PROVE ~(k > len)
        OBVIOUS
      <3> DEFINE d == OneByOne(10)[q]
                 z == Run("0", k)
                 t == OneByOne(10)[v]
      <3>1. t = d \o z
        <4>1. q \in Nat \ {0}
          BY ONLY <2>5, q # 0
        <4> HIDE DEF q
        <4>2. OneByOne(10)[q * Power(10, k)] = d \o z
          BY ONLY <2>1, <4>1, TrailingZeros
        <4> QED BY ONLY <2>5, <4>2
      <3> HIDE DEF u, up
      <3>2. d \in Seq(Decimal) /\ Len(d) \in Nat \ {0}
        BY ONLY <2>5, DecimalLength
      <3>3. len = Len(t)
        BY ONLY v \in Nat, DecimalLength
      <3>4. z \in Seq(Decimal) /\ Len(z) = k
        <4>1. "0" \in Decimal
          BY ONLY DecimalIsGlyph
        <4>2. z \in Seq(Decimal) /\ Len(z) = IF k >= 0 THEN k ELSE 0
          BY ONLY <4>1, k \in Int, RunProperties
        <4> QED BY ONLY <2>1, <4>2
      <3> HIDE DEF q, d, z, t, len
      <3>5. Len(t) = Len(d) + Len(z)
        BY ONLY <3>1, <3>2, <3>4, ConcatProperties
      <3> QED BY ONLY <3>2, <3>3, <3>4, <3>5, k \in Int
    <2>8. Round(v, k) = q
      BY ONLY <2>4, <2>6, <2>7, Zenon
    <2> QED BY ONLY <2>5, <2>8
  <1> QED BY ONLY <1>1, <1>2

\* Fewer digits cut off are zeros more.
LEMMA RoundScales ==
    ASSUME NEW v \in Nat, NEW k \in Int, NEW j \in Nat, Exact(v, k)
    PROVE  Round(v, k - j) = Round(v, k) * Power(10, j)
  <1> DEFINE p(i) == Power(10, i)
             x == Round(v, k)
             y == Round(v, k - j)
  <1>1. x \in Nat
    BY ONLY v \in Nat, k \in Int, RoundType
  <1>2. /\ k <= 0 => x = v * p(-k)
        /\ k > 0 => v = x * p(k)
    BY ONLY v \in Nat, k \in Int, Exact(v, k), RoundExact
  <1>3. k - j \in Int
    BY ONLY k \in Int, j \in Nat
  <1>4. y \in Nat
    BY ONLY <1>3, v \in Nat, RoundType
  <1>5. Exact(v, k - j) =>
          /\ k - j <= 0 => y = v * p(-(k - j))
          /\ k - j > 0 => v = y * p(k - j)
    BY ONLY <1>3, v \in Nat, RoundExact
  <1>6. \A i, l \in Nat : p(i + l) = p(i) * p(l)
    BY ONLY PowerOfSum
  <1>7. \A i \in Nat : p(i) \in Nat \ {0}
    BY ONLY PowersOfTen
  <1>8. /\ k - j <= 0 => Exact(v, k - j)
        /\ k - j > 0 /\ v % p(k - j) = 0 => Exact(v, k - j)
    BY ONLY Zenon DEF Exact
  <1> HIDE DEF x, y, p
  <1>9. CASE k <= 0
    <2> DEFINE a == -k
    <2>1. a \in Nat /\ -(k - j) = a + j /\ k - j <= 0
      BY ONLY <1>9, k \in Int, j \in Nat
    <2> HIDE DEF a
    <2>2. p(a + j) = p(a) * p(j) /\ p(a) \in Nat /\ p(j) \in Nat
      BY ONLY <1>6, <1>7, <2>1, j \in Nat
    <2>3. y = v * (p(a) * p(j))
      BY ONLY <1>5, <1>8, <2>1, <2>2
    <2>4. x = v * p(a)
      BY ONLY <1>2, <1>9 DEF a
    <2>5. y = x * p(j)
      BY ONLY <2>2, <2>3, <2>4, v \in Nat, ProductRegroups
    <2> QED BY ONLY <2>5 DEF x, y, p
  <1>10. CASE k > 0 /\ k - j <= 0
    <2> DEFINE a == -(k - j)
    <2>1. a \in Nat /\ k \in Nat /\ j = k + a
      BY ONLY <1>10, k \in Int, j \in Nat
    <2>2. y = v * p(a)
      BY ONLY <1>5, <1>8, <1>10
    <2> HIDE DEF a
    <2>3. p(j) = p(k) * p(a) /\ p(k) \in Nat /\ p(a) \in Nat
      BY ONLY <1>6, <1>7, <2>1
    <2>4. v = x * p(k)
      BY ONLY <1>2, <1>10
    <2>5. y = x * p(j)
      BY ONLY <1>1, <2>2, <2>3, <2>4, ProductRegroups
    <2> QED BY ONLY <2>5 DEF x, y, p
  <1>11. CASE k > 0 /\ k - j > 0
    <2> DEFINE a == k - j
               q == x * p(j)
    <2>1. a \in Nat /\ k = j + a
      BY ONLY <1>11, k \in Int, j \in Nat
    <2> HIDE DEF a
    <2>2. p(k) = p(j) * p(a) /\ p(j) \in Nat /\ p(a) \in Nat \ {0}
      BY ONLY <1>6, <1>7, <2>1, j \in Nat
    <2>3. v = x * p(k)
      BY ONLY <1>2, <1>11
    <2>4. q \in Nat /\ v = q * p(a)
      BY ONLY <1>1, <2>2, <2>3, ProductRegroups
    <2> HIDE DEF q
    <2>5. v % p(a) = 0 /\ v \div p(a) = q
      BY ONLY <2>2, <2>4, ExactDivision
    <2>6. v = y * p(a)
      BY ONLY <1>5, <1>8, <1>11, <2>5 DEF a
    <2>7. v \div p(a) = y
      BY ONLY <1>4, <2>2, <2>6, ExactDivision
    <2>8. y = x * p(j)
      BY ONLY <2>5, <2>7 DEF q
    <2> QED BY ONLY <2>8 DEF x, y, p
  <1> QED BY ONLY <1>9, <1>10, <1>11, <1>3, k \in Int

\* What is left has as many digits as are not cut off.
LEMMA ExactLength ==
    ASSUME NEW v \in Nat \ {0}, NEW k \in Int, Exact(v, k)
    PROVE  Len(OneByOne(10)[Round(v, k)]) = Len(OneByOne(10)[v]) - k
  <1> DEFINE x == Round(v, k)
             L(i) == Len(OneByOne(10)[i])
  <1>1. x \in Nat
    BY ONLY v \in Nat \ {0}, k \in Int, RoundType
  <1>2. /\ k <= 0 => x = v * Power(10, -k)
        /\ k > 0 => v = x * Power(10, k)
    BY ONLY v \in Nat \ {0}, k \in Int, Exact(v, k), RoundExact
  <1>3. ASSUME NEW i \in Nat \ {0}, NEW j \in Nat
        PROVE  L(i * Power(10, j)) = L(i) + j
    <2> DEFINE d == OneByOne(10)[i]
               z == Run("0", j)
    <2>1. OneByOne(10)[i * Power(10, j)] = d \o z
      BY ONLY i \in Nat \ {0}, j \in Nat, TrailingZeros
    <2>2. d \in Seq(Decimal)
      BY ONLY i \in Nat \ {0}, DecimalDigits
    <2>3. z \in Seq(Decimal) /\ Len(z) = j
      <3>1. "0" \in Decimal /\ j \in Int
        BY ONLY DecimalIsGlyph, j \in Nat
      <3>2. z \in Seq(Decimal) /\ Len(z) = IF j >= 0 THEN j ELSE 0
        BY ONLY <3>1, RunProperties
      <3> QED BY ONLY <3>2, j \in Nat
    <2> HIDE DEF d, z
    <2>4. Len(d \o z) = Len(d) + j
      BY ONLY <2>2, <2>3, ConcatProperties
    <2> QED BY ONLY <2>1, <2>4 DEF d
  <1>4. \A i \in Nat : L(i) \in Nat
    BY ONLY DecimalLength
  <1> HIDE DEF x, L
  <1>5. L(x) = L(v) - k
    <2>1. CASE k <= 0
      <3> DEFINE j == -k
      <3>1. j \in Nat /\ k = -j
        BY ONLY <2>1, k \in Int
      <3>2. x = v * Power(10, j)
        BY ONLY <1>2, <2>1
      <3> HIDE DEF j
      <3>3. L(x) = L(v) + j
        BY ONLY <1>3, <3>1, <3>2, v \in Nat \ {0}
      <3>4. L(v) \in Nat
        BY ONLY <1>4, v \in Nat \ {0}
      <3> QED BY ONLY <3>1, <3>3, <3>4
    <2>2. CASE k > 0
      <3>1. k \in Nat /\ v = x * Power(10, k)
        BY ONLY <1>2, <2>2, k \in Int
      <3>2. x # 0
        <4>1. Power(10, k) \in Nat
          BY ONLY <3>1, PowersOfTen
        <4> DEFINE p == Power(10, k)
        <4> HIDE DEF p
        <4>2. 0 * p = 0
          BY ONLY <4>1 DEF p
        <4> QED BY ONLY <3>1, <4>2, v \in Nat \ {0} DEF p
      <3>3. x \in Nat \ {0}
        BY ONLY <1>1, <3>2
      <3>4. L(x * Power(10, k)) = L(x) + k
        BY ONLY <1>3, <3>1, <3>3
      <3>5. L(x) \in Nat /\ L(v) = L(x) + k
        BY ONLY <1>1, <1>4, <3>1, <3>4
      <3> QED BY ONLY <3>5, k \in Int
    <2> QED BY ONLY <2>1, <2>2, k \in Int
  <1> QED BY ONLY <1>5 DEF x, L

-----------------------------------------------------------------------------
(* More digits that are zeros *)

\* A concatenation is cut where its parts meet.
LEMMA Halves ==
    ASSUME NEW S, NEW h \in Seq(S), NEW t \in Seq(S)
    PROVE  /\ h \o t \in Seq(S) /\ Len(h \o t) = Len(h) + Len(t)
           /\ SubSeq(h \o t, 1, Len(h)) = h
           /\ SubSeq(h \o t, Len(h) + 1, Len(h) + Len(t)) = t
  <1> DEFINE u == h \o t
             a == Len(h)
             b == Len(t)
  <1>1. /\ u \in Seq(S) /\ Len(u) = a + b
        /\ \A i \in 1..a + b : u[i] = IF i <= a THEN h[i] ELSE t[i - a]
    BY ONLY h \in Seq(S), t \in Seq(S), ConcatProperties
  <1>2. a \in Nat /\ b \in Nat /\ a = Len(h) /\ b = Len(t)
    BY ONLY h \in Seq(S), t \in Seq(S), LenProperties
  <1> HIDE DEF u, a, b
  <1>3. h = SubSeq(u, 1, a)
    <2>1. \A i \in 1..Len(h) : h[i] = u[1 + i - 1]
      <3>1. ASSUME NEW i \in 1..a PROVE h[i] = u[1 + i - 1]
        <4>1. 1 + i - 1 = i /\ i \in 1..a + b /\ i <= a
          BY ONLY <1>2, i \in 1..a
        <4> QED BY ONLY <1>1, <4>1
      <3> QED BY ONLY <1>2, <3>1
    <2>2. 1 \in Nat /\ a \in Nat /\ 1 <= 1 /\ 1 <= a + 1 /\ a <= Len(u) /\ Len(h) = a - 1 + 1
      BY ONLY <1>1, <1>2
    <2> QED BY ONLY <1>1, <2>1, <2>2, h \in Seq(S), IsSubSeq
  <1>4. t = SubSeq(u, a + 1, a + b)
    <2>1. \A i \in 1..Len(t) : t[i] = u[(a + 1) + i - 1]
      <3>1. ASSUME NEW i \in 1..b PROVE t[i] = u[(a + 1) + i - 1]
        <4>1. (a + 1) + i - 1 = a + i /\ a + i \in 1..a + b /\ ~(a + i <= a) /\ (a + i) - a = i
          BY ONLY <1>2, i \in 1..b
        <4> QED BY ONLY <1>1, <4>1
      <3> QED BY ONLY <1>2, <3>1
    <2>2. /\ a + 1 \in Nat /\ a + b \in Nat /\ 1 <= a + 1 /\ a + 1 <= (a + b) + 1
          /\ a + b <= Len(u) /\ Len(t) = (a + b) - (a + 1) + 1
      BY ONLY <1>1, <1>2
    <2> DEFINE m == a + 1
               end == a + b
    <2> HIDE DEF m, end
    <2>3. t = SubSeq(u, m, end)
      BY ONLY <1>1, <2>1, <2>2, t \in Seq(S), IsSubSeq DEF m, end
    <2> QED BY ONLY <2>3 DEF m, end
  <1> QED BY ONLY <1>1, <1>3, <1>4 DEF u, a, b

LEMMA DecimalsType ==
    ASSUME NEW v \in Nat, NEW least \in Nat \ {0}
    PROVE  /\ Digits(v, 10, least) \in Seq(Decimal)
           /\ Len(Digits(v, 10, least)) \in Nat /\ Len(Digits(v, 10, least)) >= least
           /\ Len(OneByOne(10)[v]) <= least => Len(Digits(v, 10, least)) = least
  <1> DEFINE d == OneByOne(10)[v]
             k == least - Len(d)
             z == Run("0", k)
             t == Digits(v, 10, least)
  <1>1. d \in Seq(Decimal) /\ Len(d) \in Nat \ {0}
    BY ONLY v \in Nat, DecimalLength
  <1>2. t = z \o d
    BY ONLY DigitsAre
  <1>3. k \in Int /\ "0" \in Decimal
    BY ONLY <1>1, least \in Nat \ {0}, DecimalIsGlyph
  <1>4. z \in Seq(Decimal) /\ Len(z) = IF k >= 0 THEN k ELSE 0
    <2> HIDE DEF k
    <2> QED BY ONLY <1>3, RunProperties
  <1> HIDE DEF t, z, d
  <1>5. t \in Seq(Decimal) /\ Len(t) = Len(z) + Len(d)
    BY ONLY <1>1, <1>2, <1>4, ConcatProperties
  <1> DEFINE a == Len(t)
             b == Len(z)
             c == Len(d)
  <1>6. a = b + c /\ c \in Nat \ {0} /\ k = least - c /\ b = IF k >= 0 THEN k ELSE 0
    BY ONLY <1>1, <1>4, <1>5
  <1> HIDE DEF a, b, c, k
  <1>7. a \in Nat /\ a >= least /\ (c <= least => a = least)
    BY ONLY <1>6, least \in Nat \ {0}
  <1> QED BY ONLY <1>5, <1>7 DEF a, c, t, d

\* A number times a power of ten, with as many more digits.
LEMMA DigitsScale ==
    ASSUME NEW v \in Nat, NEW j \in Nat, NEW least \in Nat \ {0}
    PROVE  Digits(v * Power(10, j), 10, least + j) = Digits(v, 10, least) \o Run("0", j)
  <1> DEFINE R(i) == Run("0", i)
             D == OneByOne(10)
             w == v * Power(10, j)
             d == D[v]
             c == Len(d)
  <1>1. d \in Seq(Decimal) /\ c \in Nat \ {0} /\ (v = 0 => d = <<"0">>)
    BY ONLY v \in Nat, DecimalLength
  <1>2. /\ Digits(w, 10, least + j) = R((least + j) - Len(D[w])) \o D[w]
        /\ Digits(v, 10, least) = R(least - c) \o d
    <2> HIDE DEF w
    <2>1. Digits(w, 10, least + j) = R((least + j) - Len(D[w])) \o D[w]
      <3> DEFINE s == least + j
      <3> HIDE DEF s
      <3>1. Digits(w, 10, s) = R(s - Len(D[w])) \o D[w]
        BY ONLY DigitsAre
      <3> QED BY ONLY <3>1 DEF s
    <2>2. Digits(v, 10, least) = R(least - c) \o d
      BY ONLY DigitsAre
    <2> QED BY ONLY <2>1, <2>2
  <1>3. "0" \in Decimal /\ <<"0">> \in Seq(Decimal)
    <2>1. "0" \in Decimal
      BY ONLY DecimalIsGlyph
    <2> QED BY ONLY <2>1
  <1>4. \A i \in Int : /\ R(i) \in Seq(Decimal) /\ Len(R(i)) = IF i >= 0 THEN i ELSE 0
                       /\ i > 0 => R(i) = R(i - 1) \o <<"0">>
    BY ONLY <1>3, RunProperties
  <1>5. \A i, k \in Nat : R(i) \o R(k) = R(i + k)
    BY ONLY <1>3, RunOfSum
  <1>6. CASE v = 0
    <2>1. w = 0
      <3> DEFINE p == Power(10, j)
      <3>1. p \in Nat
        BY ONLY j \in Nat, PowersOfTen
      <3> HIDE DEF p
      <3>2. 0 * p = 0
        BY ONLY <3>1
      <3> QED BY ONLY <1>6, <3>2 DEF p
    <2>2. D[w] = <<"0">> /\ d = <<"0">> /\ c = 1 /\ Len(D[w]) = 1
      <3>1. d = <<"0">>
        BY ONLY <1>1, <1>6
      <3>2. w = v
        BY ONLY <1>6, <2>1
      <3> HIDE DEF D, w
      <3>3. D[w] = d
        BY ONLY <3>2
      <3>4. Len(<<"0">>) = 1
        OBVIOUS
      <3> QED BY ONLY <3>1, <3>3, <3>4
    <2> HIDE DEF R, w
    <2>3. /\ least - 1 \in Nat /\ least \in Int /\ least > 0 /\ least \in Nat
          /\ (least + j) - 1 \in Nat /\ least + j \in Int /\ least + j > 0
      BY ONLY least \in Nat \ {0}, j \in Nat
    <2>4. R(least - 1) \o <<"0">> = R(least)
      BY ONLY <1>4, <2>3
    <2> DEFINE s == least + j
    <2>5. R(s - 1) \o <<"0">> = R(s)
      <3> HIDE DEF s
      <3>1. s \in Int /\ s > 0
        BY ONLY <2>3 DEF s
      <3> QED BY ONLY <1>4, <3>1
    <2>6. R(least) \o R(j) = R(s)
      BY ONLY <1>5, <2>3, j \in Nat
    <2>7. Digits(w, 10, least + j) = R(s)
      BY ONLY <1>2, <2>2, <2>3, <2>5
    <2>8. Digits(v, 10, least) = R(least)
      BY ONLY <1>2, <2>2, <2>4
    <2> QED BY ONLY <2>6, <2>7, <2>8 DEF R, w
  <1>7. CASE v # 0
    <2> DEFINE z == R(j)
               i == least - c
               lead == R(i)
    <2>1. v \in Nat \ {0} /\ j \in Int /\ i \in Int
      BY ONLY <1>1, <1>7, j \in Nat, v \in Nat, least \in Nat \ {0}
    <2>2. D[w] = d \o z
      BY ONLY <2>1, j \in Nat, TrailingZeros
    <2> HIDE DEF R, w
    <2>3. z \in Seq(Decimal) /\ Len(z) = j /\ lead \in Seq(Decimal)
      <3>1. z \in Seq(Decimal) /\ Len(z) = IF j >= 0 THEN j ELSE 0
        BY ONLY <1>4, <2>1, Zenon
      <3> HIDE DEF i
      <3>2. lead \in Seq(Decimal)
        BY ONLY <1>4, <2>1, Zenon
      <3> HIDE DEF z
      <3> QED BY ONLY <3>1, <3>2, j \in Nat
    <2> HIDE DEF z, lead, i
    <2>4. Len(D[w]) = c + j
      <3> HIDE DEF d, D
      <3>1. Len(d \o z) = Len(d) + Len(z)
        BY ONLY <1>1, <2>3, ConcatProperties
      <3> QED BY ONLY <2>2, <2>3, <3>1
    <2>5. (least + j) - Len(D[w]) = i
      <3> DEFINE x == Len(D[w])
      <3> HIDE DEF x, c
      <3>1. x = c + j
        BY ONLY <2>4 DEF x
      <3> QED BY ONLY <1>1, <3>1, j \in Nat, least \in Nat \ {0} DEF i, x
    <2>6. Digits(w, 10, least + j) = lead \o (d \o z)
      BY ONLY <1>2, <2>2, <2>5 DEF lead
    <2>7. Digits(v, 10, least) = lead \o d
      BY ONLY <1>2 DEF lead, i
    <2> HIDE DEF d
    <2>9. d \in Seq(Decimal) /\ z \in Seq(Decimal) /\ lead \in Seq(Decimal)
      BY ONLY <1>1, <2>3
    <2>8. lead \o (d \o z) = (lead \o d) \o z
      BY ONLY <2>9, ConcatAssociative, SMTT(30)
    <2> QED BY ONLY <2>6, <2>7, <2>8 DEF w, z, R
  <1> QED BY ONLY <1>6, <1>7

-----------------------------------------------------------------------------
(* The point *)

\* It stands between the two parts of a number.
LEMMA PointBetween ==
    ASSUME NEW h \in Seq(Decimal), NEW t \in Seq(Decimal), t # <<>>
    PROVE  Point(h \o t, Len(t)) = (h \o <<".">>) \o t
  <1> DEFINE u == h \o t
             a == Len(h)
             b == Len(t)
  <1>1. Len(u) = a + b /\ SubSeq(u, 1, a) = h /\ SubSeq(u, a + 1, a + b) = t
    BY ONLY h \in Seq(Decimal), t \in Seq(Decimal), Halves
  <1>2. a \in Nat /\ b \in Nat \ {0}
    BY ONLY h \in Seq(Decimal), t \in Seq(Decimal), t # <<>>
  <1> HIDE DEF u, a, b
  <1>3. Len(u) - b = a /\ b # 0
    BY ONLY <1>1, <1>2
  <1>4. Point(u, b) = (SubSeq(u, 1, a) \o <<".">>) \o SubSeq(u, a + 1, Len(u))
    BY ONLY <1>3, Zenon DEF Point
  <1>5. Point(u, b) = (h \o <<".">>) \o t
    BY ONLY <1>1, <1>4, Zenon
  <1> QED BY ONLY <1>5 DEF u, b

\* A number, cut in front of its last p digits.
LEMMA CutBefore ==
    ASSUME NEW d \in Seq(Decimal), NEW p \in Nat, p <= Len(d)
    PROVE  \E h, t \in Seq(Decimal) : d = h \o t /\ Len(t) = p
  <1> DEFINE S == Decimal
  <1>0. d \in Seq(S)
    OBVIOUS
  <1> DEFINE len == Len(d)
             c == len - p
             h == SubSeq(d, 1, c)
             t == SubSeq(d, c + 1, len)
  <1>1. len \in Nat /\ c \in 0..len /\ len - c = p
    BY ONLY <1>0, p \in Nat, p <= Len(d)
  <1> HIDE DEF c, S
  <1>2. t \in Seq(S) /\ Len(t) = len - c
    BY ONLY <1>1, <1>0, SuffixProperties
  <1>3. h \in Seq(S)
    <2>1. \A i \in 1..c : d[i] \in S
      BY ONLY <1>1, <1>0, ElementOfSeq
    <2>2. 1 \in Int /\ c \in Int
      BY ONLY <1>1
    <2> QED BY ONLY <2>1, <2>2, SubSeqProperties
  <1>4. h \o t = d
    <2>1. 1 \in 1..Len(d) + 1 /\ c \in 1 - 1..Len(d) /\ len \in c..Len(d)
      BY ONLY <1>1
    <2>2. h \o t = SubSeq(d, 1, len)
      BY ONLY <2>1, <1>0, ConcatAdjacentSubSeq
    <2>3. SubSeq(d, 1, len) = d
      BY ONLY <1>0, SubSeqFull
    <2> QED BY ONLY <2>2, <2>3
  <1>5. d = h \o t /\ Len(t) = p
    BY ONLY <1>1, <1>2, <1>4
  <1> QED BY ONLY <1>2, <1>3, <1>5, Zenon DEF S

LEMMA PointType ==
    ASSUME NEW d \in Seq(Decimal), NEW p \in Nat, p <= Len(d)
    PROVE  Point(d, p) \in Seq(Fraction)
  <1>1. Seq(Decimal) \subseteq Seq(Fraction) /\ <<".">> \in Seq(Fraction)
    <2>1. Decimal \subseteq Fraction /\ "." \in Fraction
      BY ONLY DecimalIsGlyph
    <2>2. ASSUME NEW s \in Seq(Decimal) PROVE s \in Seq(Fraction)
      BY ONLY <2>1, s \in Seq(Decimal), SeqMonotonic
    <2> QED BY ONLY <2>1, <2>2
  <1>2. CASE p = 0
    BY ONLY <1>1, <1>2, d \in Seq(Decimal) DEF Point
  <1>3. CASE p # 0
    <2>1. PICK h, t \in Seq(Decimal) : d = h \o t /\ Len(t) = p
      BY ONLY d \in Seq(Decimal), p \in Nat, p <= Len(d), CutBefore
    <2>2. t # <<>>
      BY ONLY <1>3, <2>1
    <2>3. Point(d, p) = (h \o <<".">>) \o t
      BY ONLY <2>1, <2>2, PointBetween
    <2>4. h \in Seq(Fraction) /\ t \in Seq(Fraction)
      BY ONLY <1>1, <2>1
    <2>5. h \o <<".">> \in Seq(Fraction)
      BY ONLY <1>1, <2>4, ConcatProperties
    <2>6. (h \o <<".">>) \o t \in Seq(Fraction)
      BY ONLY <2>4, <2>5, ConcatProperties
    <2> QED BY ONLY <2>3, <2>6
  <1> QED BY ONLY <1>2, <1>3

\* More zeros behind the point.
LEMMA PointScales ==
    ASSUME NEW d \in Seq(Decimal), NEW p \in Nat \ {0}, p <= Len(d), NEW j \in Nat
    PROVE  Point(d \o Run("0", j), p + j) = Point(d, p) \o Run("0", j)
  <1> DEFINE z == Run("0", j)
  <1>1. z \in Seq(Decimal) /\ Len(z) = j
    <2>1. "0" \in Decimal /\ j \in Int
      BY ONLY DecimalIsGlyph, j \in Nat
    <2>2. z \in Seq(Decimal) /\ Len(z) = IF j >= 0 THEN j ELSE 0
      BY ONLY <2>1, RunProperties
    <2> QED BY ONLY <2>2, j \in Nat
  <1> HIDE DEF z
  <1>2. PICK h, t \in Seq(Decimal) : d = h \o t /\ Len(t) = p
    <2>1. p \in Nat
      BY ONLY p \in Nat \ {0}
    <2> QED BY ONLY <2>1, d \in Seq(Decimal), p <= Len(d), CutBefore
  <1> DEFINE tz == t \o z
  <1>3. tz \in Seq(Decimal) /\ Len(tz) = p + j
    BY ONLY <1>1, <1>2, ConcatProperties
  <1>4. t # <<>> /\ tz # <<>>
    <2>1. Len(t) # 0 /\ Len(tz) # 0
      BY ONLY <1>2, <1>3, p \in Nat \ {0}, j \in Nat
    <2> QED BY ONLY <2>1
  <1>5. d \o z = h \o tz
    <2>1. (h \o t) \o z = h \o tz
      BY ONLY <1>1, h \in Seq(Decimal), t \in Seq(Decimal), ConcatAssociative, SMTT(30)
    <2> QED BY ONLY <1>2, <2>1
  <1> HIDE DEF tz
  <1>6. Point(d \o z, p + j) = (h \o <<".">>) \o tz
    BY ONLY <1>2, <1>3, <1>4, <1>5, PointBetween
  <1>7. Point(d, p) = (h \o <<".">>) \o t
    BY ONLY <1>2, <1>4, PointBetween
  <1>8. ((h \o <<".">>) \o t) \o z = (h \o <<".">>) \o tz
    <2> DEFINE g == h \o <<".">>
    <2>1. g \in Seq(Fraction) /\ t \in Seq(Fraction) /\ z \in Seq(Fraction)
      <3>1. Decimal \subseteq Fraction /\ "." \in Fraction
        BY ONLY DecimalIsGlyph
      <3>2. h \in Seq(Fraction) /\ t \in Seq(Fraction) /\ z \in Seq(Fraction)
        BY ONLY <1>1, <1>2, <3>1, SeqMonotonic
      <3>3. <<".">> \in Seq(Fraction)
        BY ONLY <3>1
      <3> QED BY ONLY <3>2, <3>3, ConcatProperties
    <2> DEFINE Then(x, y) == x \o y
    <2>2. \A x, y, w \in Seq(Fraction) : Then(Then(x, y), w) = Then(x, Then(y, w))
      BY ONLY ConcatRegroups, SMTT(30)
    <2> HIDE DEF g, tz, Then
    <2>3. Then(Then(g, t), z) = Then(g, Then(t, z))
      BY ONLY <2>1, <2>2
    <2> QED BY ONLY <2>3, Zenon DEF g, tz, Then
  <1>9. Point(d, p) \o z = Point(d \o z, p + j)
    BY ONLY <1>6, <1>7, <1>8, Zenon
  <1> QED BY ONLY <1>9 DEF z

-----------------------------------------------------------------------------
(* The two styles of a floating-point number *)

LEMMA FixedType ==
    ASSUME NEW v, v.n \in Nat, v.m \in Nat, NEW p \in Nat
    PROVE  Fixed(v, p) \in Seq(Fraction)
  <1> DEFINE x == Round(v.n, v.m - p)
             d == Digits(x, 10, p + 1)
  <1>1. x \in Nat
    <2>1. v.m - p \in Int
      BY ONLY v.m \in Nat, p \in Nat
    <2> QED BY ONLY <2>1, v.n \in Nat, RoundType
  <1>2. p + 1 \in Nat \ {0}
    BY ONLY p \in Nat
  <1> HIDE DEF x
  <1>3. d \in Seq(Decimal) /\ Len(d) \in Nat /\ Len(d) >= p + 1
    BY ONLY <1>1, <1>2, DecimalsType
  <1> HIDE DEF d
  <1>4. p <= Len(d)
    <2> DEFINE len == Len(d)
    <2>1. len \in Nat /\ len >= p + 1
      BY ONLY <1>3
    <2> HIDE DEF len
    <2>2. p <= len
      BY ONLY <2>1, p \in Nat
    <2> QED BY ONLY <2>2 DEF len
  <1>5. Point(d, p) \in Seq(Fraction)
    BY ONLY <1>3, <1>4, p \in Nat, PointType
  <1> QED BY ONLY <1>5 DEF Fixed, d, x

\* Digits behind the last one that is not zero are zeros.
LEMMA FixedScales ==
    ASSUME NEW v, v.n \in Nat, v.m \in Nat, NEW p \in Nat \ {0}, NEW j \in Nat,
           Exact(v.n, v.m - p)
    PROVE  Fixed(v, p + j) = Fixed(v, p) \o Run("0", j)
  <1> DEFINE x == Round(v.n, v.m - p)
             d == Digits(x, 10, p + 1)
             z == Run("0", j)
  <1>1. v.m - p \in Int /\ v.m - (p + j) = (v.m - p) - j
    BY ONLY v.m \in Nat, p \in Nat \ {0}, j \in Nat
  <1>2. x \in Nat
    BY ONLY <1>1, v.n \in Nat, RoundType
  <1>3. Round(v.n, (v.m - p) - j) = x * Power(10, j)
    BY ONLY <1>1, v.n \in Nat, j \in Nat, Exact(v.n, v.m - p), RoundScales
  <1>4. p + 1 \in Nat \ {0} /\ (p + j) + 1 = (p + 1) + j
    BY ONLY p \in Nat \ {0}, j \in Nat
  <1> HIDE DEF x, z
  <1>5. Digits(x * Power(10, j), 10, (p + 1) + j) = d \o z
    <2> DEFINE least == p + 1
    <2> HIDE DEF least
    <2>1. least \in Nat \ {0}
      BY ONLY <1>4 DEF least
    <2>2. Digits(x * Power(10, j), 10, least + j) = Digits(x, 10, least) \o z
      BY ONLY <1>2, <2>1, j \in Nat, DigitsScale DEF z
    <2> QED BY ONLY <2>2 DEF least
  <1>6. d \in Seq(Decimal) /\ Len(d) \in Nat /\ Len(d) >= p + 1
    BY ONLY <1>2, <1>4, DecimalsType
  <1> HIDE DEF d
  <1>7. p <= Len(d)
    <2> DEFINE len == Len(d)
    <2>1. len \in Nat /\ len >= p + 1
      BY ONLY <1>6
    <2> HIDE DEF len
    <2>2. p <= len
      BY ONLY <2>1, p \in Nat \ {0}
    <2> QED BY ONLY <2>2 DEF len
  <1>8. Point(d \o z, p + j) = Point(d, p) \o z
    BY ONLY <1>6, <1>7, p \in Nat \ {0}, j \in Nat, PointScales DEF z
  <1>9. Fixed(v, p) = Point(d, p)
    BY DEF Fixed, d, x
  <1>10. Fixed(v, p + j) = Point(Digits(Round(v.n, v.m - (p + j)), 10, (p + j) + 1), p + j)
    BY Zenon DEF Fixed
  <1>11. Fixed(v, p + j) = Point(d \o z, p + j)
    BY ONLY <1>1, <1>3, <1>4, <1>5, <1>10, Zenon
  <1> QED BY ONLY <1>8, <1>9, <1>11, Zenon DEF z

LEMMA Log10Type ==
    ASSUME NEW v, v.n \in Nat, v.m \in Nat
    PROVE  /\ Log10(v) \in Int
           /\ v.n # 0 => v.m + Log10(v) = Len(OneByOne(10)[v.n]) - 1
  <1> DEFINE c == Len(OneByOne(10)[v.n])
  <1>1. c \in Nat \ {0} /\ Len(Digits(v.n, 10, 1)) = c
    BY ONLY v.n \in Nat, DecimalLength
  <1>2. Log10(v) = IF v.n = 0 THEN 0 ELSE Len(Digits(v.n, 10, 1)) - 1 - v.m
    BY Zenon DEF Log10
  <1> HIDE DEF c
  <1>3. Log10(v) = IF v.n = 0 THEN 0 ELSE (c - 1) - v.m
    BY ONLY <1>1, <1>2, Zenon
  <1>4. Log10(v) \in Int /\ (v.n # 0 => v.m + Log10(v) = c - 1)
    BY ONLY <1>1, <1>3, v.n \in Nat, v.m \in Nat
  <1> QED BY ONLY <1>4 DEF c

\* Style e, in front of the exponent's letter and behind it.
Before(v, p) == Point(SubSeq(Digits(Mantissa(v, p), 10, p + 1), 1, p + 1), p)
After(v, p)  == <<IF Exponent(v, p) < 0 THEN "-" ELSE "+">>
                  \o Digits(Abs(Exponent(v, p)), 10, 2)

Plain == Glyph \ {"e"}

WithExponent(h, r) == h \o (<<"e">> \o r)

LEMMA PlainCharacters ==
    /\ Fraction \subseteq Plain /\ Plain \subseteq Glyph
    /\ "+" \in Plain /\ "-" \in Plain /\ "0" \in Plain /\ Decimal \subseteq Plain
  <1>1. "+" # "e" /\ "-" # "e" /\ "0" # "e"
    OBVIOUS
  <1> QED BY ONLY <1>1, DecimalIsGlyph DEF Plain

LEMMA ExponentType ==
    ASSUME NEW v, v.n \in Nat, v.m \in Nat, NEW p \in Nat
    PROVE  /\ Mantissa(v, p) \in Nat /\ Exponent(v, p) \in Int
           /\ Abs(Exponent(v, p)) \in Nat
  <1>1. Log10(v) \in Int
    BY ONLY v.n \in Nat, v.m \in Nat, Log10Type
  <1>2. v.m + (Log10(v) - p) \in Int
    BY ONLY <1>1, v.m \in Nat, p \in Nat
  <1>3. Mantissa(v, p) \in Nat
    <2>1. Mantissa(v, p) = Round(v.n, v.m + (Log10(v) - p))
      BY Zenon DEF Mantissa
    <2>2. Round(v.n, v.m + (Log10(v) - p)) \in Nat
      BY ONLY <1>2, v.n \in Nat, RoundType
    <2> QED BY ONLY <2>1, <2>2
  <1>4. Exponent(v, p) \in Int
    <2> DEFINE up == Mantissa(v, p) >= Power(10, p + 1)
    <2>1. Exponent(v, p) = Log10(v) + (IF up THEN 1 ELSE 0)
      BY Zenon DEF Exponent
    <2> HIDE DEF up
    <2> QED BY ONLY <1>1, <2>1
  <1> DEFINE e == Exponent(v, p)
  <1> HIDE DEF e
  <1>5. Abs(e) \in Nat
    <2>1. e \in Int
      BY ONLY <1>4 DEF e
    <2> QED BY ONLY <2>1 DEF Abs
  <1> QED BY ONLY <1>3, <1>4, <1>5 DEF e

LEMMA ScientificParts ==
    ASSUME NEW v, v.n \in Nat, v.m \in Nat, NEW p \in Nat
    PROVE  /\ Before(v, p) \in Seq(Fraction) /\ After(v, p) \in Seq(Plain)
           /\ Scientific(v, p) = WithExponent(Before(v, p), After(v, p))
  <1> DEFINE M == Mantissa(v, p)
             E == Exponent(v, p)
             s == IF E < 0 THEN "-" ELSE "+"
             d == Digits(M, 10, p + 1)
             t == SubSeq(d, 1, p + 1)
             w == Digits(Abs(E), 10, 2)
             B == Point(t, p)
  <1>1. M \in Nat /\ E \in Int /\ Abs(E) \in Nat
    BY ONLY v.n \in Nat, v.m \in Nat, p \in Nat, ExponentType
  <1>2. p + 1 \in Nat \ {0}
    BY ONLY p \in Nat
  <1> HIDE DEF M, E
  <1>3. d \in Seq(Decimal) /\ Len(d) \in Nat /\ Len(d) >= p + 1
    BY ONLY <1>1, <1>2, DecimalsType
  <1> HIDE DEF d
  <1>4. t \in Seq(Decimal) /\ Len(t) = p + 1
    <2> DEFINE end == p + 1
    <2>1. end \in Int /\ 1 \in Int /\ 1 <= end /\ end - 1 + 1 = end
      BY ONLY p \in Nat
    <2>2. \A i \in 1..end : d[i] \in Decimal
      <3> SUFFICES ASSUME NEW i \in 1..end PROVE d[i] \in Decimal
        OBVIOUS
      <3>1. i \in 1..Len(d)
        BY ONLY <1>3, i \in 1..end, p \in Nat
      <3> QED BY ONLY <1>3, <3>1, ElementOfSeq
    <2> DEFINE u == SubSeq(d, 1, end)
    <2> HIDE DEF end
    <2>3. u \in Seq(Decimal) /\ Len(u) = IF 1 <= end THEN end - 1 + 1 ELSE 0
      BY ONLY <2>1, <2>2, SubSeqProperties
    <2> HIDE DEF u
    <2>4. u \in Seq(Decimal) /\ Len(u) = end
      BY ONLY <2>1, <2>3
    <2> QED BY ONLY <2>4 DEF u, end
  <1> HIDE DEF t
  <1>5. B \in Seq(Fraction)
    <2>1. p <= Len(t)
      BY ONLY <1>4, p \in Nat
    <2> QED BY ONLY <1>4, <2>1, p \in Nat, PointType
  <1>6. w \in Seq(Decimal)
    <2> DEFINE least == 2
    <2>1. least \in Nat \ {0}
      OBVIOUS
    <2> HIDE DEF least
    <2>2. Digits(Abs(E), 10, least) \in Seq(Decimal)
      BY ONLY <1>1, <2>1, DecimalsType
    <2> QED BY ONLY <2>2 DEF least
  <1> HIDE DEF B, w
  <1>7. s \in Plain
    BY ONLY PlainCharacters
  <1> HIDE DEF s
  <1>8. <<s>> \o w \in Seq(Plain) /\ <<s>> \in Seq(Plain) /\ w \in Seq(Plain)
    <2>1. w \in Seq(Plain)
      BY ONLY <1>6, PlainCharacters, SeqMonotonic
    <2>2. <<s>> \in Seq(Plain)
      BY ONLY <1>7
    <2> QED BY ONLY <2>1, <2>2, ConcatProperties
  <1>9. Scientific(v, p) = (B \o <<"e", s>>) \o w
    BY Zenon DEF Scientific, B, t, d, M, E, s, w
  <1>10. (B \o <<"e", s>>) \o w = B \o (<<"e">> \o (<<s>> \o w))
    <2>1. Fraction \subseteq Glyph /\ Plain \subseteq Glyph /\ "e" \in Glyph
      BY ONLY DecimalIsGlyph, PlainCharacters
    <2>2. B \in Seq(Glyph) /\ w \in Seq(Glyph)
      BY ONLY <1>5, <1>8, <2>1, SeqMonotonic
    <2>3. s \in Glyph
      BY ONLY <1>7, <2>1
    <2>4. <<"e">> \in Seq(Glyph) /\ <<s>> \in Seq(Glyph) /\ <<"e", s>> \in Seq(Glyph)
      BY ONLY <2>1, <2>3
    <2>5. <<"e", s>> = <<"e">> \o <<s>>
      OBVIOUS
    <2>6. (B \o <<"e", s>>) \o w = B \o (<<"e", s>> \o w)
      BY ONLY <2>2, <2>4, ConcatAssociative, SMTT(30)
    <2>7. (<<"e">> \o <<s>>) \o w = <<"e">> \o (<<s>> \o w)
      BY ONLY <2>2, <2>4, ConcatAssociative, SMTT(30)
    <2> QED BY ONLY <2>5, <2>6, <2>7
  <1>11. Before(v, p) = B /\ After(v, p) = <<s>> \o w
    BY Zenon DEF Before, After, B, t, d, M, E, s, w
  <1>12. Scientific(v, p) = WithExponent(B, <<s>> \o w)
    BY ONLY <1>9, <1>10, Zenon DEF WithExponent
  <1> QED BY ONLY <1>5, <1>8, <1>11, <1>12

\* The exponent's letter is found.
LEMMA ExponentFound ==
    ASSUME NEW h \in Seq(Plain), NEW r \in Seq(Plain)
    PROVE  /\ WithExponent(h, r) \in Seq(Glyph) /\ Len(h) \in Nat
           /\ ExponentAt(WithExponent(h, r)) = Len(h) + 1
           /\ SubSeq(WithExponent(h, r), 1, Len(h)) = h
           /\ SubSeq(WithExponent(h, r), Len(h) + 1, Len(WithExponent(h, r)))
                = <<"e">> \o r
  <1> DEFINE t == WithExponent(h, r)
             at == ExponentAt(t)
             b == <<"e">>
             q == b \o r
             m == Len(h)
             len == Len(r)
  <1>1. Plain \subseteq Glyph /\ "e" \in Glyph
    BY ONLY PlainCharacters, DecimalIsGlyph
  <1>2. b \in Seq(Glyph) /\ Len(b) = 1 /\ b[1] = "e"
    BY ONLY <1>1
  <1>3. /\ h \in Seq(Glyph) /\ r \in Seq(Glyph) /\ m \in Nat /\ len \in Nat
        /\ \A i \in 1..m : h[i] # "e"
        /\ \A i \in 1..len : r[i] # "e"
    <2>1. h \in Seq(Glyph) /\ r \in Seq(Glyph)
      BY ONLY <1>1, h \in Seq(Plain), r \in Seq(Plain), SeqMonotonic
    <2>2. ASSUME NEW s \in Seq(Plain) PROVE Len(s) \in Nat /\ \A i \in 1..Len(s) : s[i] # "e"
      <3>1. \A i \in 1..Len(s) : s[i] \in Plain
        BY ONLY s \in Seq(Plain), ElementOfSeq
      <3>2. Len(s) \in Nat
        BY ONLY s \in Seq(Plain)
      <3> QED BY ONLY <3>1, <3>2 DEF Plain
    <2> QED BY ONLY <2>1, <2>2, h \in Seq(Plain), r \in Seq(Plain)
  <1> HIDE DEF b
  <1>4. /\ q \in Seq(Glyph) /\ Len(q) = 1 + len
        /\ \A i \in 1..1 + len : q[i] = IF i <= 1 THEN b[i] ELSE r[i - 1]
    <2> DEFINE c == Len(b)
    <2>1. b \in Seq(Glyph) /\ r \in Seq(Glyph)
      BY ONLY <1>2, <1>3
    <2>2. /\ q \in Seq(Glyph) /\ Len(q) = c + len
          /\ \A i \in 1..c + len : q[i] = IF i <= c THEN b[i] ELSE r[i - c]
      BY ONLY <2>1, ConcatProperties
    <2> HIDE DEF q, len, c
    <2>3. c = 1
      BY ONLY <1>2 DEF c
    <2> QED BY ONLY <2>2, <2>3
  <1>5. t = h \o q
    BY DEF b, WithExponent
  <1> HIDE DEF t
  <1> HIDE DEF q
  <1>6. /\ t \in Seq(Glyph) /\ Len(t) = m + Len(q)
        /\ SubSeq(t, 1, m) = h /\ SubSeq(t, m + 1, m + Len(q)) = q
        /\ \A i \in 1..m + Len(q) : t[i] = IF i <= m THEN h[i] ELSE q[i - m]
    <2>1. /\ h \o q \in Seq(Glyph) /\ Len(h \o q) = m + Len(q)
          /\ SubSeq(h \o q, 1, m) = h /\ SubSeq(h \o q, m + 1, m + Len(q)) = q
      <3> DEFINE k == Len(q)
      <3>1. h \in Seq(Glyph) /\ q \in Seq(Glyph)
        BY ONLY <1>3, <1>4
      <3>2. h \o q \in Seq(Glyph) /\ Len(h \o q) = m + k
        BY ONLY <3>1, Halves
      <3>3. SubSeq(h \o q, 1, m) = h
        BY ONLY <3>1, Halves
      <3>4. SubSeq(h \o q, m + 1, m + k) = q
        BY ONLY <3>1, Halves
      <3> QED BY ONLY <3>2, <3>3, <3>4
    <2>2. \A i \in 1..m + Len(q) : (h \o q)[i] = IF i <= m THEN h[i] ELSE q[i - m]
      BY ONLY <1>3, <1>4, ConcatProperties
    <2> QED BY ONLY <1>5, <2>1, <2>2, Zenon
  <1> HIDE DEF m, len
  <1>7. ASSUME NEW i \in 1..Len(t) PROVE t[i] = "e" <=> i = m + 1
    <2>1. i \in 1..m + (1 + len) /\ i \in 1..m + Len(q)
      BY ONLY <1>4, <1>6
    <2>2. CASE i <= m
      <3>1. t[i] = h[i] /\ i \in 1..m /\ i # m + 1
        BY ONLY <1>3, <1>6, <2>1, <2>2
      <3> QED BY ONLY <1>3, <3>1 DEF m
    <2>3. CASE i = m + 1
      <3>1. t[i] = q[1]
        BY ONLY <1>3, <1>6, <2>1, <2>3
      <3>2. q[1] = b[1]
        BY ONLY <1>3, <1>4
      <3> QED BY ONLY <1>2, <2>3, <3>1, <3>2
    <2>4. CASE i > m + 1
      <3> DEFINE k == i - m
      <3>1. t[i] = q[k]
        BY ONLY <1>3, <1>6, <2>1, <2>4
      <3>2. k \in 1..1 + len /\ ~(k <= 1) /\ k - 1 \in 1..len
        BY ONLY <1>3, <2>1, <2>4
      <3> HIDE DEF k
      <3>3. q[k] = r[k - 1]
        BY ONLY <1>4, <3>2
      <3>4. r[k - 1] # "e"
        BY ONLY <1>3, <3>2 DEF len
      <3>5. i # m + 1
        BY ONLY <1>3, <2>1, <2>4
      <3> QED BY ONLY <3>1, <3>3, <3>4, <3>5
    <2> QED BY ONLY <1>3, <2>1, <2>2, <2>3, <2>4
  <1>8. m + 1 \in 1..Len(t)
    BY ONLY <1>3, <1>4, <1>6
  <1>9. at = m + 1
    <2>1. at = CHOOSE k \in 1..Len(t) : t[k] = "e"
      BY Zenon DEF ExponentAt
    <2>2. \A k \in 1..Len(t) : t[k] = "e" <=> k = m + 1
      BY ONLY <1>7
    <2> DEFINE I == 1..Len(t)
               c == m + 1
    <2> HIDE DEF I, c
    <2>3. c \in I /\ \A k \in I : t[k] = "e" <=> k = c
      BY ONLY <1>8, <2>2 DEF I, c
    <2>4. (CHOOSE k \in I : t[k] = "e") = c
      BY ONLY <2>3, Zenon
    <2> QED BY ONLY <2>1, <2>4 DEF I, c
  <1> HIDE DEF at
  <1> QED BY ONLY <1>3, <1>6, <1>9 DEF m, q, b, t, at

LEMMA ProductOrder ==
    ASSUME NEW x \in Nat, NEW y \in Nat, NEW z \in Nat \ {0}
    PROVE  x * z >= y * z <=> x >= y
  <1>1. x >= y => x * z >= y * z
    <2> SUFFICES ASSUME x >= y PROVE x * z >= y * z
      OBVIOUS
    <2>1. PICK w \in Nat : x = y + w
      <3>1. x - y \in Nat /\ x = y + (x - y)
        BY ONLY x >= y, x \in Nat, y \in Nat
      <3> QED BY ONLY <3>1
    <2>2. (y + w) * z = y * z + w * z /\ w * z \in Nat /\ y * z \in Nat
      BY ONLY y \in Nat, w \in Nat, z \in Nat \ {0}
    <2> QED BY ONLY <2>1, <2>2
  <1>2. ~(x >= y) => ~(x * z >= y * z)
    <2> SUFFICES ASSUME ~(x >= y) PROVE ~(x * z >= y * z)
      OBVIOUS
    <2>1. PICK w \in Nat \ {0} : y = x + w
      <3>1. y - x \in Nat \ {0} /\ y = x + (y - x)
        BY ONLY ~(x >= y), x \in Nat, y \in Nat
      <3> QED BY ONLY <3>1
    <2>2. (x + w) * z = x * z + w * z /\ w * z \in Nat \ {0} /\ x * z \in Nat
      BY ONLY x \in Nat, w \in Nat \ {0}, z \in Nat \ {0}
    <2> QED BY ONLY <2>1, <2>2
  <1> QED BY ONLY <1>1, <1>2

\* A mantissa that is cut off nowhere has one digit in front of the point.
LEMMA ExactMantissa ==
    ASSUME NEW v, v.n \in Nat, v.m \in Nat, NEW p \in Nat,
           Exact(v.n, v.m + (Log10(v) - p))
    PROVE  Len(Digits(Mantissa(v, p), 10, p + 1)) = p + 1
  <1> DEFINE k == v.m + (Log10(v) - p)
             M == Mantissa(v, p)
             c == Len(OneByOne(10)[M])
             a == Len(OneByOne(10)[v.n])
  <1>1. Log10(v) \in Int /\ (v.n # 0 => v.m + Log10(v) = a - 1)
    BY ONLY v.n \in Nat, v.m \in Nat, Log10Type
  <1>2. M \in Nat
    BY ONLY v.n \in Nat, v.m \in Nat, p \in Nat, ExponentType
  <1>3. M = Round(v.n, k)
    BY DEF Mantissa
  <1>4. a \in Nat \ {0}
    BY ONLY v.n \in Nat, DecimalLength
  <1>5. k \in Int /\ (v.n # 0 => k = (a - 1) - p)
    <2> DEFINE l == Log10(v)
               m == v.m
    <2>1. l \in Int /\ m \in Nat /\ (v.n # 0 => m + l = a - 1)
      BY ONLY <1>1, v.m \in Nat
    <2> HIDE DEF a, l, m
    <2>2. m + (l - p) \in Int /\ (v.n # 0 => m + (l - p) = (a - 1) - p)
      BY ONLY <1>4, <2>1, p \in Nat
    <2> QED BY ONLY <2>2 DEF l, m
  <1>6. Exact(v.n, k)
    OBVIOUS
  <1> HIDE DEF k, M
  <1>7. c <= p + 1
    <2>1. CASE v.n # 0
      <3>1. v.n \in Nat \ {0}
        BY ONLY <2>1, v.n \in Nat
      <3>2. c = a - k
        BY ONLY <1>3, <1>5, <1>6, <3>1, ExactLength
      <3> HIDE DEF a, c
      <3> QED BY ONLY <1>4, <1>5, <2>1, <3>2, p \in Nat
    <2>2. CASE v.n = 0
      <3>1. M = 0
        <4> DEFINE x == Round(v.n, k)
        <4>1. /\ k <= 0 => x = v.n * Power(10, -k)
              /\ k > 0 => v.n = x * Power(10, k)
          BY ONLY <1>5, <1>6, v.n \in Nat, RoundExact
        <4>2. \A i \in Nat : Power(10, i) \in Nat \ {0}
          BY ONLY PowersOfTen
        <4>3. x \in Nat
          BY ONLY <1>5, v.n \in Nat, RoundType
        <4> HIDE DEF x
        <4>4. CASE k <= 0
          <5>1. -k \in Nat
            BY ONLY <1>5, <4>4
          <5> DEFINE w == Power(10, -k)
          <5>2. w \in Nat /\ x = 0 * w
            BY ONLY <2>2, <4>1, <4>2, <4>4, <5>1
          <5> HIDE DEF w
          <5>3. x = 0
            BY ONLY <5>2
          <5> QED BY ONLY <1>3, <5>3 DEF x
        <4>5. CASE k > 0
          <5>1. k \in Nat
            BY ONLY <1>5, <4>5
          <5> DEFINE w == Power(10, k)
          <5>2. w \in Nat \ {0} /\ 0 = x * w
            BY ONLY <2>2, <4>1, <4>2, <4>5, <5>1
          <5> HIDE DEF w
          <5>3. x = 0
            BY ONLY <4>3, <5>2
          <5> QED BY ONLY <1>3, <5>3 DEF x
        <4> QED BY ONLY <1>5, <4>4, <4>5
      <3>2. OneByOne(10)[M] = <<"0">>
        BY ONLY <1>2, <3>1, DecimalLength
      <3>3. Len(<<"0">>) = 1
        OBVIOUS
      <3>4. c = 1
        BY ONLY <3>2, <3>3
      <3> HIDE DEF c
      <3> QED BY ONLY <3>4, p \in Nat
    <2> QED BY ONLY <2>1, <2>2
  <1>8. p + 1 \in Nat \ {0}
    BY ONLY p \in Nat
  <1> DEFINE least == p + 1
  <1> HIDE DEF least
  <1>9. Len(Digits(M, 10, least)) = least
    BY ONLY <1>2, <1>7, <1>8, DecimalsType DEF least
  <1> QED BY ONLY <1>9 DEF least, M

\* Digits behind the last one that is not zero are zeros, in front of the exponent.
LEMMA ScientificScales ==
    ASSUME NEW v, v.n \in Nat, v.m \in Nat, NEW p \in Nat \ {0}, NEW j \in Nat,
           Exact(v.n, v.m + (Log10(v) - p))
    PROVE  /\ Before(v, p + j) = Before(v, p) \o Run("0", j)
           /\ After(v, p + j) = After(v, p)
  <1> DEFINE k == v.m + (Log10(v) - p)
             M == Mantissa(v, p)
             N == Mantissa(v, p + j)
             ten == Power(10, j)
             d == Digits(M, 10, p + 1)
             z == Run("0", j)
             least == p + 1
  <1>1. Log10(v) \in Int
    BY ONLY v.n \in Nat, v.m \in Nat, Log10Type
  <1>2. k \in Int /\ v.m + (Log10(v) - (p + j)) = k - j
    BY ONLY <1>1, v.m \in Nat, p \in Nat \ {0}, j \in Nat
  <1>3. p \in Nat /\ p + j \in Nat /\ least \in Nat \ {0} /\ (p + j) + 1 = least + j
    BY ONLY p \in Nat \ {0}, j \in Nat
  <1>4. M \in Nat /\ M = Round(v.n, k)
    <2>1. M \in Nat
      BY ONLY <1>3, v.n \in Nat, v.m \in Nat, ExponentType
    <2>2. M = Round(v.n, k)
      BY DEF Mantissa
    <2> QED BY ONLY <2>1, <2>2
  <1>5. N = Round(v.n, v.m + (Log10(v) - (p + j)))
    BY DEF Mantissa
  <1>6. Exact(v.n, k)
    OBVIOUS
  <1>7. Len(d) = least
    BY ONLY <1>3, <1>6, v.n \in Nat, v.m \in Nat, ExactMantissa
  <1> HIDE DEF k, M, N, ten
  <1>8. Round(v.n, k - j) = Round(v.n, k) * ten
    BY ONLY <1>2, <1>6, v.n \in Nat, j \in Nat, RoundScales DEF ten
  <1>9. N = M * ten
    BY ONLY <1>2, <1>4, <1>5, <1>8
  <1>10. ten \in Nat \ {0}
    BY ONLY j \in Nat, PowersOfTen DEF ten
  <1>11. d \in Seq(Decimal)
    BY ONLY <1>3, <1>4, DecimalsType
  <1> HIDE DEF least
  <1>12. Digits(N, 10, least + j) = Digits(M, 10, least) \o z
    BY ONLY <1>3, <1>4, <1>9, j \in Nat, DigitsScale DEF ten
  <1>13. Digits(N, 10, (p + j) + 1) = d \o z
    BY ONLY <1>3, <1>12, Zenon DEF least
  <1> HIDE DEF d
  <1>14. z \in Seq(Decimal) /\ Len(z) = j
    <2>1. "0" \in Decimal /\ j \in Int
      BY ONLY DecimalIsGlyph, j \in Nat
    <2>2. z \in Seq(Decimal) /\ Len(z) = IF j >= 0 THEN j ELSE 0
      BY ONLY <2>1, RunProperties
    <2> HIDE DEF z
    <2> QED BY ONLY <2>2, j \in Nat
  <1> HIDE DEF z
  <1>15. d \o z \in Seq(Decimal) /\ Len(d \o z) = least + j
    <2>1. d \o z \in Seq(Decimal) /\ Len(d \o z) = Len(d) + Len(z)
      BY ONLY <1>11, <1>14, ConcatProperties
    <2> QED BY ONLY <1>7, <1>14, <2>1
  <1>16. SubSeq(d, 1, least) = d /\ SubSeq(d \o z, 1, least + j) = d \o z
    <2>1. SubSeq(d, 1, Len(d)) = d
      BY ONLY <1>11, SubSeqFull
    <2>2. SubSeq(d \o z, 1, Len(d \o z)) = d \o z
      BY ONLY <1>15, SubSeqFull
    <2> QED BY ONLY <1>7, <1>15, <2>1, <2>2
  <1>17. Before(v, p + j) = Point(d \o z, p + j)
    <2>1. Before(v, p + j) = Point(SubSeq(Digits(N, 10, (p + j) + 1), 1, (p + j) + 1), p + j)
      BY DEF Before, N
    <2> QED BY ONLY <1>3, <1>13, <1>16, <2>1
  <1>18. Before(v, p) = Point(d, p)
    <2>1. Before(v, p) = Point(SubSeq(d, 1, least), p)
      BY DEF Before, d, M, least
    <2> QED BY ONLY <1>16, <2>1
  <1>19. Point(d \o z, p + j) = Point(d, p) \o z
    <2>1. p <= Len(d)
      BY ONLY <1>3, <1>7 DEF least
    <2> QED BY ONLY <1>11, <2>1, p \in Nat \ {0}, j \in Nat, PointScales DEF z
  <1>20. After(v, p + j) = After(v, p)
    <2> DEFINE T == Power(10, p + 1)
               U == Power(10, (p + j) + 1)
    <2>1. U = T * ten /\ T \in Nat
      <3>1. least \in Nat
        BY ONLY <1>3
      <3>2. Power(10, least + j) = Power(10, least) * Power(10, j)
        BY ONLY <3>1, j \in Nat, PowerOfSum
      <3>3. Power(10, least) \in Nat
        BY ONLY <3>1, PowersOfTen
      <3> QED BY ONLY <1>3, <3>2, <3>3 DEF ten, least
    <2> HIDE DEF T, U
    <2>2. N >= U <=> M >= T
      <3>1. M * ten >= T * ten <=> M >= T
        BY ONLY <1>4, <1>10, <2>1, ProductOrder
      <3> QED BY ONLY <1>9, <2>1, <3>1
    <2>3. /\ Exponent(v, p) = Log10(v) + (IF M >= T THEN 1 ELSE 0)
          /\ Exponent(v, p + j) = Log10(v) + (IF N >= U THEN 1 ELSE 0)
      BY DEF Exponent, M, N, T, U
    <2>4. Exponent(v, p + j) = Exponent(v, p)
      <3> DEFINE big == M >= T
                 bigger == N >= U
      <3>1. /\ Exponent(v, p) = Log10(v) + (IF big THEN 1 ELSE 0)
            /\ Exponent(v, p + j) = Log10(v) + (IF bigger THEN 1 ELSE 0)
            /\ bigger <=> big
        BY ONLY <2>2, <2>3
      <3> DEFINE x == IF big THEN 1 ELSE 0
                 y == IF bigger THEN 1 ELSE 0
      <3> HIDE DEF big, bigger
      <3>2. x = y
        BY ONLY <3>1, Zenon
      <3> HIDE DEF x, y
      <3>3. Exponent(v, p) = Log10(v) + x /\ Exponent(v, p + j) = Log10(v) + y
        BY ONLY <3>1, Zenon DEF x, y
      <3> QED BY ONLY <3>2, <3>3
    <2> QED BY ONLY <2>4, Zenon DEF After
  <1> QED BY ONLY <1>17, <1>18, <1>19, <1>20 DEF z

-----------------------------------------------------------------------------
(* Style g *)

LEMMA SignificantType ==
    ASSUME NEW p \in Int
    PROVE  Significant(p) \in Nat \ {0}
  <1>1. DEFAULT_PRECISION \in Nat \ {0}
    BY ConversionAssumption
  <1>2. Max({p, 1}) = IF p >= 1 THEN p ELSE 1
    BY MaxOfTwo
  <1> QED BY ONLY <1>1, <1>2, p \in Int DEF Significant

\* A set of numbers up to top has a largest.
LEMMA MaxWithin ==
    ASSUME NEW top \in Nat, NEW T \in SUBSET (0..top), T # {}
    PROVE  Max(T) \in T
  <1> DEFINE U == {top - i : i \in T}
  <1>1. \A i \in T : i \in 0..top /\ top - i \in Nat
    BY ONLY top \in Nat, T \in SUBSET (0..top)
  <1>2. U \in SUBSET Nat /\ U # {}
    BY ONLY <1>1, T # {}
  <1>3. PICK x \in U : \A y \in U : x <= y
    <2> HIDE DEF U
    <2> QED BY ONLY <1>2, NatHasLeast
  <1>4. PICK c \in T : x = top - c
    BY ONLY <1>3
  <1>5. \A i \in T : c >= i
    <2> SUFFICES ASSUME NEW i \in T PROVE c >= i
      OBVIOUS
    <2>1. top - c <= top - i
      BY ONLY <1>3, <1>4, i \in T
    <2>2. c \in 0..top /\ i \in 0..top
      BY ONLY <1>1, c \in T, i \in T
    <2> QED BY ONLY <2>1, <2>2, top \in Nat
  <1>6. Max(T) = CHOOSE y \in T : \A z \in T : y >= z
    BY DEF Max
  <1> HIDE DEF U
  <1>7. (CHOOSE y \in T : \A z \in T : y >= z) \in T
    BY ONLY <1>5, c \in T, Zenon
  <1> QED BY ONLY <1>6, <1>7

LEMMA ShortenedType ==
    ASSUME NEW text \in Seq(Fraction)
    PROVE  Shortened(text) \in Seq(Fraction)
  <1> DEFINE len == Len(text)
             T == { k \in 0..len : k > 0 => text[k] # "0" }
             last == Max(T)
             c == IF text[last] = "." THEN last - 1 ELSE last
  <1>1. len \in Nat
    BY ONLY text \in Seq(Fraction)
  <1>2. last \in 0..len
    <2>1. T \in SUBSET (0..len) /\ 0 \in T
      BY ONLY <1>1
    <2> HIDE DEF T, len
    <2>2. Max(T) \in T
      BY ONLY <1>1, <2>1, MaxWithin
    <2> QED BY ONLY <2>1, <2>2
  <1>3. Shortened(text) = IF "." \notin ToSet(text) THEN text ELSE SubSeq(text, 1, c)
    BY DEF Shortened
  <1> HIDE DEF last
  <1>4. c \in Int /\ c <= len
    BY ONLY <1>1, <1>2
  <1>5. SubSeq(text, 1, c) \in Seq(Fraction)
    <2> HIDE DEF c, len
    <2>1. \A i \in 1..c : text[i] \in Fraction
      <3> SUFFICES ASSUME NEW i \in 1..c PROVE text[i] \in Fraction
        OBVIOUS
      <3>1. i \in 1..len
        BY ONLY <1>1, <1>4, i \in 1..c
      <3> QED BY ONLY <3>1, text \in Seq(Fraction), ElementOfSeq DEF len
    <2>2. 1 \in Int
      OBVIOUS
    <2> QED BY ONLY <1>4, <2>1, <2>2, SubSeqProperties
  <1> QED BY ONLY <1>3, <1>5, text \in Seq(Fraction)

LEMMA GeneralType ==
    ASSUME NEW v, v.n \in Nat, v.m \in Nat, NEW p \in Int
    PROVE  General(v, p) \in Seq(Glyph)
  <1> DEFINE sig == Significant(p)
             exp == Exponent(v, sig - 1)
             text == Scientific(v, sig - 1)
             at == ExponentAt(text)
             fixed == Shortened(Fixed(v, sig - 1 - exp))
             h == Before(v, sig - 1)
             r == After(v, sig - 1)
  <1>1. sig \in Nat \ {0} /\ sig - 1 \in Nat
    <2>1. sig \in Nat \ {0}
      BY ONLY p \in Int, SignificantType
    <2> HIDE DEF sig
    <2> QED BY ONLY <2>1
  <1>2. General(v, p) = IF sig > exp /\ exp >= -4 THEN fixed
                        ELSE Shortened(SubSeq(text, 1, at - 1)) \o SubSeq(text, at, Len(text))
    BY DEF General
  <1> HIDE DEF sig
  <1>3. exp \in Int
    BY ONLY <1>1, v.n \in Nat, v.m \in Nat, ExponentType
  <1>4. h \in Seq(Fraction) /\ r \in Seq(Plain) /\ text = WithExponent(h, r)
    BY ONLY <1>1, v.n \in Nat, v.m \in Nat, ScientificParts
  <1>5. ASSUME NEW s \in Seq(Fraction) PROVE s \in Seq(Glyph)
    BY ONLY s \in Seq(Fraction), DecimalIsGlyph, SeqMonotonic
  <1>6. h \in Seq(Plain)
    BY ONLY <1>4, PlainCharacters, SeqMonotonic
  <1> HIDE DEF exp, text, h, r
  <1>7. CASE sig > exp /\ exp >= -4
    <2>1. sig - 1 - exp \in Nat
      BY ONLY <1>1, <1>3, <1>7
    <2>2. Fixed(v, sig - 1 - exp) \in Seq(Fraction)
      BY ONLY <2>1, v.n \in Nat, v.m \in Nat, FixedType
    <2>3. fixed \in Seq(Fraction)
      BY ONLY <2>2, ShortenedType
    <2> HIDE DEF fixed
    <2> QED BY ONLY <1>2, <1>5, <1>7, <2>3
  <1>8. CASE ~(sig > exp /\ exp >= -4)
    <2>1. SubSeq(text, 1, at - 1) = h /\ SubSeq(text, at, Len(text)) = <<"e">> \o r
      <3>1. /\ at = Len(h) + 1 /\ Len(h) \in Nat
            /\ SubSeq(text, 1, Len(h)) = h
            /\ SubSeq(text, Len(h) + 1, Len(text)) = <<"e">> \o r
        BY ONLY <1>4, <1>6, ExponentFound
      <3> HIDE DEF at
      <3>2. at - 1 = Len(h)
        BY ONLY <3>1
      <3> QED BY ONLY <3>1, <3>2, Zenon
    <2> HIDE DEF at
    <2>2. Shortened(h) \in Seq(Glyph)
      <3>1. Shortened(h) \in Seq(Fraction)
        BY ONLY <1>4, ShortenedType
      <3> QED BY ONLY <1>5, <3>1
    <2>3. <<"e">> \o r \in Seq(Glyph)
      <3>1. r \in Seq(Glyph)
        BY ONLY <1>4, PlainCharacters, SeqMonotonic
      <3>2. "e" \in Glyph
        BY ONLY DecimalIsGlyph
      <3>3. <<"e">> \in Seq(Glyph)
        BY ONLY <3>2
      <3> QED BY ONLY <3>1, <3>3, ConcatProperties
    <2>4. Shortened(h) \o (<<"e">> \o r) \in Seq(Glyph)
      BY ONLY <2>2, <2>3, ConcatProperties
    <2> QED BY ONLY <1>2, <1>8, <2>1, <2>4
  <1> QED BY ONLY <1>7, <1>8

-----------------------------------------------------------------------------
(* A finite floating-point number is the standard's *)

\* Conversions look at the digits and the scale of a number, not at its sign.
LEMMA SameNumber ==
    ASSUME NEW v, NEW w, v.n = w.n, v.m = w.m
    PROVE  /\ Log10(v) = Log10(w)
           /\ \A s, p : Style(s, v, p) = Style(s, w, p)
           /\ \A p : /\ Exponent(v, p) = Exponent(w, p) /\ Fixed(v, p) = Fixed(w, p)
                     /\ Scientific(v, p) = Scientific(w, p)
                     /\ General(v, p) = General(w, p)
  <1>1. Log10(v) = Log10(w)
    BY ONLY v.n = w.n, v.m = w.m, Zenon DEF Log10
  <1>2. \A s, p : Style(s, v, p) = Style(s, w, p)
    BY ONLY <1>1, Zenon DEF Style
  <1>3. \A p : Mantissa(v, p) = Mantissa(w, p)
    BY ONLY <1>1, v.n = w.n, v.m = w.m, Zenon DEF Mantissa
  <1>4. \A p : Exponent(v, p) = Exponent(w, p)
    BY ONLY <1>1, <1>3 DEF Exponent
  <1>5. \A p : Fixed(v, p) = Fixed(w, p)
    BY ONLY v.n = w.n, v.m = w.m, Zenon DEF Fixed
  <1>6. \A p : Scientific(v, p) = Scientific(w, p)
    <2>1. ASSUME NEW p PROVE Scientific(v, p) = Scientific(w, p)
      <3> DEFINE T(e, k) == Point(SubSeq(Digits(k, 10, p + 1), 1, p + 1), p)
                   \o <<"e", IF e < 0 THEN "-" ELSE "+">> \o Digits(Abs(e), 10, 2)
      <3>1. /\ Scientific(v, p) = T(Exponent(v, p), Mantissa(v, p))
            /\ Scientific(w, p) = T(Exponent(w, p), Mantissa(w, p))
        BY Zenon DEF Scientific
      <3> HIDE DEF T
      <3> QED BY ONLY <1>3, <1>4, <3>1
    <2> QED BY ONLY <2>1
  <1>7. \A p : General(v, p) = General(w, p)
    BY ONLY <1>4, <1>5, <1>6 DEF General
  <1> QED BY ONLY <1>1, <1>2, <1>4, <1>5, <1>6, <1>7

\* std::abs keeps the sign of a negative zero.
LEMMA FiniteNumber ==
    ASSUME NEW a \in Argument, Is(a, "n")
    PROVE  /\ a.neg \in BOOLEAN /\ a.n \in Nat /\ a.m \in Nat /\ ~Is(a, "special")
           /\ Magnitude_f(a).n = a.n /\ Magnitude_f(a).m = a.m
           /\ Magnitude_f(a).neg <=> a.neg /\ a.n = 0
           /\ IsBelowZero(a) <=> a.neg /\ a.n # 0
  <1>1. /\ a.neg \in BOOLEAN /\ a.n \in Nat /\ a.m \in Nat /\ ~Is(a, "special")
    BY ONLY a \in Argument, Is(a, "n"), ArgumentKinds, Zenon
  <1>2. a \in [neg : BOOLEAN, n : Nat, m : Nat]
    <2>1. /\ \A b \in [int : Int] : ~Is(b, "n")
          /\ \A b \in [ptr : Nat] : ~Is(b, "n")
          /\ \A b \in [text : Seq(STRING), ptr : Nat] : ~Is(b, "n")
      BY DEF Is
    <2>2. ~Is(Null, "n")
      BY DEF Is, Null
    <2>3. \A b \in {Infinite(TRUE), Infinite(FALSE), NaN} : ~Is(b, "n")
      BY DEF Is, Infinite, NaN
    <2> QED BY <2>1, <2>2, <2>3 DEF Argument
  <1>3. IsBelowZero(a) <=> a.neg /\ a.n # 0
    <2>1. a.n > 0 <=> a.n # 0
      BY ONLY <1>1
    <2> QED BY ONLY <2>1, Is(a, "n"), Zenon DEF IsBelowZero
  <1>4. CASE IsBelowZero(a)
    <2> DEFINE b == [a EXCEPT !.neg = FALSE]
    <2>1. Magnitude_f(a) = b
      BY ONLY <1>4, Zenon DEF Magnitude_f
    <2>2. b.n = a.n /\ b.m = a.m /\ ~b.neg
      BY ONLY <1>2
    <2> HIDE DEF b
    <2> QED BY ONLY <1>1, <1>3, <1>4, <2>1, <2>2, Zenon
  <1>5. CASE ~IsBelowZero(a)
    <2>1. Magnitude_f(a) = a
      BY ONLY <1>5, Zenon DEF Magnitude_f
    <2> QED BY ONLY <1>1, <1>3, <1>5, <2>1, Zenon
  <1> QED BY ONLY <1>4, <1>5

\* The style and the precision that a finite number is written with.
Chosen == Style(SI, arg, P)

LEMMA ChosenType ==
    ASSUME SI.terminal \in FloatTerminal, arg.n \in Nat, arg.m \in Nat,
           P \in Nat \cup {-1}
    PROVE  /\ Chosen.style \in {"f", "e", "g"} /\ Chosen.prec \in Nat \cup {-1}
           /\ Chosen.style = "g" => /\ SI.terminal = "g" /\ "#" \notin SI.flags
                                    /\ Chosen.prec = P
           /\ Chosen.style # "g" => Chosen.prec - MAXFRACT[Chosen.style] \in Int
  <1> DEFINE sig == Significant(P)
             exp == Log10(arg)
  <1>1. sig \in Nat \ {0} /\ exp \in Int
    <2>1. P \in Int
      BY ONLY P \in Nat \cup {-1}
    <2> QED BY ONLY <2>1, arg.n \in Nat, arg.m \in Nat, SignificantType, Log10Type
  <1>2. Chosen = IF SI.terminal # "g" \/ "#" \notin SI.flags
                 THEN [style |-> SI.terminal, prec |-> P]
                 ELSE IF sig > exp /\ exp >= -4
                 THEN [style |-> "f", prec |-> sig - (exp + 1)]
                 ELSE [style |-> "e", prec |-> sig - 1]
    BY Zenon DEF Chosen, Style
  <1>3. SI.terminal \in {"f", "e", "g"}
    BY DEF FloatTerminal
  <1> HIDE DEF sig, exp
  <1>4. CASE SI.terminal # "g" \/ "#" \notin SI.flags
    BY ONLY <1>2, <1>3, <1>4, P \in Nat \cup {-1}, ConversionAssumption
  <1>5. CASE ~(SI.terminal # "g" \/ "#" \notin SI.flags)
    <2>1. CASE sig > exp /\ exp >= -4
      <3>1. sig - (exp + 1) \in Nat
        BY ONLY <1>1, <2>1
      <3>2. Chosen = [style |-> "f", prec |-> sig - (exp + 1)]
        BY ONLY <1>2, <1>5, <2>1
      <3> QED BY ONLY <3>1, <3>2, ConversionAssumption
    <2>2. CASE ~(sig > exp /\ exp >= -4)
      <3>1. sig - 1 \in Nat
        BY ONLY <1>1
      <3>2. Chosen = [style |-> "e", prec |-> sig - 1]
        BY ONLY <1>2, <1>5, <2>2
      <3> QED BY ONLY <3>1, <3>2, ConversionAssumption
    <2> QED BY ONLY <2>1, <2>2
  <1> QED BY ONLY <1>4, <1>5

LEMMA FinitePrepared ==
    ASSUME Prepared, ~NotFinite
    PROVE  /\ SI \in Specification /\ arg \in Argument /\ P \in Nat \cup {-1}
           /\ SI.terminal \in FloatTerminal /\ Is(arg, "n")
           /\ arg.neg \in BOOLEAN /\ arg.n \in Nat /\ arg.m \in Nat
           /\ fpprec = Leftover(Chosen) /\ fpprec \in Nat
           /\ gtoe <=> Chosen.style = "e"
           /\ cp = formatDuble(Chosen.style, "#" \in SI.flags, Magnitude_f(arg),
                               Chosen.prec - fpprec)
           /\ PrintfBody = PrintfFloat /\ PrecZeros = <<>>
  <1>1. /\ <<SI, arg>> \in Calls /\ P \in Nat \cup {-1} /\ cp = TextProper(SI, arg, P)
        /\ fpprec \in Nat /\ FloatPrepared
    BY ONLY Prepared, Zenon DEF Prepared
  <1>2. SI \in Specification /\ arg \in Argument
    BY ONLY <1>1, CallTypes
  <1>3. SI.terminal \in FloatTerminal /\ Is(arg, "n")
    BY ONLY ~NotFinite, Zenon DEF NotFinite
  <1>4. /\ arg.neg \in BOOLEAN /\ arg.n \in Nat /\ arg.m \in Nat /\ ~Is(arg, "special")
        /\ Magnitude_f(arg).n = arg.n /\ Magnitude_f(arg).m = arg.m
    BY ONLY <1>2, <1>3, FiniteNumber, Zenon
  <1>5. Style(SI, Magnitude_f(arg), P) = Chosen
    <2> DEFINE v == Magnitude_f(arg)
    <2>1. v.n = arg.n /\ v.m = arg.m
      BY ONLY <1>4
    <2> HIDE DEF v
    <2>2. \A s, p : Style(s, v, p) = Style(s, arg, p)
      BY ONLY <2>1, SameNumber
    <2>3. Style(SI, v, P) = Style(SI, arg, P)
      BY ONLY <2>2
    <2> QED BY ONLY <2>3 DEF v, Chosen
  <1>6. fpprec = Leftover(Chosen) /\ (gtoe <=> Chosen.style = "e")
    BY ONLY <1>1, <1>3, <1>5, Zenon DEF FloatPrepared
  <1> DEFINE t == SI.terminal
             int == Number(SI, arg.int)
             float == FloatText(SI, arg, P)
             char == CharText(arg)
             text == StringText(arg, P)
             ptr == PointerText(arg)
             special == Is(arg, "special")
             inf == arg.special
             plain == Digits(Abs(Value), Base[t], Max({P, 1}))
             intBody == IF t = "o" /\ "#" \in SI.flags /\ plain[1] # "0"
                        THEN <<"0">> \o plain ELSE plain
             ptrBody == Digits(IF Is(arg, "ptr") THEN arg.ptr ELSE 0, 16, MaxBits \div 4)
  <1>7. cp = (CASE t \in IntegerTerminal -> int
                [] t \in FloatTerminal   -> float
                [] t = "c" -> char
                [] t = "s" -> text
                [] t = "p" -> ptr)
    BY ONLY <1>1, Zenon DEF TextProper
  <1>8. PrintfBody = (CASE t \in IntegerTerminal -> intBody
                        [] special -> inf
                        [] t \in FloatTerminal /\ ~special -> PrintfFloat
                        [] t = "c" -> char
                        [] t = "s" -> text
                        [] t = "p" -> ptrBody)
    <2>1. AskedPrecision = P
      BY ONLY Prepared, Zenon DEF Prepared, AsAsked
    <2> QED BY ONLY <2>1 DEF PrintfBody
  <1>9. float = formatDuble(Chosen.style, "#" \in SI.flags, Magnitude_f(arg),
                            Chosen.prec - fpprec)
    BY ONLY <1>4, <1>5, <1>6 DEF FloatText
  <1> HIDE DEF t, int, intBody, special, inf, float, char, text, ptr, ptrBody
  <1>10. t \in FloatTerminal /\ t \notin IntegerTerminal
    BY ONLY <1>3, TerminalKinds DEF t
  <1>11. t \notin {"c", "s", "p"} /\ ~special
    BY ONLY <1>4, <1>10, TerminalKinds DEF special
  <1>12. cp = float /\ PrintfBody = PrintfFloat
    BY ONLY <1>7, <1>8, <1>10, <1>11
  <1>13. PrecZeros = <<>>
    BY ONLY <1>10, Zenon DEF PrecZeros, t
  <1> QED BY ONLY <1>1, <1>2, <1>3, <1>4, <1>6, <1>9, <1>12, <1>13

\* '#' adds a point behind a number that has none.
WithDot(alt, digits, k) == IF alt /\ k = 0 THEN digits \o <<".">> ELSE digits

\* The digits that a precision asks for.
Requested(p) == IF p < 0 THEN DEFAULT_PRECISION ELSE p

LEMMA RequestedType ==
    /\ \A p \in Int : Requested(p) \in Nat /\ (Requested(p) = 0 <=> p = 0)
    /\ \A p \in Nat : Requested(p) = p
  <1>1. DEFAULT_PRECISION \in Nat \ {0}
    BY ConversionAssumption
  <1> QED BY ONLY <1>1 DEF Requested

LEMMA SplitScientific ==
    ASSUME NEW v, v.n \in Nat, v.m \in Nat, NEW k \in Nat,
           NEW text, text = Scientific(v, k)
    PROVE  /\ SubSeq(text, 1, ExponentAt(text) - 1) = Before(v, k)
           /\ SubSeq(text, ExponentAt(text), Len(text)) = <<"e">> \o After(v, k)
  <1> DEFINE h == Before(v, k)
             r == After(v, k)
             at == ExponentAt(text)
             l == Len(h)
             tail == SubSeq(text, at, Len(text))
             head == SubSeq(text, 1, at - 1)
  <1>1. h \in Seq(Plain) /\ r \in Seq(Plain) /\ text = WithExponent(h, r)
    <2>1. h \in Seq(Fraction) /\ r \in Seq(Plain) /\ text = WithExponent(h, r)
      BY ONLY v.n \in Nat, v.m \in Nat, k \in Nat, text = Scientific(v, k), ScientificParts
    <2> HIDE DEF h, r
    <2> QED BY ONLY <2>1, PlainCharacters, SeqMonotonic
  <1> HIDE DEF h, r
  <1>2. /\ at = l + 1 /\ l \in Nat
        /\ SubSeq(text, 1, l) = h /\ SubSeq(text, l + 1, Len(text)) = <<"e">> \o r
    BY ONLY <1>1, ExponentFound
  <1> HIDE DEF at, l
  <1>3. at - 1 = l
    BY ONLY <1>2
  <1> QED BY ONLY <1>2, <1>3, Zenon DEF h, r, at

LEMMA PrintfFloatIs ==
    ASSUME Prepared, ~NotFinite,
           SI.terminal = "g" /\ "#" \in SI.flags =>
             Exponent(arg, Significant(P) - 1) = Log10(arg),
           NEW k, k = Requested(Chosen.prec), NEW alt, alt = ("#" \in SI.flags)
    PROVE  /\ Chosen.style = "f" => PrintfFloat = WithDot(alt, Fixed(arg, k), k)
           /\ Chosen.style = "e" =>
                PrintfFloat = WithExponent(WithDot(alt, Before(arg, k), k), After(arg, k))
           /\ Chosen.style = "g" => PrintfFloat = General(arg, P)
  <1> DEFINE sig == Significant(P)
             exp == Exponent(arg, sig - 1)
             small == sig > exp /\ exp >= -4
             e(i) == WithExponent(WithDot(alt, Before(arg, i), i), After(arg, i))
             f(i) == WithDot(alt, Fixed(arg, i), i)
             t == SI.terminal
             text(i) == Scientific(arg, i)
             e0(i) == (IF alt /\ i = 0
                       THEN SubSeq(text(i), 1, ExponentAt(text(i)) - 1) \o <<".">>
                       ELSE SubSeq(text(i), 1, ExponentAt(text(i)) - 1))
                        \o SubSeq(text(i), ExponentAt(text(i)), Len(text(i)))
             g == General(arg, P)
             s == Chosen.style
             q == Chosen.prec
  <1>1. /\ P \in Nat \cup {-1} /\ t \in {"f", "e", "g"} /\ arg.n \in Nat /\ arg.m \in Nat
        /\ P \in Int
    <2>1. /\ P \in Nat \cup {-1} /\ t \in FloatTerminal /\ arg.n \in Nat /\ arg.m \in Nat
      BY ONLY Prepared, ~NotFinite, FinitePrepared
    <2> QED BY ONLY <2>1 DEF FloatTerminal
  <1>2. sig \in Nat \ {0} /\ sig - 1 \in Nat
    <2>1. sig \in Nat \ {0}
      BY ONLY <1>1, SignificantType
    <2> HIDE DEF sig
    <2> QED BY ONLY <2>1
  <1>3. exp \in Int
    BY ONLY <1>1, <1>2, ExponentType
  <1>4. PrintfFloat = (CASE t = "f" -> f(Requested(P))
                         [] t = "e" -> e0(Requested(P))
                         [] t = "g" /\ ~alt -> g
                         [] t = "g" /\ alt /\ sig > exp /\ exp >= -4 -> f(sig - 1 - exp)
                         [] OTHER -> e0(sig - 1))
    <2>1. AskedPrecision = P
      BY ONLY Prepared, Zenon DEF Prepared, AsAsked
    <2> QED BY ONLY <2>1, alt = ("#" \in SI.flags), Zenon
            DEF PrintfFloat, Requested, WithDot
  <1>5. ASSUME NEW i \in Nat PROVE e0(i) = e(i)
    <2> DEFINE h == Before(arg, i)
               r == After(arg, i)
               d == IF alt /\ i = 0 THEN h \o <<".">> ELSE h
    <2>1. /\ SubSeq(text(i), 1, ExponentAt(text(i)) - 1) = h
          /\ SubSeq(text(i), ExponentAt(text(i)), Len(text(i))) = <<"e">> \o r
      <3> DEFINE u == text(i)
      <3>1. u = Scientific(arg, i)
        OBVIOUS
      <3> HIDE DEF u, h, r
      <3> QED BY ONLY <1>1, <3>1, i \in Nat, SplitScientific DEF u, h, r
    <2>2. e0(i) = d \o (<<"e">> \o r)
      BY ONLY <2>1, Zenon
    <2>3. e(i) = d \o (<<"e">> \o r)
      BY ONLY Zenon DEF WithExponent, WithDot
    <2> QED BY ONLY <2>2, <2>3
  <1>6. Chosen = IF t # "g" \/ ~alt
                 THEN [style |-> t, prec |-> P]
                 ELSE IF sig > Log10(arg) /\ Log10(arg) >= -4
                 THEN [style |-> "f", prec |-> sig - (Log10(arg) + 1)]
                 ELSE [style |-> "e", prec |-> sig - 1]
    BY alt = ("#" \in SI.flags), Zenon DEF Chosen, Style
  <1>7. t = "g" /\ alt => exp = Log10(arg)
    OBVIOUS
  <1> HIDE DEF sig, exp, e, e0, f, g, t
  <1>8. /\ t # "g" \/ ~alt => s = t /\ q = P
        /\ t = "g" /\ alt /\ sig > exp /\ exp >= -4 => s = "f" /\ q = sig - (exp + 1)
        /\ t = "g" /\ alt /\ ~(sig > exp /\ exp >= -4) => s = "e" /\ q = sig - 1
    BY ONLY <1>6, <1>7
  <1> HIDE DEF s, q
  <1>9. CASE t = "f"
    <2>1. PrintfFloat = f(k) /\ s = "f"
      BY ONLY <1>4, <1>8, <1>9, k = Requested(Chosen.prec) DEF q
    <2> QED BY ONLY <2>1 DEF f, s
  <1>10. CASE t = "e"
    <2>1. s = "e" /\ k = Requested(P)
      BY ONLY <1>8, <1>10, k = Requested(Chosen.prec) DEF q
    <2>2. PrintfFloat = e0(k)
      BY ONLY <1>4, <1>10, <2>1
    <2>3. k \in Nat
      BY ONLY <1>1, <2>1, RequestedType
    <2>4. PrintfFloat = e(k)
      BY ONLY <1>5, <2>2, <2>3
    <2> QED BY ONLY <2>1, <2>4 DEF e, s
  <1>11. CASE t = "g" /\ ~alt
    <2>1. PrintfFloat = g /\ s = "g"
      BY ONLY <1>4, <1>8, <1>11
    <2> QED BY ONLY <2>1 DEF g, s
  <1>12. CASE t = "g" /\ alt /\ sig > exp /\ exp >= -4
    <2>1. s = "f" /\ q = sig - (exp + 1)
      BY ONLY <1>8, <1>12
    <2>2. q \in Nat /\ sig - 1 - exp = q
      BY ONLY <1>2, <1>3, <1>12, <2>1
    <2>3. k = q
      BY ONLY <2>2, RequestedType, k = Requested(Chosen.prec) DEF q
    <2>4. PrintfFloat = f(sig - 1 - exp)
      BY ONLY <1>4, <1>12
    <2>5. PrintfFloat = f(k)
      BY ONLY <2>2, <2>3, <2>4
    <2> QED BY ONLY <2>1, <2>5 DEF f, s
  <1>13. CASE t = "g" /\ alt /\ ~(sig > exp /\ exp >= -4)
    <2>1. s = "e" /\ q = sig - 1
      BY ONLY <1>8, <1>13
    <2>2. k = sig - 1
      BY ONLY <1>2, <2>1, RequestedType, k = Requested(Chosen.prec) DEF q
    <2>3. PrintfFloat = e0(sig - 1)
      BY ONLY <1>4, <1>13
    <2>4. PrintfFloat = e(k)
      BY ONLY <1>2, <1>5, <2>2, <2>3
    <2> QED BY ONLY <2>1, <2>4 DEF e, s
  <1> QED BY ONLY <1>1, <1>9, <1>10, <1>11, <1>12, <1>13

\* What stands in front of a number may be read as its beginning.
LEMMA PrefixExponent ==
    ASSUME NEW z \in Seq(Glyph), NEW h \in Seq(Glyph), NEW r \in Seq(Glyph)
    PROVE  /\ WithExponent(h, r) \in Seq(Glyph) /\ <<"e">> \o r \in Seq(Glyph)
           /\ z \o WithExponent(h, r) = WithExponent(z \o h, r)
  <1> DEFINE T == Seq(Glyph)
             er == <<"e">> \o r
  <1>1. er \in T
    <2>1. "e" \in Glyph
      BY ONLY DecimalIsGlyph
    <2>2. <<"e">> \in Seq(Glyph)
      BY ONLY <2>1
    <2> QED BY ONLY <2>2, r \in Seq(Glyph), ConcatProperties
  <1> HIDE DEF er
  <1>2. h \o er \in T
    BY ONLY <1>1, h \in Seq(Glyph), ConcatProperties
  <1>3. (z \o h) \o er = z \o (h \o er)
    BY ONLY <1>1, z \in Seq(Glyph), h \in Seq(Glyph), ConcatRegroups, SMTT(30)
  <1> QED BY ONLY <1>1, <1>2, <1>3, Zenon DEF er, WithExponent

\* The sign that the text of a negative zero keeps.
NegativeZero == IF arg.neg /\ arg.n = 0 THEN <<"-">> ELSE <<>>

LEMMA NumberTypes ==
    ASSUME arg.n \in Nat, arg.m \in Nat, NEW k \in Nat, NEW alt \in BOOLEAN, P \in Int
    PROVE  /\ NegativeZero \in Seq(Plain) /\ NegativeZero \in Seq(Glyph)
           /\ Fixed(arg, k) \in Seq(Glyph) /\ WithDot(alt, Fixed(arg, k), k) \in Seq(Glyph)
           /\ Before(arg, k) \in Seq(Plain) /\ WithDot(alt, Before(arg, k), k) \in Seq(Plain)
           /\ Before(arg, k) \in Seq(Glyph) /\ WithDot(alt, Before(arg, k), k) \in Seq(Glyph)
           /\ After(arg, k) \in Seq(Plain) /\ After(arg, k) \in Seq(Glyph)
           /\ General(arg, P) \in Seq(Glyph)
  <1>1. /\ Fraction \subseteq Plain /\ Plain \subseteq Glyph /\ "-" \in Plain
        /\ "." \in Fraction
    BY ONLY PlainCharacters, DecimalIsGlyph
  <1>2. \A s \in Seq(Plain) : s \in Seq(Glyph)
    BY ONLY <1>1, SeqMonotonic
  <1>3. NegativeZero \in Seq(Plain)
    <2>1. <<"-">> \in Seq(Plain) /\ <<>> \in Seq(Plain)
      BY ONLY <1>1
    <2> QED BY ONLY <2>1, Zenon DEF NegativeZero
  <1>4. ASSUME NEW d \in Seq(Fraction)
        PROVE  d \in Seq(Plain) /\ WithDot(alt, d, k) \in Seq(Plain)
    <2>1. <<".">> \in Seq(Fraction)
      BY ONLY <1>1
    <2>2. d \o <<".">> \in Seq(Fraction)
      BY ONLY <2>1, d \in Seq(Fraction), ConcatProperties
    <2>3. WithDot(alt, d, k) \in Seq(Fraction)
      BY ONLY <2>2, d \in Seq(Fraction), Zenon DEF WithDot
    <2> QED BY ONLY <1>1, <2>3, d \in Seq(Fraction), SeqMonotonic
  <1>5. Fixed(arg, k) \in Seq(Fraction)
    BY ONLY arg.n \in Nat, arg.m \in Nat, k \in Nat, FixedType
  <1>6. Before(arg, k) \in Seq(Fraction) /\ After(arg, k) \in Seq(Plain)
    BY ONLY arg.n \in Nat, arg.m \in Nat, k \in Nat, ScientificParts
  <1>7. General(arg, P) \in Seq(Glyph)
    BY ONLY arg.n \in Nat, arg.m \in Nat, P \in Int, GeneralType
  <1> QED BY ONLY <1>2, <1>3, <1>4, <1>5, <1>6, <1>7

\* The text that std::to_chars and formatDuble make of the number.
LEMMA FloatTextIs ==
    ASSUME Prepared, ~NotFinite, cp # <<>>,
           NEW k, k = Requested(Chosen.prec - fpprec), NEW alt, alt = ("#" \in SI.flags)
    PROVE  /\ k \in Nat
           /\ Chosen.style = "f" => cp = NegativeZero \o WithDot(alt, Fixed(arg, k), k)
           /\ Chosen.style = "e" =>
                cp = NegativeZero \o
                       WithExponent(WithDot(alt, Before(arg, k), k), After(arg, k))
           /\ Chosen.style = "g" => cp = NegativeZero \o General(arg, P) /\ fpprec = 0
  <1> DEFINE s == Chosen.style
             q == Chosen.prec - fpprec
             v == Magnitude_f(arg)
             z == NegativeZero
             h == Before(arg, k)
             r == After(arg, k)
             F == Fixed(arg, k)
             G == General(arg, P)
             T == Seq(Glyph)
             text == to_chars(s, v, q)
  <1>1. /\ arg \in Argument /\ Is(arg, "n") /\ P \in Int
        /\ arg.n \in Nat /\ arg.m \in Nat /\ SI.terminal \in FloatTerminal
        /\ P \in Nat \cup {-1} /\ fpprec \in Nat /\ fpprec = Leftover(Chosen)
        /\ cp = formatDuble(s, alt, v, q)
    <2>1. P \in Nat \cup {-1} => P \in Int
      OBVIOUS
    <2> QED BY ONLY <2>1, Prepared, ~NotFinite, FinitePrepared, alt = ("#" \in SI.flags), Zenon
  <1>2. /\ s \in {"f", "e", "g"} /\ Chosen.prec \in Nat \cup {-1}
        /\ s = "g" => ~alt /\ Chosen.prec = P
    BY ONLY <1>1, ChosenType, alt = ("#" \in SI.flags)
  <1>3. q \in Int /\ (s = "g" => fpprec = 0 /\ q = P)
    <2>1. s = "g" => fpprec = 0
      BY ONLY <1>1, Zenon DEF Leftover
    <2> QED BY ONLY <1>1, <1>2, <2>1
  <1>4. k \in Nat /\ (k = 0 <=> q = 0) /\ alt \in BOOLEAN
    BY ONLY <1>3, RequestedType, k = Requested(q), alt = ("#" \in SI.flags)
  <1>5. /\ z \in Seq(Plain) /\ h \in Seq(Plain) /\ r \in Seq(Plain)
        /\ z \in T /\ h \in T /\ r \in T /\ F \in T
    BY ONLY <1>1, <1>4, NumberTypes
  <1>6. /\ v.n = arg.n /\ v.m = arg.m /\ (v.neg <=> arg.neg /\ arg.n = 0)
    BY ONLY <1>1, FiniteNumber, Zenon
  <1> HIDE DEF v
  <1>7. \A p : /\ Fixed(v, p) = Fixed(arg, p) /\ Scientific(v, p) = Scientific(arg, p)
               /\ General(v, p) = General(arg, p)
    BY ONLY <1>6, SameNumber
  <1>8. Scientific(arg, k) = WithExponent(h, r)
    BY ONLY <1>1, <1>4, ScientificParts
  <1>9. z = IF v.neg THEN <<"-">> ELSE <<>>
    BY ONLY <1>6, Zenon DEF NegativeZero
  <1>10. text = z \o (CASE s = "f" -> F [] s = "e" -> WithExponent(h, r) [] s = "g" -> G)
    <2>1. text = z \o (CASE s = "f" -> Fixed(v, k)
                         [] s = "e" -> Scientific(v, k)
                         [] s = "g" -> General(v, q))
      BY ONLY <1>9, k = Requested(q), Zenon DEF to_chars, Requested
    <2>2. Fixed(v, k) = F /\ Scientific(v, k) = WithExponent(h, r) /\ General(v, P) = G
      BY ONLY <1>7, <1>8, Zenon
    <2> HIDE DEF F, G, h, r, z, text
    <2>3. CASE s = "g"
      BY ONLY <1>3, <2>1, <2>2, <2>3
    <2>4. CASE s # "g"
      BY ONLY <1>2, <2>1, <2>2, <2>4
    <2> QED BY ONLY <2>3, <2>4
  <1>11. cp = IF ~alt \/ q # 0 \/ s = "g" THEN text
              ELSE IF s = "f" THEN text \o <<".">>
              ELSE InsertAt(text, ExponentAt(text), ".")
    BY ONLY <1>1, cp # <<>>, Zenon DEF formatDuble
  <1>12. <<".">> \in T
    <2>1. "." \in Glyph
      BY ONLY DecimalIsGlyph
    <2> QED BY ONLY <2>1
  <1> DEFINE Then(x, y) == x \o y
  <1>16. /\ \A x, y \in T : Then(x, y) \in T
         /\ \A x, y, w \in T : Then(Then(x, y), w) = Then(x, Then(y, w))
    BY ONLY ConcatProperties, ConcatRegroups
  <1> HIDE DEF text, z, h, r, F, G, T, Then
  <1>13. CASE s = "g"
    <2>1. cp = z \o G
      BY ONLY <1>10, <1>11, <1>13
    <2> QED BY ONLY <1>3, <1>4, <1>13, <2>1 DEF z, G
  <1>14. CASE s = "f"
    <2>1. text = z \o F
      BY ONLY <1>10, <1>14
    <2>2. (z \o F) \o <<".">> = z \o (F \o <<".">>)
      <3>1. Then(Then(z, F), <<".">>) = Then(z, Then(F, <<".">>))
        BY ONLY <1>5, <1>12, <1>16
      <3> QED BY ONLY <3>1 DEF Then
    <2>3. cp = IF alt /\ k = 0 THEN z \o (F \o <<".">>) ELSE z \o F
      BY ONLY <1>4, <1>11, <1>14, <2>1, <2>2
    <2>4. cp = z \o WithDot(alt, F, k)
      BY ONLY <2>3, Zenon DEF WithDot
    <2> QED BY ONLY <1>4, <1>14, <2>4 DEF z, F
  <1>15. CASE s = "e"
    <2> DEFINE er == <<"e">> \o r
               H == z \o h
               at == ExponentAt(text)
    <2>1. text = z \o WithExponent(h, r)
      BY ONLY <1>10, <1>15
    <2>2. z \o WithExponent(h, r) = WithExponent(H, r) /\ er \in T
      BY ONLY <1>5, PrefixExponent DEF T
    <2>3. H \in Seq(Plain) /\ H \in T
      BY ONLY <1>5, ConcatProperties DEF T
    <2>4. /\ at = Len(H) + 1 /\ Len(H) \in Nat
          /\ SubSeq(text, 1, Len(H)) = H
          /\ SubSeq(text, Len(H) + 1, Len(text)) = er
      <3>1. text = WithExponent(H, r)
        BY ONLY <2>1, <2>2
      <3> HIDE DEF H
      <3> QED BY ONLY <1>5, <2>3, <3>1, ExponentFound
    <2> HIDE DEF at, H, er
    <2>5. at - 1 = Len(H)
      BY ONLY <2>4
    <2>6. InsertAt(text, at, ".") = (H \o <<".">>) \o er
      BY ONLY <2>4, <2>5, Zenon DEF InsertAt
    <2>7. (H \o <<".">>) \o er = z \o ((h \o <<".">>) \o er)
      <3> DEFINE dot == <<".">>
      <3>1. dot \in T
        BY ONLY <1>12
      <3> HIDE DEF dot
      <3>2. Then(h, dot) \in T
        BY ONLY <1>5, <1>16, <3>1
      <3>3. Then(Then(z, h), dot) = Then(z, Then(h, dot))
        BY ONLY <1>5, <1>16, <3>1
      <3>4. Then(Then(z, Then(h, dot)), er) = Then(z, Then(Then(h, dot), er))
        BY ONLY <1>5, <1>16, <2>2, <3>2
      <3> QED BY ONLY <3>3, <3>4, Zenon DEF H, dot, Then
    <2>8. cp = IF alt /\ k = 0 THEN z \o ((h \o <<".">>) \o er) ELSE z \o WithExponent(h, r)
      BY ONLY <1>4, <1>11, <1>15, <2>1, <2>6, <2>7 DEF at
    <2>9. cp = z \o WithExponent(WithDot(alt, h, k), r)
      BY ONLY <2>8, Zenon DEF WithDot, WithExponent, er
    <2> QED BY ONLY <1>4, <1>15, <2>9 DEF z, h, r
  <1> QED BY ONLY <1>2, <1>13, <1>14, <1>15

\* Nothing but zeros is left over, unless MAXFRACT cuts off a digit.
LEMMA LeftoverIsZeros ==
    ASSUME Prepared, ~NotFinite, ~BeyondMAXFRACT, fpprec > 0,
           NEW c, c = Requested(Chosen.prec - fpprec), NEW k, k = Requested(Chosen.prec)
    PROVE  /\ c # 0 /\ k # 0
           /\ Chosen.style = "f" => Fixed(arg, k) = Fixed(arg, c) \o Run("0", fpprec)
           /\ Chosen.style = "e" => /\ Before(arg, k) = Before(arg, c) \o Run("0", fpprec)
                                    /\ After(arg, k) = After(arg, c)
  <1> DEFINE s == Chosen.style
             q == Chosen.prec
             max == MAXFRACT[s]
             L == fpprec
             l == Log10(arg)
             kept == max - (IF s = "e" THEN l ELSE 0)
             m == arg.m
             num == arg.n
  <1>1. /\ P \in Nat \cup {-1} /\ num \in Nat /\ m \in Nat /\ SI.terminal \in FloatTerminal
        /\ L \in Nat /\ L = Leftover(Chosen)
    BY ONLY Prepared, ~NotFinite, FinitePrepared, Zenon
  <1>2. s \in {"f", "e", "g"} /\ q \in Nat \cup {-1} /\ (s # "g" => q - max \in Int)
    BY ONLY <1>1, ChosenType
  <1>3. s # "g" /\ L = Max0(q - max)
    <2>1. s # "g"
      <3>1. s = "g" => L = 0
        BY ONLY <1>1, Zenon DEF Leftover
      <3> QED BY ONLY <3>1, L > 0
    <2> QED BY ONLY <1>1, <2>1, Zenon DEF Leftover
  <1>4. max \in Nat \ {0}
    BY ONLY <1>2, <1>3, ConversionAssumption
  <1>5. l \in Int
    BY ONLY <1>1, Log10Type
  <1>6. L > 0 /\ ~(kept < m /\ num % Power(10, m - kept) # 0)
    <2>1. L > 0 /\ ~BeyondMAXFRACT
      OBVIOUS
    <2>2. BeyondMAXFRACT <=>
            L > 0 /\ kept < m /\ num % Power(10, m - kept) # 0
      BY ONLY <1>1, Zenon DEF BeyondMAXFRACT, Chosen
    <2> QED BY ONLY <2>1, <2>2
  <1> HIDE DEF s, q, max, l, L
  <1>7. L = q - max /\ L \in Nat \ {0}
    <2>1. Max0(q - max) = IF 0 >= q - max THEN 0 ELSE q - max
      BY ONLY <1>2, <1>3, MaxOfTwo DEF Max0
    <2> QED BY ONLY <1>2, <1>3, <1>4, <1>6, <2>1
  <1>8. q \in Nat /\ q - L = max /\ q = max + L
    BY ONLY <1>2, <1>4, <1>7
  <1>9. k = max + L /\ c = max
    <2>1. max \in Nat
      BY ONLY <1>4
    <2> QED BY ONLY <1>8, <2>1, c = Requested(Chosen.prec - fpprec),
                    k = Requested(Chosen.prec), RequestedType DEF q, L
  <1>10. kept \in Int /\ Exact(num, m - kept)
    <2>1. kept \in Int
      BY ONLY <1>4, <1>5
    <2> HIDE DEF kept, num, m
    <2>2. kept < m \/ m - kept <= 0
      BY ONLY <1>1, <2>1
    <2> QED BY ONLY <1>6, <2>1, <2>2, Zenon DEF Exact
  <1>11. max \in Nat \ {0} /\ L \in Nat
    BY ONLY <1>4, <1>7
  <1>12. CASE s = "f"
    <2>1. m - kept = m - max
      BY ONLY <1>12, <1>1, <1>4
    <2>2. Exact(arg.n, arg.m - max)
      BY ONLY <1>10, <2>1
    <2>3. Fixed(arg, max + L) = Fixed(arg, max) \o Run("0", L)
      BY ONLY <1>1, <1>11, <2>2, FixedScales
    <2> QED BY ONLY <1>4, <1>9, <1>11, <1>12, <2>3 DEF s, L
  <1>13. CASE s = "e"
    <2>1. m - kept = m + (l - max)
      BY ONLY <1>13, <1>1, <1>4, <1>5
    <2>2. Exact(arg.n, arg.m + (Log10(arg) - max))
      BY ONLY <1>10, <2>1 DEF l
    <2>3. /\ Before(arg, max + L) = Before(arg, max) \o Run("0", L)
          /\ After(arg, max + L) = After(arg, max)
      BY ONLY <1>1, <1>11, <2>2, ScientificScales
    <2> QED BY ONLY <1>4, <1>9, <1>11, <1>13, <2>3 DEF s, L
  <1> QED BY ONLY <1>2, <1>3, <1>12, <1>13 DEF s

\* Without leftover precision the text proper is written in one piece.
LEMMA InOnePiece ==
    ASSUME NEW S, cp \in Seq(S), ~gtoe \/ ~(fpprec > 0)
    PROVE  /\ Number1 = cp /\ Number2 = Run("0", fpprec) \o <<>>
           /\ fpprec = 0 => Number2 = <<>>
  <1>1. LeftoverAt = Len(cp)
    BY ONLY ~gtoe \/ ~(fpprec > 0), Zenon DEF LeftoverAt
  <1>2. Len(cp) \in Nat
    BY ONLY cp \in Seq(S)
  <1>3. Number1 = cp
    BY ONLY <1>1, cp \in Seq(S), SubSeqFull DEF Number1
  <1>4. SubSeq(cp, Len(cp) + 1, Len(cp)) = <<>>
    <2>1. Len(cp) + 1 \in Int /\ Len(cp) \in Int /\ Len(cp) < Len(cp) + 1
      BY ONLY <1>2
    <2> QED BY ONLY <2>1, SubSeqEmpty
  <1>5. Number2 = Run("0", fpprec) \o <<>>
    BY ONLY <1>1, <1>4 DEF Number2
  <1>6. fpprec = 0 => Number2 = <<>>
    <2>1. Run("0", 0) = <<>>
      <3>1. 0 \in Int /\ 0 <= 0 /\ "0" \in {"0"}
        OBVIOUS
      <3> QED BY ONLY <3>1, RunProperties
    <2>2. <<>> \o <<>> = <<>>
      <3>1. <<>> \in Seq({})
        OBVIOUS
      <3> QED BY ONLY <3>1, ConcatEmptySeq
    <2> QED BY ONLY <1>5, <2>1, <2>2
  <1> QED BY ONLY <1>3, <1>5, <1>6

\* What is written of a finite number is the standard's text, behind the sign
\* of a negative zero.
LEMMA FiniteField ==
    ASSUME Prepared, ~NotFinite, ~FloatIsSpecial
    PROVE  /\ Number1 \in Seq(Glyph) /\ Number2 \in Seq(Glyph) /\ cp \in Seq(Glyph)
           /\ NegativeZero \in Seq(Glyph) /\ PrintfFloat \in Seq(Glyph)
           /\ Number1 \o Number2 = NegativeZero \o PrintfFloat
           /\ Len(Number1 \o Number2) = Len(cp) + fpprec
  <1> DEFINE s == Chosen.style
             L == fpprec
             k == Requested(Chosen.prec)
             c == Requested(Chosen.prec - fpprec)
             alt == "#" \in SI.flags
             z == NegativeZero
             h == Before(arg, c)
             r == After(arg, c)
             er == <<"e">> \o r
             F == Fixed(arg, c)
             R == Run("0", L)
             T == Seq(Glyph)
             Then(x, y) == x \o y
             body == PrintfFloat
  <1>1. /\ arg.n \in Nat /\ arg.m \in Nat /\ SI.terminal \in FloatTerminal
        /\ P \in Nat \cup {-1} /\ L \in Nat /\ (gtoe <=> s = "e") /\ Is(arg, "n")
    BY ONLY Prepared, ~NotFinite, FinitePrepared, Zenon
  <1>2. /\ cp # <<>> /\ ~BeyondMAXFRACT
        /\ SI.terminal = "g" /\ alt => Exponent(arg, Significant(P) - 1) = Log10(arg)
    BY ONLY <1>1, ~FloatIsSpecial, Zenon DEF FloatIsSpecial
  <1>3. /\ s \in {"f", "e", "g"} /\ Chosen.prec \in Int
        /\ P \in Int /\ alt \in BOOLEAN
    <2>1. s \in {"f", "e", "g"} /\ Chosen.prec \in Nat \cup {-1}
      BY ONLY <1>1, ChosenType
    <2> QED BY ONLY <1>1, <2>1
  <1>4. /\ s = "f" => body = WithDot(alt, Fixed(arg, k), k)
        /\ s = "e" => body = WithExponent(WithDot(alt, Before(arg, k), k), After(arg, k))
        /\ s = "g" => body = General(arg, P)
    <2> DEFINE a == alt
               i == k
    <2>1. a = ("#" \in SI.flags) /\ i = Requested(Chosen.prec)
      OBVIOUS
    <2> HIDE DEF a, i
    <2> QED BY ONLY <1>2, <2>1, Prepared, ~NotFinite, PrintfFloatIs DEF a, i
  <1>5. /\ c \in Nat
        /\ s = "f" => cp = Then(z, WithDot(alt, F, c))
        /\ s = "e" => cp = Then(z, WithExponent(WithDot(alt, h, c), r))
        /\ s = "g" => cp = Then(z, General(arg, P)) /\ L = 0
    <2> DEFINE a == alt
               i == c
    <2>1. a = ("#" \in SI.flags) /\ i = Requested(Chosen.prec - fpprec)
      OBVIOUS
    <2> HIDE DEF a, i
    <2> QED BY ONLY <1>2, <2>1, Prepared, ~NotFinite, FloatTextIs DEF a, i
  <1>6. k \in Nat
    BY ONLY <1>3, RequestedType
  <1>7. /\ z \in T /\ F \in T /\ h \in Seq(Plain) /\ h \in T /\ r \in Seq(Plain) /\ r \in T
        /\ WithDot(alt, h, c) \in T /\ WithDot(alt, Fixed(arg, k), k) \in T
        /\ WithDot(alt, Before(arg, k), k) \in T /\ After(arg, k) \in T
        /\ General(arg, P) \in T /\ z \in Seq(Plain) /\ WithDot(alt, F, c) \in T
    BY ONLY <1>1, <1>3, <1>5, <1>6, NumberTypes
  <1>8. \A x, y \in T : WithExponent(x, y) \in T /\ <<"e">> \o y \in T
    BY ONLY PrefixExponent
  <1>9. body \in T
    BY ONLY <1>3, <1>4, <1>7, <1>8
  <1>10. cp \in T
    <2>1. \A x, y \in T : Then(x, y) \in T
      BY ONLY ConcatProperties
    <2> HIDE DEF Then, T, F, h, r, z, alt, c, s
    <2> QED BY ONLY <1>3, <1>5, <1>7, <1>8, <2>1
  <1>11. R \in T /\ Len(R) = L /\ <<>> \in T
    <2>1. "0" \in Glyph /\ L \in Int
      BY ONLY <1>1, DecimalIsGlyph
    <2>2. R \in Seq(Glyph) /\ Len(R) = IF L >= 0 THEN L ELSE 0
      BY ONLY <2>1, RunProperties
    <2> HIDE DEF R
    <2>3. Len(R) = L
      BY ONLY <1>1, <2>2
    <2> QED BY ONLY <2>2, <2>3
  <1>12. /\ \A x, y \in T : Then(x, y) \in T /\ Len(Then(x, y)) = Len(x) + Len(y)
         /\ \A x \in T : Then(x, <<>>) = x /\ Len(x) \in Nat
    BY ONLY ConcatProperties, ConcatEmptySeq, LenProperties
  <1>13. \A x, y, w \in T : Then(Then(x, y), w) = Then(x, Then(y, w))
    BY ONLY ConcatRegroups, SMTT(30)
  <1>14. er \in T
    BY ONLY <1>7, <1>8
  <1>15. L # 0 =>
           /\ c # 0 /\ k # 0
           /\ s = "f" => Fixed(arg, k) = Then(F, R)
           /\ s = "e" => Before(arg, k) = Then(h, R) /\ After(arg, k) = r
    <2> DEFINE i == k
               j == c
    <2>1. j = Requested(Chosen.prec - fpprec) /\ i = Requested(Chosen.prec)
      OBVIOUS
    <2>2. L # 0 => fpprec > 0
      BY ONLY <1>1
    <2> HIDE DEF i, j
    <2> QED BY ONLY <1>2, <2>1, <2>2, Prepared, ~NotFinite, LeftoverIsZeros DEF i, j
  <1> HIDE DEF T
  <1>16. CASE L = 0
    <2>1. c = k
      BY ONLY <1>3, <1>16
    <2>2. cp = Then(z, body)
      BY ONLY <1>3, <1>4, <1>5, <2>1
    <2>3. Number1 = cp /\ Number2 = <<>>
      <3>1. cp \in Seq(Glyph) /\ ~(fpprec > 0) /\ fpprec = 0
        BY ONLY <1>10, <1>16 DEF T
      <3> QED BY ONLY <3>1, InOnePiece
    <2>4. Then(Number1, Number2) = cp /\ Len(cp) = Len(cp) + L
      BY ONLY <1>10, <1>12, <1>16, <2>3
    <2> QED BY ONLY <1>7, <1>9, <1>10, <1>11, <2>2, <2>3, <2>4 DEF T, Then
  <1>17. CASE L # 0 /\ s = "f"
    <2>1. cp = Then(z, F) /\ body = Then(F, R)
      BY ONLY <1>4, <1>5, <1>15, <1>17 DEF WithDot
    <2>2. Number1 = cp /\ Number2 = R
      <3>1. cp \in Seq(Glyph) /\ ~gtoe
        BY ONLY <1>1, <1>10, <1>17 DEF T
      <3>2. Number1 = cp /\ Number2 = Then(R, <<>>)
        BY ONLY <3>1, InOnePiece
      <3> QED BY ONLY <1>11, <1>12, <3>2
    <2>3. Then(cp, R) = Then(z, Then(F, R))
      <3> HIDE DEF Then, z, F, R
      <3> QED BY ONLY <1>7, <1>11, <1>13, <2>1
    <2>4. Len(Then(cp, R)) = Len(cp) + L
      BY ONLY <1>10, <1>11, <1>12
    <2> QED BY ONLY <1>7, <1>9, <1>10, <1>11, <2>1, <2>2, <2>3, <2>4 DEF T, Then
  <1>18. CASE L # 0 /\ s = "e"
    <2> DEFINE H == Then(z, h)
               at == ExponentAt(cp)
    <2>1. cp = Then(z, WithExponent(h, r)) /\ body = WithExponent(Then(h, R), r)
      <3>1. c # 0 /\ k # 0 /\ Before(arg, k) = Then(h, R) /\ After(arg, k) = r
        BY ONLY <1>15, <1>18
      <3>2. /\ cp = Then(z, WithExponent(WithDot(alt, h, c), r))
            /\ body = WithExponent(WithDot(alt, Before(arg, k), k), After(arg, k))
        BY ONLY <1>4, <1>5, <1>18
      <3>3. WithDot(alt, h, c) = h /\ WithDot(alt, Before(arg, k), k) = Before(arg, k)
        BY ONLY <3>1, Zenon DEF WithDot
      <3> HIDE DEF Then, z, c, k, r, h
      <3> QED BY ONLY <3>1, <3>2, <3>3
    <2>2. Then(z, WithExponent(h, r)) = WithExponent(H, r)
      <3>1. z \in Seq(Glyph) /\ h \in Seq(Glyph) /\ r \in Seq(Glyph)
        BY ONLY <1>7 DEF T
      <3> HIDE DEF z, h, r
      <3> QED BY ONLY <3>1, PrefixExponent
    <2>3. H \in Seq(Plain) /\ H \in T
      BY ONLY <1>7, ConcatProperties DEF T
    <2>4. /\ at = Len(H) + 1 /\ Len(H) \in Nat
          /\ SubSeq(cp, 1, Len(H)) = H /\ SubSeq(cp, Len(H) + 1, Len(cp)) = er
      <3>1. cp = WithExponent(H, r)
        BY ONLY <2>1, <2>2
      <3> HIDE DEF H
      <3> QED BY ONLY <1>7, <2>3, <3>1, ExponentFound
    <2>5. gtoe /\ fpprec > 0
      BY ONLY <1>1, <1>18
    <2> HIDE DEF at, H
    <2>6. LeftoverAt = Len(H)
      <3>1. LeftoverAt = at - 1
        BY ONLY <2>5, Zenon DEF LeftoverAt, at
      <3> QED BY ONLY <2>4, <3>1
    <2> HIDE DEF er, R, L
    <2>7. Number1 = H /\ Number2 = Then(R, er)
      BY ONLY <2>4, <2>6, Zenon DEF Number1, Number2, R, L, Then
    <2>8. Then(H, Then(R, er)) = Then(z, Then(Then(h, R), er))
      <3> HIDE DEF Then, z, h
      <3>1. Then(R, er) \in T
        BY ONLY <1>11, <1>12, <1>14
      <3>2. Then(Then(z, h), Then(R, er)) = Then(z, Then(h, Then(R, er)))
        BY ONLY <1>7, <1>13, <3>1
      <3>3. Then(Then(h, R), er) = Then(h, Then(R, er))
        BY ONLY <1>7, <1>11, <1>13, <1>14
      <3> QED BY ONLY <3>2, <3>3 DEF H
    <2>9. body = Then(Then(h, R), er)
      BY ONLY <2>1, Zenon DEF WithExponent, er, Then
    <2>10. Len(Then(H, Then(R, er))) = Len(cp) + L
      <3>1. cp = Then(H, er)
        BY ONLY <2>1, <2>2, Zenon DEF WithExponent, er, Then
      <3> HIDE DEF Then
      <3>2. Then(R, er) \in T /\ Len(Then(R, er)) = Len(R) + Len(er)
        BY ONLY <1>11, <1>12, <1>14
      <3>3. /\ Len(Then(H, Then(R, er))) = Len(H) + Len(Then(R, er))
            /\ Len(cp) = Len(H) + Len(er)
        BY ONLY <1>12, <1>14, <2>3, <3>1, <3>2
      <3>4. Len(H) \in Nat /\ Len(er) \in Nat /\ Len(R) = L /\ L \in Nat
        BY ONLY <1>1, <1>11, <1>12, <1>14, <2>4 DEF L
      <3> DEFINE x == Len(H)
                 y == Len(er)
                 w == Len(Then(H, Then(R, er)))
                 t == Len(cp)
      <3>5. x \in Nat /\ y \in Nat /\ L \in Nat /\ w = x + (L + y) /\ t = x + y
        BY ONLY <3>2, <3>3, <3>4
      <3> HIDE DEF x, y, w, t
      <3>6. w = t + L
        BY ONLY <3>5
      <3> QED BY ONLY <3>6 DEF w, t
    <2>11. Then(R, er) \in T
      BY ONLY <1>11, <1>12, <1>14
    <2> QED BY ONLY <1>7, <1>9, <1>10, <2>3, <2>7, <2>8, <2>9, <2>10, <2>11 DEF T, Then, L
  <1> QED BY ONLY <1>3, <1>5, <1>16, <1>17, <1>18

-----------------------------------------------------------------------------
(* The field as a whole is the standard's *)

\* The text proper is written in one piece.
LEMMA WholeNumber ==
    ASSUME Prepared, NotFinite
    PROVE  cp \in Seq(Glyph) /\ Number1 = cp /\ Number2 = <<>> /\ fpprec = 0
  <1>1. fpprec \in Nat /\ (fpprec > 0 \/ gtoe => SI.terminal \in FloatTerminal /\ Is(arg, "n"))
    BY ONLY Prepared, Zenon DEF Prepared
  <1>2. fpprec = 0 /\ ~gtoe
    BY ONLY <1>1, NotFinite DEF NotFinite
  <1>3. cp \in Seq(Glyph)
    BY ONLY Prepared, NotFinite, IntegerBody, OtherBody
  <1>4. Number1 = cp /\ Number2 = <<>>
    BY ONLY <1>2, <1>3, InOnePiece
  <1> QED BY ONLY <1>2, <1>3, <1>4

\* Zeros pad what the standard pads with zeros.
LEMMA ZerosPad ==
    ASSUME Prepared
    PROVE  "-" \notin flags =>
             (PaddedWithZeros <=>
                "0" \in SI.flags
                  /\ (\/ SI.terminal \in IntegerTerminal /\ P < 0
                      \/ SI.terminal \in FloatTerminal /\ Is(arg, "n")))
  <1>1. /\ <<SI, arg>> \in Calls /\ Convertible(SI, arg) /\ P \in Nat \cup {-1}
        /\ "0" \in flags <=> "0" \in SI.flags /\ ZeroPadIgnored(SI, arg, P) = {}
    BY ONLY Prepared, Zenon DEF Prepared
  <1>2. /\ SI \in Specification /\ arg \in Argument
        /\ SI.terminal \in IntegerTerminal \cup FloatTerminal \cup {"c", "s", "p"}
        /\ SI.terminal \in {"c", "s"} => "0" \notin SI.flags
    BY ONLY <1>1, CallTypes
  <1> DEFINE i == SI.terminal \in IntegerTerminal
             special == Is(arg, "special")
             ptr == SI.terminal = "p"
  <1>3. ZeroPadIgnored(SI, arg, P) = {} <=> ~(i /\ P >= 0) /\ ~ptr /\ ~special
    <2>1. {"0"} # {}
      OBVIOUS
    <2> QED BY ONLY <2>1, Zenon DEF ZeroPadIgnored
  <1>4. /\ i => ~special
        /\ SI.terminal \in FloatTerminal => (special <=> ~Is(arg, "n"))
    <2>1. /\ i => Is(arg, "int")
          /\ SI.terminal \in FloatTerminal => Is(arg, "n") \/ Is(arg, "special")
      BY ONLY <1>1, <1>2, ConvertibleKinds
    <2>2. /\ Is(arg, "int") => ~Is(arg, "special")
          /\ Is(arg, "special") => ~Is(arg, "n")
      BY ONLY <1>2, ArgumentKinds, Zenon
    <2> QED BY ONLY <2>1, <2>2, Zenon
  <1>5. P >= 0 <=> ~(P < 0)
    BY ONLY <1>1
  <1>6. /\ i => ~ptr
        /\ SI.terminal \in {"c", "s"} \/ ptr => SI.terminal \notin FloatTerminal /\ ~i
    BY ONLY TerminalKinds
  <1> DEFINE finite == Is(arg, "n")
             float == SI.terminal \in FloatTerminal
  <1> HIDE DEF i, special, ptr, finite, float
  <1>7. /\ i \/ float \/ SI.terminal \in {"c", "s"} \/ ptr
        /\ SI.terminal \in {"c", "s"} \/ ptr \/ i => ~float
        /\ float => (special <=> ~finite)
    <2>1. i => ~float
      BY ONLY TerminalKinds DEF i, float
    <2> QED BY ONLY <1>2, <1>4, <1>6, <2>1 DEF i, ptr, float, finite
  <1>8. "-" \notin flags =>
          (PaddedWithZeros <=> "0" \in SI.flags /\ ((i /\ P < 0) \/ (float /\ finite)))
    <2>1. PaddedWithZeros <=> "0" \in flags /\ "-" \notin flags
      BY ONLY Zenon DEF PaddedWithZeros
    <2>2. "0" \in flags <=> "0" \in SI.flags /\ ~(i /\ P >= 0) /\ ~ptr /\ ~special
      BY ONLY <1>1, <1>3, Zenon
    <2>3. CASE i
      BY ONLY <1>4, <1>5, <1>6, <1>7, <2>1, <2>2, <2>3, Zenon
    <2>4. CASE float
      BY ONLY <1>7, <2>1, <2>2, <2>4, Zenon
    <2>5. CASE ~i /\ ~float
      BY ONLY <1>2, <1>7, <2>1, <2>2, <2>5, Zenon
    <2> QED BY ONLY <2>3, <2>4, <2>5, Zenon
  <1> QED BY ONLY <1>8 DEF i, float, finite

\* Sign, prefix, zeros and digits come in the standard's order, unless the code
\* sets zeros in front of a prefix, and the padding fills what they leave.
LEMMA FieldOrder ==
    ASSUME Prepared, NotFinite, ~PrefixMeetsZeros
    PROVE  /\ cp \in Seq(Glyph) /\ SignPart \in Seq(Glyph) /\ PrecZeros \in Seq(Glyph)
           /\ PrintfLead \in Seq(Glyph) /\ PrintfBody \in Seq(Glyph)
           /\ W \in Nat /\ realsz \in Int /\ Len(PrintfLead) + Len(PrintfBody) = realsz
           /\ ~Prefixed => PrintfLead = SignPart /\ PrintfBody = PrecZeros \o cp
           /\ Prefixed => /\ SignPart = <<>> /\ PrecZeros = <<>> /\ ZeroPart = <<>>
                          /\ cp = PrintfLead \o PrintfBody
  <1>1. /\ <<SI, arg>> \in Calls /\ Convertible(SI, arg)
        /\ W \in Nat /\ P \in Int /\ P >= -1
    <2>1. <<SI, arg>> \in Calls /\ Convertible(SI, arg) /\ W \in Nat /\ P \in Nat \cup {-1}
      BY ONLY Prepared, Zenon DEF Prepared
    <2> QED BY ONLY <2>1
  <1>2. SI \in Specification /\ arg \in Argument
    BY ONLY <1>1, CallTypes
  <1>3. /\ Prefixed => SignPart = <<>> /\ PrintfLead = <<"0", "x">>
        /\ ~Prefixed => PrintfLead = SignPart
        /\ SignPart \in Seq(Glyph) /\ PrintfLead \in Seq(Glyph)
        /\ Len(SignPart) = IF HasSign THEN 1 ELSE 0
    BY ONLY Prepared, NotFinite, SignIsLead
  <1>4. cp \in Seq(Glyph) /\ fpprec = 0
    BY ONLY Prepared, NotFinite, WholeNumber
  <1>5. Len(cp) \in Nat
    BY ONLY <1>4
  <1> DEFINE int == SI.terminal \in IntegerTerminal
             k == P - Len(cp)
             signed == IF HasSign THEN 1 ELSE 0
  <1>6. k \in Int /\ signed \in Nat
    BY ONLY <1>1, <1>5
  <1>7. "0" \in Glyph
    BY DEF Glyph, DigitGlyph
  <1>8. \A j \in Int : /\ Run("0", j) \in Seq(Glyph)
                       /\ Len(Run("0", j)) = IF j >= 0 THEN j ELSE 0
                       /\ j <= 0 => Run("0", j) = <<>>
    BY ONLY <1>7, RunProperties
  <1> HIDE DEF int, k, signed
  <1>9. PrecZeros = IF int THEN Run("0", k) ELSE <<>>
    BY ONLY DEF PrecZeros, int, k
  <1>10. /\ PrecZeros \in Seq(Glyph)
         /\ Len(PrecZeros) = IF int /\ k >= 0 THEN k ELSE 0
         /\ k <= 0 => PrecZeros = <<>>
    <2>1. CASE int
      BY ONLY <1>6, <1>8, <1>9, <2>1
    <2>2. CASE ~int
      BY ONLY <1>9, <2>2
    <2> QED BY ONLY <2>1, <2>2
  <1>11. realsz = (IF int THEN (IF P >= Len(cp) THEN P ELSE Len(cp)) ELSE Len(cp)) + signed
    <2>1. Max({P, Len(cp)}) = IF P >= Len(cp) THEN P ELSE Len(cp)
      BY ONLY <1>1, <1>5, MaxOfTwo
    <2>2. Len(cp) + fpprec = Len(cp)
      BY ONLY <1>4, <1>5
    <2> QED BY ONLY <2>1, <2>2, Zenon DEF realsz, int, signed
  <1>12. realsz = Len(SignPart) + (Len(PrecZeros) + Len(cp)) /\ realsz \in Int
    <2> DEFINE lc == Len(cp)
               ls == Len(SignPart)
               lp == Len(PrecZeros)
               real == realsz
    <2>1. ls = signed
      BY ONLY <1>3 DEF signed
    <2>2. lp = IF int /\ k >= 0 THEN k ELSE 0
      BY ONLY <1>10
    <2>3. real = (IF int THEN (IF P >= lc THEN P ELSE lc) ELSE lc) + signed
      BY ONLY <1>11
    <2>4. lc \in Nat /\ k = P - lc
      BY ONLY <1>5 DEF k
    <2> HIDE DEF lc, ls, lp, real
    <2>5. real = ls + (lp + lc) /\ real \in Int
      BY ONLY <1>1, <1>6, <2>1, <2>2, <2>3, <2>4
    <2> QED BY ONLY <2>5 DEF real, ls, lp, lc
  <1>13. CASE ~Prefixed
    <2>1. PrintfBody = PrecZeros \o cp
      <3>1. CASE int
        BY ONLY Prepared, <1>13, <3>1, IntegerBody DEF int
      <3>2. CASE ~int
        <4>1. PrintfBody = cp /\ PrecZeros = <<>>
          BY ONLY Prepared, NotFinite, <3>2, OtherBody DEF int
        <4> QED BY ONLY <1>4, <4>1, ConcatEmptySeq
      <3> QED BY ONLY <3>1, <3>2
    <2>2. PrintfBody \in Seq(Glyph) /\ Len(PrintfBody) = Len(PrecZeros) + Len(cp)
      BY ONLY <1>4, <1>10, <2>1, ConcatProperties
    <2>3. Len(PrintfLead) + Len(PrintfBody) = realsz
      BY ONLY <1>3, <1>12, <1>13, <2>2
    <2> QED BY ONLY <1>1, <1>3, <1>4, <1>10, <1>12, <1>13, <2>1, <2>2, <2>3
  <1>14. CASE Prefixed
    <2>1. SI.terminal = "x" /\ "#" \in SI.flags /\ Value # 0 /\ ~HasSign
      BY ONLY <1>14 DEF Prefixed, HasSign, FloatTerminal
    <2>2. int
      BY ONLY <2>1 DEF int, IntegerTerminal
    <2>3. Is(arg, "int")
      BY ONLY <1>1, <1>2, <2>2, ConvertibleKinds DEF int
    <2>4. P <= Len(cp) - 2 /\ (PaddedWithZeros => W <= Len(cp))
      BY ONLY <1>1, <1>5, <2>1, <2>3, ~PrefixMeetsZeros DEF PrefixMeetsZeros
    <2>5. /\ <<"0", "x">> \o Shortest = cp /\ Shortest \in Seq(Glyph)
          /\ PrintfBody = Shortest
      BY ONLY Prepared, <1>14, <2>2, <2>4, IntegerBody DEF int
    <2>6. PrecZeros = <<>> /\ realsz = Len(cp)
      BY ONLY <1>1, <1>5, <1>10, <1>11, <2>1, <2>4, <1>6 DEF k, signed
    <2>7. ZeroPart = <<>>
      <3>1. CASE PaddedWithZeros
        <4>1. W - realsz \in Int /\ W - realsz <= 0
          BY ONLY <1>1, <1>5, <2>4, <2>6, <3>1
        <4>2. Run("0", W - realsz) = <<>>
          BY ONLY <1>8, <4>1
        <4> QED BY ONLY <4>2, Zenon DEF ZeroPart
      <3>2. CASE ~PaddedWithZeros
        BY ONLY <3>2, Zenon DEF ZeroPart
      <3> QED BY ONLY <3>1, <3>2
    <2>8. cp = PrintfLead \o PrintfBody
      BY ONLY <1>3, <1>14, <2>5
    <2>9. Len(PrintfLead) + Len(PrintfBody) = realsz
      <3>1. Len(cp) = Len(PrintfLead) + Len(PrintfBody)
        BY ONLY <1>3, <2>5, <2>8, ConcatProperties
      <3> QED BY ONLY <2>6, <3>1
    <2> QED BY ONLY <1>1, <1>3, <1>4, <1>10, <1>12, <1>14, <2>5, <2>6, <2>7, <2>8, <2>9
  <1> QED BY ONLY <1>13, <1>14

\* Of a finite number too; a negative zero brings its sign along.
LEMMA FiniteOrder ==
    ASSUME Prepared, ~NotFinite, ~FloatIsSpecial
    PROVE  /\ SignPart \in Seq(Glyph) /\ PrintfLead \in Seq(Glyph) /\ PrecZeros = <<>>
           /\ realsz \in Int /\ Len(PrintfLead) + Len(PrintfBody) = realsz
           /\ \/ PrintfLead = SignPart /\ PrintfBody = Number1 \o Number2
              \/ /\ SignPart = <<>> /\ ZeroPart = <<>>
                 /\ Number1 \o Number2 = PrintfLead \o PrintfBody
  <1>1. /\ SI \in Specification /\ arg \in Argument /\ SI.terminal \in FloatTerminal
        /\ Is(arg, "n") /\ arg.neg \in BOOLEAN /\ fpprec \in Nat
        /\ PrintfBody = PrintfFloat /\ PrecZeros = <<>>
    BY ONLY Prepared, ~NotFinite, FinitePrepared, Zenon
  <1>2. /\ SI.sign \in {NoSign, "+", Blank} /\ sign = SignOf(SI, arg)
    BY ONLY Prepared, CallTypes DEF Prepared
  <1>3. SI.terminal \notin IntegerTerminal /\ SI.terminal \notin {"d", "x"}
    BY ONLY <1>1, TerminalKinds
  <1>4. /\ arg.neg /\ arg.n # 0 => sign = "-"
        /\ ~(arg.neg /\ arg.n # 0) => sign = SI.sign
    <2>1. IsBelowZero(arg) <=> arg.neg /\ arg.n # 0
      BY ONLY <1>1, FiniteNumber, Zenon
    <2> QED BY ONLY <1>1, <1>2, <1>3, <2>1, Zenon DEF SignOf
  <1>5. HasSign <=> sign # NoSign
    BY ONLY <1>1, Zenon DEF HasSign
  <1>6. /\ {"-", "+", Blank} \subseteq Glyph
        /\ "-" # NoSign
    BY ONLY SignsAreSigns DEF Glyph, OtherGlyph
  <1> DEFINE N == Number1 \o Number2
             S == SignPart
             lead == PrintfLead
             body == PrintfBody
             zero == arg.neg /\ arg.n = 0
  <1>7. /\ cp \in Seq(Glyph) /\ NegativeZero \in Seq(Glyph) /\ body \in Seq(Glyph)
        /\ N = NegativeZero \o body /\ Len(N) = Len(cp) + fpprec
    BY ONLY <1>1, Prepared, ~NotFinite, ~FloatIsSpecial, FiniteField
  <1>8. S = IF sign # NoSign THEN <<sign>> ELSE <<>>
    BY ONLY <1>5, Zenon DEF SignPart
  <1>9. lead = IF arg.neg THEN <<"-">>
               ELSE IF SI.sign # NoSign THEN <<SI.sign>> ELSE <<>>
    BY ONLY <1>1, <1>3 DEF PrintfLead
  <1>10. S \in Seq(Glyph) /\ lead \in Seq(Glyph) /\ Len(S) = IF HasSign THEN 1 ELSE 0
    <2>1. /\ sign # NoSign => sign \in Glyph
          /\ SI.sign # NoSign => SI.sign \in Glyph
          /\ "-" \in Glyph
      BY ONLY <1>2, <1>4, <1>6
    <2> HIDE DEF S, lead
    <2> QED BY ONLY <1>5, <1>8, <1>9, <2>1
  <1>11. realsz = (Len(cp) + fpprec) + Len(S)
    <2>1. realsz = (Len(cp) + fpprec) + (IF HasSign THEN 1 ELSE 0)
      BY ONLY <1>3, Zenon DEF realsz
    <2> QED BY ONLY <1>10, <2>1
  <1>12. Len(cp) \in Nat /\ Len(S) \in Nat /\ Len(lead) \in Nat /\ Len(body) \in Nat
    BY ONLY <1>7, <1>10, LenProperties
  <1>13. realsz \in Int /\ realsz = Len(S) + Len(N)
    BY ONLY <1>1, <1>7, <1>11, <1>12
  <1> HIDE DEF N, S, lead, body
  <1>14. CASE zero
    <2>1. SI.sign = NoSign /\ ~PaddedWithZeros
      BY ONLY <1>1, <1>14, ~FloatIsSpecial, Zenon DEF FloatIsSpecial
    <2>2. S = <<>>
      BY ONLY <1>4, <1>8, <1>14, <2>1
    <2>3. ZeroPart = <<>>
      BY ONLY <2>1, Zenon DEF ZeroPart
    <2>4. lead = NegativeZero
      BY ONLY <1>9, <1>14, Zenon DEF NegativeZero
    <2>5. N = lead \o body /\ Len(N) = Len(lead) + Len(body)
      BY ONLY <1>7, <1>10, <2>4, ConcatProperties
    <2>6. Len(S) = 0
      BY ONLY <2>2
    <2>7. Len(lead) + Len(body) = realsz
      BY ONLY <1>12, <1>13, <2>5, <2>6
    <2> QED BY ONLY <1>1, <1>10, <1>13, <2>2, <2>3, <2>5, <2>7 DEF N, S, lead, body
  <1>15. CASE ~zero
    <2>1. NegativeZero = <<>>
      BY ONLY <1>15, Zenon DEF NegativeZero
    <2>2. N = body
      BY ONLY <1>7, <2>1, ConcatEmptySeq
    <2>3. arg.neg <=> arg.neg /\ arg.n # 0
      BY ONLY <1>15
    <2>4. lead = S
      BY ONLY <1>4, <1>6, <1>8, <1>9, <2>3, Zenon
    <2> QED BY ONLY <1>1, <1>10, <1>13, <2>2, <2>4 DEF N, S, lead, body
  <1> QED BY ONLY <1>14, <1>15

LEMMA PartsInOrder ==
    ASSUME Prepared, ~PrefixMeetsZeros, ~FloatIsSpecial
    PROVE  /\ Number1 \in Seq(Glyph) /\ Number2 \in Seq(Glyph)
           /\ SignPart \in Seq(Glyph) /\ PrecZeros \in Seq(Glyph)
           /\ PrintfLead \in Seq(Glyph) /\ PrintfBody \in Seq(Glyph)
           /\ W \in Nat /\ realsz \in Int /\ Len(PrintfLead) + Len(PrintfBody) = realsz
           /\ \/ PrintfLead = SignPart /\ PrintfBody = PrecZeros \o (Number1 \o Number2)
              \/ /\ SignPart = <<>> /\ PrecZeros = <<>> /\ ZeroPart = <<>>
                 /\ Number1 \o Number2 = PrintfLead \o PrintfBody
  <1>1. CASE NotFinite
    <2>1. cp \in Seq(Glyph) /\ Number1 = cp /\ Number2 = <<>>
      BY ONLY <1>1, Prepared, WholeNumber
    <2>2. Number1 \o Number2 = cp /\ <<>> \in Seq(Glyph)
      BY ONLY <2>1, ConcatEmptySeq
    <2>3. /\ SignPart \in Seq(Glyph) /\ PrecZeros \in Seq(Glyph)
          /\ PrintfLead \in Seq(Glyph) /\ PrintfBody \in Seq(Glyph)
          /\ W \in Nat /\ realsz \in Int /\ Len(PrintfLead) + Len(PrintfBody) = realsz
          /\ ~Prefixed => PrintfLead = SignPart /\ PrintfBody = PrecZeros \o cp
          /\ Prefixed => /\ SignPart = <<>> /\ PrecZeros = <<>> /\ ZeroPart = <<>>
                         /\ cp = PrintfLead \o PrintfBody
      BY ONLY <1>1, Prepared, ~PrefixMeetsZeros, FieldOrder
    <2> QED BY ONLY <2>1, <2>2, <2>3, Zenon
  <1>2. CASE ~NotFinite
    <2>1. /\ Number1 \in Seq(Glyph) /\ Number2 \in Seq(Glyph) /\ PrintfFloat \in Seq(Glyph)
      BY ONLY <1>2, Prepared, ~FloatIsSpecial, FiniteField
    <2>2. PrintfBody = PrintfFloat
      BY ONLY <1>2, Prepared, FinitePrepared, Zenon
    <2>3. W \in Nat
      BY ONLY Prepared, Zenon DEF Prepared
    <2>4. /\ SignPart \in Seq(Glyph) /\ PrintfLead \in Seq(Glyph) /\ PrecZeros = <<>>
          /\ realsz \in Int /\ Len(PrintfLead) + Len(PrintfBody) = realsz
          /\ \/ PrintfLead = SignPart /\ PrintfBody = Number1 \o Number2
             \/ /\ SignPart = <<>> /\ ZeroPart = <<>>
                /\ Number1 \o Number2 = PrintfLead \o PrintfBody
      BY ONLY <1>2, Prepared, ~FloatIsSpecial, FiniteOrder
    <2> DEFINE N == Number1 \o Number2
    <2>5. N \in Seq(Glyph) /\ <<>> \in Seq(Glyph)
      BY ONLY <2>1, ConcatProperties
    <2>6. <<>> \o N = N
      <3> HIDE DEF N
      <3> QED BY ONLY <2>5, ConcatEmptySeq
    <2> QED BY ONLY <2>1, <2>2, <2>3, <2>4, <2>5, <2>6, Zenon
  <1> QED BY ONLY <1>1, <1>2

LEMMA FieldIsReference ==
    ASSUME Prepared, ~PrefixMeetsZeros, ~FloatIsSpecial, Written, pc = "done"
    PROVE  outbuf = Reference
  <1> DEFINE m == W - realsz
             B == BlankPart
             S == SignPart
             Z == ZeroPart
             Q == PrecZeros
             L == LeftPart
             lead == PrintfLead
             body == PrintfBody
             T == Seq(Glyph)
             Then(x, y) == x \o y
             N == Then(Number1, Number2)
             apart == lead = S /\ body = Then(Q, N)
  <1>1. /\ Number1 \in T /\ Number2 \in T
        /\ S \in T /\ Q \in T /\ lead \in T /\ body \in T
        /\ W \in Nat /\ realsz \in Int /\ Len(lead) + Len(body) = realsz
        /\ apart \/ (S = <<>> /\ Q = <<>> /\ Z = <<>> /\ N = Then(lead, body))
    BY ONLY Prepared, ~PrefixMeetsZeros, ~FloatIsSpecial, PartsInOrder
  <1>2. m \in Int
    BY ONLY <1>1
  <1>3. "0" \in Glyph /\ Blank \in Glyph
    BY DEF Glyph, DigitGlyph, OtherGlyph
  <1>4. Run("0", m) \in T /\ Run(Blank, m) \in T /\ <<>> \in T
    <2>1. Run("0", m) \in Seq(Glyph) /\ Run(Blank, m) \in Seq(Glyph)
      BY ONLY <1>2, <1>3, RunProperties
    <2>2. <<>> \in Seq(Glyph)
      OBVIOUS
    <2> QED BY ONLY <2>1, <2>2
  <1>5. W - Len(lead) - Len(body) = m
    <2> DEFINE x == Len(lead)
               y == Len(body)
               r == realsz
    <2>1. x \in Nat /\ y \in Nat
      BY ONLY <1>1
    <2>2. W \in Nat /\ x + y = r
      BY ONLY <1>1
    <2> HIDE DEF x, y, r
    <2>3. W - x - y = W - r
      BY ONLY <2>1, <2>2
    <2> QED BY ONLY <2>3 DEF x, y, r
  <1>6. N \in T
    BY ONLY <1>1, ConcatProperties
  <1>7. outbuf = ((((((<<>> \o B) \o S) \o Z) \o Q) \o Number1) \o Number2) \o L
    BY ONLY Written, pc = "done", Zenon DEF Written
  <1>8. /\ B = IF flags \cap {"0", "-"} = {} THEN Run(Blank, m) ELSE <<>>
        /\ Z = IF PaddedWithZeros THEN Run("0", m) ELSE <<>>
        /\ L = IF "-" \in flags THEN Run(Blank, m) ELSE <<>>
    BY ONLY DEF BlankPart, ZeroPart, LeftPart
  <1>9. \A x \in T : Then(<<>>, x) = x /\ Then(x, <<>>) = x
    BY ONLY ConcatEmptySeq
  <1>10. \A x, y, w \in T : Then(Then(x, y), w) = Then(x, Then(y, w))
    BY ONLY ConcatRegroups DEF T, Then
  <1>11. \A x, y \in T : Then(x, y) \in T
    BY ONLY ConcatProperties
  <1>12. Convertible(SI, arg)
    BY ONLY Prepared, Zenon DEF Prepared
  <1>13. "-" \notin flags =>
           (PaddedWithZeros <=>
              "0" \in SI.flags
                /\ (\/ SI.terminal \in IntegerTerminal /\ P < 0
                    \/ SI.terminal \in FloatTerminal /\ Is(arg, "n")))
    BY ONLY Prepared, ZerosPad
  <1>14. /\ "-" \in flags =>
              Reference = Then(Then(lead, body), Run(Blank, W - Len(lead) - Len(body)))
         /\ "-" \notin flags /\ PaddedWithZeros =>
              Reference = Then(Then(lead, Run("0", W - Len(lead) - Len(body))), body)
         /\ "-" \notin flags /\ ~PaddedWithZeros =>
              Reference = Then(Then(Run(Blank, W - Len(lead) - Len(body)), lead), body)
    <2>1. W = Abs(AskedWidth) /\ P = AskedPrecision /\ ("-" \in flags <=> LeftJustified)
      BY ONLY Prepared, Zenon DEF Prepared, AsAsked
    <2> QED BY ONLY <1>12, <1>13, <2>1, Zenon DEF Reference
  <1>22. N = Then(Number1, Number2) /\ (apart <=> lead = S /\ body = Then(Q, N))
    OBVIOUS
  <1> HIDE DEF m, B, S, Z, Q, L, lead, body, T, Then, N, apart
  <1>15. B \in T /\ Z \in T /\ L \in T
    BY ONLY <1>4, <1>8, Zenon
  <1>16. Then(S, Then(Z, Then(Q, N))) = Then(lead, Then(Z, body))
    <2>1. CASE apart
      BY ONLY <1>22, <2>1
    <2>2. CASE ~apart
      <3>1. Then(S, Then(Z, Then(Q, N))) = N
        BY ONLY <1>1, <1>6, <1>9, <2>2
      <3>2. Then(Z, body) = body
        BY ONLY <1>1, <1>9, <2>2
      <3> QED BY ONLY <1>1, <2>2, <3>1, <3>2
    <2> QED BY ONLY <2>1, <2>2
  <1>17. outbuf = Then(B, Then(Then(lead, Then(Z, body)), L))
    <2>1. Then(Q, N) \in T
      BY ONLY <1>1, <1>6, <1>11
    <2>2. Then(Z, Then(Q, N)) \in T
      BY ONLY <1>11, <1>15, <2>1
    <2>3. Then(S, Then(Z, Then(Q, N))) \in T
      BY ONLY <1>1, <1>11, <2>2
    <2>4. Then(B, S) \in T
      BY ONLY <1>1, <1>11, <1>15
    <2>5. Then(Then(B, S), Z) \in T
      BY ONLY <1>11, <1>15, <2>4
    <2>6. Then(Then(Then(B, S), Z), Q) \in T
      BY ONLY <1>1, <1>11, <2>5
    <2>7. Then(Then(Then(Then(Then(B, S), Z), Q), Number1), Number2)
            = Then(Then(Then(Then(B, S), Z), Q), N)
      BY ONLY <1>1, <1>10, <1>22, <2>6
    <2>8. outbuf = Then(Then(Then(Then(Then(B, S), Z), Q), N), L)
      <3>1. outbuf = Then(Then(Then(Then(Then(Then(Then(<<>>, B), S), Z), Q), Number1),
                               Number2), L)
        BY ONLY <1>7, Zenon DEF Then
      <3> QED BY ONLY <1>9, <1>15, <2>7, <3>1
    <2>9. Then(Then(Then(Then(B, S), Z), Q), N) = Then(Then(Then(B, S), Z), Then(Q, N))
      BY ONLY <1>1, <1>6, <1>10, <2>5
    <2>10. Then(Then(Then(B, S), Z), Then(Q, N)) = Then(Then(B, S), Then(Z, Then(Q, N)))
      BY ONLY <1>10, <1>15, <2>1, <2>4
    <2>11. Then(Then(B, S), Then(Z, Then(Q, N))) = Then(B, Then(S, Then(Z, Then(Q, N))))
      BY ONLY <1>1, <1>10, <1>15, <2>2
    <2>12. Then(Then(B, Then(S, Then(Z, Then(Q, N)))), L)
             = Then(B, Then(Then(S, Then(Z, Then(Q, N))), L))
      BY ONLY <1>10, <1>15, <2>3
    <2> QED BY ONLY <1>16, <2>8, <2>9, <2>10, <2>11, <2>12
  <1>18. PaddedWithZeros => "-" \notin flags /\ "0" \in flags
    BY DEF PaddedWithZeros
  <1>19. CASE "-" \in flags
    <2>1. B = <<>> /\ Z = <<>> /\ L = Run(Blank, m)
      BY ONLY <1>8, <1>18, <1>19
    <2>2. Then(lead, body) \in T /\ Then(Then(lead, body), L) \in T
      BY ONLY <1>1, <1>11, <1>15
    <2>3. outbuf = Then(Then(lead, body), L)
      BY ONLY <1>1, <1>9, <1>17, <2>1, <2>2
    <2> QED BY ONLY <1>5, <1>14, <1>19, <2>1, <2>3
  <1>20. CASE "-" \notin flags /\ PaddedWithZeros
    <2>1. B = <<>> /\ Z = Run("0", m) /\ L = <<>>
      BY ONLY <1>8, <1>18, <1>20
    <2>2. Then(Z, body) \in T /\ Then(lead, Then(Z, body)) \in T
      BY ONLY <1>1, <1>11, <1>15
    <2>3. outbuf = Then(lead, Then(Z, body))
      BY ONLY <1>9, <1>17, <2>1, <2>2
    <2>4. Then(Then(lead, Z), body) = Then(lead, Then(Z, body))
      BY ONLY <1>1, <1>10, <1>15
    <2> QED BY ONLY <1>5, <1>14, <1>20, <2>1, <2>3, <2>4
  <1>21. CASE "-" \notin flags /\ ~PaddedWithZeros
    <2>1. "0" \notin flags
      BY ONLY <1>21 DEF PaddedWithZeros
    <2>2. B = Run(Blank, m) /\ Z = <<>> /\ L = <<>>
      BY ONLY <1>8, <1>21, <2>1
    <2>3. Then(lead, body) \in T
      BY ONLY <1>1, <1>11
    <2>4. outbuf = Then(B, Then(lead, body))
      BY ONLY <1>1, <1>9, <1>17, <2>2, <2>3
    <2>5. Then(Then(B, lead), body) = Then(B, Then(lead, body))
      BY ONLY <1>1, <1>10, <1>15
    <2> QED BY ONLY <1>5, <1>14, <1>21, <2>2, <2>4, <2>5
  <1> QED BY ONLY <1>19, <1>20, <1>21

\* Whatever the widths of the types, MAXFRACT, the buffer, the specification, the
\* argument and the width and precision given in front of it, what converter_single
\* writes is what printf writes for that width and precision as they were given,
\* but for the two cases in which "0x" meets zeros and for the floating-point
\* numbers that FloatIsSpecial lists.  A char* printed by p is an address, a number
\* printed by c the character of its integral part; an argument the code takes for
\* no value of the conversion is "(ER)" in both.
THEOREM ConversionPrintsAsPrintf == Spec => []PrintsAsPrintf
  <1>1. ASSUME Layout, pc = "done", ~PrefixMeetsZeros, ~FloatIsSpecial
        PROVE  outbuf = Reference
    <2>1. CASE Convertible(SI, arg)
      <3>1. Prepared /\ Written
        BY ONLY <1>1, <2>1, Zenon DEF Layout
      <3> QED BY ONLY <1>1, <3>1, FieldIsReference
    <2>2. CASE ~Convertible(SI, arg)
      <3>1. outbuf = <<"(", "E", "R", ")">>
        BY ONLY <1>1, <2>2, Zenon DEF Layout
      <3>2. Reference = <<"(", "E", "R", ")">>
        BY ONLY <2>2, Zenon DEF Reference
      <3> QED BY ONLY <3>1, <3>2
    <2> QED BY ONLY <2>1, <2>2
  <1>2. Layout => PrintsAsPrintf
    BY ONLY <1>1, Zenon DEF PrintsAsPrintf
  <1> QED BY <1>2, FieldIsItsParts, PTL

-----------------------------------------------------------------------------
(* The bounded output, OutbufArg, that a conversion writes to *)

\* The cursor and what writePaddings has left to copy account together for
\* everything written that fits.
CursorAccounts ==
    /\ written = Len(all)
    /\ count = 0 => n = 0
    /\ count > 0 => pBuf + n = IF Len(all) < count - 1 THEN Len(all)
                                                        ELSE count - 1

StoredSoFar == \A i \in 0..(pBuf - 1) : buffer[i] = all[i + 1]

\* What writePaddings still owes the buffer is already counted as written.
PaddingIsOwed == \A i \in pBuf..(pBuf + n - 1) : all[i + 1] = padding

IsTerminated == finished => n = 0 /\ buffer[pBuf] = NUL

OutbufInv ==
    /\ OutbufTypeOK
    /\ CursorAccounts
    /\ StoredSoFar
    /\ PaddingIsOwed
    /\ IsTerminated
    /\ StoresAtMostCount

LEMMA OutbufInitial == OutbufInit => OutbufInv
  BY OutbufAssumption, SMTT(30)
  DEF OutbufInit, OutbufInv, OutbufTypeOK, CursorAccounts, StoredSoFar, PaddingIsOwed,
      IsTerminated, StoresAtMostCount

\* A clipped size is what the buffer has room for.
LEMMA FittingIsRoom ==
    ASSUME OutbufTypeOK, NEW size \in Nat
    PROVE  /\ Fitting(size) \in 0..size
           /\ count = 0 => Fitting(size) = 0
           /\ count > 0 => Fitting(size) = IF pBuf + size < count - 1
                                           THEN size ELSE count - 1 - pBuf
  BY OutbufAssumption DEF OutbufTypeOK, Fitting, Remaining

\* A concatenation has the elements of both parts.
LEMMA Concatenation ==
    ASSUME NEW S, NEW s \in Seq(S), NEW t \in Seq(S)
    PROVE  /\ s \o t \in Seq(S)
           /\ Len(s \o t) = Len(s) + Len(t)
           /\ \A i \in 1..Len(s) : (s \o t)[i] = s[i]
           /\ \A i \in 1..Len(t) : (s \o t)[Len(s) + i] = t[i]
  OBVIOUS

\* Writing a text keeps the invariant: write(ch) and write(p, n).
LEMMA TextPreserves ==
    ASSUME OutbufInv, NEW text \in Seq(Char), n = 0, finished = FALSE,
           written' = written + Len(text),
           all' = all \o text,
           buffer' = Stored(text, Fitting(Len(text))),
           pBuf' = pBuf + Fitting(Len(text)),
           UNCHANGED <<count, n, padding, finished>>
    PROVE  OutbufInv'
  <1> DEFINE k == Fitting(Len(text))
  <1> USE DEF OutbufInv, OutbufTypeOK
  <1>1. /\ count \in Nat /\ Len(text) \in Nat
        /\ Len(all) \in Nat /\ pBuf \in Nat
    BY OutbufAssumption
  <1>2. /\ k \in 0..Len(text)
        /\ count = 0 => k = 0
        /\ count > 0 => k = IF pBuf + Len(text) < count - 1
                            THEN Len(text) ELSE count - 1 - pBuf
    BY <1>1, FittingIsRoom
  <1> HIDE DEF k
  <1>3. /\ all' \in Seq(Char)
        /\ Len(all') = Len(all) + Len(text)
        /\ \A i \in 1..Len(all) : all'[i] = all[i]
        /\ \A i \in 1..Len(text) : all'[Len(all) + i] = text[i]
    BY Concatenation, SMTT(30)
  <1>4. buffer' = [i \in 0..count |-> IF pBuf <= i /\ i < pBuf + k
                                      THEN text[i - pBuf + 1] ELSE buffer[i]]
    BY DEF Stored, k
  <1>5. pBuf' = pBuf + k
    BY DEF k
  <1>6. \A i \in 1..Len(text) : text[i] \in Char
    OBVIOUS
  <1>7. buffer' \in [0..count -> Char \cup {Unset}]
    <2> SUFFICES ASSUME NEW i \in 0..count
                 PROVE  buffer'[i] \in Char \cup {Unset}
      BY <1>4
    <2>1. CASE pBuf <= i /\ i < pBuf + k
      <3>1. i - pBuf + 1 \in 1..Len(text)
        BY <2>1, <1>1, <1>2
      <3> QED BY <3>1, <2>1, <1>4, <1>6
    <2>2. CASE ~(pBuf <= i /\ i < pBuf + k)
      BY <2>2, <1>4
    <2> QED BY <2>1, <2>2
  <1>8. OutbufTypeOK'
    BY <1>1, <1>2, <1>3, <1>5, <1>7
  <1>9. CursorAccounts'
    <2>1. written' = Len(all')
      BY <1>1, <1>3 DEF CursorAccounts
    <2>2. count' = 0 => n' = 0
      OBVIOUS
    <2>3. ASSUME count > 0
          PROVE  pBuf + k = IF Len(all) + Len(text) < count - 1
                            THEN Len(all) + Len(text) ELSE count - 1
      <3>1. pBuf = IF Len(all) < count - 1 THEN Len(all) ELSE count - 1
        BY <2>3, <1>1 DEF CursorAccounts
      <3> QED BY ONLY <2>3, <3>1, <1>1, <1>2
    <2> QED BY ONLY <2>1, <2>2, <2>3, <1>1, <1>3, <1>5, n = 0,
               UNCHANGED <<count, n, padding, finished>> DEF CursorAccounts
  <1>10. StoredSoFar'
    <2>1. ASSUME NEW i \in 0..(pBuf + k - 1), i < pBuf
          PROVE  buffer'[i] = all'[i + 1]
      <3>1. i + 1 \in 1..Len(all) /\ i \in 0..(pBuf - 1) /\ i \in 0..count
        BY <2>1, <1>1, <1>2 DEF CursorAccounts
      <3>2. buffer'[i] = buffer[i]
        BY <2>1, <3>1, <1>1, <1>4
      <3> QED BY <3>1, <3>2, <1>3 DEF StoredSoFar
    <2>2. ASSUME NEW i \in 0..(pBuf + k - 1), pBuf <= i
          PROVE  buffer'[i] = all'[i + 1]
      <3>1. Len(all) = pBuf /\ i \in 0..count
        BY <2>2, <1>1, <1>2 DEF CursorAccounts
      <3>2. i - pBuf + 1 \in 1..Len(text)
        BY <2>2, <1>1, <1>2
      <3>3. all'[i + 1] = text[i - pBuf + 1]
        <4>1. Len(all) + (i - pBuf + 1) = i + 1
          BY <3>1, <1>1
        <4> QED BY <4>1, <3>2, <1>3
      <3> QED BY <3>1, <3>3, <2>2, <1>1, <1>2, <1>4
    <2>3. \A i \in 0..(pBuf + k - 1) : i < pBuf \/ pBuf <= i
      BY ONLY <1>1, <1>2
    <2>4. \A i \in 0..(pBuf + k - 1) : buffer'[i] = all'[i + 1]
      BY ONLY <2>1, <2>2, <2>3, Zenon
    <2>5. 0..(pBuf' - 1) = 0..(pBuf + k - 1)
      BY ONLY <1>1, <1>2, <1>5, <1>8 DEF OutbufTypeOK
    <2> QED BY ONLY <2>4, <2>5, Zenon DEF StoredSoFar
  <1>11. PaddingIsOwed'
    BY <1>1, <1>2, <1>5 DEF PaddingIsOwed
  <1>12. StoresAtMostCount'
    BY <1>1, <1>2, <1>4 DEF StoresAtMostCount
  <1> QED BY <1>8, <1>9, <1>10, <1>11, <1>12 DEF IsTerminated

\* A padding is a sequence of one character.
LEMMA Repetition ==
    ASSUME NEW ch \in Char, NEW size \in Nat
    PROVE  /\ [i \in 1..size |-> ch] \in Seq(Char)
           /\ Len([i \in 1..size |-> ch]) = size
           /\ \A i \in 1..size : [j \in 1..size |-> ch][i] = ch
  OBVIOUS

\* writePaddings counts everything it was asked for before it copies.
LEMMA BeginPreserves ==
    ASSUME OutbufInv, NEW ch \in Char, NEW size \in Paddings,
           BeginPaddings(ch, size)
    PROVE  OutbufInv'
  <1> DEFINE k == Fitting(size)
  <1> USE DEF OutbufInv, OutbufTypeOK
  <1>1. /\ count \in Nat /\ size \in Nat
        /\ Len(all) \in Nat /\ pBuf \in Nat
    BY OutbufAssumption DEF BeginPaddings
  <1>2. PICK tail \in Seq(Char) :
            /\ Len(tail) = size /\ \A i \in 1..size : tail[i] = ch
            /\ all' = all \o tail
    <2>1. all' = all \o [i \in 1..size |-> ch]
      BY DEF BeginPaddings
    <2> QED BY <1>1, <2>1, Repetition
  <1>3. /\ all' \in Seq(Char)
        /\ Len(all') = Len(all) + size
        /\ \A i \in 1..Len(all) : all'[i] = all[i]
        /\ \A i \in 1..size : all'[Len(all) + i] = ch
    <2>1. all \in Seq(Char) /\ tail \in Seq(Char)
      BY <1>2
    <2>2. /\ all \o tail \in Seq(Char)
          /\ Len(all \o tail) = Len(all) + Len(tail)
          /\ \A i \in 1..Len(all) : (all \o tail)[i] = all[i]
          /\ \A i \in 1..Len(tail) : (all \o tail)[Len(all) + i] = tail[i]
      BY ONLY <2>1, Concatenation
    <2>3. \A i \in 1..size : (all \o tail)[Len(all) + i] = ch
      BY ONLY <1>2, <2>2, Zenon
    <2> QED BY ONLY <1>2, <2>2, <2>3, Zenon
  <1>4. /\ k \in 0..size
        /\ count = 0 => k = 0
        /\ count > 0 => k = IF pBuf + size < count - 1
                            THEN size ELSE count - 1 - pBuf
    BY <1>1, FittingIsRoom
  <1>5. n = 0 /\ finished = FALSE /\ n' = k /\ padding' = ch /\ written' = written + size
        /\ UNCHANGED <<count, buffer, pBuf, finished>>
    BY DEF BeginPaddings, MayCall
  <1> HIDE DEF k
  <1>6. OutbufTypeOK'
    BY <1>1, <1>3, <1>4, <1>5
  <1>7. CursorAccounts'
    <2>1. written' = Len(all') /\ (count = 0 => k = 0)
      BY <1>1, <1>3, <1>4, <1>5 DEF CursorAccounts
    <2>2. ASSUME count > 0
          PROVE  pBuf + k = IF Len(all) + size < count - 1
                            THEN Len(all) + size ELSE count - 1
      <3>1. pBuf = IF Len(all) < count - 1 THEN Len(all) ELSE count - 1
        BY <2>2, <1>1, <1>5 DEF CursorAccounts
      <3> QED BY ONLY <2>2, <3>1, <1>1, <1>4
    <2> QED BY ONLY <2>1, <2>2, <1>1, <1>3, <1>5 DEF CursorAccounts
  <1>8. StoredSoFar'
    <2>1. pBuf <= Len(all)
      BY <1>1, <1>5 DEF CursorAccounts
    <2>2. ASSUME NEW i \in 0..(pBuf - 1) PROVE buffer[i] = all'[i + 1]
      <3>1. i + 1 \in 1..Len(all)
        BY <2>1, <1>1
      <3> QED BY <3>1, <1>3 DEF StoredSoFar
    <2> QED BY ONLY <2>2, <1>5 DEF StoredSoFar
  <1>9. PaddingIsOwed'
    <2> SUFFICES ASSUME NEW i \in pBuf..(pBuf + k - 1)
                 PROVE  all'[i + 1] = ch
      BY <1>5 DEF PaddingIsOwed
    <2>1. Len(all) = pBuf
      BY <1>1, <1>4, <1>5 DEF CursorAccounts
    <2>2. i - pBuf + 1 \in 1..size /\ Len(all) + (i - pBuf + 1) = i + 1
      BY <2>1, <1>1, <1>4
    <2> QED BY <2>2, <1>3
  <1> QED BY <1>5, <1>6, <1>7, <1>8, <1>9
          DEF IsTerminated, StoresAtMostCount

\* Each copy pays back a chunk of it.
LEMMA CopyPreserves == OutbufInv /\ CopyPadding => OutbufInv'
  <1> SUFFICES ASSUME OutbufInv, CopyPadding PROVE OutbufInv'
    OBVIOUS
  <1> USE DEF OutbufInv, OutbufTypeOK
  <1>1. count \in Nat /\ pBuf \in Nat /\ n \in Nat /\ Len(all) \in Nat
    BY OutbufAssumption
  <1>2. Chunk \in 1..n
    BY <1>1, OutbufAssumption DEF Chunk, CopyPadding
  <1>3. buffer' = [i \in 0..count |-> IF pBuf <= i /\ i < pBuf + Chunk
                                      THEN padding ELSE buffer[i]]
    BY DEF CopyPadding, Filled
  <1>4. /\ pBuf' = pBuf + Chunk /\ n' = n - Chunk
        /\ UNCHANGED <<count, written, padding, finished, all>>
    BY DEF CopyPadding
  <1>5. count > 0 /\ pBuf + n < count /\ pBuf + n <= Len(all)
    BY <1>1, <1>2 DEF CursorAccounts
  <1>6. OutbufTypeOK'
    BY <1>1, <1>2, <1>3, <1>4, <1>5
  <1>7. CursorAccounts'
    BY <1>1, <1>2, <1>4, <1>5 DEF CursorAccounts
  <1>8. StoredSoFar'
    BY <1>1, <1>2, <1>3, <1>4, <1>5 DEF StoredSoFar, PaddingIsOwed
  <1>9. PaddingIsOwed'
    BY <1>1, <1>2, <1>4, <1>5 DEF PaddingIsOwed
  <1>10. IsTerminated'
    BY <1>1, <1>2, <1>4 DEF IsTerminated
  <1>11. StoresAtMostCount'
    BY <1>1, <1>2, <1>3, <1>4, <1>5 DEF StoresAtMostCount
  <1> QED BY <1>6, <1>7, <1>8, <1>9, <1>10, <1>11

LEMMA ResetPreserves == OutbufInv /\ Reset => OutbufInv'
  BY OutbufAssumption
  DEF OutbufInv, OutbufTypeOK, CursorAccounts, StoredSoFar, PaddingIsOwed, IsTerminated,
      StoresAtMostCount, Reset, AfterReset

LEMMA DonePreserves == OutbufInv /\ Done => OutbufInv'
  BY OutbufAssumption
  DEF OutbufInv, OutbufTypeOK, CursorAccounts, StoredSoFar, PaddingIsOwed, IsTerminated,
      StoresAtMostCount, Done

LEMMA OutbufStep == OutbufInv /\ [OutbufNext]_outbufVars => OutbufInv'
  <1> SUFFICES ASSUME OutbufInv, [OutbufNext]_outbufVars PROVE OutbufInv'
    OBVIOUS
  <1>1. ASSUME NEW ch \in Char, WriteChar(ch) PROVE OutbufInv'
    <2>1. <<ch>> \in Seq(Char) /\ Len(<<ch>>) = 1 /\ all \o <<ch>> = Append(all, ch)
      BY DEF OutbufInv, OutbufTypeOK
    <2> DEFINE text == <<ch>>
    <2>2. /\ n = 0 /\ finished = FALSE
          /\ written' = written + Len(text)
          /\ all' = all \o text
          /\ buffer' = Stored(text, Fitting(Len(text)))
          /\ pBuf' = pBuf + Fitting(Len(text))
          /\ UNCHANGED <<count, n, padding, finished>>
      BY <1>1, <2>1 DEF WriteChar, MayCall, OutbufInv, OutbufTypeOK
    <2> HIDE DEF text
    <2> QED BY <2>1, <2>2, TextPreserves DEF text
  <1>2. ASSUME NEW text \in Blocks, Write(text) PROVE OutbufInv'
    <2>1. text \in Seq(Char)
      BY OutbufAssumption
    <2>2. /\ n = 0 /\ finished = FALSE
          /\ written' = written + Len(text)
          /\ all' = all \o text
          /\ buffer' = Stored(text, Fitting(Len(text)))
          /\ pBuf' = pBuf + Fitting(Len(text))
          /\ UNCHANGED <<count, n, padding, finished>>
      BY <1>2 DEF Write, MayCall, Counted, OutbufInv, OutbufTypeOK
    <2> QED BY <2>1, <2>2, TextPreserves
  <1>3. ASSUME NEW ch \in Char, NEW size \in Paddings, BeginPaddings(ch, size)
        PROVE  OutbufInv'
    BY <1>3, BeginPreserves
  <1>4. CASE CopyPadding
    BY <1>4, CopyPreserves
  <1>5. CASE Reset
    BY <1>5, ResetPreserves
  <1>6. CASE Done
    BY <1>6, DonePreserves
  <1>7. CASE UNCHANGED outbufVars
    BY <1>7 DEF outbufVars, OutbufInv, OutbufTypeOK, CursorAccounts, StoredSoFar,
        PaddingIsOwed, IsTerminated, StoresAtMostCount
  <1> QED BY <1>1, <1>2, <1>3, <1>4, <1>5, <1>6, <1>7 DEF OutbufNext

THEOREM OutbufInvariance == OutbufSpec => []OutbufInv
  <1> QED BY OutbufInitial, OutbufStep, PTL DEF OutbufSpec


\* The cursor never reaches the place of the terminator's successor.
THEOREM OutbufTypes == OutbufSpec => []OutbufTypeOK
  <1>1. OutbufInv => OutbufTypeOK
    BY DEF OutbufInv
  <1> QED BY <1>1, OutbufInvariance, PTL

\* The size the sink computes covers exactly the stored beginning of an entry.
THEOREM SinkOutput == OutbufSpec => []SinkOutputsPrefix
  <1>1. OutbufInv => SinkOutputsPrefix
    BY OutbufAssumption
    DEF OutbufInv, OutbufTypeOK, CursorAccounts, StoredSoFar, SinkOutputsPrefix,
        OutputSize, HoldsPrefix
  <1> QED BY <1>1, OutbufInvariance, PTL

\* After done() a result below count means a complete and terminated string.
THEOREM StringStored == OutbufSpec => []DoneStoresString
  <1>1. ASSUME OutbufInv, finished, count > 0
        PROVE  IF written < count
               THEN written = Len(all) /\ HoldsPrefix(written)
                      /\ buffer[written] = NUL
               ELSE HoldsPrefix(count - 1) /\ buffer[count - 1] = NUL
    <2>1. /\ count \in Nat /\ pBuf \in Nat /\ n = 0
          /\ written = Len(all) /\ written \in Nat
          /\ buffer[pBuf] = NUL
      BY <1>1, OutbufAssumption
      DEF OutbufInv, OutbufTypeOK, CursorAccounts, IsTerminated
    <2>2. pBuf = IF written < count - 1 THEN written ELSE count - 1
      BY <1>1, <2>1 DEF OutbufInv, CursorAccounts
    <2>3. HoldsPrefix(pBuf)
      BY <1>1 DEF OutbufInv, StoredSoFar, HoldsPrefix
    <2>4. written < count => pBuf = written
      BY ONLY <2>1, <2>2
    <2>5. ~(written < count) => pBuf = count - 1
      BY ONLY <2>1, <2>2
    <2> QED BY ONLY <2>1, <2>3, <2>4, <2>5
  <1>2. OutbufInv => DoneStoresString
    BY <1>1 DEF DoneStoresString
  <1> QED BY <1>2, OutbufInvariance, PTL

\* The memory behind a buffer with any room at all is never written.
THEOREM NothingBehind == OutbufSpec => []StoresAtMostCount
  <1>1. OutbufInv => StoresAtMostCount
    BY DEF OutbufInv
  <1> QED BY <1>1, OutbufInvariance, PTL

=================================================================================
