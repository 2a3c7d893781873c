------------------------------- MODULE DataLemmas -------------------------------
(***************************************************************************)
(* Facts about data that several components' proofs rest on: when two      *)
(* sequences are equal, and what a recursion over the naturals computes.   *)
(***************************************************************************)
EXTENDS Integers, Sequences, SequencesExt, SequenceTheorems,
        WellFoundedInduction, TLAPS

\* What is added to a positive number does not make it less.
LEMMA PositiveSum ==
    ASSUME NEW h \in Nat \ {0}, NEW x \in Nat
    PROVE  h + x \in Nat \ {0} /\ h <= h + x
  OBVIOUS

\* Positions in two regions, of k and of y, behind a header of h.
LEMMA RegionsInOrder ==
    ASSUME NEW h \in Nat, NEW k \in Nat, NEW x \in Nat, NEW y \in Nat, NEW z \in Nat,
           x <= k, z <= y
    PROVE  h + x <= h + k /\ (h + k) + z <= (k + h) + y
  OBVIOUS

\* g numbers from n on that end by t.
LEMMA NumbersWithin ==
    ASSUME NEW n \in Nat \ {0}, NEW g \in Nat \ {0}, NEW t \in Nat, n + (g - 1) <= t
    PROVE  /\ n + (g - 1) \in 1..(t + 1) /\ (n + (g - 1)) + 1 \in 1..(t + 1)
           /\ n \in 1..(t + 1) /\ (n + (g - 1)) + 1 = n + g
  OBVIOUS

\* A block of positive length that ends by e begins before it.
LEMMA BlockInside ==
    ASSUME NEW x \in Nat, NEW t \in Nat \ {0}, NEW l \in Nat, NEW e \in Nat,
           (x + t) + l <= e
    PROVE  x + 1 \in 1..e /\ 0 + (x + 1) = x + 1
  OBVIOUS

\* A position counted from c is one of the old ones, and stays one.
LEMMA IndexCarried ==
    ASSUME NEW h \in Nat, NEW n \in Nat, h <= n, NEW c \in Nat,
           NEW i \in 1..(h - c)
    PROVE  i \in 1..(n - c) /\ i \in 1..(h - c) /\ c + i \in 1..h
  OBVIOUS

\* Three sequences, taken together either way.
LEMMA ConcatRegroups ==
    ASSUME NEW S
    PROVE  \A x, y, w \in Seq(S) : (x \o y) \o w = x \o (y \o w)
  BY ONLY ConcatAssociative

\* A sequence that begins with s and goes on with t is s \o t.
LEMMA IsConcat ==
    ASSUME NEW S, NEW s \in Seq(S), NEW t \in Seq(S), NEW u \in Seq(S),
           Len(u) = Len(s) + Len(t),
           \A i \in 1..Len(s) : u[i] = s[i],
           \A i \in 1..Len(t) : u[Len(s) + i] = t[i]
    PROVE  u = s \o t
  <1>1. /\ s \o t \in Seq(S)
        /\ Len(s \o t) = Len(s) + Len(t)
        /\ \A i \in 1..Len(s) + Len(t) :
             (s \o t)[i] = IF i <= Len(s) THEN s[i] ELSE t[i - Len(s)]
    BY ConcatProperties
  <1>2. Len(s) \in Nat /\ Len(t) \in Nat
    BY LenProperties
  <1>3. ASSUME NEW i \in 1..Len(u) PROVE u[i] = (s \o t)[i]
    <2>1. CASE i <= Len(s)
      BY <1>1, <1>2, <2>1
    <2>2. CASE ~(i <= Len(s))
      <3>1. i - Len(s) \in 1..Len(t) /\ i = Len(s) + (i - Len(s))
        BY <1>2, <2>2
      <3>2. u[Len(s) + (i - Len(s))] = t[i - Len(s)]
        BY <3>1
      <3> QED BY <1>1, <1>2, <2>2, <3>1, <3>2
    <2> QED BY <2>1, <2>2
  <1> QED BY <1>1, <1>3, SeqEqual

\* A sequence that holds s's elements m to n is SubSeq(s, m, n).
LEMMA IsSubSeq ==
    ASSUME NEW S, NEW s \in Seq(S), NEW m \in Nat, NEW n \in Nat,
           1 <= m, m <= n + 1, n <= Len(s),
           NEW u \in Seq(S), Len(u) = n - m + 1,
           \A i \in 1..Len(u) : u[i] = s[m + i - 1]
    PROVE  u = SubSeq(s, m, n)
  <1>1. \A i \in m..n : s[i] \in S
    BY LenProperties, ElementOfSeq
  <1>2. /\ SubSeq(s, m, n) \in Seq(S)
        /\ Len(SubSeq(s, m, n)) = IF m <= n THEN n - m + 1 ELSE 0
        /\ \A i \in 1..n - m + 1 : SubSeq(s, m, n)[i] = s[m + i - 1]
    BY <1>1, SubSeqProperties
  <1> QED BY <1>2, SeqEqual

\* What is left of a sequence when its first c elements are gone.
LEMMA SuffixProperties ==
    ASSUME NEW S, NEW s \in Seq(S), NEW c \in 0..Len(s), NEW n, n = Len(s)
    PROVE  /\ SubSeq(s, c + 1, n) \in Seq(S)
           /\ Len(SubSeq(s, c + 1, n)) = n - c
           /\ \A i \in 1..(n - c) : SubSeq(s, c + 1, n)[i] = s[c + i]
  <1> DEFINE t == SubSeq(s, c + 1, n)
  <1>1. n \in Nat /\ c \in Nat /\ c + 1 \in Int /\ n \in Int
    BY LenProperties
  <1>2. \A i \in (c + 1)..n : s[i] \in S
    BY <1>1, ElementOfSeq
  <1>3. /\ t \in Seq(S)
        /\ Len(t) = IF c + 1 <= n THEN n - (c + 1) + 1 ELSE 0
        /\ \A i \in 1..n - (c + 1) + 1 : t[i] = s[(c + 1) + i - 1]
    BY <1>1, <1>2, SubSeqProperties
  <1> HIDE DEF t
  <1>4. ASSUME NEW i \in 1..(n - c) PROVE t[i] = s[c + i]
    <2>1. i \in 1..n - (c + 1) + 1 /\ (c + 1) + i - 1 = c + i
      BY <1>1
    <2>2. t[i] = s[(c + 1) + i - 1]
      BY <1>3, <2>1
    <2> QED BY <2>1, <2>2
  <1>5. Len(t) = n - c
    BY <1>1, <1>3
  <1> QED BY <1>3, <1>4, <1>5 DEF t

-----------------------------------------------------------------------------
(* Induction over the naturals, said of sets.                               *)

\* A set of naturals that is not empty has a least element.
LEMMA NatHasLeast ==
    ASSUME NEW T \in SUBSET Nat, T # {}
    PROVE  \E x \in T : \A y \in T : x <= y
  <1> DEFINE Less == {ss \in Nat \X Nat : ss[1] < ss[2]}
  <1>1. IsWellFoundedOn(Less, Nat)
    BY NatLessThanWellFounded DEF OpToRel
  <1>2. PICK x \in T : \A y \in T : <<y, x>> \notin Less
    <2> HIDE DEF Less
    <2> QED BY <1>1, WFMin
  <1>3. \A y \in T : x <= y
    <2> TAKE y \in T
    <2>1. x \in Nat /\ y \in Nat
      OBVIOUS
    <2>2. y < x => <<y, x>> \in Less
      BY <2>1
    <2>3. ~(y < x)
      BY <1>2, <2>2
    <2> QED BY <2>1, <2>3
  <1> QED BY <1>2, <1>3

\* A set that holds 0, and with every number the next, holds every number.
LEMMA NatInductionOnSet ==
    ASSUME NEW T, 0 \in T, \A n \in Nat : n \in T => n + 1 \in T
    PROVE  \A n \in Nat : n \in T
  <1> DEFINE U == {n \in Nat : n \notin T}
  <1>1. ASSUME U # {} PROVE FALSE
    <2>1. PICK x \in U : \A y \in U : x <= y
      BY <1>1, NatHasLeast
    <2>2. x # 0 /\ x \in Nat
      BY <2>1
    <2>3. x - 1 \in Nat /\ x - 1 \notin U
      BY <2>1, <2>2
    <2>4. (x - 1) + 1 \in T
      BY <2>3
    <2> QED BY <2>1, <2>2, <2>4
  <1> QED BY <1>1

-----------------------------------------------------------------------------
(* Recursion over the naturals.  step is a function, so that a lemma about  *)
(* every recursion can be cited for one.                                    *)

\* The first n + 1 values of the recursion.
Beginnings(S, base, step, n) ==
    {f \in [0..n -> S] :
        f[0] = base /\ \A i \in 0..(n - 1) : f[i + 1] = step[<<i, f[i]>>]}

\* Two beginnings agree as far as both reach.
LEMMA BeginningsAgree ==
    ASSUME NEW S, NEW base, NEW step, NEW m \in Nat, NEW n \in Nat,
           NEW f \in Beginnings(S, base, step, m),
           NEW g \in Beginnings(S, base, step, n)
    PROVE  \A i \in Nat : i <= m /\ i <= n => f[i] = g[i]
  <1> DEFINE T == {i \in Nat : i <= m /\ i <= n => f[i] = g[i]}
  <1>1. 0 \in T
    BY DEF Beginnings
  <1>2. ASSUME NEW i \in Nat, i \in T PROVE i + 1 \in T
    <2> SUFFICES ASSUME i + 1 <= m, i + 1 <= n PROVE f[i + 1] = g[i + 1]
      OBVIOUS
    <2>1. f[i] = g[i]
      BY <1>2
    <2>2. i \in 0..(m - 1) /\ i \in 0..(n - 1)
      OBVIOUS
    <2> QED BY <2>1, <2>2 DEF Beginnings
  <1> HIDE DEF T
  <1>3. \A i \in Nat : i \in T
    BY <1>1, <1>2, NatInductionOnSet
  <1> QED BY <1>3 DEF T

\* The recursion has a beginning of every length.
LEMMA BeginningsExist ==
    ASSUME NEW S, NEW base \in S, NEW step \in [Nat \X S -> S]
    PROVE  \A n \in Nat : Beginnings(S, base, step, n) # {}
  <1> DEFINE T == {n \in Nat : Beginnings(S, base, step, n) # {}}
  <1>1. 0 \in T
    <2>1. [i \in 0..0 |-> base] \in Beginnings(S, base, step, 0)
      BY DEF Beginnings
    <2> QED BY <2>1
  <1>2. ASSUME NEW n \in Nat, n \in T PROVE n + 1 \in T
    <2>1. PICK f : f \in Beginnings(S, base, step, n)
      BY <1>2
    <2> DEFINE g == [i \in 0..(n + 1) |->
                       IF i <= n THEN f[i] ELSE step[<<n, f[n]>>]]
    <2>2. f \in [0..n -> S] /\ f[0] = base
          /\ \A i \in 0..(n - 1) : f[i + 1] = step[<<i, f[i]>>]
      BY <2>1 DEF Beginnings
    <2>3. f[n] \in S /\ step[<<n, f[n]>>] \in S
      BY <2>2
    <2>4. g \in [0..(n + 1) -> S]
      BY <2>2, <2>3
    <2>5. g[0] = base
      BY <2>2
    <2>6. ASSUME NEW i \in 0..((n + 1) - 1) PROVE g[i + 1] = step[<<i, g[i]>>]
      <3>1. CASE i = n
        <4>1. g[n + 1] = step[<<n, f[n]>>] /\ g[n] = f[n]
          OBVIOUS
        <4> HIDE DEF g
        <4> QED BY <3>1, <4>1, Zenon
      <3>2. CASE i # n
        <4>1. i \in 0..(n - 1) /\ i <= n /\ i + 1 <= n
          BY <3>2
        <4>2. g[i] = f[i] /\ g[i + 1] = f[i + 1]
          BY <4>1
        <4> QED BY <2>2, <4>1, <4>2
      <3> QED BY <3>1, <3>2
    <2> HIDE DEF g
    <2>7. g \in Beginnings(S, base, step, n + 1)
      BY <2>4, <2>5, <2>6 DEF Beginnings
    <2> QED BY <2>7
  <1> HIDE DEF T
  <1>3. \A n \in Nat : n \in T
    BY <1>1, <1>2, NatInductionOnSet
  <1> QED BY <1>3 DEF T

\* f begins with base and goes on by step.
Recursion(f, S, base, step) ==
    /\ f \in [Nat -> S]
    /\ f[0] = base
    /\ \A n \in Nat : f[n + 1] = step[<<n, f[n]>>]

\* There is a function on Nat with a given first value and a given step.
LEMMA NatRecursion ==
    ASSUME NEW S, NEW base \in S, NEW step \in [Nat \X S -> S]
    PROVE  \E f : Recursion(f, S, base, step)
  <1> DEFINE P(n) == Beginnings(S, base, step, n)
             p(n) == CHOOSE g \in P(n) : TRUE
             f == [n \in Nat |-> p(n)[n]]
  <1>1. \A n \in Nat : p(n) \in P(n)
    BY BeginningsExist
  <1>2. ASSUME NEW n \in Nat PROVE p(n)[n] \in S
    <2> HIDE DEF p
    <2>1. p(n) \in [0..n -> S]
      BY <1>1 DEF Beginnings
    <2> QED BY <2>1
  <1>3. f \in [Nat -> S]
    BY <1>2
  <1>4. f[0] = base
    BY <1>1 DEF Beginnings
  <1>5. ASSUME NEW n \in Nat PROVE f[n + 1] = step[<<n, f[n]>>]
    <2> HIDE DEF p
    <2>1. p(n) \in P(n) /\ p(n + 1) \in P(n + 1)
      BY <1>1
    <2>2. p(n + 1)[n] = p(n)[n]
      BY <2>1, BeginningsAgree
    <2>3. n \in 0..((n + 1) - 1)
      OBVIOUS
    <2>4. p(n + 1)[n + 1] = step[<<n, p(n + 1)[n]>>]
      BY <2>1, <2>3 DEF Beginnings
    <2> QED BY <2>2, <2>4
  <1> HIDE DEF f
  <1> QED BY <1>3, <1>4, <1>5 DEF Recursion

-----------------------------------------------------------------------------
(* Flattened sequences, whose recursion FlattenSeq writes as a function.    *)

\* FlattenSeq's recursion, which its definition chooses, does exist.
LEMMA FlattenRecursion ==
    ASSUME NEW S, NEW ss \in Seq(Seq(S)), ss # <<>>
    PROVE  \E f \in [1..Len(ss) -> Seq(S)] :
              /\ f = [i \in 1..Len(ss) |-> IF i = 1 THEN ss[i] ELSE f[i - 1] \o ss[i]]
              /\ FlattenSeq(ss) = f[Len(ss)]
  <1> DEFINE N == Len(ss)
             step == [x \in Nat \X Seq(S) |->
                        IF x[1] + 2 <= N THEN x[2] \o ss[x[1] + 2] ELSE x[2]]
  <1>1. N \in Nat \ {0} /\ \A i \in 1..N : ss[i] \in Seq(S)
    BY EmptySeq
  <1>2. step \in [Nat \X Seq(S) -> Seq(S)]
    BY <1>1
  <1>3. ss[1] \in Seq(S)
    BY <1>1
  <1>4. PICK g : Recursion(g, Seq(S), ss[1], step)
    <2> HIDE DEF step
    <2> QED BY <1>2, <1>3, NatRecursion, Zenon
  <1>5. /\ g \in [Nat -> Seq(S)] /\ g[0] = ss[1]
        /\ \A n \in Nat : g[n + 1] = step[<<n, g[n]>>]
    BY <1>4 DEF Recursion
  <1> DEFINE f == [i \in 1..N |-> g[i - 1]]
  <1>6. f \in [1..N -> Seq(S)]
    <2>1. \A i \in 1..N : i - 1 \in Nat
      BY <1>1
    <2> QED BY <1>5, <2>1
  <1>7. ASSUME NEW i \in 1..N PROVE f[i] = IF i = 1 THEN ss[i] ELSE f[i - 1] \o ss[i]
    <2>1. CASE i = 1
      BY <1>1, <1>5, <2>1
    <2>2. CASE i # 1
      <3>1. i - 2 \in Nat /\ i - 1 \in 1..N /\ (i - 2) + 1 = i - 1 /\ (i - 2) + 2 = i
        BY <1>1, <2>2
      <3>2. g[(i - 2) + 1] = step[<<i - 2, g[i - 2]>>]
        BY <1>5, <3>1
      <3>3. step[<<i - 2, g[i - 2]>>] = g[i - 2] \o ss[i]
        <4>1. <<i - 2, g[i - 2]>> \in Nat \X Seq(S)
          BY <1>5, <3>1
        <4>2. i <= N
          OBVIOUS
        <4> QED BY <3>1, <4>1, <4>2
      <3>4. f[i - 1] = g[i - 2] /\ f[i] = g[i - 1]
        BY <3>1
      <3> QED BY <2>2, <3>1, <3>2, <3>3, <3>4
    <2> QED BY <2>1, <2>2
  <1>8. f = [i \in 1..N |-> IF i = 1 THEN ss[i] ELSE f[i - 1] \o ss[i]]
    BY <1>7
  <1> HIDE DEF f
  <1> DEFINE R(h) == h = [i \in 1..N |-> IF i = 1 THEN ss[i] ELSE h[i - 1] \o ss[i]]
             c == CHOOSE h : R(h)
  <1>9. R(f)
    BY <1>8
  <1>10. R(c)
    <2> HIDE DEF R
    <2> QED BY ONLY <1>9 DEF c
  <1>11. FlattenSeq(ss) = c[N]
    BY <1>1 DEF FlattenSeq
  <1>12. ASSUME NEW i \in Nat PROVE i + 1 <= N => c[i + 1] = f[i + 1]
    <2> DEFINE T == {j \in Nat : j + 1 <= N => c[j + 1] = f[j + 1]}
    <2>1. ASSUME NEW k \in 1..N
          PROVE  /\ f[k] = IF k = 1 THEN ss[k] ELSE f[k - 1] \o ss[k]
                 /\ c[k] = IF k = 1 THEN ss[k] ELSE c[k - 1] \o ss[k]
      <3> HIDE DEF c, N
      <3> QED BY ONLY <1>9, <1>10, k \in 1..N
    <2>2. 0 \in T
      <3>1. 1 \in 1..N
        BY <1>1
      <3> HIDE DEF c, N
      <3> QED BY <2>1, <3>1
    <2>3. ASSUME NEW j \in Nat, j \in T PROVE j + 1 \in T
      <3> SUFFICES ASSUME (j + 1) + 1 <= N PROVE c[(j + 1) + 1] = f[(j + 1) + 1]
        BY <2>3
      <3>1. j + 1 <= N => c[j + 1] = f[j + 1]
        BY <2>3
      <3> HIDE DEF c, T, R, N
      <3>4. /\ j + 1 <= N /\ (j + 1) + 1 \in 1..N
            /\ (j + 1) + 1 # 1 /\ ((j + 1) + 1) - 1 = j + 1
        BY <1>1
      <3>5. /\ c[(j + 1) + 1] = c[j + 1] \o ss[(j + 1) + 1]
            /\ f[(j + 1) + 1] = f[j + 1] \o ss[(j + 1) + 1]
        BY ONLY <2>1, <3>4
      <3> QED BY <3>1, <3>4, <3>5, Zenon
    <2> HIDE DEF T
    <2>4. \A j \in Nat : j \in T
      BY <2>2, <2>3, NatInductionOnSet
    <2> QED BY <2>4 DEF T
  <1>13. c[N] = f[N]
    <2>1. N - 1 \in Nat /\ (N - 1) + 1 = N
      BY <1>1
    <2>2. (N - 1) + 1 <= N => c[(N - 1) + 1] = f[(N - 1) + 1]
      BY <1>12, <2>1, Zenon
    <2>3. N <= N
      BY <1>1
    <2> HIDE DEF c, N
    <2> QED BY <2>1, <2>2, <2>3
  <1> QED BY <1>6, <1>8, <1>11, <1>13

\* Nothing to flatten.
LEMMA FlattenEmpty == FlattenSeq(<<>>) = <<>>
  BY DEF FlattenSeq

\* Flattening a queue and one sequence behind it.
LEMMA FlattenAppend ==
    ASSUME NEW S, NEW ss \in Seq(Seq(S)), NEW t \in Seq(S)
    PROVE  /\ FlattenSeq(ss) \in Seq(S)
           /\ FlattenSeq(Append(ss, t)) = FlattenSeq(ss) \o t
  <1> DEFINE N == Len(ss)
             st == Append(ss, t)
  <1>1. /\ N \in Nat /\ st \in Seq(Seq(S)) /\ Len(st) = N + 1 /\ st # <<>>
        /\ st[N + 1] = t /\ \A i \in 1..N : st[i] = ss[i]
    <2>1. N \in Nat
      BY LenProperties, Zenon
    <2>2. /\ st \in Seq(Seq(S)) /\ st # <<>> /\ Len(st) = N + 1
          /\ \A i \in 1..N : st[i] = ss[i]
          /\ st[N + 1] = t
      <3> DEFINE Q == Seq(S)
      <3>1. ss \in Seq(Q) /\ t \in Q
        OBVIOUS
      <3> HIDE DEF Q
      <3>2. /\ st \in Seq(Q) /\ st # <<>> /\ Len(st) = N + 1
            /\ \A i \in 1..N : st[i] = ss[i]
            /\ st[N + 1] = t
        BY <3>1
      <3> QED BY <3>2 DEF Q
    <2> QED BY <2>1, <2>2
  <1>2. PICK g \in [1..Len(st) -> Seq(S)] :
              /\ g = [i \in 1..Len(st) |-> IF i = 1 THEN st[i] ELSE g[i - 1] \o st[i]]
              /\ FlattenSeq(st) = g[Len(st)]
    <2> HIDE DEF st
    <2> QED BY <1>1, FlattenRecursion
  <1>3. CASE ss = <<>>
    <2>1. N = 0 /\ FlattenSeq(ss) = <<>>
      BY <1>3, FlattenEmpty
    <2>2. FlattenSeq(st) = t
      <3> HIDE DEF st, N
      <3>1. 1 \in 1..Len(st) /\ Len(st) = 1 /\ st[1] = t
        BY <1>1, <2>1
      <3>2. g[1] = st[1]
        BY <1>2, <3>1
      <3> QED BY <1>2, <3>1, <3>2
    <2> QED BY <2>1, <2>2, ConcatEmptySeq, EmptySeq
  <1>4. CASE ss # <<>>
    <2>1. PICK f \in [1..N -> Seq(S)] :
                /\ f = [i \in 1..N |-> IF i = 1 THEN ss[i] ELSE f[i - 1] \o ss[i]]
                /\ FlattenSeq(ss) = f[N]
      BY <1>4, FlattenRecursion
    <2>2. N \in Nat \ {0}
      BY <1>4, EmptySeq
    <2> HIDE DEF st, N
    <2>3. \A i \in 1..N : f[i] = IF i = 1 THEN ss[i] ELSE f[i - 1] \o ss[i]
      BY <2>1
    <2>4. \A i \in 1..(N + 1) : g[i] = IF i = 1 THEN st[i] ELSE g[i - 1] \o st[i]
      BY <1>1, <1>2
    <2> DEFINE T == {j \in Nat : j + 1 <= N => g[j + 1] = f[j + 1]}
    <2>5. 0 \in T
      <3>1. 1 \in 1..N /\ 1 \in 1..(N + 1)
        BY <2>2
      <3>2. g[1] = st[1] /\ f[1] = ss[1] /\ st[1] = ss[1]
        BY <1>1, <2>3, <2>4, <3>1
      <3> QED BY <3>2
    <2>6. ASSUME NEW j \in Nat, j \in T PROVE j + 1 \in T
      <3> SUFFICES ASSUME j + 2 <= N PROVE g[j + 2] = f[j + 2]
        OBVIOUS
      <3>1. g[j + 1] = f[j + 1]
        BY <2>2, <2>6
      <3>2. /\ j + 2 \in 1..N /\ j + 2 \in 1..(N + 1) /\ j + 2 # 1
            /\ (j + 2) - 1 = j + 1
        BY <2>2
      <3>3. /\ g[j + 2] = g[j + 1] \o st[j + 2] /\ f[j + 2] = f[j + 1] \o ss[j + 2]
            /\ st[j + 2] = ss[j + 2]
        BY <1>1, <2>3, <2>4, <3>2
      <3> QED BY <3>1, <3>3
    <2> HIDE DEF T
    <2>7. \A j \in Nat : j \in T
      BY <2>5, <2>6, NatInductionOnSet
    <2>8. g[N] = f[N]
      <3>1. N - 1 \in T /\ (N - 1) + 1 = N
        BY <2>2, <2>7
      <3> QED BY <2>2, <3>1 DEF T
    <2>9. g[N + 1] = g[N] \o t
      <3>1. N + 1 \in 1..(N + 1) /\ N + 1 # 1 /\ (N + 1) - 1 = N
        BY <2>2
      <3> QED BY <1>1, <2>4, <3>1
    <2>10. f[N] \in Seq(S)
      BY <2>1, <2>2
    <2>11. FlattenSeq(st) = g[N + 1]
      BY <1>1, <1>2
    <2>12. FlattenSeq(ss) \in Seq(S) /\ FlattenSeq(st) = FlattenSeq(ss) \o t
      BY <2>1, <2>8, <2>9, <2>10, <2>11
    <2> QED BY <2>12 DEF st
  <1> QED BY <1>3, <1>4
=============================================================================
