----------------------------- MODULE DataLemmas ------------------------------
(***************************************************************************)
(* Induction over the natural numbers in a form the provers can use (over  *)
(* a set, and with functions for the steps, not operators), division, and  *)
(* what loops make of lists.                                               *)
(***************************************************************************)
EXTENDS Integers, Sequences, SequencesExt, Lists, FiniteSetTheorems, SequenceTheorems,
        WellFoundedInduction, TLAPS

\* A set of natural numbers that is not empty has a least element.
LEMMA LeastElement ==
  ASSUME NEW S, S \subseteq Nat, S # {}
  PROVE  \E least \in S : \A n \in S : least <= n
<1>1. PICK x \in S : \A y \in S : <<y, x>> \notin OpToRel(<, Nat)
  BY WFMin, NatLessThanWellFounded
<1>2. ASSUME NEW n \in S PROVE x <= n
  <2>1. <<n, x>> \in OpToRel(<, Nat) <=> n < x
    BY DEF OpToRel
  <2>2. ~(n < x)
    BY <1>1, <2>1
  <2>3. n \in Nat /\ x \in Nat
    OBVIOUS
  <2> QED BY <2>2, <2>3
<1> QED BY <1>2

\* A list stays one when a member of it is replaced.
LEMMA Replaced ==
  ASSUME NEW R, NEW s \in Seq(R), NEW i \in Nat, NEW r \in R
  PROVE  [s EXCEPT ![i] = r] \in Seq(R)
<1>1. DOMAIN s = 1..Len(s) /\ Len(s) \in Nat /\ \A j \in 1..Len(s) : s[j] \in R
  OBVIOUS
<1> DEFINE t == [s EXCEPT ![i] = r]
<1>2. DOMAIN t = 1..Len(s) /\ t = [j \in 1..Len(s) |-> t[j]]
  BY <1>1
<1>3. \A j \in 1..Len(s) : t[j] \in R
  BY <1>1
<1> HIDE DEF t
<1>4. t \in [1..Len(s) -> R]
  BY <1>2, <1>3
<1>5. t \in Seq(R)
  BY <1>1, <1>4, SeqDef, Zenon
<1> QED BY <1>5 DEF t

\* There are n numbers from 1 to n.
LEMMA OneTo ==
  ASSUME NEW n \in Nat
  PROVE  IsFiniteSet(1..n) /\ Cardinality(1..n) = n
<1>1. 1 \in Int /\ n \in Int /\ n - 1 + 1 = n
  OBVIOUS
<1>2. /\ IsFiniteSet(1..n)
      /\ Cardinality(1..n) = IF 1 > n THEN 0 ELSE n - 1 + 1
  BY <1>1, FS_Interval
<1> QED BY <1>1, <1>2


\* A set of natural numbers that has 0, and with a number the next one, has
\* all of them.
LEMMA SetInduction ==
  ASSUME NEW S, S \subseteq Nat, 0 \in S, \A n \in S : n + 1 \in S
  PROVE  \A n \in Nat : n \in S
<1> SUFFICES ASSUME Nat \ S # {} PROVE FALSE
  OBVIOUS
<1>1. PICK x \in Nat \ S : \A y \in Nat \ S : x <= y
  BY LeastElement
<1>2. x - 1 \in Nat /\ x - 1 \notin Nat \ S
  BY <1>1
<1>3. (x - 1) + 1 \in S
  BY <1>2
<1> QED BY <1>1, <1>3

\* f starts with v and goes on by step.
Iterates(f, v, step) == f[0] = v /\ \A n \in Nat : f[n + 1] = step[<<n, f[n]>>]

\* A sequence of values, each computed from the one before, exists: what a
\* recursive definition over the natural numbers needs.
LEMMA NatRecursion ==
  ASSUME NEW V, NEW v \in V, NEW step \in [Nat \X V -> V]
  PROVE  \E f \in [Nat -> V] : Iterates(f, v, step)
<1> DEFINE Good(n, f) == f[0] = v /\ \A i \in 0..(n - 1) : f[i + 1] = step[<<i, f[i]>>]
           Some == {n \in Nat : \E f \in [0..n -> V] : Good(n, f)}
           Same == {k \in Nat : \A n \in Nat : \A m \in Nat :
                      k <= n /\ k <= m =>
                        \A f \in [0..n -> V], g \in [0..m -> V] :
                          Good(n, f) /\ Good(m, g) => f[k] = g[k]}
<1>1. \A n \in Nat : n \in Some
  <2>1. 0 \in Some
    <3>1. Good(0, [i \in 0..0 |-> v]) /\ [i \in 0..0 |-> v] \in [0..0 -> V]
      OBVIOUS
    <3> QED BY <3>1
  <2>2. ASSUME NEW n \in Some PROVE n + 1 \in Some
    <3>1. PICK f \in [0..n -> V] : Good(n, f)
      OBVIOUS
    <3> DEFINE g == [i \in 0..(n + 1) |-> IF i = n + 1 THEN step[<<n, f[n]>>] ELSE f[i]]
    <3>2. n \in Nat /\ f[n] \in V /\ step[<<n, f[n]>>] \in V
      OBVIOUS
    <3>3. g \in [0..(n + 1) -> V]
      BY <3>2
    <3>4. g[n + 1] = step[<<n, f[n]>>] /\ \A i \in 0..n : g[i] = f[i]
      BY <3>2
    <3> HIDE DEF g
    <3>5. Good(n + 1, g)
      <4>1. g[0] = v
        BY <3>1, <3>2, <3>4
      <4>2. ASSUME NEW i \in 0..n PROVE g[i + 1] = step[<<i, g[i]>>]
        <5>1. CASE i = n
          BY <3>2, <3>4, <5>1
        <5>2. CASE i # n
          <6>1. i \in 0..(n - 1) /\ i + 1 \in 0..n
            BY <3>2, <5>2
          <6>2. f[i + 1] = step[<<i, f[i]>>]
            BY <3>1, <6>1
          <6> QED BY <6>1, <6>2, <3>4
        <5> QED BY <5>1, <5>2
      <4>3. (n + 1) - 1 = n
        BY <3>2
      <4> QED BY <4>1, <4>2, <4>3
    <3> QED BY <3>2, <3>3, <3>5
  <2> HIDE DEF Some
  <2>3. Some \subseteq Nat
    BY DEF Some
  <2> QED BY <2>1, <2>2, <2>3, SetInduction
<1>2. \A k \in Nat : k \in Same
  <2>1. 0 \in Same
    OBVIOUS
  <2>2. ASSUME NEW k \in Same PROVE k + 1 \in Same
    <3>1. k \in Nat
      OBVIOUS
    <3> SUFFICES ASSUME NEW n \in Nat, NEW m \in Nat, k + 1 <= n, k + 1 <= m,
                        NEW f \in [0..n -> V], NEW g \in [0..m -> V],
                        Good(n, f), Good(m, g)
                 PROVE  f[k + 1] = g[k + 1]
      BY <3>1
    <3>2. f[k] = g[k]
      <4> HIDE DEF Good
      <4>1. k <= n /\ k <= m
        BY <3>1
      <4> QED BY <4>1
    <3>3. f[k + 1] = step[<<k, f[k]>>] /\ g[k + 1] = step[<<k, g[k]>>]
      BY <3>1
    <3> QED BY <3>2, <3>3
  <2> HIDE DEF Same
  <2>3. Same \subseteq Nat
    BY DEF Same
  <2> QED BY <2>1, <2>2, <2>3, SetInduction
<1> DEFINE part(n) == CHOOSE f \in [0..n -> V] : Good(n, f)
           whole == [n \in Nat |-> part(n)[n]]
<1>3. \A n \in Nat : part(n) \in [0..n -> V] /\ Good(n, part(n))
  BY <1>1
<1> HIDE DEF part
<1>4. whole \in [Nat -> V]
  BY <1>3
<1>5. whole[0] = v
  BY <1>3
<1>6. ASSUME NEW n \in Nat PROVE whole[n + 1] = step[<<n, whole[n]>>]
  <2>1. part(n + 1)[n + 1] = step[<<n, part(n + 1)[n]>>]
    BY <1>3
  <2>2. part(n + 1)[n] = part(n)[n]
    <3>1. n \in Same
      <4> HIDE DEF Same
      <4> QED BY <1>2
    <3>2. n <= n /\ n <= n + 1 /\ n + 1 \in Nat
      OBVIOUS
    <3> HIDE DEF Good
    <3> QED BY <1>3, <3>1, <3>2
  <2> QED BY <2>1, <2>2
<1>7. Iterates(whole, v, step)
  BY <1>5, <1>6 DEF Iterates
<1> QED BY <1>4, <1>7

-----------------------------------------------------------------------------
(* Division.                                                               *)

\* Multiplication keeps order.
LEMMA MulMono ==
  ASSUME NEW a \in Nat, NEW b \in Nat, NEW c \in Nat
  PROVE  /\ a <= b => a * c <= b * c
         /\ a * c < b * c => a < b
BY SMTT(30)

\* The quotient is the one number whose multiple is just not too large.
LEMMA DivBounds ==
  ASSUME NEW a \in Nat, NEW c \in Nat \ {0}
  PROVE  a \div c \in Nat /\ (a \div c) * c <= a /\ a < (a \div c) * c + c
BY SMTT(30)

LEMMA DivIs ==
  ASSUME NEW a \in Nat, NEW c \in Nat \ {0}, NEW q \in Nat, q * c <= a, a < q * c + c
  PROVE  a \div c = q
<1> DEFINE d == a \div c
<1>1. d \in Nat /\ d * c <= a /\ a < d * c + c
  BY DivBounds
<1> HIDE DEF d
<1>2. (d + 1) * c = d * c + c /\ (q + 1) * c = q * c + c
  BY <1>1, SMT
<1>3. ASSUME d < q PROVE FALSE
  <2>1. (d + 1) * c <= q * c
    BY <1>1, <1>3, SMTT(30)
  <2> QED BY <1>1, <1>2, <2>1
<1>4. ASSUME q < d PROVE FALSE
  <2>1. (q + 1) * c <= d * c
    BY <1>1, <1>4, SMTT(30)
  <2> QED BY <1>1, <1>2, <2>1
<1>5. d = q
  BY <1>1, <1>3, <1>4
<1> QED BY <1>5 DEF d

\* Quotient and remainder make the number.
LEMMA ModIs ==
  ASSUME NEW h \in Nat, NEW c \in Nat \ {0}
  PROVE  h = c * (h \div c) + (h % c) /\ h % c \in 0..(c - 1) /\ h \div c \in Nat
BY SMTT(30)

\* Two multiples of a number are not closer than that number.
LEMMA NoMultipleBetween ==
  ASSUME NEW p \in Int, NEW q \in Int, NEW c \in Nat \ {0}, c * p < c * q, c * q < c * p + c
  PROVE  FALSE
<1>1. c * q < c * (p + 1)
  BY SMT
<1>2. ASSUME q >= p + 1 PROVE FALSE
  <2>1. c * q >= c * (p + 1)
    BY <1>2, SMTT(30)
  <2> QED BY <1>1, <2>1
<1>3. ASSUME q <= p PROVE FALSE
  <2>1. c * q <= c * p
    BY <1>3, SMTT(30)
  <2> QED BY <2>1
<1> QED BY <1>2, <1>3

\* A remainder of zero is what multiples have.
LEMMA MultipleIff ==
  ASSUME NEW h \in Nat, NEW c \in Nat \ {0}
  PROVE  h % c = 0 <=> \E q \in Nat : h = c * q
<1>1. h % c = 0 => h = c * (h \div c) /\ h \div c \in Nat
  BY ModIs
<1>2. ASSUME NEW q \in Nat, h = c * q PROVE h % c = 0
  <2> DEFINE d == h \div c
             r == h % c
  <2>1. h = c * d + r /\ r \in 0..(c - 1) /\ d \in Nat
    BY ModIs
  <2> HIDE DEF d, r
  <2>2. r > 0 => c * d < c * q /\ c * q < c * d + c
    BY <1>2, <2>1
  <2>3. ~(r > 0)
    BY <2>1, <2>2, NoMultipleBetween
  <2>4. r = 0
    BY <2>1, <2>3
  <2> QED BY <2>4 DEF r
<1> QED BY <1>1, <1>2

-----------------------------------------------------------------------------
(* What a loop that keeps some members of a list makes of it.              *)

\* The lists that the loop has made after each member.
Loop(f, s, P) ==
  /\ f[0] = <<>>
  /\ \A n \in 1..Len(s) : f[n] = IF n \in P THEN Append(f[n - 1], s[n]) ELSE f[n - 1]

LEMMA OnlyLoop ==
  ASSUME NEW R, NEW s \in Seq(R), NEW P
  PROVE  \E f \in [0..Len(s) -> Seq(R)] : Loop(f, s, P) /\ Only(s, P) = f[Len(s)]
<1> DEFINE V == Seq(R)
           N == Len(s)
           step == [p \in Nat \X V |-> IF p[1] + 1 \in P /\ p[1] + 1 \in 1..N
                                       THEN Append(p[2], s[p[1] + 1]) ELSE p[2]]
<1>1. N \in Nat /\ \A n \in 1..N : s[n] \in R
  OBVIOUS
<1> HIDE DEF N
<1>2. step \in [Nat \X V -> V]
  <2> SUFFICES ASSUME NEW p \in Nat \X V
               PROVE  (IF p[1] + 1 \in P /\ p[1] + 1 \in 1..N
                       THEN Append(p[2], s[p[1] + 1]) ELSE p[2]) \in V
    OBVIOUS
  <2>1. p[2] \in Seq(R)
    OBVIOUS
  <2>2. ASSUME p[1] + 1 \in 1..N PROVE Append(p[2], s[p[1] + 1]) \in Seq(R)
    BY <1>1, <2>1, <2>2
  <2> QED BY <2>1, <2>2
<1>3. <<>> \in V
  OBVIOUS
<1>4. \A n \in Nat, y \in V :
        step[<<n, y>>] = IF n + 1 \in P /\ n + 1 \in 1..N THEN Append(y, s[n + 1]) ELSE y
  OBVIOUS
<1> HIDE DEF step, V
<1>5. PICK g \in [Nat -> V] : Iterates(g, <<>>, step)
  BY <1>2, <1>3, NatRecursion
<1> DEFINE body(h) == [n \in 0..N |-> IF n = 0 THEN <<>>
                                      ELSE IF n \in P THEN Append(h[n - 1], s[n]) ELSE h[n - 1]]
           f == [n \in 0..N |-> g[n]]
<1>6. f[0] = <<>> /\ \A n \in 1..N : f[n] = IF n \in P THEN Append(f[n - 1], s[n]) ELSE f[n - 1]
  <2>1. f[0] = <<>>
    BY <1>1, <1>5 DEF Iterates
  <2>2. ASSUME NEW n \in 1..N
        PROVE  f[n] = IF n \in P THEN Append(f[n - 1], s[n]) ELSE f[n - 1]
    <3>1. n - 1 \in Nat /\ (n - 1) + 1 = n /\ n \in 0..N /\ n - 1 \in 0..N /\ n \in Nat
      BY <1>1
    <3>2. g[(n - 1) + 1] = step[<<n - 1, g[n - 1]>>] /\ g[n - 1] \in V
      BY <1>5, <3>1 DEF Iterates
    <3>3. g[n] = IF n \in P THEN Append(g[n - 1], s[n]) ELSE g[n - 1]
      BY <1>4, <3>1, <3>2
    <3> QED BY <3>1, <3>3
  <2> QED BY <2>1, <2>2
<1>7. f = body(f)
  <2>1. ASSUME NEW n \in 0..N
        PROVE  f[n] = IF n = 0 THEN <<>>
                      ELSE IF n \in P THEN Append(f[n - 1], s[n]) ELSE f[n - 1]
    <3>1. n = 0 \/ n \in 1..N
      BY <1>1
    <3> HIDE DEF f
    <3> QED BY <1>1, <1>6, <3>1
  <2>2. f = [n \in 0..N |-> f[n]]
    OBVIOUS
  <2> HIDE DEF f
  <2> QED BY <2>1, <2>2
<1> HIDE DEF f
<1> DEFINE only == CHOOSE h : h = body(h)
<1>8. only = body(only)
  BY <1>7
<1>9. Only(s, P) = only[N]
  BY DEF Only, N
<1> HIDE DEF only
<1> DEFINE S == {n \in Nat : n <= N => only[n] \in V}
<1>10. \A n \in Nat : n \in S
  <2>1. 0 \in S
    BY <1>1, <1>3, <1>8
  <2>2. ASSUME NEW n \in S PROVE n + 1 \in S
    <3> SUFFICES ASSUME n + 1 <= N PROVE only[n + 1] \in V
      OBVIOUS
    <3>1. n + 1 \in 0..N /\ n + 1 # 0 /\ (n + 1) - 1 = n /\ n \in Nat /\ n <= N /\ n + 1 \in 1..N
      BY <1>1
    <3>2. only[n + 1] = IF n + 1 \in P THEN Append(only[n], s[n + 1]) ELSE only[n]
      BY <1>8, <3>1
    <3>3. only[n] \in Seq(R)
      BY <3>1 DEF V
    <3> QED BY <1>1, <3>1, <3>2, <3>3 DEF V
  <2>3. S \subseteq Nat
    OBVIOUS
  <2> HIDE DEF S
  <2> QED BY <2>1, <2>2, <2>3, SetInduction
<1>11. only \in [0..N -> Seq(R)]
  <2>1. \A n \in 0..N : only[n] \in Seq(R)
    BY <1>1, <1>10 DEF V
  <2>2. only = [n \in 0..N |-> only[n]]
    BY <1>8
  <2> HIDE DEF V
  <2> QED BY <2>1, <2>2
<1>12. Loop(only, s, P)
  <2>1. \A n \in 1..N : n \in 0..N /\ n # 0
    BY <1>1
  <2>2. 0 \in 0..N
    BY <1>1
  <2> QED BY <1>8, <2>1, <2>2 DEF Loop, N
<1> QED BY <1>9, <1>11, <1>12 DEF N

\* Which member of s each member of its part t is: places in P, each once.
IndexOf(idx, t, s, n, P) ==
  /\ \A k \in 1..Len(t) : idx[k] \in P /\ idx[k] \in 1..n /\ t[k] = s[idx[k]]
  /\ \A j, k \in 1..Len(t) : idx[j] = idx[k] => j = k
  /\ \A i \in 1..n : i \in P => \E k \in 1..Len(t) : idx[k] = i

\* What is kept are the members at the places P, each once.
LEMMA OnlyIs ==
  ASSUME NEW R, NEW s \in Seq(R), NEW P
  PROVE  /\ Only(s, P) \in Seq(R)
         /\ \E idx \in [1..Len(Only(s, P)) -> Nat] : IndexOf(idx, Only(s, P), s, Len(s), P)
<1> DEFINE N == Len(s)
<1>1. PICK f \in [0..N -> Seq(R)] : Loop(f, s, P) /\ Only(s, P) = f[N]
  BY OnlyLoop
<1>2. N \in Nat /\ \A n \in 1..N : s[n] \in R
  OBVIOUS
<1>3. f[0] = <<>> /\ \A n \in 1..N : f[n] = IF n \in P THEN Append(f[n - 1], s[n]) ELSE f[n - 1]
  BY <1>1 DEF Loop
<1> HIDE DEF N
<1> DEFINE Some(n) == \E idx \in [1..Len(f[n]) -> Nat] : IndexOf(idx, f[n], s, n, P)
           S == {n \in Nat : n <= N => Some(n)}
<1>4. 0 \in S
  <2>1. Len(f[0]) = 0
    BY <1>3
  <2>2. [k \in 1..0 |-> 0] \in [1..0 -> Nat]
    OBVIOUS
  <2>3. IndexOf([k \in 1..0 |-> 0], f[0], s, 0, P)
    BY <2>1 DEF IndexOf
  <2> QED BY <2>1, <2>2, <2>3
<1>5. ASSUME NEW n \in S PROVE n + 1 \in S
  <2> SUFFICES ASSUME n + 1 <= N PROVE Some(n + 1)
    OBVIOUS
  <2>1. n \in Nat /\ n \in 0..N /\ n + 1 \in 1..N /\ (n + 1) - 1 = n /\ n <= N
    BY <1>2
  <2>2. PICK idx \in [1..Len(f[n]) -> Nat] : IndexOf(idx, f[n], s, n, P)
    BY <2>1
  <2> DEFINE t == f[n]
             L == Len(t)
  <2>3. t \in Seq(R) /\ L \in Nat
    BY <2>1
  <2>4. IndexOf(idx, t, s, n, P) /\ idx \in [1..L -> Nat]
    BY <2>2
  <2>5. f[n + 1] = IF n + 1 \in P THEN Append(t, s[n + 1]) ELSE t
    BY <1>3, <2>1
  <2> HIDE DEF t, S
  <2>6. CASE n + 1 \in P
    <3> DEFINE u == Append(t, s[n + 1])
               jdx == [k \in 1..(L + 1) |-> IF k = L + 1 THEN n + 1 ELSE idx[k]]
    <3>1. /\ Len(u) = L + 1 /\ u[L + 1] = s[n + 1] /\ \A k \in 1..L : u[k] = t[k]
      BY <1>2, <2>1, <2>3
    <3>2. jdx \in [1..(L + 1) -> Nat]
      BY <2>1, <2>3, <2>4
    <3>3. jdx[L + 1] = n + 1 /\ \A k \in 1..L : jdx[k] = idx[k]
      BY <2>3
    <3> HIDE DEF u, jdx, L
    <3>4. \A k \in 1..(L + 1) : k = L + 1 \/ k \in 1..L
      BY <2>3
    <3>5. \A k \in 1..L : idx[k] \in P /\ idx[k] \in 1..n /\ t[k] = s[idx[k]]
      BY <2>4 DEF IndexOf, L
    <3>6. \A k \in 1..(L + 1) : jdx[k] \in P /\ jdx[k] \in 1..(n + 1) /\ u[k] = s[jdx[k]]
      <4> SUFFICES ASSUME NEW k \in 1..(L + 1)
                   PROVE  jdx[k] \in P /\ jdx[k] \in 1..(n + 1) /\ u[k] = s[jdx[k]]
        OBVIOUS
      <4>1. CASE k = L + 1
        BY <2>1, <2>6, <3>1, <3>3, <4>1
      <4>2. CASE k \in 1..L
        BY <2>1, <3>1, <3>3, <3>5, <4>2
      <4> QED BY <3>4, <4>1, <4>2
    <3>7. \A j, k \in 1..(L + 1) : jdx[j] = jdx[k] => j = k
      <4> SUFFICES ASSUME NEW j \in 1..(L + 1), NEW k \in 1..(L + 1), jdx[j] = jdx[k]
                   PROVE  j = k
        OBVIOUS
      <4>1. \A i \in 1..L : idx[i] # n + 1
        BY <2>1, <3>5
      <4>2. \A a, b \in 1..L : idx[a] = idx[b] => a = b
        BY <2>4 DEF IndexOf, L
      <4> QED BY <3>3, <3>4, <4>1, <4>2
    <3>8. \A i \in 1..(n + 1) : i \in P => \E k \in 1..(L + 1) : jdx[k] = i
      <4> SUFFICES ASSUME NEW i \in 1..(n + 1), i \in P
                   PROVE  \E k \in 1..(L + 1) : jdx[k] = i
        OBVIOUS
      <4>1. CASE i = n + 1
        <5>1. L + 1 \in 1..(L + 1)
          BY <2>3
        <5> QED BY <3>3, <4>1, <5>1
      <4>2. CASE i # n + 1
        <5>1. i \in 1..n
          BY <2>1, <4>2
        <5>2. PICK k \in 1..L : idx[k] = i
          BY <2>4, <5>1 DEF IndexOf, L
        <5>3. k \in 1..(L + 1)
          BY <2>3
        <5> QED BY <3>3, <5>2, <5>3
      <4> QED BY <4>1, <4>2
    <3>9. IndexOf(jdx, u, s, n + 1, P)
      BY <3>1, <3>6, <3>7, <3>8 DEF IndexOf
    <3>10. f[n + 1] = u
      BY <2>5, <2>6 DEF u
    <3> QED BY <3>1, <3>2, <3>9, <3>10
  <2>7. CASE n + 1 \notin P
    <3>1. f[n + 1] = t
      BY <2>5, <2>7
    <3>2. \A i \in 1..(n + 1) : i = n + 1 \/ i \in 1..n
      BY <2>1
    <3>3. 1..n \subseteq 1..(n + 1)
      BY <2>1
    <3>4. IndexOf(idx, t, s, n + 1, P)
      BY <2>4, <2>7, <3>2, <3>3 DEF IndexOf
    <3> QED BY <2>4, <3>1, <3>4
  <2> QED BY <2>6, <2>7
<1>6. S \subseteq Nat
  OBVIOUS
<1>7. N \in S
  <2> HIDE DEF S
  <2> QED BY <1>2, <1>4, <1>5, <1>6, SetInduction
<1>8. Some(N)
  BY <1>2, <1>7
<1>9. N \in 0..N
  BY <1>2
<1> QED BY <1>1, <1>8, <1>9 DEF N

\* The places up to m: the part up to m.
LEMMA OnlyPrefix ==
  ASSUME NEW R, NEW s \in Seq(R), NEW m \in 0..Len(s), NEW P, \A i \in 1..Len(s) : i \in P <=> i <= m
  PROVE  Only(s, P) = [k \in 1..m |-> s[k]]
<1> DEFINE N == Len(s)
<1>1. PICK f \in [0..N -> Seq(R)] : Loop(f, s, P) /\ Only(s, P) = f[N]
  BY OnlyLoop
<1>2. N \in Nat /\ \A n \in 1..N : s[n] \in R
  OBVIOUS
<1>3. f[0] = <<>> /\ \A n \in 1..N : f[n] = IF n \in P THEN Append(f[n - 1], s[n]) ELSE f[n - 1]
  BY <1>1 DEF Loop
<1>4. m \in 0..N /\ \A i \in 1..N : i \in P <=> i <= m
  OBVIOUS
<1> HIDE DEF N
<1> DEFINE part(n) == [k \in 1..n |-> s[k]]
           S == {n \in Nat : n <= N => f[n] = IF n <= m THEN part(n) ELSE part(m)}
<1>5. 0 \in S
  <2>1. part(0) = <<>>
    OBVIOUS
  <2> QED BY <1>2, <1>3, <1>4, <2>1
<1>6. ASSUME NEW n \in S PROVE n + 1 \in S
  <2> SUFFICES ASSUME n + 1 <= N
               PROVE  f[n + 1] = IF n + 1 <= m THEN part(n + 1) ELSE part(m)
    OBVIOUS
  <2>1. n \in Nat /\ n + 1 \in 1..N /\ (n + 1) - 1 = n /\ n <= N /\ m \in Nat
    BY <1>2, <1>4
  <2>2. f[n + 1] = IF n + 1 <= m THEN Append(f[n], s[n + 1]) ELSE f[n]
    BY <1>3, <1>4, <2>1
  <2>3. CASE n + 1 <= m
    <3>1. f[n] = part(n) /\ f[n + 1] = Append(f[n], s[n + 1])
      BY <2>1, <2>2, <2>3
    <3>2. part(n) \in Seq(R) /\ Len(part(n)) = n
      BY <1>2, <2>1
    <3>3. Append(part(n), s[n + 1]) = part(n + 1)
      BY <1>2, <2>1, <3>2
    <3> QED BY <2>3, <3>1, <3>3
  <2>4. CASE ~(n + 1 <= m)
    <3>1. f[n] = part(m)
      <4>1. CASE n <= m
        <5>1. n = m
          BY <2>1, <2>4, <4>1
        <5> QED BY <2>1, <5>1
      <4>2. CASE ~(n <= m)
        BY <2>1, <4>2
      <4> QED BY <4>1, <4>2
    <3> QED BY <2>2, <2>4, <3>1
  <2> QED BY <2>3, <2>4
<1>7. S \subseteq Nat
  OBVIOUS
<1>8. N \in S
  <2> HIDE DEF S
  <2> QED BY <1>2, <1>5, <1>6, <1>7, SetInduction
<1>9. f[N] = part(m)
  <2>1. N <= m => N = m
    BY <1>2, <1>4
  <2>2. N <= N
    BY <1>2
  <2> QED BY <1>8, <2>1, <2>2
<1> QED BY <1>1, <1>9

\* The places from m on: the part from m on.
LEMMA OnlySuffix ==
  ASSUME NEW R, NEW s \in Seq(R), NEW m \in 0..Len(s), NEW P, \A i \in 1..Len(s) : i \in P <=> i > m
  PROVE  Only(s, P) = [k \in 1..(Len(s) - m) |-> s[m + k]]
<1> DEFINE N == Len(s)
<1>1. PICK f \in [0..N -> Seq(R)] : Loop(f, s, P) /\ Only(s, P) = f[N]
  BY OnlyLoop
<1>2. N \in Nat /\ \A n \in 1..N : s[n] \in R
  OBVIOUS
<1>3. f[0] = <<>> /\ \A n \in 1..N : f[n] = IF n \in P THEN Append(f[n - 1], s[n]) ELSE f[n - 1]
  BY <1>1 DEF Loop
<1>4. m \in 0..N /\ \A i \in 1..N : i \in P <=> i > m
  OBVIOUS
<1> HIDE DEF N
<1> DEFINE part(n) == [k \in 1..(n - m) |-> s[m + k]]
           S == {n \in Nat : n <= N => f[n] = part(n)}
<1>5. ASSUME NEW n \in 0..m PROVE part(n) = <<>>
  <2>1. 1..(n - m) = {}
    BY <1>4
  <2> QED BY <2>1
<1>6. 0 \in S
  BY <1>3, <1>4, <1>5
<1>7. ASSUME NEW n \in S PROVE n + 1 \in S
  <2> SUFFICES ASSUME n + 1 <= N PROVE f[n + 1] = part(n + 1)
    OBVIOUS
  <2>1. n \in Nat /\ n + 1 \in 1..N /\ (n + 1) - 1 = n /\ n <= N /\ m \in Nat
    BY <1>2, <1>4
  <2>2. f[n] = part(n)
    BY <2>1
  <2>3. f[n + 1] = IF n + 1 > m THEN Append(f[n], s[n + 1]) ELSE f[n]
    BY <1>3, <1>4, <2>1
  <2>4. CASE n + 1 > m
    <3>1. n - m \in Nat /\ (n + 1) - m = (n - m) + 1 /\ m + ((n - m) + 1) = n + 1
      BY <2>1, <2>4
    <3>2. \A k \in 1..(n - m) : s[m + k] \in R
      BY <1>2, <2>1
    <3>3. part(n) \in Seq(R) /\ Len(part(n)) = n - m
      BY <3>1, <3>2
    <3>4. Append(part(n), s[n + 1]) = part(n + 1)
      BY <1>2, <2>1, <3>1, <3>3
    <3> QED BY <2>2, <2>3, <2>4, <3>4
  <2>5. CASE ~(n + 1 > m)
    <3>1. n \in 0..m /\ n + 1 \in 0..m
      BY <2>1, <2>5
    <3> QED BY <1>5, <2>2, <2>3, <2>5, <3>1
  <2> QED BY <2>4, <2>5
<1>8. S \subseteq Nat
  OBVIOUS
<1>9. N \in S
  <2> HIDE DEF S
  <2> QED BY <1>2, <1>6, <1>7, <1>8, SetInduction
<1>10. f[N] = part(N)
  <2>1. N <= N
    BY <1>2
  <2> QED BY <1>9, <2>1
<1> QED BY <1>1, <1>10 DEF N

LEMMA AppendConcat ==
  ASSUME NEW R, NEW a \in Seq(R), NEW b \in Seq(R), NEW x \in R
  PROVE  a \o Append(b, x) = Append(a \o b, x)
<1>1. /\ Append(b, x) = b \o <<x>> /\ Append(a \o b, x) = (a \o b) \o <<x>>
      /\ <<x>> \in Seq(R) /\ a \o b \in Seq(R)
  BY AppendIsConcat
<1> QED BY <1>1, ConcatAssociative

\* Two lists, one after the other: what is kept of the first, then of the
\* second.
LEMMA OnlyConcat ==
  ASSUME NEW R, NEW s \in Seq(R), NEW t \in Seq(R), NEW P, NEW Q, NEW O,
         \A i \in 1..Len(s) : i \in O <=> i \in P,
         \A i \in 1..Len(t) : Len(s) + i \in O <=> i \in Q
  PROVE  Only(s \o t, O) = Only(s, P) \o Only(t, Q)
<1> DEFINE M == Len(s)
           N == Len(t)
           u == s \o t
<1>1. /\ M \in Nat /\ N \in Nat /\ u \in Seq(R) /\ Len(u) = M + N
      /\ \A i \in 1..M : u[i] = s[i]
      /\ \A i \in 1..N : u[M + i] = t[i] /\ t[i] \in R
  OBVIOUS
<1> HIDE DEF u
<1>2. PICK f \in [0..Len(u) -> Seq(R)] : Loop(f, u, O) /\ Only(u, O) = f[Len(u)]
  <2>1. u \in Seq(R)
    BY <1>1
  <2> QED BY <2>1, OnlyLoop
<1>3. PICK g \in [0..M -> Seq(R)] : Loop(g, s, P) /\ Only(s, P) = g[M]
  BY OnlyLoop
<1>4. PICK h \in [0..N -> Seq(R)] : Loop(h, t, Q) /\ Only(t, Q) = h[N]
  BY OnlyLoop
<1>5. /\ f[0] = <<>> /\ g[0] = <<>> /\ h[0] = <<>>
      /\ \A n \in 1..(M + N) : f[n] = IF n \in O THEN Append(f[n - 1], u[n]) ELSE f[n - 1]
      /\ \A n \in 1..M : g[n] = IF n \in P THEN Append(g[n - 1], s[n]) ELSE g[n - 1]
      /\ \A n \in 1..N : h[n] = IF n \in Q THEN Append(h[n - 1], t[n]) ELSE h[n - 1]
  BY <1>1, <1>2, <1>3, <1>4 DEF Loop
<1>6. /\ \A i \in 1..M : i \in O <=> i \in P
      /\ \A i \in 1..N : M + i \in O <=> i \in Q
  OBVIOUS
<1> HIDE DEF M, N
<1> DEFINE S == {n \in Nat : n <= M => f[n] = g[n]}
           T == {n \in Nat : n <= N => f[M + n] = g[M] \o h[n]}
<1>7. \A n \in Nat : n \in S
  <2>1. 0 \in S
    BY <1>5
  <2>2. ASSUME NEW n \in S PROVE n + 1 \in S
    <3> SUFFICES ASSUME n + 1 <= M PROVE f[n + 1] = g[n + 1]
      OBVIOUS
    <3>1. n + 1 \in 1..(M + N) /\ n + 1 \in 1..M /\ (n + 1) - 1 = n /\ n <= M
      BY <1>1
    <3>2. /\ f[n + 1] = IF n + 1 \in O THEN Append(f[n], u[n + 1]) ELSE f[n]
          /\ g[n + 1] = IF n + 1 \in P THEN Append(g[n], s[n + 1]) ELSE g[n]
      BY <1>5, <3>1
    <3>3. f[n] = g[n] /\ u[n + 1] = s[n + 1] /\ (n + 1 \in O <=> n + 1 \in P)
      BY <1>1, <1>6, <3>1
    <3> QED BY <3>2, <3>3
  <2> HIDE DEF S
  <2>3. S \subseteq Nat
    BY DEF S
  <2> QED BY <2>1, <2>2, <2>3, SetInduction
<1>8. f[M] = g[M] /\ g[M] \in Seq(R)
  BY <1>1, <1>3, <1>7
<1> HIDE DEF S
<1>9. \A n \in Nat : n \in T
  <2>1. 0 \in T
    <3>1. g[M] \o h[0] = g[M] /\ M + 0 = M
      BY <1>1, <1>5, <1>8
    <3> QED BY <1>8, <3>1
  <2>2. ASSUME NEW n \in T PROVE n + 1 \in T
    <3>. n + 1 \in Nat
      OBVIOUS
    <3> SUFFICES ASSUME n + 1 <= N PROVE f[M + (n + 1)] = g[M] \o h[n + 1]
      BY Zenon
    <3>1. /\ M + (n + 1) \in 1..(M + N) /\ n + 1 \in 1..N /\ (n + 1) - 1 = n /\ n <= N /\ n \in Nat
          /\ (M + (n + 1)) - 1 = M + n /\ n \in 0..N
      BY <1>1
    <3>2. /\ f[M + (n + 1)] = IF M + (n + 1) \in O THEN Append(f[M + n], u[M + (n + 1)]) ELSE f[M + n]
          /\ h[n + 1] = IF n + 1 \in Q THEN Append(h[n], t[n + 1]) ELSE h[n]
      BY <1>5, <3>1
    <3>3. f[M + n] = g[M] \o h[n] /\ u[M + (n + 1)] = t[n + 1] /\ t[n + 1] \in R /\ h[n] \in Seq(R)
      BY <1>1, <1>4, <3>1
    <3>4. M + (n + 1) \in O <=> n + 1 \in Q
      BY <1>6, <3>1
    <3>5. g[M] \o Append(h[n], t[n + 1]) = Append(g[M] \o h[n], t[n + 1])
      <4>1. g[M] \in Seq(R) /\ h[n] \in Seq(R) /\ t[n + 1] \in R
        BY <1>8, <3>3
      <4>2. \A a \in Seq(R), b \in Seq(R), x \in R : a \o Append(b, x) = Append(a \o b, x)
        BY AppendConcat
      <4> QED BY <4>1, <4>2, Zenon
    <3> QED BY <3>2, <3>3, <3>4, <3>5
  <2> HIDE DEF T
  <2>3. T \subseteq Nat
    BY DEF T
  <2> QED BY <2>1, <2>2, <2>3, SetInduction
<1>10. f[M + N] = g[M] \o h[N]
  <2>1. N <= N
    BY <1>1
  <2> QED BY <1>1, <1>9, <2>1
<1> QED BY <1>1, <1>2, <1>3, <1>4, <1>10 DEF u

\* f[n] is the state of a loop over 1..N after n steps.
Repeats(f, v, step, N) == f[0] = v /\ \A n \in 1..N : f[n] = step[<<n, f[n - 1]>>]

\* A loop that keeps a state: its states exist.
LEMMA LoopExists ==
  ASSUME NEW V, NEW v \in V, NEW N \in Nat, NEW step \in [(1..N) \X V -> V]
  PROVE  \E f \in [0..N -> V] : Repeats(f, v, step, N)
<1> DEFINE next == [x \in Nat \X V |-> IF x[1] + 1 \in 1..N THEN step[<<x[1] + 1, x[2]>>] ELSE x[2]]
<1>1. next \in [Nat \X V -> V]
  OBVIOUS
<1>2. \A n \in 1..N, y \in V : n - 1 \in Nat /\ next[<<n - 1, y>>] = step[<<n, y>>]
  OBVIOUS
<1> HIDE DEF next
<1>3. PICK g \in [Nat -> V] : Iterates(g, v, next)
  BY <1>1, NatRecursion
<1> DEFINE f == [n \in 0..N |-> g[n]]
<1>4. f \in [0..N -> V] /\ f[0] = v
  BY <1>3 DEF Iterates
<1>5. ASSUME NEW n \in 1..N PROVE f[n] = step[<<n, f[n - 1]>>]
  <2>1. n - 1 \in Nat /\ (n - 1) + 1 = n /\ n \in 0..N /\ n - 1 \in 0..N
    OBVIOUS
  <2>2. g[(n - 1) + 1] = next[<<n - 1, g[n - 1]>>] /\ g[n - 1] \in V
    BY <1>3, <2>1 DEF Iterates
  <2> QED BY <1>2, <2>1, <2>2
<1> QED BY <1>4, <1>5 DEF Repeats

\* The member at a place in P is kept at the place that is its rank in P.
LEMMA OnlyRank ==
  ASSUME NEW R, NEW s \in Seq(R), NEW P, P \subseteq 1..Len(s)
  PROVE  /\ Only(s, P) \in Seq(R) /\ Len(Only(s, P)) = Cardinality(P) /\ IsFiniteSet(P)
         /\ \A n \in P : /\ Cardinality((1..n) \cap P) \in 1..Cardinality(P)
                         /\ Only(s, P)[Cardinality((1..n) \cap P)] = s[n]
<1> DEFINE N == Len(s)
           Rank(n) == Cardinality((1..n) \cap P)
<1>1. PICK f \in [0..N -> Seq(R)] : Loop(f, s, P) /\ Only(s, P) = f[N]
  BY OnlyLoop
<1>2. N \in Nat /\ \A n \in 1..N : s[n] \in R
  OBVIOUS
<1>3. f[0] = <<>> /\ \A n \in 1..N : f[n] = IF n \in P THEN Append(f[n - 1], s[n]) ELSE f[n - 1]
  BY <1>1 DEF Loop
<1>4. P \subseteq 1..N
  OBVIOUS
<1> HIDE DEF N
<1>5. \A n \in Nat : IsFiniteSet((1..n) \cap P) /\ Rank(n) \in Nat
  <2> SUFFICES ASSUME NEW n \in Nat PROVE IsFiniteSet((1..n) \cap P) /\ Rank(n) \in Nat
    OBVIOUS
  <2>1. IsFiniteSet(1..n)
    BY FS_Interval
  <2>2. IsFiniteSet((1..n) \cap P)
    BY <2>1, FS_Intersection
  <2> QED BY <2>2, FS_CardinalityType
<1>6. ASSUME NEW n \in Nat
      PROVE  Rank(n + 1) = IF n + 1 \in P THEN Rank(n) + 1 ELSE Rank(n)
  <2>1. CASE n + 1 \in P
    <3>1. (1..(n + 1)) \cap P = ((1..n) \cap P) \cup {n + 1} /\ n + 1 \notin (1..n) \cap P
      BY <2>1
    <3>2. Cardinality(((1..n) \cap P) \cup {n + 1}) = Cardinality((1..n) \cap P) + 1
      BY <1>5, <3>1, FS_AddElement
    <3> QED BY <2>1, <3>1, <3>2
  <2>2. CASE n + 1 \notin P
    <3>1. (1..(n + 1)) \cap P = (1..n) \cap P
      BY <2>2
    <3> QED BY <2>2, <3>1
  <2> QED BY <2>1, <2>2
<1>7. Rank(0) = 0
  <2>1. (1..0) \cap P = {}
    OBVIOUS
  <2> QED BY <2>1, FS_EmptySet
<1> HIDE DEF Rank
<1> DEFINE Right(n) == /\ Len(f[n]) = Rank(n)
                       /\ \A m \in (1..n) \cap P : Rank(m) \in 1..Rank(n) /\ f[n][Rank(m)] = s[m]
           S == {n \in Nat : n <= N => Right(n)}
<1>8. 0 \in S
  BY <1>3, <1>7
<1>9. ASSUME NEW n \in S PROVE n + 1 \in S
  <2> SUFFICES ASSUME n + 1 <= N PROVE Right(n + 1)
    OBVIOUS
  <2>1. n \in Nat /\ n \in 0..N /\ n + 1 \in 1..N /\ (n + 1) - 1 = n /\ n <= N
    BY <1>2
  <2>2. f[n] \in Seq(R) /\ Right(n)
    BY <2>1
  <2>3. f[n + 1] = IF n + 1 \in P THEN Append(f[n], s[n + 1]) ELSE f[n]
    BY <1>3, <2>1
  <2>4. Rank(n) \in Nat /\ Rank(n + 1) = IF n + 1 \in P THEN Rank(n) + 1 ELSE Rank(n)
    BY <1>5, <1>6, <2>1 DEF Rank
  <2>5. \A m \in 1..(n + 1) : m = n + 1 \/ m \in 1..n
    BY <2>1
  <2> HIDE DEF S
  <2>6. CASE n + 1 \in P
    <3> DEFINE t == f[n]
               u == Append(t, s[n + 1])
    <3>1. /\ Len(u) = Len(t) + 1 /\ u[Len(t) + 1] = s[n + 1]
          /\ \A k \in 1..Len(t) : u[k] = t[k]
      BY <1>2, <2>1, <2>2
    <3>2. f[n + 1] = u /\ Rank(n + 1) = Rank(n) + 1
      BY <2>3, <2>4, <2>6
    <3> HIDE DEF u
    <3>3. Len(t) = Rank(n) /\ \A m \in (1..n) \cap P : Rank(m) \in 1..Rank(n) /\ t[Rank(m)] = s[m]
      BY <2>2
    <3> HIDE DEF t
    <3>4. Len(f[n + 1]) = Rank(n + 1)
      BY <3>1, <3>2, <3>3
    <3>5. ASSUME NEW m \in (1..(n + 1)) \cap P
          PROVE  Rank(m) \in 1..Rank(n + 1) /\ f[n + 1][Rank(m)] = s[m]
      <4>1. CASE m = n + 1
        BY <2>4, <3>1, <3>2, <3>3, <4>1
      <4>2. CASE m \in 1..n
        <5>1. Rank(m) \in 1..Rank(n) /\ t[Rank(m)] = s[m]
          BY <3>3, <4>2
        <5>2. Rank(m) \in 1..Rank(n + 1) /\ Rank(m) \in 1..Len(t)
          BY <2>4, <3>2, <3>3, <5>1
        <5> QED BY <3>1, <3>2, <5>1, <5>2
      <4> QED BY <2>5, <4>1, <4>2
    <3> QED BY <3>4, <3>5
  <2>7. CASE n + 1 \notin P
    <3>1. f[n + 1] = f[n] /\ Rank(n + 1) = Rank(n)
      BY <2>3, <2>4, <2>7
    <3>2. (1..(n + 1)) \cap P = (1..n) \cap P
      <4>1. 1..n \subseteq 1..(n + 1)
        BY <2>1
      <4> QED BY <2>5, <2>7, <4>1, Zenon
    <3> QED BY <2>2, <3>1, <3>2
  <2> QED BY <2>6, <2>7
<1>10. S \subseteq Nat
  OBVIOUS
<1>11. N \in S
  <2> HIDE DEF S
  <2> QED BY <1>2, <1>8, <1>9, <1>10, SetInduction
<1>12. Right(N)
  BY <1>2, <1>11
<1>13. (1..N) \cap P = P
  BY <1>4
<1>14. Rank(N) = Cardinality(P) /\ IsFiniteSet(P)
  BY <1>2, <1>5, <1>13 DEF Rank
<1>15. f[N] \in Seq(R)
  BY <1>1, <1>2
<1> QED BY <1>1, <1>12, <1>13, <1>14, <1>15 DEF Rank

\* Where the lists that are chained together begin and end: off[i] is the end
\* of the i-th.
Offsets(off, seqs, n) ==
  off[0] = 0 /\ \A i \in 1..n : off[i] = off[i - 1] + Len(seqs[i])

LEMMA OffsetsExist ==
  ASSUME NEW R, NEW seqs \in Seq(Seq(R))
  PROVE  \E off \in [Nat -> Nat] : Offsets(off, seqs, Len(seqs))
<1> DEFINE N == Len(seqs)
           step == [p \in Nat \X Nat |-> IF p[1] + 1 \in 1..N THEN p[2] + Len(seqs[p[1] + 1])
                                         ELSE p[2]]
<1>1. N \in Nat /\ \A n \in 1..N : Len(seqs[n]) \in Nat
  OBVIOUS
<1> HIDE DEF N
<1>2. step \in [Nat \X Nat -> Nat]
  BY <1>1
<1>3. \A n, y \in Nat : step[<<n, y>>] = IF n + 1 \in 1..N THEN y + Len(seqs[n + 1]) ELSE y
  OBVIOUS
<1>4. 0 \in Nat
  OBVIOUS
<1> HIDE DEF step
<1>5. PICK off \in [Nat -> Nat] : Iterates(off, 0, step)
  BY <1>2, <1>4, NatRecursion
<1>6. ASSUME NEW i \in 1..N PROVE off[i] = off[i - 1] + Len(seqs[i])
  <2>1. i - 1 \in Nat /\ (i - 1) + 1 = i
    BY <1>1
  <2>2. off[(i - 1) + 1] = step[<<i - 1, off[i - 1]>>] /\ off[i - 1] \in Nat
    BY <1>5, <2>1 DEF Iterates
  <2> QED BY <1>3, <2>1, <2>2
<1> QED BY <1>5, <1>6 DEF Iterates, Offsets, N

\* A list and its lengths have one such function, as far as they agree.
LEMMA OffsetsAgree ==
  ASSUME NEW R, NEW seqs \in Seq(Seq(R)), NEW n \in 0..Len(seqs),
         NEW off \in [Nat -> Nat], NEW other \in [Nat -> Nat],
         Offsets(off, seqs, n), Offsets(other, seqs, n)
  PROVE  \A i \in 0..n : off[i] = other[i]
<1> DEFINE S == {i \in Nat : i <= n => off[i] = other[i]}
<1>1. 0 \in S
  BY DEF Offsets
<1>2. ASSUME NEW i \in S PROVE i + 1 \in S
  <2> SUFFICES ASSUME i + 1 <= n PROVE off[i + 1] = other[i + 1]
    OBVIOUS
  <2>1. i \in Nat /\ i + 1 \in 1..n /\ (i + 1) - 1 = i /\ off[i] = other[i]
    OBVIOUS
  <2> QED BY <2>1 DEF Offsets
<1>3. S \subseteq Nat
  OBVIOUS
<1>4. \A i \in Nat : i \in S
  <2> HIDE DEF S
  <2> QED BY <1>1, <1>2, <1>3, SetInduction
<1> QED BY <1>4

\* Chained together, each member is where its list begins and its place in
\* that list say, and nothing else is there.
Chained(all, seqs, off) ==
  /\ Len(all) = off[Len(seqs)]
  /\ \A i \in 1..Len(seqs) : \A j \in 1..Len(seqs[i]) :
       off[i - 1] + j \in 1..Len(all) /\ all[off[i - 1] + j] = seqs[i][j]
  /\ \A k \in 1..Len(all) :
       \E i \in 1..Len(seqs) : \E j \in 1..Len(seqs[i]) : k = off[i - 1] + j

LEMMA FlattenIs ==
  ASSUME NEW R, NEW seqs \in Seq(Seq(R)), NEW off \in [Nat -> Nat],
         Offsets(off, seqs, Len(seqs))
  PROVE  FlattenSeq(seqs) \in Seq(R) /\ Chained(FlattenSeq(seqs), seqs, off)
<1> DEFINE N == Len(seqs)
<1>1. N \in Nat /\ \A n \in 1..N : seqs[n] \in Seq(R) /\ Len(seqs[n]) \in Nat
  <2>1. N \in Nat /\ \A n \in 1..N : seqs[n] \in Seq(R)
    OBVIOUS
  <2>2. \A s \in Seq(R) : Len(s) \in Nat
    OBVIOUS
  <2> QED BY <2>1, <2>2
<1>2. off[0] = 0 /\ \A i \in 1..N : off[i] = off[i - 1] + Len(seqs[i])
  BY DEF Offsets
<1>3. CASE N = 0
  <2>1. FlattenSeq(seqs) = seqs /\ seqs = <<>>
    BY <1>3 DEF FlattenSeq
  <2> QED BY <1>2, <2>1 DEF Chained
<1>4. CASE N # 0
  <2> DEFINE V == Seq(R)
             step == [p \in Nat \X V |-> IF p[1] + 1 \in 1..N THEN p[2] \o seqs[p[1] + 1]
                                         ELSE p[2]]
  <2> HIDE DEF N
  <2>1. step \in [Nat \X V -> V]
    <3> SUFFICES ASSUME NEW p \in Nat \X V
                 PROVE  (IF p[1] + 1 \in 1..N THEN p[2] \o seqs[p[1] + 1] ELSE p[2]) \in V
      OBVIOUS
    <3>1. ASSUME p[1] + 1 \in 1..N PROVE p[2] \o seqs[p[1] + 1] \in Seq(R)
      <4>1. p[2] \in Seq(R) /\ seqs[p[1] + 1] \in Seq(R)
        BY <1>1, <3>1
      <4> QED BY <4>1, ConcatProperties, Zenon
    <3> QED BY <3>1
  <2>2. <<>> \in V
    OBVIOUS
  <2>3. \A n \in Nat, y \in V :
          step[<<n, y>>] = IF n + 1 \in 1..N THEN y \o seqs[n + 1] ELSE y
    OBVIOUS
  <2> HIDE DEF step, V
  <2>4. PICK g \in [Nat -> V] : Iterates(g, <<>>, step)
    BY <2>1, <2>2, NatRecursion
  <2>5. g[0] = <<>> /\ \A n \in 1..N : g[n] = g[n - 1] \o seqs[n]
    <3>1. ASSUME NEW n \in 1..N PROVE g[n] = g[n - 1] \o seqs[n]
      <4>1. n - 1 \in Nat /\ (n - 1) + 1 = n
        BY <1>1
      <4>2. g[(n - 1) + 1] = step[<<n - 1, g[n - 1]>>] /\ g[n - 1] \in V
        BY <2>4, <4>1 DEF Iterates
      <4>3. step[<<n - 1, g[n - 1]>>] = g[n - 1] \o seqs[n]
        BY <2>3, <4>1, <4>2
      <4> QED BY <4>1, <4>2, <4>3
    <3> QED BY <2>4, <3>1 DEF Iterates
  <2> DEFINE body(h) == [i \in 1..N |-> IF i = 1 THEN seqs[i] ELSE h[i - 1] \o seqs[i]]
             f == [i \in 1..N |-> g[i]]
  <2>6. ASSUME NEW i \in 1..N
        PROVE  f[i] = IF i = 1 THEN seqs[i] ELSE f[i - 1] \o seqs[i]
    <3>1. f[i] = g[i] /\ g[i] = g[i - 1] \o seqs[i]
      BY <2>5
    <3>2. CASE i = 1
      <4>1. g[i - 1] = <<>>
        BY <2>5, <3>2
      <4>2. seqs[i] \in Seq(R)
        BY <1>1
      <4>3. <<>> \o seqs[i] = seqs[i]
        BY <4>2, ConcatEmptySeq, Zenon
      <4> QED BY <3>1, <3>2, <4>1, <4>3
    <3>3. CASE i # 1
      <4>1. i - 1 \in 1..N
        BY <1>1, <3>3
      <4> QED BY <3>1, <3>3, <4>1
    <3> QED BY <3>2, <3>3
  <2>7. f = body(f)
    <3>1. f = [i \in 1..N |-> f[i]]
      OBVIOUS
    <3> HIDE DEF f
    <3> QED BY <2>6, <3>1
  <2> HIDE DEF f
  <2> DEFINE flatten == CHOOSE h : h = body(h)
  <2>8. flatten = body(flatten)
    BY <2>7
  <2>9. FlattenSeq(seqs) = flatten[N]
    BY <1>4 DEF FlattenSeq, N
  <2> HIDE DEF flatten
  <2>10. \A i \in 1..N : flatten[i] = IF i = 1 THEN seqs[i] ELSE flatten[i - 1] \o seqs[i]
    BY <2>8
  <2> DEFINE Right(n) == /\ flatten[n] \in Seq(R)
                         /\ Len(flatten[n]) = off[n]
                         /\ \A i \in 1..n : \A j \in 1..Len(seqs[i]) :
                              /\ off[i - 1] + j \in 1..off[n]
                              /\ flatten[n][off[i - 1] + j] = seqs[i][j]
                         /\ \A k \in 1..off[n] : \E i \in 1..n : \E j \in 1..Len(seqs[i]) :
                              k = off[i - 1] + j
             S == {n \in Nat : n + 1 <= N => Right(n + 1)}
  <2>11. 0 \in S
    <3>1. 1 \in 1..N /\ flatten[1] = seqs[1] /\ off[1] = Len(seqs[1]) /\ off[1 - 1] = 0
      <4>1. 1 \in 1..N
        BY <1>1, <1>4
      <4>2. off[1] = off[1 - 1] + Len(seqs[1]) /\ off[1 - 1] = 0
        BY <1>2, <4>1
      <4> QED BY <1>1, <2>10, <4>1, <4>2
    <3>2. \A i \in 1..1 : i = 1
      OBVIOUS
    <3>3. flatten[1] \in Seq(R) /\ Len(flatten[1]) = off[1]
      BY <1>1, <3>1
    <3>4. ASSUME NEW i \in 1..1, NEW j \in 1..Len(seqs[i])
          PROVE  off[i - 1] + j \in 1..off[1] /\ flatten[1][off[i - 1] + j] = seqs[i][j]
      <4>1. i = 1 /\ j \in 1..Len(seqs[1]) /\ off[i - 1] = 0 /\ 0 + j = j
        BY <1>1, <3>1, <3>2
      <4> QED BY <3>1, <4>1
    <3>5. ASSUME NEW k \in 1..off[1]
          PROVE  \E i \in 1..1 : \E j \in 1..Len(seqs[i]) : k = off[i - 1] + j
      <4>1. 1 \in 1..1 /\ k \in 1..Len(seqs[1]) /\ k = off[1 - 1] + k
        BY <1>1, <3>1
      <4> QED BY <4>1
    <3>6. Right(1)
      BY <3>3, <3>4, <3>5
    <3>7. 0 + 1 = 1 /\ 0 \in Nat
      OBVIOUS
    <3> HIDE DEF Right
    <3> QED BY <3>6, <3>7
  <2>12. ASSUME NEW m \in S PROVE m + 1 \in S
    <3> SUFFICES ASSUME (m + 1) + 1 <= N PROVE Right((m + 1) + 1)
      OBVIOUS
    <3> HIDE DEF Right
    <3>1. PICK n : n = m + 1
      OBVIOUS
    <3>2. n \in Nat /\ n \in 1..N /\ n + 1 \in 1..N /\ (n + 1) - 1 = n /\ n + 1 # 1 /\ Right(n)
      BY <1>1, <3>1
    <3> HIDE DEF S
    <3> DEFINE t == flatten[n]
               u == flatten[n + 1]
               last == seqs[n + 1]
    <3>3. /\ t \in Seq(R) /\ Len(t) = off[n]
          /\ \A i \in 1..n : \A j \in 1..Len(seqs[i]) :
               off[i - 1] + j \in 1..off[n] /\ t[off[i - 1] + j] = seqs[i][j]
          /\ \A k \in 1..off[n] : \E i \in 1..n : \E j \in 1..Len(seqs[i]) : k = off[i - 1] + j
      BY <3>2 DEF Right
    <3>4. u = t \o last /\ last \in Seq(R) /\ Len(last) \in Nat
      BY <1>1, <2>10, <3>2
    <3>5. off[n + 1] = off[n] + Len(last) /\ off[n] \in Nat /\ off[n + 1] \in Nat
      <4>1. off[n + 1] = off[(n + 1) - 1] + Len(seqs[n + 1])
        BY <1>2, <3>2
      <4>2. off[n] \in Nat /\ off[n + 1] \in Nat
        BY <3>2
      <4> QED BY <3>2, <4>1, <4>2
    <3> HIDE DEF t, u, last
    <3>6. \A a, b \in Nat :
             /\ \A j \in 1..b : a + j \in 1..(a + b) /\ ~(a + j <= a) /\ (a + j) - a = j
             /\ \A k \in 1..a : k \in 1..(a + b) /\ k <= a
             /\ \A k \in 1..(a + b) : k > a => k - a \in 1..b /\ k = a + (k - a)
      OBVIOUS
    <3>7. /\ \A j \in 1..Len(last) :
               off[n] + j \in 1..(off[n] + Len(last)) /\ ~(off[n] + j <= off[n])
               /\ (off[n] + j) - off[n] = j
          /\ \A k \in 1..off[n] : k \in 1..(off[n] + Len(last)) /\ k <= off[n]
          /\ \A k \in 1..(off[n] + Len(last)) :
                k > off[n] => k - off[n] \in 1..Len(last) /\ k = off[n] + (k - off[n])
      BY <3>4, <3>5, <3>6, Zenon
    <3>8. /\ u \in Seq(R) /\ Len(u) = off[n] + Len(last)
          /\ \A k \in 1..(off[n] + Len(last)) : u[k] = IF k <= off[n] THEN t[k] ELSE last[k - off[n]]
      <4>1. /\ t \o last \in Seq(R) /\ Len(t \o last) = Len(t) + Len(last)
            /\ \A k \in 1..(Len(t) + Len(last)) :
                 (t \o last)[k] = IF k <= Len(t) THEN t[k] ELSE last[k - Len(t)]
        BY <3>3, <3>4, ConcatProperties, Zenon
      <4>2. Len(t) = off[n]
        BY <3>3
      <4> QED BY <3>4, <4>1, <4>2, Zenon
    <3>9. \A i \in 1..(n + 1) : i = n + 1 \/ i \in 1..n
      BY <3>2
    <3>10. ASSUME NEW i \in 1..(n + 1), NEW j \in 1..Len(seqs[i])
          PROVE  off[i - 1] + j \in 1..off[n + 1] /\ u[off[i - 1] + j] = seqs[i][j]
      <4>1. CASE i = n + 1
        <5>1. off[i - 1] = off[n] /\ j \in 1..Len(last) /\ seqs[i][j] = last[j]
          BY <3>2, <4>1 DEF last
        <5>2. off[n] + j \in 1..(off[n] + Len(last)) /\ ~(off[n] + j <= off[n])
              /\ (off[n] + j) - off[n] = j
          BY <3>7, <5>1, Zenon
        <5> QED BY <3>5, <3>8, <5>1, <5>2
      <4>2. CASE i \in 1..n
        <5>1. off[i - 1] + j \in 1..off[n] /\ t[off[i - 1] + j] = seqs[i][j]
          BY <3>3, <4>2
        <5>2. \A k \in 1..off[n] : k \in 1..(off[n] + Len(last)) /\ k <= off[n]
          BY <3>7
        <5> QED BY <3>5, <3>8, <5>1, <5>2
      <4> QED BY <3>9, <4>1, <4>2
    <3>11. ASSUME NEW k \in 1..off[n + 1]
          PROVE  \E i \in 1..(n + 1) : \E j \in 1..Len(seqs[i]) : k = off[i - 1] + j
      <4>1. CASE k <= off[n]
        <5>1. k \in 1..off[n]
          BY <3>5, <4>1
        <5>2. PICK i \in 1..n : \E j \in 1..Len(seqs[i]) : k = off[i - 1] + j
          BY <3>3, <5>1
        <5>3. i \in 1..(n + 1)
          BY <3>2
        <5> QED BY <5>2, <5>3
      <4>2. CASE k > off[n]
        <5>1. k - off[n] \in 1..Len(last) /\ k = off[n] + (k - off[n])
          <6>1. k \in 1..(off[n] + Len(last))
            BY <3>5
          <6> QED BY <3>7, <4>2, <6>1, Zenon
        <5>2. n + 1 \in 1..(n + 1) /\ off[(n + 1) - 1] = off[n]
          BY <3>2
        <5> QED BY <5>1, <5>2 DEF last
      <4>3. k <= off[n] \/ k > off[n]
        <5> HIDE DEF S, body, last, u, t
        <5>1. k \in Int /\ off[n] \in Int
          BY <3>5, <3>7
        <5>2. \A a, b \in Int : a <= b \/ a > b
          OBVIOUS
        <5> QED BY <5>1, <5>2, Zenon
      <4> QED BY <4>1, <4>2, <4>3
    <3>12. Right(n + 1)
      BY <3>5, <3>8, <3>10, <3>11 DEF u, Right
    <3> QED BY <3>1, <3>12
  <2>13. S \subseteq Nat
    OBVIOUS
  <2>14. N - 1 \in S /\ N - 1 \in Nat /\ (N - 1) + 1 = N
    <3> HIDE DEF S
    <3>1. N - 1 \in Nat /\ (N - 1) + 1 = N
      BY <1>1, <1>4
    <3> QED BY <2>11, <2>12, <2>13, <3>1, SetInduction
  <2>15. Right(N)
    <3>1. N <= N
      BY <1>1
    <3> HIDE DEF Right
    <3> QED BY <2>14, <3>1
  <2>16. /\ flatten[N] \in Seq(R) /\ Len(flatten[N]) = off[N]
    BY <2>15
  <2>17. Chained(flatten[N], seqs, off)
    <3> HIDE DEF S
    <3> QED BY <2>15, <2>16 DEF Chained, N
  <2> QED BY <2>9, <2>16, <2>17
<1> QED BY <1>3, <1>4

\* The members of the list are those of its lists.
LEMMA FlattenHas ==
  ASSUME NEW R, NEW seqs \in Seq(Seq(R))
  PROVE  /\ FlattenSeq(seqs) \in Seq(R)
         /\ \A i \in 1..Len(seqs) : \A j \in 1..Len(seqs[i]) :
              \E k \in 1..Len(FlattenSeq(seqs)) : FlattenSeq(seqs)[k] = seqs[i][j]
         /\ \A k \in 1..Len(FlattenSeq(seqs)) :
              \E i \in 1..Len(seqs) : \E j \in 1..Len(seqs[i]) :
                FlattenSeq(seqs)[k] = seqs[i][j]
<1>1. PICK off \in [Nat -> Nat] : Offsets(off, seqs, Len(seqs))
  BY OffsetsExist
<1>2. FlattenSeq(seqs) \in Seq(R) /\ Chained(FlattenSeq(seqs), seqs, off)
  BY <1>1, FlattenIs
<1>3. ASSUME NEW i \in 1..Len(seqs), NEW j \in 1..Len(seqs[i])
      PROVE  \E k \in 1..Len(FlattenSeq(seqs)) : FlattenSeq(seqs)[k] = seqs[i][j]
  BY <1>2 DEF Chained
<1>4. ASSUME NEW k \in 1..Len(FlattenSeq(seqs))
      PROVE  \E i \in 1..Len(seqs) : \E j \in 1..Len(seqs[i]) :
               FlattenSeq(seqs)[k] = seqs[i][j]
  <2>1. PICK i \in 1..Len(seqs) : \E j \in 1..Len(seqs[i]) : k = off[i - 1] + j
    BY <1>2 DEF Chained
  <2>2. PICK j \in 1..Len(seqs[i]) : k = off[i - 1] + j
    BY <2>1
  <2>3. FlattenSeq(seqs)[k] = seqs[i][j]
    BY <1>2, <2>2 DEF Chained
  <2> QED BY <2>3
<1> QED BY <1>2, <1>3, <1>4

-----------------------------------------------------------------------------
(* Loops, as functions on 0..N.                                            *)

\* Two loops that agree at the start, and that agree after a step if they do
\* before it, agree at the end.
LEMMA LoopsAgree ==
  ASSUME NEW N \in Nat, NEW f, NEW g, f[0] = g[0],
         \A k \in 1..N : f[k - 1] = g[k - 1] => f[k] = g[k]
  PROVE  f[N] = g[N]
<1> DEFINE S == {k \in Nat : k <= N => f[k] = g[k]}
<1>1. 0 \in S
  OBVIOUS
<1>2. ASSUME NEW k \in S PROVE k + 1 \in S
  <2> SUFFICES ASSUME k + 1 <= N PROVE f[k + 1] = g[k + 1]
    OBVIOUS
  <2>1. k + 1 \in 1..N /\ (k + 1) - 1 = k /\ k <= N
    OBVIOUS
  <2> QED BY <2>1
<1>3. S \subseteq Nat
  OBVIOUS
<1>4. \A k \in Nat : k \in S
  <2> HIDE DEF S
  <2> QED BY <1>1, <1>2, <1>3, SetInduction
<1> QED BY <1>4

\* A range is that up to the last and the last.
LEMMA UpToLast ==
  ASSUME NEW k \in Nat \ {0}
  PROVE  1..k = (1..(k - 1)) \cup {k}
OBVIOUS
=============================================================================
