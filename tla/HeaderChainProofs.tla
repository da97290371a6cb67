-------------------------- MODULE HeaderChainProofs --------------------------
(***************************************************************************)
(* Targets and header checks for every base, interval, anchor and length   *)
(* of the chain: the compact form is exact, the difficulty rule is         *)
(* enforced, and a client that starts at a boundary takes the network's    *)
(* chain.                                                                  *)
(***************************************************************************)
EXTENDS HeaderChain, DataLemmas

-----------------------------------------------------------------------------
(* Powers of the base.                                                     *)

LEMMA PowerIs ==
  /\ Power \in [Nat -> Nat \ {0}]
  /\ Power[0] = 1
  /\ \A n \in Nat : Power[n + 1] = Base * Power[n]
<1> DEFINE V == Nat \ {0}
           step == [p \in Nat \X V |-> Base * p[2]]
<1>1. step \in [Nat \X V -> V]
  <2> SUFFICES ASSUME NEW p \in Nat \X V PROVE Base * p[2] \in V
    OBVIOUS
  <2>1. p[2] \in Nat /\ p[2] # 0 /\ Base \in Nat /\ Base # 0
    BY BaseAssumption
  <2> DEFINE y == p[2]
  <2> HIDE DEF y
  <2>2. y \in Nat /\ y # 0
    BY <2>1 DEF y
  <2>3. Base * y \in Nat /\ Base * y # 0
    BY <2>1, <2>2, SMTT(30)
  <2> QED BY <2>3 DEF y
<1>2. 1 \in V
  OBVIOUS
<1>3. \A n \in Nat, y \in V : step[<<n, y>>] = Base * y
  OBVIOUS
<1> HIDE DEF step, V
<1>4. PICK f \in [Nat -> V] : Iterates(f, 1, step)
  BY <1>1, <1>2, NatRecursion
<1>5. f[0] = 1 /\ \A n \in Nat : f[n + 1] = Base * f[n]
  BY <1>3, <1>4 DEF Iterates
<1>6. f = [n \in Nat |-> IF n = 0 THEN 1 ELSE Base * f[n - 1]]
  <2>1. ASSUME NEW n \in Nat PROVE f[n] = IF n = 0 THEN 1 ELSE Base * f[n - 1]
    <3>1. CASE n = 0
      BY <1>5, <3>1
    <3>2. CASE n # 0
      <4>1. n - 1 \in Nat /\ (n - 1) + 1 = n
        BY <3>2
      <4> QED BY <1>5, <3>2, <4>1
    <3> QED BY <3>1, <3>2
  <2>2. f = [n \in Nat |-> f[n]]
    BY <1>4
  <2> QED BY <2>1, <2>2
<1>7. Power = [n \in Nat |-> IF n = 0 THEN 1 ELSE Base * Power[n - 1]]
  BY <1>6 DEF Power
<1> HIDE DEF Power
<1>8. Power[0] = 1
  BY <1>7
<1>9. ASSUME NEW n \in Nat PROVE Power[n + 1] = Base * Power[n]
  <2>1. n + 1 \in Nat /\ n + 1 # 0 /\ (n + 1) - 1 = n
    OBVIOUS
  <2> QED BY <1>7, <2>1
<1> DEFINE S == {n \in Nat : Power[n] \in V}
<1>10. \A n \in Nat : n \in S
  <2>1. 0 \in S
    BY <1>2, <1>8
  <2>2. ASSUME NEW n \in S PROVE n + 1 \in S
    <3>1. Base * Power[n] \in V
      BY <1>1, <1>3
    <3> QED BY <1>9, <3>1
  <2>3. S \subseteq Nat
    OBVIOUS
  <2> HIDE DEF S
  <2> QED BY <2>1, <2>2, <2>3, SetInduction
<1>11. Power \in [Nat -> V]
  BY <1>7, <1>10
<1> QED BY <1>8, <1>9, <1>11 DEF V

\* A power is larger than its exponent, and not smaller than one before it.
LEMMA PowerGrows ==
  ASSUME NEW n \in Nat
  PROVE  Power[n] > n /\ \A k \in 0..n : Power[k] <= Power[n]
<1> DEFINE S == {m \in Nat : Power[m] > m /\ \A k \in 0..m : Power[k] <= Power[m]}
<1>1. 0 \in S
  BY PowerIs
<1>2. ASSUME NEW m \in S PROVE m + 1 \in S
  <2>1. m \in Nat /\ Power[m] \in Nat /\ Power[m] > m /\ m + 1 \in Nat
    BY PowerIs
  <2>2. Power[m + 1] = Base * Power[m] /\ Power[m + 1] \in Nat
    BY PowerIs, <2>1
  <2>3. Power[m + 1] >= 2 * Power[m]
    <3> DEFINE y == Power[m]
    <3>1. y \in Nat
      BY <2>1
    <3> HIDE DEF y
    <3>2. Base * y >= 2 * y
      BY <3>1, BaseAssumption, SMTT(30)
    <3> QED BY <2>2, <3>2 DEF y
  <2>4. ASSUME NEW k \in 0..(m + 1) PROVE Power[k] <= Power[m + 1]
    <3>1. CASE k = m + 1
      BY <2>2, <3>1
    <3>2. CASE k # m + 1
      <4>1. k \in 0..m /\ Power[k] \in Nat
        BY <2>1, <3>2, PowerIs
      <4>2. Power[k] <= Power[m]
        BY <4>1
      <4> QED BY <2>1, <2>2, <2>3, <4>1, <4>2
    <3> QED BY <3>1, <3>2
  <2> QED BY <2>1, <2>2, <2>3, <2>4
<1>3. S \subseteq Nat
  OBVIOUS
<1>4. n \in S
  <2> HIDE DEF S
  <2> QED BY <1>1, <1>2, <1>3, SetInduction
<1> QED BY <1>4

\* The size of a target is the one number of digits it fits in, but not in one
\* less.
LEMMA SizeIs ==
  ASSUME NEW t \in Nat \ {0}, NEW n \in Nat \ {0}, Power[n - 1] <= t, t < Power[n]
  PROVE  Size(t) = n
<1>1. n - 1 \in Nat /\ Power[n - 1] \in Nat /\ Power[n] \in Nat
  BY PowerIs
<1>2. n \in 1..t
  BY <1>1, PowerGrows
<1>3. \A k \in 1..(n - 1) : Power[k] <= t
  <2> SUFFICES ASSUME NEW k \in 1..(n - 1) PROVE Power[k] <= t
    OBVIOUS
  <2>1. Power[k] <= Power[n - 1] /\ Power[k] \in Nat
    <3>1. k \in Nat /\ n - 1 \in Nat /\ k <= n - 1
      BY <1>1
    <3>2. Power[k] <= Power[n - 1]
      BY <3>1, PowerGrows
    <3>3. Power[k] \in Nat
      BY <3>1, PowerIs
    <3> QED BY <3>2, <3>3
  <2>2. \A a, b, c \in Nat : a <= b /\ b <= c => a <= c
    OBVIOUS
  <2> QED BY <1>1, <2>1, <2>2, Zenon
<1>4. ASSUME NEW m \in 1..t, Power[m] > t, \A k \in 1..(m - 1) : Power[k] <= t
      PROVE  m = n
  <2>1. Power[m] \in Nat
    BY PowerIs
  <2>2. ASSUME m < n PROVE FALSE
    <3>1. m \in 1..(n - 1)
      BY <2>2
    <3> QED BY <1>3, <1>4, <2>1, <3>1
  <2>3. ASSUME n < m PROVE FALSE
    <3>1. n \in 1..(m - 1)
      BY <2>3
    <3> QED BY <1>1, <1>4, <3>1
  <2> QED BY <1>2, <2>2, <2>3
<1> DEFINE Fits(m) == Power[m] > t /\ \A k \in 1..(m - 1) : Power[k] <= t
<1>5. Fits(n)
  BY <1>1, <1>3
<1>6. Size(t) = CHOOSE m \in 1..t : Fits(m)
  BY DEF Size
<1>7. \A m \in 1..t : Fits(m) => m = n
  BY <1>4
<1> HIDE DEF Fits
<1> QED BY <1>2, <1>5, <1>6, <1>7

LEMMA SizeExists ==
  ASSUME NEW t \in Nat \ {0}
  PROVE  Size(t) \in Nat \ {0} /\ Power[Size(t) - 1] <= t /\ t < Power[Size(t)]
<1> DEFINE S == {n \in Nat : t < Power[n]}
<1>1. t \in S
  BY PowerGrows, PowerIs
<1>2. PICK n \in S : \A m \in S : n <= m
  BY <1>1, LeastElement
<1>3. n \in Nat /\ n # 0
  BY PowerIs
<1>4. n - 1 \in Nat /\ n - 1 \notin S
  BY <1>2, <1>3
<1>5. Power[n - 1] <= t
  BY <1>4, PowerIs
<1>6. Size(t) = n
  BY <1>3, <1>5, SizeIs
<1> QED BY <1>3, <1>5, <1>6

\* The first powers, and how one that is larger than Digits comes about.
LEMMA SmallPowers ==
  /\ Power[0] = 1 /\ Power[1] = Base /\ Power[2] = Base * Base /\ Power[3] = Base * (Base * Base)
  /\ \A s \in Nat : s >= 3 =>
       /\ Power[s - 2] = Base * Power[s - 3]
       /\ Power[s - 1] = Base * (Base * Power[s - 3])
       /\ Power[s] = Base * (Base * (Base * Power[s - 3]))
<1>1. Power[0] = 1 /\ \A n \in Nat : Power[n + 1] = Base * Power[n]
  BY PowerIs
<1>2. Power[0 + 1] = Base * Power[0] /\ Power[1 + 1] = Base * Power[1] /\ Power[2 + 1] = Base * Power[2]
  BY <1>1
<1>3. ASSUME NEW s \in Nat, s >= 3
      PROVE  /\ Power[s - 2] = Base * Power[s - 3]
             /\ Power[s - 1] = Base * Power[s - 2]
             /\ Power[s] = Base * Power[s - 1]
  <2>1. s - 3 \in Nat /\ s - 2 \in Nat /\ s - 1 \in Nat
    BY <1>3
  <2>2. (s - 3) + 1 = s - 2 /\ (s - 2) + 1 = s - 1 /\ (s - 1) + 1 = s
    OBVIOUS
  <2> QED BY <1>1, <2>1, <2>2
<1>4. Base * 1 = Base
  BY BaseAssumption
<1> QED BY <1>1, <1>2, <1>3, <1>4

\* The mantissa's sign bit is half of Base cubed, and Base is even.
LEMMA SignBitIs ==
  \E half \in Nat \ {0} :
    Base = 2 * half /\ SignBit = half * (Base * Base)
<1> DEFINE half == Base \div 2
<1>1. half \in Nat /\ half # 0 /\ Base = 2 * half
  BY BaseAssumption
<1> HIDE DEF half
<1> DEFINE square == Base * Base
<1>2. square \in Nat /\ Base \in Nat
  BY BaseAssumption, SMTT(30)
<1>3. Power[3] = Base * square
  BY SmallPowers
<1> HIDE DEF square
<1>4. Base * square = (half * square) * 2 /\ half * square \in Nat
  BY <1>1, <1>2, SMTT(30)
<1> DEFINE q == half * square
<1> HIDE DEF q
<1>5. q \in Nat /\ Power[3] = q * 2
  BY <1>3, <1>4 DEF q
<1>6. SignBit = q
  BY <1>5 DEF SignBit, Digits
<1> QED BY <1>1, <1>6 DEF q, square

-----------------------------------------------------------------------------
(* The compact form.                                                       *)

\* q: the leading three digits of a target t; m: its leading two.  The mantissa
\* that holds two of them is off the sign bit, and keeps a target that needs it
\* one that needs it.
LEMMA Leading ==
  ASSUME NEW B \in Nat, NEW h \in Nat \ {0}, B = 2 * h, NEW p \in Nat \ {0}, NEW t \in Nat,
         B * (B * p) <= t, t < B * (B * (B * p)),
         NEW q \in Nat, q * p <= t, t < q * p + p,
         NEW m \in Nat, m * B <= q, q < m * B + B
  PROVE  /\ B * B <= q /\ q < B * (B * B)
         /\ m < h * (B * B)
         /\ q >= h * (B * B) => m * B >= h * (B * B)
         /\ t - m * (B * p) \in 0..(B * p - 1)
<1>1. B * B \in Nat /\ B * (B * B) \in Nat /\ B * p \in Nat /\ m * B \in Nat /\ q * p \in Nat /\ h * B \in Nat
  BY SMTT(30)
<1>2. B * (B * p) = (B * B) * p /\ B * (B * (B * p)) = (B * (B * B)) * p /\ (q + 1) * p = q * p + p
  BY SMTT(30)
<1>3. (B * B) * p < (q + 1) * p /\ q * p < (B * (B * B)) * p
  <2> DEFINE x == (B * B) * p  y == (B * (B * B)) * p  z == q * p
  <2>1. x \in Int /\ y \in Int /\ z \in Int
    BY <1>1, SMTT(30)
  <2>2. x <= t /\ t < y /\ z <= t /\ t < z + p
    BY <1>2
  <2>3. (q + 1) * p = z + p
    BY <1>2
  <2> HIDE DEF x, y, z
  <2>4. x < z + p /\ z < y
    BY <2>1, <2>2
  <2> QED BY <2>3, <2>4 DEF x, y, z
<1>4. B * B < q + 1 /\ q < B * (B * B)
  BY <1>1, <1>3, MulMono
<1>5. B * B <= q
  BY <1>1, <1>4
<1>6. m < h * (B * B)
  <2>1. m * B < (B * B) * B
    <3>1. (B * B) * B = B * (B * B)
      BY SMTT(30)
    <3> QED BY <1>1, <1>4, <3>1
  <2>2. m < B * B
    BY <1>1, <2>1, MulMono
  <2>3. 1 * (B * B) <= h * (B * B)
    BY <1>1, MulMono
  <2>4. h * (B * B) \in Nat
    BY <1>1, SMTT(30)
  <2> QED BY <1>1, <2>2, <2>3, <2>4
<1>7. ASSUME q >= h * (B * B) PROVE m * B >= h * (B * B)
  <2>1. h * (B * B) = (h * B) * B /\ (m + 1) * B = m * B + B
    BY SMTT(30)
  <2>2. (h * B) * B < (m + 1) * B
    <3> DEFINE x == (h * B) * B  z == m * B
    <3>1. x \in Int /\ z \in Int
      BY <1>1, SMTT(30)
    <3>2. x <= q /\ q < z + B
      BY <1>7, <2>1
    <3>3. (m + 1) * B = z + B
      BY <2>1
    <3> HIDE DEF x, z
    <3>4. x < z + B
      BY <3>1, <3>2
    <3> QED BY <3>3, <3>4 DEF x, z
  <2>3. h * B < m + 1
    BY <1>1, <2>2, MulMono
  <2>4. h * B <= m
    BY <1>1, <2>3
  <2>5. (h * B) * B <= m * B
    BY <1>1, <2>4, MulMono
  <2> QED BY <2>1, <2>5
<1>8. t - m * (B * p) \in 0..(B * p - 1)
  <2>1. m * (B * p) = (m * B) * p
    BY SMTT(30)
  <2>2. (m * B) * p <= q * p
    BY <1>1, MulMono
  <2>3. (q + 1) * p <= (m * B + B) * p
    BY <1>1, MulMono
  <2>4. (m * B + B) * p = (m * B) * p + B * p
    BY SMTT(30)
  <2> DEFINE x == (m * B) * p  z == q * p  y == B * p
  <2>5. x \in Int /\ z \in Int /\ y \in Int
    BY <1>1, SMTT(30)
  <2>6. x <= z /\ z <= t /\ t < z + p /\ z + p <= x + y
    BY <1>2, <2>2, <2>3, <2>4
  <2> HIDE DEF x, y, z
  <2>7. t - x \in 0..(y - 1)
    BY <2>5, <2>6
  <2> QED BY <2>1, <2>7 DEF x, y
<1> QED BY <1>4, <1>5, <1>6, <1>7, <1>8

LEMMA EncodeIs ==
  ASSUME NEW t \in Nat \ {0}, Size(t) \in Nat, Size(t) >= 3
  PROVE  LET q == t \div Power[Size(t) - 3]
         IN TargetToBits(t) = IF q >= SignBit THEN CompactBits(Size(t) + 1, q \div Base)
                              ELSE CompactBits(Size(t), q)
<1> DEFINE s == Size(t)
<1> HIDE DEF s
<1>1. s \in Nat /\ s >= 3
  BY DEF s
<1> DEFINE leading == IF s <= Digits THEN t * Power[Digits - s] ELSE t \div Power[s - Digits]
<1>2. leading = t \div Power[s - 3]
  <2>1. CASE s = 3
    <3>1. Digits - s = 0 /\ s - 3 = 0 /\ s <= Digits
      BY <2>1 DEF Digits
    <3>2. t \div 1 = t /\ t * 1 = t
      BY DivIs
    <3> QED BY <3>1, <3>2, SmallPowers
  <2>2. CASE s > 3
    BY <1>1, <2>2 DEF Digits
  <2> QED BY <1>1, <2>1, <2>2
<1>3. TargetToBits(t) = IF leading >= SignBit THEN CompactBits(s + 1, leading \div Base)
                        ELSE CompactBits(s, leading)
  BY DEF TargetToBits, s
<1> QED BY <1>2, <1>3 DEF s

LEMMA DecodeIs ==
  ASSUME NEW e \in Nat, e >= 3, NEW x \in Nat
  PROVE  BitsToTarget(CompactBits(e, x)) = x * Power[e - 3]
<1>1. CASE e = 3
  <2>1. x \div 1 = x /\ x * 1 = x
    BY DivIs
  <2>2. e <= Digits /\ Digits - e = 0 /\ e - 3 = 0
    BY <1>1 DEF Digits
  <2> QED BY <2>1, <2>2, SmallPowers DEF BitsToTarget, CompactBits
<1>2. CASE e > 3
  BY <1>2 DEF BitsToTarget, CompactBits, Digits
<1> QED BY <1>1, <1>2

\* Targets of three digits or more.
LEMMA LargeIsExact ==
  ASSUME NEW t \in Nat \ {0}, Size(t) >= 3
  PROVE  CompactIsExact(t)
<1> DEFINE s == Size(t)
           p == Power[s - 3]
           q == t \div p
           m == q \div Base
<1>1. s \in Nat /\ s >= 3 /\ s - 3 \in Nat /\ Power[s - 1] <= t /\ t < Power[s]
  BY SizeExists
<1>2. TargetToBits(t) = IF q >= SignBit THEN CompactBits(s + 1, m) ELSE CompactBits(s, q)
  BY <1>1, EncodeIs
<1>3. Size(t) = s
  OBVIOUS
<1> HIDE DEF s
<1>4. p \in Nat \ {0}
  BY <1>1, PowerIs
<1>5. Power[s - 3] = p
  OBVIOUS
<1> HIDE DEF p
<1>6. q \in Nat /\ q * p <= t /\ t < q * p + p
  BY <1>4, DivBounds
<1> HIDE DEF q
<1>7. Base \in Nat \ {0} /\ Base \in Nat
  BY BaseAssumption
<1>8. m \in Nat /\ m * Base <= q /\ q < m * Base + Base
  BY <1>6, <1>7, DivBounds
<1> HIDE DEF m
<1>9. /\ Power[s - 2] = Base * p
      /\ Power[s - 1] = Base * (Base * p)
      /\ Power[s] = Base * (Base * (Base * p))
  BY <1>1, <1>5, SmallPowers
<1>10. PICK half \in Nat \ {0} : Base = 2 * half /\ SignBit = half * (Base * Base)
  BY SignBitIs
<1>11. /\ Base * Base <= q /\ q < Base * (Base * Base)
       /\ m < SignBit
       /\ q >= SignBit => m * Base >= SignBit
       /\ t - m * (Base * p) \in 0..(Base * p - 1)
  BY <1>1, <1>4, <1>6, <1>7, <1>8, <1>9, <1>10, Leading
<1>12. SignBit \in Nat /\ Base * Base <= SignBit /\ Base * Base \in Nat /\ Base * p \in Nat \ {0}
  BY <1>4, <1>7, <1>10, SMTT(30)
\* A number of s digits from a multiple of p.
<1>13. ASSUME NEW k \in Nat, Base * Base <= k, k * p <= t
       PROVE  /\ k * p \in Nat \ {0} /\ Size(k * p) = s /\ (k * p) \div p = k
              /\ TargetToBits(k * p) = IF k >= SignBit THEN CompactBits(s + 1, k \div Base)
                                       ELSE CompactBits(s, k)
  <2>1. (Base * Base) * p <= k * p
    BY <1>4, <1>12, <1>13, MulMono
  <2>2. (Base * Base) * p = Base * (Base * p) /\ Base * (Base * p) \in Nat \ {0} /\ k * p \in Nat
    BY <1>4, <1>7, <1>13, SMTT(30)
  <2>3. k * p \in Nat \ {0} /\ Power[s - 1] <= k * p
    BY <1>9, <2>1, <2>2
  <2>4. k * p < Power[s]
    <3>1. Power[s] \in Nat
      BY <1>1, PowerIs
    <3> QED BY <1>1, <1>13, <2>2, <3>1
  <2>5. Size(k * p) = s
    BY <1>1, <2>3, <2>4, SizeIs
  <2>6. (k * p) \div p = k
    <3> DEFINE y == k * p
    <3>1. y \in Nat /\ y < y + p
      BY <1>4, <2>2
    <3> QED BY <1>4, <2>2, <3>1, DivIs
  <2>7. TargetToBits(k * p) = IF k >= SignBit THEN CompactBits(s + 1, k \div Base)
                              ELSE CompactBits(s, k)
    BY <1>1, <1>5, <2>3, <2>5, <2>6, EncodeIs
  <2> QED BY <2>3, <2>5, <2>6, <2>7
<1> DEFINE b == TargetToBits(t)
<1>14. CASE q < SignBit
  <2>1. b = CompactBits(s, q)
    BY <1>2, <1>6, <1>12, <1>14
  <2>2. b \in Bits /\ ~b.negative /\ b.exponent = s
    BY <1>1, <1>6, <1>12, <1>14, <2>1 DEF CompactBits, Bits
  <2>3. BitsToTarget(b) = q * p
    BY <1>1, <1>5, <1>6, <2>1, DecodeIs
  <2>4. t - q * p \in 0..(p - 1)
    <3> DEFINE y == q * p
    <3>1. y \in Nat
      BY <1>4, <1>6, SMTT(30)
    <3>2. y <= t /\ t < y + p
      BY <1>6
    <3> HIDE DEF y
    <3>3. t - y \in 0..(p - 1)
      BY <1>4, <3>1, <3>2
    <3> QED BY <3>3 DEF y
  <2>5. p = IF b.exponent <= Digits THEN 1 ELSE Power[b.exponent - Digits]
    BY <1>1, <1>5, <2>2, SmallPowers DEF Digits
  <2>6. TargetToBits(q * p) = b
    BY <1>6, <1>11, <1>12, <1>13, <1>14, <2>1
  <2> HIDE DEF b
  <2> QED BY <2>2, <2>3, <2>4, <2>5, <2>6 DEF CompactIsExact, b
<1>15. CASE q >= SignBit
  <2>1. b = CompactBits(s + 1, m)
    BY <1>2, <1>15
  <2>2. b \in Bits /\ ~b.negative /\ b.exponent = s + 1
    BY <1>1, <1>8, <1>11, <1>12, <2>1 DEF CompactBits, Bits
  <2>3. BitsToTarget(b) = m * (Base * p)
    <3>1. (s + 1) - 3 = s - 2 /\ s + 1 \in Nat /\ s + 1 >= 3
      BY <1>1
    <3> QED BY <1>8, <1>9, <2>1, <3>1, DecodeIs
  <2>4. Base * p = IF b.exponent <= Digits THEN 1 ELSE Power[b.exponent - Digits]
    <3>1. ~(s + 1 <= Digits) /\ (s + 1) - Digits = s - 2
      BY <1>1 DEF Digits
    <3> QED BY <1>9, <2>2, <3>1
  <2>5. m * (Base * p) = (m * Base) * p /\ m * Base \in Nat /\ (m * Base) * p \in Nat
    BY <1>4, <1>7, <1>8, SMTT(30)
  <2>6. (m * Base) * p <= t /\ Base * Base <= m * Base
    BY <1>11, <1>12, <1>15, <2>5
  <2>7. (m * Base) \div Base = m
    BY <1>7, <1>8, <2>5, DivIs
  <2>8. TargetToBits((m * Base) * p) = b
    BY <1>11, <1>13, <1>15, <2>1, <2>5, <2>6, <2>7
  <2> HIDE DEF b
  <2> QED BY <1>11, <2>2, <2>3, <2>4, <2>5, <2>8 DEF CompactIsExact, b
<1> QED BY <1>6, <1>12, <1>14, <1>15

\* Targets of one digit or two: nothing is lost.
LEMMA SmallIsExact ==
  ASSUME NEW t \in Nat \ {0}, Size(t) < 3
  PROVE  CompactIsExact(t)
<1> DEFINE s == Size(t)
           d == Power[2 - s]
<1>1. s \in {1, 2} /\ t < Power[s]
  BY SizeExists
<1>2. Size(t) = s
  OBVIOUS
<1> HIDE DEF s
<1>3. Base \in Nat \ {0} /\ Base * Base \in Nat \ {0}
  BY BaseAssumption, SMTT(30)
<1>4. /\ d \in Nat \ {0} /\ Power[3 - s] = d * Base
      /\ Power[s] * d = Base * Base /\ Power[s] \in Nat
  <2>1. CASE s = 1
    <3>1. 2 - s = 1 /\ 3 - s = 2
      BY <2>1
    <3> QED BY <1>3, <2>1, <3>1, SmallPowers
  <2>2. CASE s = 2
    <3>1. 2 - s = 0 /\ 3 - s = 1
      BY <2>2
    <3>2. 1 * Base = Base /\ (Base * Base) * 1 = Base * Base
      BY <1>3
    <3> QED BY <1>3, <2>2, <3>1, <3>2, SmallPowers
  <2> QED BY <1>1, <2>1, <2>2
<1>5. Power[2 - s] = d
  OBVIOUS
<1> HIDE DEF d
<1> DEFINE leading == t * (d * Base)
           u == t * d
<1>6. u \in Nat /\ leading = u * Base /\ leading \in Nat /\ d * Base \in Nat \ {0}
  BY <1>3, <1>4, SMTT(30)
<1>7. u < Base * Base
  <2>1. t <= Power[s] - 1 /\ Power[s] - 1 \in Nat
    BY <1>1, <1>4
  <2>2. t * d <= (Power[s] - 1) * d
    BY <1>4, <2>1, MulMono
  <2>3. (Power[s] - 1) * d = Power[s] * d - d
    BY <1>4, SMTT(30)
  <2> QED BY <1>3, <1>4, <1>6, <2>2, <2>3
<1>8. leading \div (d * Base) = t /\ u \div d = t /\ leading \div Base = u
  <2>1. ASSUME NEW a \in Nat, NEW k \in Nat \ {0} PROVE (a * k) \div k = a
    <3> DEFINE y == a * k
    <3>1. y \in Nat
      BY SMTT(30)
    <3>2. y < y + k
      BY <3>1
    <3> QED BY <3>1, <3>2, DivIs
  <2> QED BY <1>3, <1>4, <1>6, <2>1
<1>9. TargetToBits(t) = IF leading >= SignBit THEN CompactBits(s + 1, u) ELSE CompactBits(s, leading)
  <2>1. s <= Digits /\ Digits - s = 3 - s
    BY <1>1 DEF Digits
  <2> QED BY <1>2, <1>4, <1>8, <2>1 DEF TargetToBits
<1>10. SignBit \in Nat /\ Base * Base <= SignBit
  <2>1. PICK half \in Nat \ {0} : Base = 2 * half /\ SignBit = half * (Base * Base)
    BY SignBitIs
  <2> QED BY <1>3, <2>1, SMTT(30)
<1> HIDE DEF leading, u
<1>11. ASSUME NEW e \in Nat, e <= 3, NEW x \in 0..(SignBit - 1), NEW b, b = CompactBits(e, x),
              TargetToBits(t) = b, x \div Power[3 - e] = t
       PROVE  CompactIsExact(t)
  <2>1. b \in Bits /\ ~b.negative /\ b.exponent = e /\ b.mantissa = x
    BY <1>11 DEF CompactBits, Bits
  <2>2. BitsToTarget(b) = t
    BY <1>11, <2>1 DEF BitsToTarget, Digits
  <2>3. t - t \in 0..(1 - 1)
    OBVIOUS
  <2>4. b.exponent <= Digits
    BY <1>11, <2>1 DEF Digits
  <2> QED BY <1>11, <2>1, <2>2, <2>3, <2>4 DEF CompactIsExact
<1>12. CASE leading >= SignBit
  <2>1. u \in 0..(SignBit - 1)
    BY <1>3, <1>6, <1>7, <1>10
  <2>2. s + 1 \in Nat /\ s + 1 <= 3 /\ 3 - (s + 1) = 2 - s
    BY <1>1
  <2> QED BY <1>5, <1>8, <1>9, <1>11, <1>12, <2>1, <2>2
<1>13. CASE leading < SignBit
  <2>1. leading \in 0..(SignBit - 1)
    BY <1>6, <1>10, <1>13
  <2>2. TargetToBits(t) = CompactBits(s, leading)
    BY <1>6, <1>9, <1>10, <1>13
  <2>3. s \in Nat /\ s <= 3
    BY <1>1
  <2> QED BY <1>4, <1>8, <1>11, <2>1, <2>2, <2>3
<1> QED BY <1>6, <1>10, <1>12, <1>13

\* A target survives its compact form, less what does not fit the mantissa, and
\* the compact form of a target is its own compact form, for every target and
\* every even base.  (bits_to_target, target_to_bits)
THEOREM CompactFormIsExact == \A target \in Nat : CompactIsExact(target)
<1> SUFFICES ASSUME NEW t \in Nat PROVE CompactIsExact(t)
  OBVIOUS
<1>1. CASE t = 0
  <2> DEFINE b == CompactBits(0, 0)
  <2>1. TargetToBits(0) = b
    BY DEF TargetToBits
  <2>2. 0 \div Power[3] = 0
    <3>1. Power[3] \in Nat \ {0}
      BY PowerIs
    <3>2. 0 * Power[3] = 0
      BY <3>1
    <3> QED BY <3>1, <3>2, DivIs
  <2>3. BitsToTarget(b) = 0
    BY <2>2 DEF BitsToTarget, CompactBits, Digits
  <2>4. SignBit - 1 \in Nat
    <3>1. PICK half \in Nat \ {0} : Base = 2 * half /\ SignBit = half * (Base * Base)
      BY SignBitIs
    <3>2. half * (Base * Base) \in Nat \ {0}
      BY <3>1, BaseAssumption, SMTT(30)
    <3> QED BY <3>1, <3>2
  <2>5. b \in Bits /\ ~b.negative /\ b.exponent <= Digits
    BY <2>4 DEF CompactBits, Bits, Digits
  <2>6. 0 - 0 \in 0..(1 - 1)
    OBVIOUS
  <2> QED BY <1>1, <2>1, <2>3, <2>5, <2>6 DEF CompactIsExact
<1>2. CASE t # 0
  <2>1. Size(t) \in Nat
    BY <1>2, SizeExists
  <2> QED BY <1>2, <2>1, LargeIsExact, SmallIsExact
<1> QED BY <1>1, <1>2

LEMMA TargetIsNat ==
  ASSUME NEW b \in Bits
  PROVE  BitsToTarget(b) \in Nat
<1>1. b.exponent \in Nat /\ b.mantissa \in Nat
  BY DEF Bits
<1>2. CASE b.exponent <= Digits
  <2>1. Power[Digits - b.exponent] \in Nat \ {0}
    BY <1>1, <1>2, PowerIs DEF Digits
  <2> QED BY <1>1, <1>2, <2>1, DivBounds DEF BitsToTarget
<1>3. CASE ~(b.exponent <= Digits)
  <2> DEFINE p == Power[b.exponent - Digits]
             m == b.mantissa
  <2>1. p \in Nat /\ m \in Nat
    BY <1>1, <1>3, PowerIs DEF Digits
  <2>2. BitsToTarget(b) = m * p
    BY <1>3 DEF BitsToTarget
  <2> HIDE DEF p, m
  <2>3. m * p \in Nat
    BY <2>1, SMTT(30)
  <2> QED BY <2>2, <2>3
<1> QED BY <1>2, <1>3

\* What is encoded is decoded to something not larger.
LEMMA RoundsDown ==
  ASSUME NEW t \in Nat
  PROVE  /\ TargetToBits(t) \in Bits /\ ~TargetToBits(t).negative
         /\ BitsToTarget(TargetToBits(t)) \in 0..t
<1> DEFINE b == TargetToBits(t)
           ulp == IF b.exponent <= Digits THEN 1 ELSE Power[b.exponent - Digits]
<1>1. b \in Bits /\ ~b.negative /\ t - BitsToTarget(b) \in 0..(ulp - 1)
  BY CompactFormIsExact DEF CompactIsExact
<1>2. BitsToTarget(b) \in Nat
  BY <1>1, TargetIsNat
<1> HIDE DEF b, ulp
<1>3. t - BitsToTarget(b) >= 0
  BY <1>1
<1>4. BitsToTarget(b) \in 0..t
  BY <1>2, <1>3
<1> QED BY <1>1, <1>4 DEF b

\* The rule's target is in compact form, not negative and not easier than the
\* network's minimum.
LEMMA NextTargetIs ==
  ASSUME NEW first \in Int, NEW last \in Int, NEW bits \in Bits
  PROVE  /\ NextTarget(first, last, bits) \in Bits /\ ~NextTarget(first, last, bits).negative
         /\ BitsToTarget(NextTarget(first, last, bits)) \in 0..MaxTarget
<1> DEFINE span == Greatest(Timespan \div 4, Least(Timespan * 4, last - first))
           t == BitsToTarget(bits)
           scaled == (t * span) \div Timespan
           target == Least(scaled, MaxTarget)
<1>1. span \in Nat
  BY TimespanAssumption DEF Greatest, Least
<1>2. t \in Nat
  BY TargetIsNat
<1> HIDE DEF span, t
<1>3. t * span \in Nat
  BY <1>1, <1>2, SMTT(30)
<1>4. scaled \in Nat
  BY <1>3, TimespanAssumption, DivBounds
<1> HIDE DEF scaled
<1>5. target \in Nat /\ target <= MaxTarget
  BY <1>4, MaxTargetAssumption DEF Least
<1>6. NextTarget(first, last, bits) = TargetToBits(target)
  BY DEF NextTarget, span, t, scaled
<1> HIDE DEF target
<1>7. /\ TargetToBits(target) \in Bits /\ ~TargetToBits(target).negative
      /\ BitsToTarget(TargetToBits(target)) \in 0..target
  BY <1>5, RoundsDown
<1>8. BitsToTarget(TargetToBits(target)) \in 0..MaxTarget
  BY <1>5, <1>7, MaxTargetAssumption
<1> QED BY <1>6, <1>7, <1>8

-----------------------------------------------------------------------------
(* Windows.                                                                *)

\* Boundaries are Interval heights apart.
LEMMA Boundaries ==
  ASSUME NEW h \in Nat, Boundary(h)
  PROVE  /\ \A k \in 1..(Interval - 1) : ~Boundary(h + k)
         /\ h >= Interval => Boundary(h - Interval)
         /\ h > 0 => h >= Interval
<1> USE IntervalAssumption
<1>1. PICK q \in Nat : h = Interval * q
  BY MultipleIff DEF Boundary
<1>2. ASSUME NEW k \in 1..(Interval - 1), Boundary(h + k) PROVE FALSE
  <2>1. PICK r \in Nat : h + k = Interval * r
    <3>1. h + k \in Nat
      OBVIOUS
    <3> QED BY <1>2, <3>1, MultipleIff DEF Boundary
  <2>2. Interval * q < Interval * r /\ Interval * r < Interval * q + Interval
    BY <1>1, <2>1
  <2> QED BY <2>2, NoMultipleBetween
<1>3. ASSUME h > 0 PROVE q >= 1 /\ h >= Interval
  <2>1. q >= 1
    BY <1>1, <1>3
  <2>2. Interval * 1 <= Interval * q
    BY <2>1, SMTT(30)
  <2> QED BY <1>1, <2>1, <2>2
<1>4. ASSUME h >= Interval PROVE Boundary(h - Interval)
  <2>1. q - 1 \in Nat /\ h - Interval \in Nat
    BY <1>3, <1>4
  <2>2. h - Interval = Interval * (q - 1)
    BY <1>1, SMTT(30)
  <2> QED BY <2>1, <2>2, MultipleIff DEF Boundary
<1> QED BY <1>2, <1>3, <1>4

-----------------------------------------------------------------------------
(* The inductive invariant.                                                *)

\* The network's headers are numbered, linked, have work and obey the rule.
NetworkInv ==
  /\ network \in Seq(Header)
  /\ Len(network) \in 1..(MaxHeight + 1)
  /\ \A i \in DOMAIN network :
       /\ network[i].hash = i - 1
       /\ ~network[i].bits.negative
       /\ MeetsPow(network[i])
  /\ \A i \in 2..Len(network) :
       /\ network[i].prev = i - 2
       /\ network[i].bits =
            IF Boundary(i - 1)
            THEN NextTarget(network[i - Interval].time, network[i - 1].time, network[i - 1].bits)
            ELSE network[i - 1].bits

\* What was accepted with a hash of the network is the network's header at that
\* height.
AcceptedInv ==
  /\ accepted \in Seq(Header)
  /\ \A i \in DOMAIN accepted :
       accepted[i].hash <= MaxHeight =>
         /\ HeightOf(i) + 1 \in DOMAIN network
         /\ accepted[i] = network[HeightOf(i) + 1]

\* What was accepted is linked and has work.
LinkedInv ==
  \A i \in DOMAIN accepted :
    /\ accepted[i].prev = IF i = 1 THEN network[Anchor].hash ELSE accepted[i - 1].hash
    /\ ~accepted[i].bits.negative
    /\ MeetsPow(accepted[i])

\* The latest window starts with the header accepted as number s, or started
\* before the anchor.
WindowStart(s) ==
  /\ s = 1 \/ Boundary(HeightOf(s))
  /\ \A k \in (s + 1)..Len(accepted) : ~Boundary(HeightOf(k))

\* The client's fields are those of the last header it accepted, and of the
\* first of the window.
ClientInv ==
  IF client = None THEN accepted = <<>> /\ offered = None
  ELSE /\ client \in Client
       /\ Len(network) > MaxHeight
       /\ client.height = Anchor - 1 + Len(accepted)
       /\ accepted = <<>> =>
            /\ client.tip = network[Anchor].hash
            /\ client.bits = None /\ client.lastTime = None /\ client.windowFirst = None
       /\ accepted # <<>> =>
            /\ client.tip = accepted[Len(accepted)].hash
            /\ client.bits = accepted[Len(accepted)].bits
            /\ client.lastTime = accepted[Len(accepted)].time
            /\ \E s \in DOMAIN accepted :
                 WindowStart(s) /\ client.windowFirst = accepted[s].time

IInv == NetworkInv /\ AcceptedInv /\ LinkedInv /\ ClientInv /\ DifficultyRuleEnforced

LEMMA GenesisIs == Genesis \in Header /\ MeetsPow(Genesis) /\ ~Genesis.bits.negative
<1> DEFINE b == TargetToBits(GenesisTarget)
           ulp == IF b.exponent <= Digits THEN 1 ELSE Power[b.exponent - Digits]
<1>1. GenesisTarget \in Nat /\ GenesisTarget # 0 /\ GenesisTarget <= MaxTarget /\ MaxTarget \in Nat
  BY TargetsAssumption, MaxTargetAssumption
<1>2. /\ b \in Bits /\ ~b.negative /\ GenesisTarget - BitsToTarget(b) \in 0..(ulp - 1)
      /\ TargetToBits(BitsToTarget(b)) = b
  BY <1>1, CompactFormIsExact DEF CompactIsExact
<1>3. BitsToTarget(b) \in 0..GenesisTarget
  BY <1>1, RoundsDown
<1>4. ASSUME BitsToTarget(b) = 0 PROVE FALSE
  <2>1. b = CompactBits(0, 0)
    BY <1>2, <1>4 DEF TargetToBits
  <2>2. ulp = 1
    BY <2>1 DEF CompactBits, Digits
  <2> HIDE DEF b, ulp
  <2> QED BY <1>1, <1>2, <1>4, <2>2
<1> HIDE DEF b
<1>5. Genesis = [hash |-> 0, prev |-> 0, time |-> 0, bits |-> b, meets |-> TRUE]
  BY DEF Genesis, b
<1>6. BitsToTarget(b) <= MaxTarget
  BY <1>1, <1>3
<1> QED BY <1>2, <1>4, <1>5, <1>6 DEF Header, MeetsPow

LEMMA InitInv == Init => IInv
<1> SUFFICES ASSUME Init PROVE IInv
  OBVIOUS
<1>1. NetworkInv
  <2>1. network = <<Genesis>> /\ Len(network) = 1 /\ DOMAIN network = 1..1 /\ network[1] = Genesis
    BY DEF Init
  <2>2. network \in Seq(Header)
    BY <2>1, GenesisIs
  <2>3. Genesis.hash = 0
    BY DEF Genesis
  <2>4. 1 \in 1..(MaxHeight + 1)
    BY HeightAssumption, AnchorAssumption
  <2> QED BY <2>1, <2>2, <2>3, <2>4, GenesisIs DEF NetworkInv
<1>2. AcceptedInv /\ LinkedInv /\ ClientInv /\ DifficultyRuleEnforced
  BY DEF Init, AcceptedInv, LinkedInv, ClientInv, DifficultyRuleEnforced
<1> QED BY <1>1, <1>2 DEF IInv

\* The rule's bits for the next header of the network.
LEMMA RuleBitsIs ==
  ASSUME NetworkInv
  PROVE  LET n == Len(network)
         IN /\ RuleBits(network) =
                 IF Boundary(n)
                 THEN NextTarget(network[n + 1 - Interval].time, network[n].time, network[n].bits)
                 ELSE network[n].bits
            /\ Boundary(n) => n + 1 - Interval \in 1..n
            /\ RuleBits(network) \in Bits /\ ~RuleBits(network).negative
            /\ BitsToTarget(RuleBits(network)) <= MaxTarget
<1> DEFINE n == Len(network)
<1>1. n \in Nat /\ n >= 1 /\ network \in Seq(Header)
  BY DEF NetworkInv
<1>2. \A i \in 1..n : network[i] \in Header
  BY <1>1
<1>3. network[n].bits \in Bits /\ network[n].time \in Nat
  BY <1>1, <1>2 DEF Header
<1>4. ~network[n].bits.negative /\ BitsToTarget(network[n].bits) <= MaxTarget
  BY <1>1 DEF NetworkInv, MeetsPow
<1>5. n - Interval + 1 = n + 1 - Interval
  BY <1>1, IntervalAssumption
<1>6. CASE Boundary(n)
  <2>1. n + 1 - Interval \in 1..n
    BY <1>1, <1>6, Boundaries, IntervalAssumption
  <2>2. network[n + 1 - Interval].time \in Nat
    BY <1>2, <2>1 DEF Header
  <2> DEFINE b == NextTarget(network[n + 1 - Interval].time, network[n].time, network[n].bits)
  <2>3. RuleBits(network) = b
    BY <1>5, <1>6 DEF RuleBits
  <2>4. b \in Bits /\ ~b.negative /\ BitsToTarget(b) \in 0..MaxTarget
    BY <1>3, <2>2, NextTargetIs
  <2> HIDE DEF b
  <2>5. BitsToTarget(b) <= MaxTarget
    BY <2>4, MaxTargetAssumption
  <2> QED BY <1>6, <2>1, <2>3, <2>4, <2>5 DEF b
<1>7. CASE ~Boundary(n)
  <2>1. RuleBits(network) = network[n].bits
    BY <1>7 DEF RuleBits
  <2> QED BY <1>3, <1>4, <1>7, <2>1
<1> QED BY <1>6, <1>7

LEMMA MineInv ==
  ASSUME IInv, NEW delay \in Delays, Mine(delay)
  PROVE  IInv'
<1> DEFINE n == Len(network)
           new == [hash |-> n, prev |-> n - 1, time |-> network[n].time + delay,
                   bits |-> RuleBits(network), meets |-> TRUE]
<1>1. n \in Nat /\ n >= 1 /\ n <= MaxHeight /\ network \in Seq(Header) /\ NetworkInv
  BY HeightAssumption DEF IInv, NetworkInv, Mine
<1>2. /\ network' = Append(network, new)
      /\ UNCHANGED <<client, accepted, offered, verdict>>
      /\ BitsToTarget(RuleBits(network)) # 0
  BY DEF Mine
<1>3. network[n].time + delay \in Nat
  <2>1. network[n] \in Header
    BY <1>1
  <2>2. network[n].time \in Nat /\ delay \in Nat
    BY <2>1, DelayAssumption DEF Header
  <2> QED BY <2>2
<1>4. new \in Header /\ new.hash = n /\ new.prev = n - 1 /\ new.bits = RuleBits(network) /\ new.meets
  BY <1>1, <1>3, RuleBitsIs DEF Header
<1>5. ~new.bits.negative /\ MeetsPow(new)
  BY <1>1, <1>2, <1>4, RuleBitsIs DEF MeetsPow
<1> HIDE DEF new
<1>6. /\ network' \in Seq(Header) /\ Len(network') = n + 1 /\ network'[n + 1] = new
      /\ \A i \in 1..n : network'[i] = network[i]
  BY <1>1, <1>2, <1>4
<1>7. NetworkInv'
  <2>1. Len(network') \in 1..(MaxHeight + 1)
    BY <1>1, <1>6, HeightAssumption
  <2>2. ASSUME NEW i \in DOMAIN network'
        PROVE  network'[i].hash = i - 1 /\ ~network'[i].bits.negative /\ MeetsPow(network'[i])
    <3>1. CASE i = n + 1
      BY <1>1, <1>4, <1>5, <1>6, <3>1
    <3>2. CASE i # n + 1
      <4>1. i \in 1..n
        BY <1>1, <1>6, <3>2
      <4> QED BY <1>1, <1>6, <4>1 DEF NetworkInv
    <3> QED BY <3>1, <3>2
  <2>3. ASSUME NEW i \in 2..Len(network')
        PROVE  /\ network'[i].prev = i - 2
               /\ network'[i].bits =
                    IF Boundary(i - 1)
                    THEN NextTarget(network'[i - Interval].time, network'[i - 1].time,
                                    network'[i - 1].bits)
                    ELSE network'[i - 1].bits
    <3>1. CASE i = n + 1
      <4>1. network'[i] = new /\ i - 1 = n /\ n \in 1..n /\ i - 2 = n - 1
        BY <1>1, <1>6, <3>1
      <4>2. network'[i - 1] = network[n]
        BY <1>6, <4>1
      <4>3. Boundary(n) => network'[i - Interval] = network[n + 1 - Interval]
        <5>1. i - Interval = n + 1 - Interval
          BY <1>1, <3>1, IntervalAssumption
        <5>2. Boundary(n) => n + 1 - Interval \in 1..n
          BY <1>1, RuleBitsIs
        <5> QED BY <1>6, <5>1, <5>2
      <4> QED BY <1>1, <1>4, <4>1, <4>2, <4>3, RuleBitsIs
    <3>2. CASE i # n + 1
      <4>1. i \in 2..n /\ i - 1 \in 1..n /\ i \in 1..n
        BY <1>1, <1>6, <3>2
      <4>2. network'[i] = network[i] /\ network'[i - 1] = network[i - 1]
        BY <1>6, <4>1
      <4>3. Boundary(i - 1) => network'[i - Interval] = network[i - Interval]
        <5>1. ASSUME Boundary(i - 1) PROVE i - Interval \in 1..n
          BY <4>1, <5>1, Boundaries, IntervalAssumption
        <5> QED BY <1>6, <5>1
      <4> QED BY <1>1, <4>1, <4>2, <4>3 DEF NetworkInv
    <3> QED BY <3>1, <3>2
  <2> QED BY <1>6, <2>1, <2>2, <2>3 DEF NetworkInv
<1>8. client = None /\ accepted = <<>> /\ offered = None
  BY <1>1, HeightAssumption DEF IInv, ClientInv
<1>9. AcceptedInv' /\ LinkedInv' /\ ClientInv' /\ DifficultyRuleEnforced'
  BY <1>2, <1>8 DEF AcceptedInv, LinkedInv, ClientInv, DifficultyRuleEnforced
<1> QED BY <1>7, <1>9 DEF IInv

LEMMA BeginInv ==
  ASSUME IInv, Begin
  PROVE  IInv'
<1>1. /\ client = None /\ accepted = <<>> /\ Len(network) > MaxHeight
      /\ client' = [height |-> Anchor - 1, tip |-> network[Anchor].hash,
                    windowFirst |-> None, lastTime |-> None, bits |-> None,
                    checked |-> 0, skipped |-> 0]
      /\ UNCHANGED <<network, accepted, offered, verdict>>
  BY DEF Begin, IInv, ClientInv
<1>2. Anchor \in DOMAIN network /\ network \in Seq(Header)
  BY <1>1, AnchorAssumption, HeightAssumption DEF IInv, NetworkInv
<1>3. network[Anchor].hash \in Nat /\ Anchor - 1 \in Nat
  <2>1. network[Anchor] \in Header
    BY <1>2
  <2> QED BY <2>1, AnchorAssumption DEF Header
<1>4. client' \in Client
  BY <1>1, <1>3 DEF Client
<1>5. client' # None
  BY <1>4, NoneAssumption
<1>6. client'.height = Anchor - 1 + 0
  BY <1>1, <1>3
<1>7. ClientInv'
  BY <1>1, <1>4, <1>5, <1>6 DEF ClientInv
<1>8. NetworkInv' /\ AcceptedInv' /\ LinkedInv' /\ DifficultyRuleEnforced'
  BY <1>1 DEF IInv, NetworkInv, AcceptedInv, LinkedInv, DifficultyRuleEnforced
<1> QED BY <1>7, <1>8 DEF IInv

\* Where the window that a boundary ends has started.
LEMMA WindowIs ==
  ASSUME NEW n \in Nat, n = Len(accepted), NEW s \in 1..n, WindowStart(s), Boundary(HeightOf(n + 1)),
         Boundary(HeightOf(s)) \/ n + 1 > Interval
  PROVE  s = n + 1 - Interval
<1> DEFINE k == n + 1 - Interval
<1>1. Interval \in Nat /\ Interval >= 1 /\ Anchor \in Nat /\ Anchor >= 1
  BY IntervalAssumption, AnchorAssumption
<1>2. HeightOf(n + 1) \in Nat /\ HeightOf(n + 1) > 0 /\ HeightOf(s) \in Nat
  BY <1>1 DEF HeightOf
<1>3. ASSUME k >= 1 PROVE Boundary(HeightOf(k))
  <2>1. HeightOf(n + 1) - Interval = HeightOf(k) /\ HeightOf(n + 1) >= Interval
    BY <1>1, <1>3 DEF HeightOf
  <2> QED BY <1>2, <2>1, Boundaries
<1>4. k >= 1 => k <= s
  <2> SUFFICES ASSUME k >= 1, s < k PROVE FALSE
    BY <1>1
  <2>1. k \in (s + 1)..n
    BY <1>1
  <2> QED BY <1>3, <2>1 DEF WindowStart
<1>5. CASE Boundary(HeightOf(s))
  <2>1. ASSUME s > k PROVE FALSE
    <3>1. (n + 1) - s \in 1..(Interval - 1)
      BY <1>1, <2>1
    <3>2. HeightOf(s) + ((n + 1) - s) = HeightOf(n + 1)
      BY <1>1 DEF HeightOf
    <3> QED BY <1>2, <1>5, <3>1, <3>2, Boundaries
  <2>2. s <= k
    BY <1>1, <2>1
  <2> QED BY <1>1, <1>4, <2>2
<1>6. CASE ~Boundary(HeightOf(s))
  <2>1. s = 1 /\ k >= 1
    BY <1>1, <1>6 DEF WindowStart
  <2> QED BY <1>1, <1>4, <2>1
<1> QED BY <1>5, <1>6

\* What the client makes of a header.
LEMMA AcceptedIs ==
  ASSUME IInv, NEW hd \in Header, Accept(hd), Judge(hd) = "ok"
  PROVE  /\ client \in Client /\ accepted' = Append(accepted, hd) /\ client' = After(hd)
         /\ client'.height = client.height + 1 /\ client'.tip = hd.hash
         /\ client'.lastTime = hd.time /\ client'.bits = hd.bits
         /\ client'.windowFirst =
              IF Boundary(client.height + 1) \/ client.windowFirst = None
              THEN hd.time ELSE client.windowFirst
         /\ client' \in Client
         /\ hd.prev = client.tip /\ ~hd.bits.negative /\ MeetsPow(hd) /\ MeetsRule(hd)
<1>1. client # None /\ accepted' = Append(accepted, hd) /\ client' = After(hd)
  BY DEF Accept
<1>2. client \in Client
  BY <1>1 DEF IInv, ClientInv
<1>3. hd.prev = client.tip /\ ~hd.bits.negative /\ MeetsPow(hd) /\ MeetsRule(hd)
  BY DEF Judge
<1> DEFINE retarget == CheckDifficulty /\ client.bits # None /\ Boundary(client.height + 1)
           first == IF Boundary(client.height + 1) \/ client.windowFirst = None
                    THEN hd.time ELSE client.windowFirst
           checked == IF retarget /\ client.windowFirst # None
                      THEN client.checked + 1 ELSE client.checked
           skipped == IF retarget /\ client.windowFirst = None
                      THEN client.skipped + 1 ELSE client.skipped
<1>4. After(hd) = [height |-> client.height + 1, tip |-> hd.hash, windowFirst |-> first,
                   lastTime |-> hd.time, bits |-> hd.bits,
                   checked |-> checked, skipped |-> skipped]
  BY DEF After
<1>5. /\ client.height + 1 \in Nat /\ hd.hash \in Nat /\ hd.time \in Nat /\ hd.bits \in Bits
      /\ client.checked \in Nat /\ client.skipped \in Nat /\ client.windowFirst \in Nat \cup {None}
  BY <1>2 DEF Client, Header
<1> HIDE DEF retarget
<1>6. first \in Nat \cup {None} /\ checked \in Nat /\ skipped \in Nat
  BY <1>5
<1> HIDE DEF checked, skipped
<1>7. client' \in Client
  <2> HIDE DEF first
  <2> QED BY <1>1, <1>4, <1>5, <1>6 DEF Client
<1> QED BY <1>1, <1>2, <1>3, <1>4, <1>7

\* A header with a hash of the network is the next one of the network.
Honest(hd) ==
  hd.hash <= MaxHeight => client.height + 2 \in DOMAIN network /\ hd = network[client.height + 2]

LEMMA AcceptInv ==
  ASSUME IInv, NEW hd \in Header, Honest(hd), Accept(hd)
  PROVE  IInv'
<1> DEFINE n == Len(accepted)
<1>1. network' = network /\ client # None /\ offered' = hd
  BY DEF Accept
<1>2. NetworkInv'
  BY <1>1 DEF IInv, NetworkInv
<1>3. CASE Judge(hd) # "ok"
  <2>1. client' = client /\ accepted' = accepted
    BY <1>3 DEF Accept
  <2> QED BY <1>1, <1>2, <2>1
      DEF IInv, AcceptedInv, LinkedInv, ClientInv, WindowStart, DifficultyRuleEnforced
<1>4. CASE Judge(hd) = "ok"
  <2>1. /\ accepted \in Seq(Header) /\ n \in Nat /\ client.height = Anchor - 1 + n
        /\ Len(network) > MaxHeight /\ Anchor \in Nat /\ Anchor >= 1
    BY <1>1, AnchorAssumption DEF IInv, AcceptedInv, ClientInv
  <2>2. accepted' = Append(accepted, hd)
    BY <1>4, AcceptedIs
  <2>3. /\ accepted' \in Seq(Header) /\ Len(accepted') = n + 1 /\ accepted'[n + 1] = hd
        /\ \A i \in 1..n : accepted'[i] = accepted[i]
    BY <2>1, <2>2
  <2>4. client.height + 1 = HeightOf(n + 1) /\ client.height + 2 = HeightOf(n + 1) + 1
    BY <2>1 DEF HeightOf
  <2>5. /\ n = 0 => /\ client.tip = network[Anchor].hash
                    /\ client.bits = None /\ client.windowFirst = None
        /\ n # 0 => /\ client.tip = accepted[n].hash
                    /\ client.bits = accepted[n].bits
                    /\ client.lastTime = accepted[n].time
                    /\ \E s \in 1..n : WindowStart(s) /\ client.windowFirst = accepted[s].time
    <3>1. n = 0 <=> accepted = <<>>
      BY <2>1
    <3>2. DOMAIN accepted = 1..n
      BY <2>1
    <3> QED BY <1>1, <3>1, <3>2 DEF IInv, ClientInv
  <2>6. ASSUME NEW i \in 1..n PROVE accepted[i].time \in Nat /\ accepted[i].bits \in Bits
    <3>1. accepted[i] \in Header
      BY <2>1
    <3> QED BY <3>1 DEF Header
  <2>7. AcceptedInv'
    <3> SUFFICES ASSUME NEW i \in 1..(n + 1), accepted'[i].hash <= MaxHeight
                 PROVE  HeightOf(i) + 1 \in DOMAIN network /\ accepted'[i] = network[HeightOf(i) + 1]
      BY <1>1, <2>1, <2>3 DEF AcceptedInv
    <3>1. CASE i = n + 1
      BY <2>3, <2>4, <3>1 DEF Honest
    <3>2. CASE i # n + 1
      <4>1. i \in 1..n
        BY <2>1, <3>2
      <4> QED BY <2>3, <4>1 DEF IInv, AcceptedInv
    <3> QED BY <3>1, <3>2
  <2>8. LinkedInv'
    <3> SUFFICES ASSUME NEW i \in 1..(n + 1)
                 PROVE  /\ accepted'[i].prev = IF i = 1 THEN network[Anchor].hash
                                               ELSE accepted'[i - 1].hash
                        /\ ~accepted'[i].bits.negative /\ MeetsPow(accepted'[i])
      BY <1>1, <2>1, <2>3 DEF LinkedInv
    <3>1. CASE i = n + 1
      <4>1. hd.prev = client.tip /\ ~hd.bits.negative /\ MeetsPow(hd)
        BY <1>4, AcceptedIs
      <4>2. n # 0 => accepted'[i - 1] = accepted[n] /\ i # 1
        BY <2>1, <2>3, <3>1
      <4> QED BY <2>1, <2>3, <2>5, <3>1, <4>1, <4>2
    <3>2. CASE i # n + 1
      <4>1. i \in 1..n /\ (i # 1 => i - 1 \in 1..n)
        BY <2>1, <3>2
      <4> QED BY <2>3, <4>1 DEF IInv, LinkedInv
    <3> QED BY <3>1, <3>2
  <2>9. ClientInv'
    <3>1. client' # None
      BY <1>4, AcceptedIs, NoneAssumption
    <3>2. client'.height = Anchor - 1 + Len(accepted')
      BY <1>4, <2>1, <2>3, AcceptedIs
    <3>3. \E s \in DOMAIN accepted' : WindowStart(s)' /\ client'.windowFirst = accepted'[s].time
      <4>1. CASE Boundary(client.height + 1) \/ client.windowFirst = None
        <5>1. client'.windowFirst = accepted'[n + 1].time
          BY <1>4, <2>3, <4>1, AcceptedIs
        <5>2. n + 1 = 1 \/ Boundary(HeightOf(n + 1))
          <6> SUFFICES ASSUME n # 0, client.windowFirst = None PROVE FALSE
            BY <2>1, <2>4, <4>1
          <6>1. PICK s \in 1..n : client.windowFirst = accepted[s].time
            BY <2>5
          <6> QED BY <2>6, <6>1, NoneAssumption
        <5>3. PICK m \in Nat : m = n + 1
          BY <2>1
        <5>4. WindowStart(m)'
          BY <2>1, <2>3, <5>2, <5>3 DEF WindowStart, HeightOf
        <5>5. m \in DOMAIN accepted'
          BY <2>1, <2>3, <5>3
        <5> QED BY <5>1, <5>3, <5>4, <5>5
      <4>2. CASE ~(Boundary(client.height + 1) \/ client.windowFirst = None)
        <5>1. PICK s \in 1..n : WindowStart(s) /\ client.windowFirst = accepted[s].time
          BY <2>5, <4>2, <2>1
        <5>2. client'.windowFirst = accepted'[s].time
          BY <1>4, <2>3, <4>2, <5>1, AcceptedIs
        <5>3. ASSUME NEW k \in (s + 1)..(n + 1) PROVE ~Boundary(HeightOf(k))
          <6>1. k = n + 1 \/ k \in (s + 1)..n
            BY <2>1
          <6> QED BY <2>4, <4>2, <5>1, <6>1 DEF WindowStart
        <5>4. WindowStart(s)'
          BY <2>3, <5>1, <5>3 DEF WindowStart, HeightOf
        <5>5. s \in DOMAIN accepted'
          BY <2>1, <2>3
        <5> QED BY <5>2, <5>4, <5>5
      <4> QED BY <4>1, <4>2
    <3>4. /\ client' \in Client /\ client'.tip = accepted'[n + 1].hash
          /\ client'.bits = accepted'[n + 1].bits /\ client'.lastTime = accepted'[n + 1].time
      BY <1>4, <2>3, AcceptedIs
    <3>5. accepted' # <<>>
      BY <2>1, <2>3
    <3> QED BY <1>1, <2>1, <2>3, <3>1, <3>2, <3>3, <3>4, <3>5 DEF ClientInv
  <2>10. DifficultyRuleEnforced'
    <3> SUFFICES ASSUME CheckDifficulty, NEW i \in 2..(n + 1)
                 PROVE  IF Boundary(HeightOf(i))
                        THEN i > Interval =>
                               accepted'[i].bits = NextTarget(accepted'[i - Interval].time,
                                                              accepted'[i - 1].time,
                                                              accepted'[i - 1].bits)
                        ELSE accepted'[i].bits = accepted'[i - 1].bits
      BY <2>3 DEF DifficultyRuleEnforced, HeightOf
    <3>1. CASE i = n + 1
      <4>1. n \in 1..n /\ n # 0 /\ i - 1 = n
        BY <2>1, <3>1
      <4>2. client.bits # None /\ client.bits = accepted[n].bits /\ client.lastTime = accepted[n].time
        BY <2>5, <2>6, <4>1, NoneAssumption
      <4>3. MeetsRule(hd)
        BY <1>4, AcceptedIs
      <4>4. accepted'[i] = hd /\ accepted'[i - 1] = accepted[n]
        BY <2>3, <3>1, <4>1
      <4>5. CASE Boundary(HeightOf(i))
        <5> SUFFICES ASSUME i > Interval
                     PROVE  hd.bits = NextTarget(accepted'[i - Interval].time, accepted[n].time,
                                                 accepted[n].bits)
          BY <4>4, <4>5
        <5>1. PICK s \in 1..n : WindowStart(s) /\ client.windowFirst = accepted[s].time
          BY <2>5, <4>1
        <5>2. s = n + 1 - Interval
          BY <2>1, <3>1, <4>5, <5>1, WindowIs
        <5>3. accepted'[i - Interval] = accepted[s]
          BY <2>1, <2>3, <3>1, <5>2, IntervalAssumption
        <5>4. client.windowFirst # None
          BY <2>6, <5>1, NoneAssumption
        <5> QED BY <2>4, <3>1, <4>2, <4>3, <4>5, <5>1, <5>3, <5>4 DEF MeetsRule
      <4>6. CASE ~Boundary(HeightOf(i))
        BY <2>4, <3>1, <4>2, <4>3, <4>4, <4>6 DEF MeetsRule
      <4> QED BY <4>4, <4>5, <4>6
    <3>2. CASE i # n + 1
      <4>1. i \in 2..n /\ i \in 1..n /\ i - 1 \in 1..n
        BY <2>1, <3>2
      <4>2. i > Interval => i - Interval \in 1..n
        BY <4>1, IntervalAssumption
      <4>3. accepted'[i] = accepted[i] /\ accepted'[i - 1] = accepted[i - 1]
        BY <2>3, <4>1
      <4>4. i > Interval => accepted'[i - Interval] = accepted[i - Interval]
        BY <2>3, <4>2
      <4> QED BY <4>1, <4>3, <4>4 DEF IInv, DifficultyRuleEnforced
    <3> QED BY <3>1, <3>2
  <2> QED BY <1>2, <2>7, <2>8, <2>9, <2>10 DEF IInv
<1> QED BY <1>3, <1>4

LEMMA NetworkIsHonest ==
  ASSUME IInv, NEW hd \in FromNetwork
  PROVE  /\ hd \in Header /\ Honest(hd) /\ client # None
         /\ client.height + 2 \in DOMAIN network /\ hd = network[client.height + 2]
<1>1. PICK i \in DOMAIN network : client # None /\ i = client.height + 2 /\ hd = network[i]
  BY DEF FromNetwork
<1>2. network[i] \in Header
  BY <1>1 DEF IInv, NetworkInv
<1> QED BY <1>1, <1>2 DEF Honest

LEMMA ElsewhereIsHonest ==
  ASSUME IInv, NEW hd \in FromElsewhere
  PROVE  hd \in Header /\ Honest(hd) /\ hd.hash > MaxHeight
<1>1. client # None
  BY DEF FromElsewhere
<1>2. client \in Client
  BY <1>1 DEF IInv, ClientInv
<1>3. client.height \in Nat /\ client.tip \in Nat /\ client.lastTime \in Nat \cup {None}
  BY <1>2 DEF Client
<1> DEFINE time(d) == d + IF client.lastTime = None THEN 0 ELSE client.lastTime
<1>4. PICK p \in {client.tip, client.tip + 1}, d \in Delays, b \in ClaimedBits, w \in BOOLEAN :
        hd = [hash |-> MaxHeight + 2 + client.height, prev |-> p, bits |-> b, meets |-> w,
              time |-> time(d)]
  BY <1>1 DEF FromElsewhere
<1>5. time(d) \in Nat
  BY <1>3, DelayAssumption
<1>6. b \in Bits
  <2>1. ASSUME NEW t \in OtherTargets, b = TargetToBits(t) PROVE b \in Bits
    BY <2>1, TargetsAssumption, RoundsDown
  <2>2. ASSUME b = [CompactBits(Digits, 1) EXCEPT !.negative = TRUE] PROVE b \in Bits
    <3>1. PICK half \in Nat \ {0} : Base = 2 * half /\ SignBit = half * (Base * Base)
      BY SignBitIs
    <3>2. half * (Base * Base) >= 2 /\ half * (Base * Base) \in Nat
      <4>1. Base * Base \in Nat /\ Base * Base >= 2
        BY BaseAssumption, SMTT(30)
      <4> DEFINE y == Base * Base
      <4> HIDE DEF y
      <4>2. half * y >= 2 /\ half * y \in Nat
        BY <4>1, SMTT(30) DEF y
      <4> QED BY <4>2 DEF y
    <3>3. 1 \in 0..(SignBit - 1)
      BY <3>1, <3>2
    <3> QED BY <2>2, <3>3 DEF CompactBits, Bits, Digits
  <2>3. ASSUME client.bits # None,
               b = client.bits \/ b = NextTarget(client.windowFirst, client.lastTime, client.bits)
        PROVE  b \in Bits
    <3>1. client.bits \in Bits
      BY <1>2, <2>3 DEF Client
    <3>2. accepted # <<>>
      BY <1>1, <2>3 DEF IInv, ClientInv
    <3>3. PICK s \in DOMAIN accepted : client.windowFirst = accepted[s].time
      BY <1>1, <3>2 DEF IInv, ClientInv
    <3>4. client.lastTime = accepted[Len(accepted)].time
      BY <1>1, <3>2 DEF IInv, ClientInv
    <3>5. accepted[s] \in Header /\ accepted[Len(accepted)] \in Header
      BY <3>2 DEF IInv, AcceptedInv
    <3>6. client.windowFirst \in Int /\ client.lastTime \in Int
      BY <3>3, <3>4, <3>5 DEF Header
    <3>7. NextTarget(client.windowFirst, client.lastTime, client.bits) \in Bits
      BY <3>1, <3>6, NextTargetIs
    <3> QED BY <2>3, <3>1, <3>7
  <2> QED BY <2>1, <2>2, <2>3 DEF ClaimedBits
<1> HIDE DEF time
<1>7. MaxHeight \in Nat
  BY HeightAssumption
<1>8. hd \in Header /\ hd.hash = MaxHeight + 2 + client.height
  BY <1>3, <1>4, <1>5, <1>6, <1>7 DEF Header
<1>9. hd.hash > MaxHeight /\ ~(hd.hash <= MaxHeight)
  BY <1>3, <1>7, <1>8
<1> QED BY <1>8, <1>9 DEF Honest

LEMMA NextInv == IInv /\ [Next]_vars => IInv'
<1> SUFFICES ASSUME IInv, [Next]_vars PROVE IInv'
  OBVIOUS
<1>1. ASSUME NEW delay \in Delays, Mine(delay) PROVE IInv'
  BY <1>1, MineInv
<1>2. CASE Begin
  BY <1>2, BeginInv
<1>3. ASSUME NEW hd \in FromNetwork, Accept(hd) PROVE IInv'
  BY <1>3, NetworkIsHonest, AcceptInv
<1>4. ASSUME NEW hd \in FromElsewhere, Accept(hd) PROVE IInv'
  BY <1>4, ElsewhereIsHonest, AcceptInv
<1>5. CASE UNCHANGED vars
  BY <1>5 DEF vars, IInv, NetworkInv, AcceptedInv, LinkedInv, ClientInv, WindowStart,
              DifficultyRuleEnforced
<1> QED BY <1>1, <1>2, <1>3, <1>4, <1>5 DEF Next

-----------------------------------------------------------------------------
(* The theorems.                                                           *)

\* The client's fields are always those of the chain it has accepted, and that
\* chain is linked to the anchor and carries work in every header, whoever sent
\* it.  (HeaderChain.accept)
THEOREM ChainInv == Spec => []IInv
<1>1. Init => IInv
  BY InitInv
<1>2. IInv /\ [Next]_vars => IInv'
  BY NextInv
<1> QED BY <1>1, <1>2, PTL DEF Spec

\* For every interval, anchor and target: of all the client accepted, each
\* header has the bits the rule computes from those before it, wherever these
\* reach back to the start of the window.  (HeaderChain.accept)
THEOREM DifficultyTheorem == Spec => []DifficultyRuleEnforced
<1>1. IInv => DifficultyRuleEnforced
  BY DEF IInv
<1> QED BY <1>1, ChainInv, PTL

\* The next header of the network, after headers of the network only, passes
\* every check.
LEMMA NextIsAccepted ==
  ASSUME Boundary(Anchor) \/ ~CheckDifficulty,
         IInv, NEW hd \in FromNetwork,
         \A i \in DOMAIN accepted : accepted[i].hash <= MaxHeight
  PROVE  Judge(hd) = "ok"
<1> DEFINE n == Len(accepted)
           h == client.height
<1>1. client # None /\ h + 2 \in DOMAIN network /\ hd = network[h + 2]
  BY NetworkIsHonest
<1>2. /\ n \in Nat /\ accepted \in Seq(Header) /\ h = Anchor - 1 + n /\ Anchor \in Nat /\ Anchor >= 1
      /\ network \in Seq(Header)
  BY <1>1, AnchorAssumption DEF IInv, ClientInv, AcceptedInv, NetworkInv
<1>3. \A i \in 1..n : accepted[i] = network[HeightOf(i) + 1] /\ HeightOf(i) + 1 \in DOMAIN network
  BY <1>2 DEF IInv, AcceptedInv
<1>4. n = 0 <=> accepted = <<>>
  BY <1>2
<1>5. h \in Nat /\ h >= 0 /\ h + 1 \in 1..Len(network) /\ h + 2 \in 2..Len(network)
  BY <1>1, <1>2
<1>6. n # 0 => n \in 1..n /\ accepted[n] = network[h + 1]
  BY <1>2, <1>3 DEF HeightOf
<1>7. hd.prev = client.tip
  <2>1. hd.prev = h
    BY <1>1, <1>5 DEF IInv, NetworkInv
  <2>2. client.tip = network[h + 1].hash
    <3>1. CASE n = 0
      <4>1. Anchor = h + 1
        BY <1>2, <3>1
      <4> QED BY <1>1, <1>4, <3>1, <4>1 DEF IInv, ClientInv
    <3>2. CASE n # 0
      BY <1>1, <1>4, <1>6, <3>2 DEF IInv, ClientInv
    <3> QED BY <3>1, <3>2
  <2>3. network[h + 1].hash = h
    BY <1>5 DEF IInv, NetworkInv
  <2> QED BY <2>1, <2>2, <2>3
<1>8. ~hd.bits.negative /\ MeetsPow(hd)
  BY <1>1 DEF IInv, NetworkInv
<1>9. MeetsRule(hd)
  <2> SUFFICES ASSUME CheckDifficulty, client.bits # None PROVE MeetsRule(hd)
    BY DEF MeetsRule
  <2>1. n # 0
    BY <1>1, <1>4 DEF IInv, ClientInv
  <2>2. client.bits = network[h + 1].bits /\ client.lastTime = network[h + 1].time
    BY <1>1, <1>4, <1>6, <2>1 DEF IInv, ClientInv
  <2>3. (h + 2) - 1 = h + 1
    BY <1>5
  <2>4. hd.bits = IF Boundary(h + 1)
                  THEN NextTarget(network[h + 2 - Interval].time, network[h + 1].time,
                                  network[h + 1].bits)
                  ELSE network[h + 1].bits
    <3> DEFINE j == h + 2
    <3>1. j \in 2..Len(network) /\ hd = network[j]
      BY <1>1, <1>5
    <3>2. j - 1 = h + 1 /\ j - Interval = h + 2 - Interval
      <4>1. j - 1 = h + 1
        BY <2>3
      <4>2. j - Interval = h + 2 - Interval
        BY <1>5, IntervalAssumption
      <4> QED BY <4>1, <4>2
    <3> HIDE DEF j
    <3>3. hd.bits = IF Boundary(j - 1)
                    THEN NextTarget(network[j - Interval].time, network[j - 1].time,
                                    network[j - 1].bits)
                    ELSE network[j - 1].bits
      BY <3>1 DEF IInv, NetworkInv
    <3> QED BY <3>2, <3>3
  <2>5. CASE Boundary(h + 1)
    <3>1. PICK s \in 1..n : WindowStart(s) /\ client.windowFirst = accepted[s].time
      BY <1>1, <1>2, <1>4, <2>1 DEF IInv, ClientInv
    <3>2. Boundary(HeightOf(s))
      <4>1. CASE s = 1
        <5>1. HeightOf(s) = Anchor
          BY <1>2, <4>1 DEF HeightOf
        <5> QED BY <5>1
      <4>2. CASE s # 1
        BY <3>1, <4>2 DEF WindowStart
      <4> QED BY <4>1, <4>2
    <3>3. HeightOf(n + 1) = h + 1
      BY <1>2 DEF HeightOf
    <3>4. s = n + 1 - Interval
      BY <1>2, <2>5, <3>1, <3>2, <3>3, WindowIs
    <3>5. HeightOf(s) + 1 = h + 2 - Interval
      <4>1. HeightOf(s) = Anchor + s - 1 /\ HeightOf(n + 1) = Anchor + (n + 1) - 1
        BY DEF HeightOf
      <4>2. Anchor \in Int /\ n \in Int /\ h \in Int /\ Interval \in Int
        BY <1>2, IntervalAssumption
      <4> QED BY <3>3, <3>4, <4>1, <4>2
    <3>6. client.windowFirst = network[h + 2 - Interval].time
      BY <1>3, <3>1, <3>5
    <3> QED BY <2>2, <2>4, <2>5, <3>6 DEF MeetsRule
  <2>6. CASE ~Boundary(h + 1)
    BY <2>2, <2>4, <2>6 DEF MeetsRule
  <2> QED BY <2>5, <2>6
<1> QED BY <1>7, <1>8, <1>9 DEF Judge

\* A client that starts at the boundary of a window, or does not check the
\* rule, never refuses a header of the network as long as every header it took
\* came from there: no rounding of targets, no window, no length of the chain
\* stops it.  (HeaderChain.accept, next_target)
THEOREM NetworkIsAccepted ==
  ASSUME Boundary(Anchor) \/ ~CheckDifficulty
  PROVE  Spec => []AcceptsTheNetwork
<1>1. Init => AcceptsTheNetwork
  BY DEF Init, AcceptsTheNetwork
<1>2. IInv /\ AcceptsTheNetwork /\ [Next]_vars => AcceptsTheNetwork'
  <2> SUFFICES ASSUME IInv, AcceptsTheNetwork, [Next]_vars PROVE AcceptsTheNetwork'
    OBVIOUS
  <2>1. ASSUME NEW delay \in Delays, Mine(delay) PROVE AcceptsTheNetwork'
    BY <2>1 DEF Mine, AcceptsTheNetwork
  <2>2. CASE Begin
    BY <2>2 DEF Begin, AcceptsTheNetwork
  <2>3. ASSUME NEW hd \in FromNetwork, Accept(hd) PROVE AcceptsTheNetwork'
    <3> SUFFICES ASSUME \A i \in DOMAIN accepted' : accepted'[i].hash <= MaxHeight,
                        Judge(hd) # "ok"
                 PROVE  FALSE
      BY <2>3 DEF Accept, AcceptsTheNetwork
    <3>1. accepted' = accepted
      BY <2>3 DEF Accept
    <3> QED BY <3>1, NextIsAccepted
  <2>4. ASSUME NEW hd \in FromElsewhere, Accept(hd) PROVE AcceptsTheNetwork'
    <3>1. offered' = hd
      BY <2>4 DEF Accept
    <3>2. hd \in Header /\ hd.hash > MaxHeight
      BY ElsewhereIsHonest
    <3>3. ~(hd.hash <= MaxHeight)
      BY <3>2, HeightAssumption DEF Header
    <3> QED BY <3>1, <3>3 DEF AcceptsTheNetwork
  <2>5. CASE UNCHANGED vars
    BY <2>5 DEF vars, AcceptsTheNetwork
  <2> QED BY <2>1, <2>2, <2>3, <2>4, <2>5 DEF Next
<1> QED BY <1>1, <1>2, ChainInv, PTL DEF Spec
=============================================================================
