----------------------------- MODULE HostID6Proofs ----------------------------
(***************************************************************************)
(* Theorems about HostID6 and IPNet, for every entry and every derivation: *)
(* what the derivation of an address does to its bits.                     *)
(***************************************************************************)
EXTENDS HostID6, TLAPS

-----------------------------------------------------------------------------
(* Powers of two                                                           *)

\* The powers of two up to 2^16.
Power(n) ==
  IF n = 0 THEN 1 ELSE IF n = 1 THEN 2 ELSE IF n = 2 THEN 4 ELSE IF n = 3 THEN 8
  ELSE IF n = 4 THEN 16 ELSE IF n = 5 THEN 32 ELSE IF n = 6 THEN 64 ELSE IF n = 7 THEN 128
  ELSE IF n = 8 THEN 256 ELSE IF n = 9 THEN 512 ELSE IF n = 10 THEN 1024
  ELSE IF n = 11 THEN 2048 ELSE IF n = 12 THEN 4096 ELSE IF n = 13 THEN 8192
  ELSE IF n = 14 THEN 16384 ELSE IF n = 15 THEN 32768 ELSE 65536

\* The table is right.
LEMMA PowerIs == ASSUME NEW n \in 0 .. 16 PROVE 2^n = Power(n)
<1>a. \/ n = 0 \/ n = 1 \/ n = 2 \/ n = 3 \/ n = 4 \/ n = 5 \/ n = 6 \/ n = 7 \/ n = 8
      \/ n = 9 \/ n = 10 \/ n = 11 \/ n = 12 \/ n = 13 \/ n = 14 \/ n = 15 \/ n = 16
  OBVIOUS
<1>0. CASE n = 0
  BY <1>0 DEF Power
<1>1. CASE n = 1
  BY <1>1 DEF Power
<1>2. CASE n = 2
  BY <1>2 DEF Power
<1>3. CASE n = 3
  BY <1>3 DEF Power
<1>4. CASE n = 4
  BY <1>4 DEF Power
<1>5. CASE n = 5
  BY <1>5 DEF Power
<1>6. CASE n = 6
  BY <1>6 DEF Power
<1>7. CASE n = 7
  BY <1>7 DEF Power
<1>8. CASE n = 8
  BY <1>8 DEF Power
<1>9. CASE n = 9
  BY <1>9 DEF Power
<1>10. CASE n = 10
  BY <1>10 DEF Power
<1>11. CASE n = 11
  BY <1>11 DEF Power
<1>12. CASE n = 12
  BY <1>12 DEF Power
<1>13. CASE n = 13
  BY <1>13 DEF Power
<1>14. CASE n = 14
  BY <1>14 DEF Power
<1>15. CASE n = 15
  BY <1>15 DEF Power
<1>16. CASE n = 16
  BY <1>16 DEF Power
<1>17. QED
  BY <1>a, <1>0, <1>1, <1>2, <1>3, <1>4, <1>5, <1>6, <1>7, <1>8,
     <1>9, <1>10, <1>11, <1>12, <1>13, <1>14, <1>15, <1>16

\* Its entries are positive.
LEMMA PowerType == ASSUME NEW n \in 0 .. 16 PROVE Power(n) \in Nat /\ Power(n) > 0
  BY DEF Power

\* Every one is twice the one before.
LEMMA Double == ASSUME NEW n \in 0 .. 15 PROVE Power(n + 1) = 2 * Power(n)
  BY DEF Power

\* The smaller one divides the larger one.
LEMMA Factor ==
  ASSUME NEW i \in 0 .. 16, NEW k \in 0 .. 16, i <= k
  PROVE  Power(k) = Power(i) * Power(k - i)
<1>a. \/ k = 0 \/ k = 1 \/ k = 2 \/ k = 3 \/ k = 4 \/ k = 5 \/ k = 6 \/ k = 7 \/ k = 8
      \/ k = 9 \/ k = 10 \/ k = 11 \/ k = 12 \/ k = 13 \/ k = 14 \/ k = 15 \/ k = 16
  OBVIOUS
<1>0. CASE k = 0
  BY <1>0 DEF Power
<1>1. CASE k = 1
  BY <1>1 DEF Power
<1>2. CASE k = 2
  BY <1>2 DEF Power
<1>3. CASE k = 3
  BY <1>3 DEF Power
<1>4. CASE k = 4
  BY <1>4 DEF Power
<1>5. CASE k = 5
  BY <1>5 DEF Power
<1>6. CASE k = 6
  BY <1>6 DEF Power
<1>7. CASE k = 7
  BY <1>7 DEF Power
<1>8. CASE k = 8
  BY <1>8 DEF Power
<1>9. CASE k = 9
  BY <1>9 DEF Power
<1>10. CASE k = 10
  BY <1>10 DEF Power
<1>11. CASE k = 11
  BY <1>11 DEF Power
<1>12. CASE k = 12
  BY <1>12 DEF Power
<1>13. CASE k = 13
  BY <1>13 DEF Power
<1>14. CASE k = 14
  BY <1>14 DEF Power
<1>15. CASE k = 15
  BY <1>15 DEF Power
<1>16. CASE k = 16
  BY <1>16 DEF Power
<1>17. QED
  BY <1>a, <1>0, <1>1, <1>2, <1>3, <1>4, <1>5, <1>6, <1>7, <1>8,
     <1>9, <1>10, <1>11, <1>12, <1>13, <1>14, <1>15, <1>16

\* A longer prefix leaves fewer addresses.
LEMMA PowersGrow ==
  ASSUME NEW m \in 0 .. 16, NEW n \in 0 .. 16, m <= n
  PROVE  2^m <= 2^n
<1>1. Power(m) <= Power(n)
  BY DEF Power
<1>2. 2^m = Power(m) /\ 2^n = Power(n)
  BY PowerIs, Zenon
<1>3. QED
  BY <1>1, <1>2

-----------------------------------------------------------------------------
(* Division                                                                *)

\* What quotients and remainders are,
LEMMA DivMod ==
  ASSUME NEW p \in Nat, p > 0, NEW a \in Nat
  PROVE  \E q \in Nat, r \in Nat : q = a \div p /\ r = a % p /\ r < p /\ a = p * q + r
<1>1. PICK q \in Int, r \in Int : q = a \div p /\ r = a % p
  OBVIOUS
<1>2. q >= 0 /\ r \in 0 .. p - 1 /\ a = p * q + r
  BY <1>1
<1>3. QED
  BY <1>1, <1>2

\* how multiples are spaced,
LEMMA Multiples ==
  ASSUME NEW p \in Nat, NEW c \in Int, NEW d \in Int, c < d
  PROVE  p * c + p <= p * d
  OBVIOUS

\* and that there is one way only to divide.
LEMMA Quotient ==
  ASSUME NEW p \in Nat, p > 0, NEW d \in Nat, NEW r \in Nat, r < p
  PROVE  (p * d + r) \div p = d /\ (p * d + r) % p = r
<1> DEFINE a == p * d + r
<1>1. a \in Nat
  OBVIOUS
<1>2. PICK q \in Nat, m \in Nat : q = a \div p /\ m = a % p /\ m < p /\ a = p * q + m
  <2> HIDE DEF a
  <2>1. QED
    BY <1>1, DivMod
<1>3. ~(q < d)
  BY <1>2, Multiples
<1>4. ~(d < q)
  BY <1>2, Multiples
<1>5. q = d
  BY <1>2, <1>3, <1>4
<1>6. m = r
  BY <1>2, <1>5
<1> HIDE DEF a
<1>7. QED
  BY <1>2, <1>5, <1>6 DEF a

\* The quotient of a multiple,
LEMMA QuotientOfMultiple ==
  ASSUME NEW p \in Nat, p > 0, NEW c \in Nat
  PROVE  (p * c) \div p = c
<1>1. (p * c + 0) \div p = c
  BY Quotient
<1>2. p * c + 0 = p * c
  OBVIOUS
<1>3. QED
  BY <1>1, <1>2, Zenon

\* and of a multiple and something added to it.
LEMMA QuotientOfSum ==
  ASSUME NEW p \in Nat, p > 0, NEW c \in Nat, NEW h \in Nat
  PROVE  (p * c + h) \div p = c + h \div p /\ h \div p \in Nat
<1>1. PICK d \in Nat, r \in Nat : d = h \div p /\ r < p /\ h = p * d + r
  BY DivMod
<1>2. (p * (c + d) + r) \div p = c + d
  <2>1. r < p /\ c + d \in Nat
    BY <1>1
  <2>2. QED
    BY <2>1, Quotient, Zenon
<1>3. p * c + h = p * (c + d) + r
  <2>1. h = p * d + r
    BY <1>1
  <2>2. QED
    BY <2>1
<1>4. (p * c + h) \div p = c + d
  BY <1>2, <1>3, Zenon
<1>5. QED
  BY <1>1, <1>4, Zenon

\* A remainder that is a multiple of c leaves room for what is less than c.
LEMMA RoomLeft ==
  ASSUME NEW c \in Nat, NEW j \in Nat, NEW s \in Nat, NEW d \in Nat, NEW r \in Nat, NEW h \in Nat,
         c * s = (c * j) * d + r, r < c * j, h < c
  PROVE  r + h < c * j
<1>1. PICK t \in Int : t = s - j * d
  OBVIOUS
<1>2. r = c * t
  BY <1>1
<1>3. ~(j <= t)
  BY <1>2
<1>4. c * t + c <= c * j
  BY <1>3, Multiples
<1>5. QED
  BY <1>2, <1>4

-----------------------------------------------------------------------------
(* Binary digits                                                           *)

\* A binary digit, and the number that the digits before it make.
Digit(a, i) == (a \div Power(i)) % 2
Rem(a, i) == a % Power(i)

\* A number whose last k digits are zero.
Multiple(m, k) == \E s \in Nat : m = Power(k) * s

\* The set of bits of a number has the positions of its digits that are one.
LEMMA BitSetIs ==
  ASSUME NEW a
  PROVE  BitSet(a) = {i \in 0 .. 15 : Digit(a, i) = 1}
<1>1. BitLen["IP6"] - 1 = 15
  BY DEF BitLen
<1>2. ASSUME NEW i \in 0 .. 15 PROVE 2^i = Power(i)
  <2>1. i \in 0 .. 16
    OBVIOUS
  <2>2. QED
    BY <2>1, PowerIs, Zenon
<1>3. QED
  BY <1>1, <1>2 DEF BitSet, Digit

\* The zeros at the end of a number show the digits of what is added to it,
LEMMA LowDigits ==
  ASSUME NEW k \in 0 .. 16, NEW m \in Nat, Multiple(m, k), NEW h \in Nat,
         NEW i \in 0 .. 15, i < k
  PROVE  Digit(m, i) = 0 /\ Digit(m + h, i) = Digit(h, i)
<1>1. PICK p \in Nat : p = Power(i) /\ p > 0
  BY PowerType
<1>2. PICK j \in Nat : Power(k) = (2 * p) * j
  <2>1. i + 1 \in 0 .. 16 /\ k - (i + 1) \in 0 .. 16 /\ i + 1 <= k
    OBVIOUS
  <2>2. Power(k) = Power(i + 1) * Power(k - (i + 1))
    BY <2>1, Factor
  <2>3. Power(k - (i + 1)) \in Nat
    BY <2>1, PowerType
  <2>4. Power(i + 1) = 2 * p
    BY <1>1, Double
  <2>5. QED
    BY <2>2, <2>3, <2>4
<1>3. PICK t \in Nat : m = p * (2 * t)
  <2>1. PICK s \in Nat : m = Power(k) * s
    BY DEF Multiple
  <2>2. PICK t \in Nat : t = j * s
    OBVIOUS
  <2>3. m = ((2 * p) * j) * s
    BY <1>2, <2>1
  <2>4. ((2 * p) * j) * s = p * (2 * t)
    BY <2>2
  <2>5. QED
    BY <2>3, <2>4
<1>4. PICK c \in Nat : c = 2 * t
  OBVIOUS
<1>5. p > 0 /\ m = p * c
  BY <1>1, <1>3, <1>4
<1>6. m \div p = c
  BY <1>5, QuotientOfMultiple, Zenon
<1>7. (m + h) \div p = c + h \div p
  <2>1. (p * c + h) \div p = c + h \div p
    BY <1>5, QuotientOfSum, Zenon
  <2>2. QED
    BY <1>5, <2>1, Zenon
<1>8. PICK d \in Nat : d = h \div p
  BY <1>5, QuotientOfSum, Zenon
<1>9. (c + d) % 2 = d % 2 /\ c % 2 = 0
  BY <1>4
<1>10. QED
  BY <1>1, <1>6, <1>7, <1>8, <1>9, Zenon DEF Digit

\* and something less than that leaves the digits before them.
LEMMA HighDigits ==
  ASSUME NEW k \in 0 .. 16, NEW m \in Nat, Multiple(m, k), NEW h \in Nat, h < Power(k),
         NEW i \in 0 .. 15, k <= i
  PROVE  Digit(h, i) = 0 /\ Digit(m + h, i) = Digit(m, i)
<1>1. PICK c \in Nat, j \in Nat, p \in Nat :
        c = Power(k) /\ p = Power(i) /\ p = c * j /\ c > 0 /\ j > 0 /\ p > 0
  <2>1. k \in 0 .. 16 /\ i \in 0 .. 16 /\ i - k \in 0 .. 16
    OBVIOUS
  <2>2. Power(i) = Power(k) * Power(i - k)
    BY <2>1, Factor
  <2>3. QED
    BY <2>1, <2>2, PowerType
<1>2. PICK d \in Nat, r \in Nat : d = m \div p /\ r < p /\ m = p * d + r
  <2>1. p > 0
    BY <1>1
  <2>2. QED
    BY <2>1, DivMod
<1>3. r + h < p
  <2>1. PICK s \in Nat : m = c * s
    BY <1>1 DEF Multiple
  <2>2. p = c * j /\ h < c
    BY <1>1
  <2>3. c * s = (c * j) * d + r /\ r < c * j
    BY <1>2, <2>1, <2>2
  <2>4. r + h < c * j
    BY <2>2, <2>3, RoomLeft
  <2>5. QED
    BY <2>2, <2>4
<1>4. (p * d + (r + h)) \div p = d
  BY <1>3, Quotient
<1>5. m + h = p * d + (r + h)
  <2>1. m = p * d + r
    BY <1>2
  <2>2. QED
    BY <2>1
<1>6. (m + h) \div p = d
  BY <1>4, <1>5, Zenon
<1>7. h < p
  BY <1>3
<1>8. h \div p = 0
  <2>1. (p * 0 + h) \div p = 0
    BY <1>7, Quotient
  <2>2. p * 0 + h = h
    OBVIOUS
  <2>3. QED
    BY <2>1, <2>2, Zenon
<1>9. 0 % 2 = 0
  OBVIOUS
<1>10. QED
  BY <1>1, <1>2, <1>6, <1>8, <1>9, Zenon DEF Digit

\* So adding it is joining the bits.
LEMMA BitsOfSum ==
  ASSUME NEW k \in 0 .. 16, NEW m \in Nat, Multiple(m, k), NEW h \in Nat, h < Power(k)
  PROVE  BitSet(m) \cup BitSet(h) = BitSet(m + h)
<1>1. ASSUME NEW i \in 0 .. 15
      PROVE  Digit(m + h, i) = 1 <=> Digit(m, i) = 1 \/ Digit(h, i) = 1
  <2>1. CASE i < k
    <3>1. Digit(m, i) = 0 /\ Digit(m + h, i) = Digit(h, i)
      BY <2>1, LowDigits
    <3>2. QED
      BY <3>1
  <2>2. CASE k <= i
    <3>1. Digit(h, i) = 0 /\ Digit(m + h, i) = Digit(m, i)
      BY <2>2, HighDigits
    <3>2. QED
      BY <3>1
  <2>3. QED
    BY <2>1, <2>2
<1>2. QED
  BY <1>1, BitSetIs

\* A digit takes its part of the number.
LEMMA RemStep ==
  ASSUME NEW a \in Nat, NEW i \in 0 .. 15
  PROVE  /\ Rem(a, i + 1) = Rem(a, i) + Power(i) * Digit(a, i)
         /\ Digit(a, i) \in {0, 1}
<1> DEFINE p == Power(i)
           c == Power(i + 1)
<1>1. p \in Nat /\ p > 0 /\ c \in Nat /\ c > 0 /\ c = 2 * p
  BY PowerType, Double
<1> HIDE DEF p, c
<1>2. PICK q \in Nat, r \in Nat : q = a \div p /\ r = a % p /\ r < p /\ a = p * q + r
  BY <1>1, DivMod
<1>3. PICK half \in Nat, d \in {0, 1} : q = 2 * half + d /\ d = q % 2
  BY <1>2
<1>4. p * d + r \in Nat /\ p * d + r < c
  BY <1>1, <1>2, <1>3
<1>5. (c * half + (p * d + r)) % c = p * d + r
  BY <1>1, <1>4, Quotient
<1>6. a = c * half + (p * d + r)
  BY <1>1, <1>2, <1>3
<1>7. a % c = r + p * d
  <2>1. a % c = p * d + r
    BY <1>5, <1>6, Zenon
  <2>2. QED
    BY <1>1, <1>2, <1>3, <2>1
<1>8. Rem(a, i + 1) = r + p * d
  BY <1>7 DEF Rem, c
<1>9. Rem(a, i) = r /\ Digit(a, i) = d
  BY <1>2, <1>3 DEF Rem, Digit, p
<1>10. QED
  BY <1>3, <1>8, <1>9 DEF p

\* A number is the one with its bits.
LEMMA NumberOfBits ==
  ASSUME NEW a \in Nat, a < Power(16)
  PROVE  Number(BitSet(a)) = a
<1> DEFINE value(i) == IF i \in BitSet(a) THEN 2^i ELSE 0
           rem(i) == Rem(a, i)
<1>a. rem(0) = 0 /\ rem(16) = a
  <2>1. Power(16) = 65536 /\ Power(0) = 1
    BY DEF Power
  <2>2. QED
    BY <2>1 DEF Rem
<1>b. ASSUME NEW i \in 0 .. 15 PROVE value(i) = rem(i + 1) - rem(i)
  <2>1. i \in 0 .. 16
    OBVIOUS
  <2>2. 2^i = Power(i) /\ Power(i) \in Nat
    BY <2>1, PowerIs, PowerType, Zenon
  <2>3. PICK r \in Nat : r = Rem(a, i)
    BY <2>1, PowerType, DivMod DEF Rem
  <2>5. value(i) = IF Digit(a, i) = 1 THEN Power(i) ELSE 0
    BY <2>2, BitSetIs, Zenon
  <2>6. QED
    BY <2>2, <2>3, <2>5, RemStep
<1>c. \A i \in 0 .. 16 : rem(i) \in Int
  <2>1. ASSUME NEW i \in 0 .. 16 PROVE rem(i) \in Int
    BY PowerType, DivMod DEF Rem
  <2>2. QED
    BY <2>1
<1>d. Number(BitSet(a)) =
        value(0) + value(1) + value(2) + value(3) + value(4) + value(5) + value(6) + value(7)
        + value(8) + value(9) + value(10) + value(11) + value(12) + value(13) + value(14) + value(15)
  BY DEF Number
<1> HIDE DEF value, rem
<1>0. value(0) = rem(1) - rem(0) /\ rem(1) \in Int
  BY <1>b, <1>c
<1>1. value(1) = rem(2) - rem(1) /\ rem(2) \in Int
  BY <1>b, <1>c
<1>2. value(2) = rem(3) - rem(2) /\ rem(3) \in Int
  BY <1>b, <1>c
<1>3. value(3) = rem(4) - rem(3) /\ rem(4) \in Int
  BY <1>b, <1>c
<1>4. value(4) = rem(5) - rem(4) /\ rem(5) \in Int
  BY <1>b, <1>c
<1>5. value(5) = rem(6) - rem(5) /\ rem(6) \in Int
  BY <1>b, <1>c
<1>6. value(6) = rem(7) - rem(6) /\ rem(7) \in Int
  BY <1>b, <1>c
<1>7. value(7) = rem(8) - rem(7) /\ rem(8) \in Int
  BY <1>b, <1>c
<1>8. value(8) = rem(9) - rem(8) /\ rem(9) \in Int
  BY <1>b, <1>c
<1>9. value(9) = rem(10) - rem(9) /\ rem(10) \in Int
  BY <1>b, <1>c
<1>10. value(10) = rem(11) - rem(10) /\ rem(11) \in Int
  BY <1>b, <1>c
<1>11. value(11) = rem(12) - rem(11) /\ rem(12) \in Int
  BY <1>b, <1>c
<1>12. value(12) = rem(13) - rem(12) /\ rem(13) \in Int
  BY <1>b, <1>c
<1>13. value(13) = rem(14) - rem(13) /\ rem(14) \in Int
  BY <1>b, <1>c
<1>14. value(14) = rem(15) - rem(14) /\ rem(15) \in Int
  BY <1>b, <1>c
<1>15. value(15) = rem(16) - rem(15) /\ rem(16) \in Int
  BY <1>b, <1>c
<1>17. QED
  BY <1>a, <1>d, <1>0, <1>1, <1>2, <1>3, <1>4, <1>5, <1>6, <1>7, <1>8,
     <1>9, <1>10, <1>11, <1>12, <1>13, <1>14, <1>15

-----------------------------------------------------------------------------
(* The parts of an address                                                 *)

\* How much room a prefix leaves for the host part.
LEMMA PartsAre ==
  ASSUME NEW f \in Families, NEW len \in 0 .. BitLen[f]
  PROVE  /\ BitLen[f] - len \in 0 .. 16
         /\ 2^(BitLen[f] - len) = Power(BitLen[f] - len)
<1> DEFINE n == BitLen[f] - len
<1>1. n \in 0 .. 16
  BY DEF Families, BitLen
<1> HIDE DEF n
<1>2. 2^n = Power(n)
  BY <1>1, PowerIs, Zenon
<1>3. QED
  BY <1>1, <1>2 DEF n

\* The network part and the host part of an address.
Parts(f, a, len, m, h) ==
  /\ m = NetworkPart(f, a, len) /\ h = HostPart(f, a, len) /\ a = m + h
  /\ Multiple(m, BitLen[f] - len) /\ h < Power(BitLen[f] - len)

\* Every address has the two parts,
LEMMA Split ==
  ASSUME NEW f \in Families, NEW a \in Nat, NEW len \in 0 .. BitLen[f]
  PROVE  \E m \in Nat, h \in Nat : Parts(f, a, len, m, h)
<1> DEFINE n == BitLen[f] - len
<1>1. PICK c \in Nat : c = Power(n) /\ c = 2^n /\ c > 0
  BY PartsAre, PowerType
<1>2. PICK q \in Nat, h \in Nat : h = a % c /\ h < c /\ a = c * q + h
  <2>1. c > 0
    BY <1>1
  <2>2. \E q \in Nat, r \in Nat : q = a \div c /\ r = a % c /\ r < c /\ a = c * q + r
    BY <2>1, DivMod, Zenon
  <2>3. PICK q \in Nat : \E r \in Nat : r = a % c /\ r < c /\ a = c * q + r
    BY <2>2, Zenon
  <2>4. QED
    BY <2>3, Zenon
<1>3. PICK m \in Nat : m = c * q
  OBVIOUS
<1>4. h = HostPart(f, a, len)
  BY <1>1, <1>2 DEF HostPart
<1>5. m = NetworkPart(f, a, len)
  <2>1. m = a - h
    BY <1>2, <1>3
  <2>2. QED
    BY <1>4, <2>1 DEF NetworkPart
<1>6. Multiple(m, n)
  BY <1>1, <1>3 DEF Multiple
<1>7. Parts(f, a, len, m, h)
  BY <1>1, <1>2, <1>3, <1>4, <1>5, <1>6 DEF Parts
<1>8. QED
  BY <1>7

\* which it is the sum of.
LEMMA PartsOfSum ==
  ASSUME NEW f \in Families, NEW len \in 0 .. BitLen[f], NEW m \in Nat, NEW h \in Nat,
         Multiple(m, BitLen[f] - len), h < Power(BitLen[f] - len)
  PROVE  NetworkPart(f, m + h, len) = m /\ HostPart(f, m + h, len) = h
<1> DEFINE n == BitLen[f] - len
<1>1. PICK c \in Nat : c = Power(n) /\ c = 2^n /\ c > 0
  BY PartsAre, PowerType
<1>2. PICK s \in Nat : m = c * s
  BY <1>1 DEF Multiple
<1>3. (c * s + h) % c = h
  <2>1. h < c
    BY <1>1
  <2>2. QED
    BY <1>1, <2>1, Quotient
<1>4. (m + h) % c = h
  BY <1>2, <1>3, Zenon
<1>5. HostPart(f, m + h, len) = h
  BY <1>1, <1>4, Zenon DEF HostPart
<1>6. QED
  BY <1>5 DEF NetworkPart

\* The network part for a shorter prefix is that of the longer one's.
LEMMA ShorterPart ==
  ASSUME NEW f \in Families, NEW a \in Nat, NEW len \in 0 .. BitLen[f],
         NEW short \in 0 .. BitLen[f], short <= len
  PROVE  NetworkPart(f, NetworkPart(f, a, len), short) = NetworkPart(f, a, short)
<1>1. PICK m \in Nat, h \in Nat : Parts(f, a, len, m, h)
  BY Split
<1>2. PICK n \in Nat, r \in Nat : Parts(f, m, short, n, r)
  BY Split
<1>a. /\ m = NetworkPart(f, a, len) /\ a = m + h
      /\ Multiple(m, BitLen[f] - len) /\ h < Power(BitLen[f] - len)
  BY <1>1 DEF Parts
<1>b. /\ n = NetworkPart(f, m, short) /\ m = n + r
      /\ Multiple(n, BitLen[f] - short) /\ r < Power(BitLen[f] - short)
  BY <1>2 DEF Parts
<1>3. PICK c \in Nat, j \in Nat :
        c = Power(BitLen[f] - len) /\ Power(BitLen[f] - short) = c * j
  <2>1. /\ BitLen[f] - len \in 0 .. 16 /\ BitLen[f] - short \in 0 .. 16
        /\ BitLen[f] - len <= BitLen[f] - short
        /\ (BitLen[f] - short) - (BitLen[f] - len) \in 0 .. 16
    BY DEF Families, BitLen
  <2>2. QED
    BY <2>1, Factor, PowerType
<1>4. r + h < Power(BitLen[f] - short)
  <2>1. PICK s \in Nat : m = c * s
    BY <1>a, <1>3 DEF Multiple
  <2>2. PICK d \in Nat : n = (c * j) * d
    BY <1>b, <1>3 DEF Multiple
  <2>3. c * s = (c * j) * d + r /\ r < c * j /\ h < c
    BY <1>a, <1>b, <1>3, <2>1, <2>2
  <2>4. r + h < c * j
    BY <2>3, RoomLeft
  <2>5. QED
    BY <1>3, <2>4
<1>5. NetworkPart(f, n + (r + h), short) = n
  BY <1>b, <1>4, PartsOfSum
<1>6. a = n + (r + h)
  BY <1>a, <1>b
<1>7. QED
  BY <1>a, <1>b, <1>5, <1>6, Zenon

\* The addresses of a family, by the table.
LEMMA AddrsAre ==
  ASSUME NEW f \in Families, NEW a
  PROVE  a \in Addrs(f) <=> a \in Nat /\ a < Power(BitLen[f])
<1> DEFINE n == BitLen[f]
<1>1. n \in 0 .. 16
  BY DEF Families, BitLen
<1>2. Addrs(f) = 0 .. 2^n - 1
  BY DEF Addrs
<1> HIDE DEF n
<1>3. 2^n = Power(n)
  BY <1>1, PowerIs, Zenon
<1>4. PICK c \in Nat : c = Power(n)
  BY <1>1, PowerType
<1>5. Addrs(f) = 0 .. c - 1
  BY <1>2, <1>3, <1>4
<1>6. QED
  BY <1>4, <1>5 DEF n

\* The addresses of IPv6.
LEMMA Addrs6 == ASSUME NEW a \in Addrs("IP6") PROVE a \in Nat /\ a < Power(16)
<1> DEFINE n == BitLen["IP6"]
<1>1. n = 16
  BY DEF BitLen
<1>2. a \in 0 .. 2^n - 1
  BY DEF Addrs
<1> HIDE DEF n
<1>a. n \in 0 .. 16
  BY <1>1
<1>3. 2^n = Power(n)
  BY <1>a, PowerIs, Zenon
<1>4. Power(n) \in Nat /\ Power(n) = Power(16)
  BY <1>1 DEF Power
<1>5. QED
  BY <1>2, <1>3, <1>4

-----------------------------------------------------------------------------
(* Host IDs                                                                *)

\* Every address but zero has a highest bit.
LEMMA HighestBit ==
  ASSUME NEW a \in Nat, a > 0, a < Power(16)
  PROVE  \E n \in 0 .. 15 : 2^n <= a /\ a < 2^(n + 1)
<1>a. a < 65536
  BY DEF Power
<1>1. \E n \in 0 .. 15 : Power(n) <= a /\ a < Power(n + 1)
  <2>1. CASE a < 256
    <3>1. \/ (1 <= a /\ a < 2) \/ (2 <= a /\ a < 4) \/ (4 <= a /\ a < 8)
          \/ (8 <= a /\ a < 16) \/ (16 <= a /\ a < 32) \/ (32 <= a /\ a < 64)
          \/ (64 <= a /\ a < 128) \/ (128 <= a /\ a < 256)
      BY <2>1
    <3>2. QED
      BY <3>1 DEF Power
  <2>2. CASE a >= 256
    <3>1. \/ (256 <= a /\ a < 512) \/ (512 <= a /\ a < 1024) \/ (1024 <= a /\ a < 2048)
          \/ (2048 <= a /\ a < 4096) \/ (4096 <= a /\ a < 8192) \/ (8192 <= a /\ a < 16384)
          \/ (16384 <= a /\ a < 32768) \/ (32768 <= a /\ a < 65536)
      BY <1>a, <2>2
    <3>2. QED
      BY <3>1 DEF Power
  <2>3. QED
    BY <2>1, <2>2
<1>2. PICK n \in 0 .. 15 : Power(n) <= a /\ a < Power(n + 1)
  BY <1>1
<1> DEFINE m == n + 1
<1>3. n \in 0 .. 16 /\ m \in 0 .. 16
  OBVIOUS
<1> HIDE DEF m
<1>4. 2^n = Power(n) /\ 2^m = Power(m)
  BY <1>3, PowerIs, Zenon
<1>5. QED
  BY <1>2, <1>4 DEF m

\* A literal fits into the host part that the longest prefix for it leaves, and its
\* highest bit is the first one of that.
LEMMA LongestPrefix ==
  ASSUME NEW a \in Addrs("IP6")
  PROVE  /\ LiteralMaxPrefixLen(a) \in 0 .. 16 /\ a < 2^(16 - LiteralMaxPrefixLen(a))
         /\ a # 0 => LiteralMaxPrefixLen(a) \in 0 .. 15 /\ 2^(15 - LiteralMaxPrefixLen(a)) <= a
<1> DEFINE len == LiteralMaxPrefixLen(a)
           Fit(l) == 2^(BitLen["IP6"] - l - 1) <= a /\ a < 2^(BitLen["IP6"] - l)
<1>a. BitLen["IP6"] = 16
  BY DEF BitLen
<1>b. a \in Nat /\ a < Power(16)
  BY Addrs6
<1>1. CASE a = 0
  <2>1. len = 16
    BY <1>a, <1>1 DEF LiteralMaxPrefixLen
  <2> DEFINE rest == 16 - len
  <2>2. rest = 0
    BY <2>1
  <2> HIDE DEF rest
  <2>3. a < 2^rest
    BY <1>1, <2>2
  <2>4. QED
    BY <1>1, <2>1, <2>3 DEF rest
<1>2. CASE a # 0
  <2>1. len = CHOOSE l \in 0 .. BitLen["IP6"] - 1 : Fit(l)
    BY <1>2 DEF LiteralMaxPrefixLen
  <2>a. a \in Nat /\ a > 0 /\ a < Power(16)
    BY <1>b, <1>2
  <2>2. PICK n \in 0 .. 15 : 2^n <= a /\ a < 2^(n + 1)
    BY <2>a, HighestBit, Zenon
  <2>3. /\ 15 - n \in 0 .. BitLen["IP6"] - 1
        /\ BitLen["IP6"] - (15 - n) - 1 = n
        /\ BitLen["IP6"] - (15 - n) = n + 1
    BY <1>a
  <2>4. Fit(15 - n)
    BY <2>2, <2>3
  <2>5. len \in 0 .. BitLen["IP6"] - 1 /\ Fit(len)
    <3> HIDE DEF Fit, len
    <3>1. QED
      BY <2>1, <2>3, <2>4
  <2>6. len \in 0 .. 15 /\ 2^(16 - len - 1) <= a /\ a < 2^(16 - len)
    <3> HIDE DEF len
    <3>1. QED
      BY <1>a, <2>5
  <2>7. 16 - len - 1 = 15 - len
    <3> HIDE DEF len
    <3>1. QED
      BY <2>6
  <2>8. 2^(15 - len) <= a
    BY <2>6, <2>7, Zenon
  <2> HIDE DEF len
  <2>9. QED
    BY <2>6, <2>8 DEF len
<1>3. QED
  BY <1>1, <1>2

\* So it does into that of every shorter one,
LEMMA LiteralFits ==
  ASSUME NEW a \in Addrs("IP6"), NEW len \in 0 .. 16, ~(len > LiteralMaxPrefixLen(a))
  PROVE  a < 2^(16 - len)
<1> DEFINE most == LiteralMaxPrefixLen(a)
           m == 16 - most
           n == 16 - len
<1>1. most \in 0 .. 16 /\ a < 2^m
  BY LongestPrefix, Zenon
<1>a. a \in Nat
  BY Addrs6
<1>2. m \in 0 .. 16 /\ n \in 0 .. 16 /\ m <= n
  <2> HIDE DEF most
  <2>1. QED
    BY <1>1 DEF most
<1> HIDE DEF m, n
<1>3. 2^m <= 2^n
  BY <1>2, PowersGrow
<1>4. 2^m = Power(m) /\ 2^n = Power(n)
  BY <1>2, PowerIs, Zenon
<1>5. Power(m) \in Nat /\ Power(n) \in Nat
  BY DEF Power
<1>6. a < 2^n
  BY <1>1, <1>a, <1>3, <1>4, <1>5
<1>7. QED
  BY <1>6 DEF n

\* and of no longer one.
LEMMA LongestIsLongest ==
  ASSUME NEW a \in Addrs("IP6"), NEW len \in 0 .. 16, a < 2^(16 - len)
  PROVE  ~(len > LiteralMaxPrefixLen(a))
<1> DEFINE most == LiteralMaxPrefixLen(a)
           m == 15 - most
           n == 16 - len
<1>1. SUFFICES ASSUME len > most PROVE FALSE
  OBVIOUS
<1>2. CASE a = 0
  <2>1. most = 16
    BY <1>2 DEF LiteralMaxPrefixLen, BitLen
  <2> HIDE DEF most
  <2>2. QED
    BY <1>1, <2>1
<1>3. CASE a # 0
  <2>1. most \in 0 .. 15 /\ 2^m <= a
    BY <1>3, LongestPrefix, Zenon
  <2>2. m \in 0 .. 16 /\ n \in 0 .. 16 /\ n <= m
    <3> HIDE DEF most
    <3>1. QED
      BY <1>1, <2>1 DEF m
  <2>3. a < 2^n
    OBVIOUS
  <2> HIDE DEF m, n
  <2>4. 2^n <= 2^m
    BY <2>2, PowersGrow
  <2>5. 2^m = Power(m) /\ 2^n = Power(n)
    BY <2>2, PowerIs, Zenon
  <2>6. Power(m) \in Nat /\ Power(n) \in Nat /\ a \in Nat
    BY Addrs6 DEF Power
  <2>7. QED
    BY <2>1, <2>3, <2>4, <2>5, <2>6
<1>4. QED
  BY <1>2, <1>3

\* What the code finds compatible can be applied,
LEMMA CompatibleApplies ==
  ASSUME NEW e \in RawEntries("IP6"), NEW v, Derivation(v), Compatible(e, v)
  PROVE  Applicable(e, v)
<1>a. e.len \in 0 .. 16 /\ BitLen["IP6"] = 16
  BY DEF RawEntries, BitLen
<1>1. CASE v = Preserve
  BY <1>1 DEF Preserve, Applicable
<1>2. CASE v.kind = "literal" /\ v.literal \in Addrs("IP6")
  <2>1. ~(e.len > LiteralMaxPrefixLen(v.literal))
    BY <1>2 DEF Compatible, Incompatibility
  <2>2. v.literal < 2^(16 - e.len)
    BY <1>a, <1>2, <2>1, LiteralFits
  <2>3. QED
    BY <1>a, <1>2, <2>2 DEF Applicable
<1>3. CASE v.kind = "mac"
  BY <1>a, <1>3 DEF Compatible, Incompatibility, Applicable, ExactPrefixLen
<1>4. QED
  BY <1>1, <1>2, <1>3 DEF Derivation

\* and what can be applied is found compatible.
LEMMA ApplicableIsCompatible ==
  ASSUME NEW e \in RawEntries("IP6"), NEW v, Derivation(v), Applicable(e, v)
  PROVE  Compatible(e, v)
<1>a. e.len \in 0 .. 16 /\ BitLen["IP6"] = 16 /\ ExactPrefixLen = 8
  BY DEF RawEntries, BitLen, ExactPrefixLen
<1>1. CASE v = Preserve
  BY <1>1 DEF Preserve, Compatible, Incompatibility
<1>2. CASE v.kind = "literal" /\ v.literal \in Addrs("IP6")
  <2>1. v.literal < 2^(16 - e.len)
    BY <1>2, <1>a DEF Applicable
  <2>2. ~(e.len > LiteralMaxPrefixLen(v.literal))
    BY <1>a, <1>2, <2>1, LongestIsLongest
  <2>3. QED
    BY <1>2, <2>2 DEF Compatible, Incompatibility
<1>3. CASE v.kind = "mac"
  <2>1. e.len = ExactPrefixLen
    BY <1>3 DEF Applicable
  <2>2. QED
    BY <1>a, <1>3, <2>1 DEF Compatible, Incompatibility
<1>4. QED
  BY <1>1, <1>2, <1>3 DEF Derivation

\* The identifier of a MAC address fills half of an address.
LEMMA MACHostRight == ASSUME NEW mac \in MACAddrs PROVE MACHost(mac) \in 0 .. 255
<1>1. PICK u \in 0 .. 7, l \in 0 .. 7 : u = mac \div 8 /\ l = mac % 8
  BY DEF MACAddrs
<1>2. PICK v \in 0 .. 7 : v = (u + 4) % 8
  OBVIOUS
<1>3. MACHost(mac) = v * 32 + 16 + l
  BY <1>1, <1>2 DEF MACHost
<1>4. QED
  BY <1>3

\* The host ID of a compatible derivation fits into the host part.
LEMMA HostFits ==
  ASSUME NEW e \in RawEntries("IP6"), NEW v, Derivation(v), Compatible(e, v), v # Preserve
  PROVE  /\ HostID(e, v) \in Nat /\ HostID(e, v) < Power(16 - e.len)
         /\ Derive(e, v) = Combine(e, HostID(e, v))
<1>a. e.len \in 0 .. 16 /\ BitLen["IP6"] = 16
  BY DEF RawEntries, BitLen
<1>1. CASE v.kind = "literal" /\ v.literal \in Addrs("IP6")
  <2>1. ~(e.len > LiteralMaxPrefixLen(v.literal))
    BY <1>1 DEF Compatible, Incompatibility
  <2>2. v.literal < 2^(16 - e.len)
    BY <1>a, <1>1, <2>1, LiteralFits
  <2> DEFINE n == 16 - e.len
  <2>3. n \in 0 .. 16
    BY <1>a
  <2> HIDE DEF n
  <2>4. 2^n = Power(n)
    BY <2>3, PowerIs, Zenon
  <2>5. v.literal \in Nat
    BY <1>1, Addrs6
  <2>6. QED
    BY <1>1, <2>2, <2>4, <2>5 DEF n, HostID, Derive
<1>2. CASE v.kind = "mac" /\ v.mac \in MACAddrs
  <2>1. e.len = 8
    BY <1>a, <1>2 DEF Compatible, Incompatibility, ExactPrefixLen
  <2>2. Power(8) = 256
    BY DEF Power
  <2>3. MACHost(v.mac) \in 0 .. 255
    BY <1>2, MACHostRight
  <2>4. 16 - e.len = 8
    BY <2>1
  <2>5. QED
    BY <1>2, <2>2, <2>3, <2>4 DEF HostID, Derive
<1>3. QED
  BY <1>1, <1>2 DEF Derivation

\* Or-ing a host ID that fits is replacing the host part by it.
LEMMA CombineAdds ==
  ASSUME NEW e \in RawEntries("IP6"), NEW h \in Nat, h < Power(16 - e.len)
  PROVE  /\ Combine(e, h) \in Addrs("IP6")
         /\ NetworkPart("IP6", Combine(e, h), e.len) = NetworkPart("IP6", e.addr, e.len)
         /\ HostPart("IP6", Combine(e, h), e.len) = h
<1>a. /\ "IP6" \in Families /\ BitLen["IP6"] = 16
      /\ e.len \in 0 .. 16 /\ 16 - e.len \in 0 .. 16 /\ e.addr \in Addrs("IP6")
  BY DEF RawEntries, BitLen, Families
<1>b. e.addr \in Nat /\ e.addr < Power(16)
  BY <1>a, Addrs6
<1>1. PICK m \in Nat, r \in Nat : Parts("IP6", e.addr, e.len, m, r)
  BY <1>a, <1>b, Split
<1>2. m = NetworkPart("IP6", e.addr, e.len) /\ e.addr = m + r /\ Multiple(m, 16 - e.len)
  BY <1>1, <1>a DEF Parts
<1>3. m + h < Power(16)
  <2>1. PICK c \in Nat, j \in Nat : c = Power(16 - e.len) /\ Power(16) = c * j
    <3>1. 16 \in 0 .. 16 /\ 16 - e.len <= 16 /\ 16 - (16 - e.len) \in 0 .. 16
      BY <1>a
    <3>2. Power(16) = Power(16 - e.len) * Power(16 - (16 - e.len))
      BY <1>a, <3>1, Factor
    <3>3. Power(16 - e.len) \in Nat /\ Power(16 - (16 - e.len)) \in Nat
      BY <1>a, <3>1, PowerType
    <3>4. QED
      BY <3>2, <3>3
  <2>2. PICK s \in Nat : m = c * s
    BY <1>2, <2>1 DEF Multiple
  <2>3. c * s = (c * j) * 0 + m /\ m < c * j /\ h < c
    <3>1. h < c
      BY <2>1
    <3>2. m <= e.addr /\ e.addr < c * j
      BY <1>b, <1>2, <2>1
    <3>3. (c * j) * 0 = 0
      <4>1. c * j \in Nat
        OBVIOUS
      <4>2. QED
        BY <4>1
    <3>4. m < c * j
      <4>1. PICK n \in Nat : n = c * j
        OBVIOUS
      <4>2. QED
        BY <1>b, <3>2, <4>1
    <3>5. QED
      BY <2>2, <3>1, <3>3, <3>4
  <2>4. m + h < c * j
    BY <2>3, RoomLeft
  <2>5. QED
    BY <2>1, <2>4
<1>4. BitSet(m) \cup BitSet(h) = BitSet(m + h)
  BY <1>a, <1>2, BitsOfSum
<1>5. Number(BitSet(m + h)) = m + h
  <2>1. m + h \in Nat
    OBVIOUS
  <2>2. QED
    BY <1>3, <2>1, NumberOfBits, Zenon
<1>6. Combine(e, h) = m + h
  <2>1. Masked("IP6", e).addr = m
    BY <1>2 DEF Masked, RawEntries
  <2>2. QED
    BY <1>4, <1>5, <2>1 DEF Combine
<1>7. NetworkPart("IP6", m + h, e.len) = m /\ HostPart("IP6", m + h, e.len) = h
  BY <1>a, <1>2, PartsOfSum
<1>8. m + h \in Addrs("IP6")
  BY <1>a, <1>3, AddrsAre
<1>9. QED
  BY <1>2, <1>6, <1>7, <1>8, Zenon

\* What is derived is an address of IPv6 with the prefix of the detected entry and, in
\* its host part, what the policy asks for: no bit of the one reaches into the other.
THEOREM DerivationsFit ==
  ASSUME NEW e \in RawEntries("IP6"), NEW v, Derivation(v), Compatible(e, v)
  PROVE  Derive(e, v) \in Addrs("IP6") /\ Fits(Derive(e, v), e, v)
<1>1. CASE v = Preserve
  <2>1. v.kind = "preserve"
    BY <1>1 DEF Preserve
  <2>2. Derive(e, v) = e.addr /\ HostID(e, v) = HostPart("IP6", e.addr, e.len)
    BY <2>1 DEF Derive, HostID
  <2>3. QED
    BY <2>2 DEF Fits, RawEntries
<1>2. CASE v # Preserve
  BY <1>2, HostFits, CombineAdds DEF Fits
<1>3. QED
  BY <1>1, <1>2

-----------------------------------------------------------------------------
(* Entries and ranges                                                      *)

\* The addresses of IPv4 are, as numbers, addresses of IPv6.
LEMMA Addrs4In6 == Addrs("IP4") \subseteq Addrs("IP6")
<1>1. Power(4) = 16 /\ Power(16) = 65536 /\ BitLen["IP4"] = 4 /\ BitLen["IP6"] = 16
  BY DEF Power, BitLen
<1>2. ASSUME NEW a \in Addrs("IP4") PROVE a \in Addrs("IP6")
  <2>1. a \in Nat /\ a < 16
    BY <1>1, AddrsAre DEF Families
  <2>2. a \in Nat /\ a < 65536
    BY <2>1
  <2>3. QED
    BY <1>1, <2>2, AddrsAre DEF Families
<1>3. QED
  BY <1>2

\* Normalisation yields entries of the family.
LEMMA NormalizedRight ==
  ASSUME NEW f \in Families, NEW s, Parsed(s), ValidEntry(f, s)
  PROVE  NormalizeRawEntryIP(s) \in RawEntries(f)
<1>1. CASE ~Is4In6(s)
  <2>1. s.fam = f /\ s.addr \in Addrs(f) /\ s.len \in 0 .. BitLen[f]
    BY <1>1 DEF ValidEntry, Valid, Parsed
  <2>2. QED
    BY <1>1, <2>1 DEF NormalizeRawEntryIP, RawEntries
<1>2. CASE Is4In6(s)
  <2>1. f = "IP4" /\ s.len >= 12 /\ s.fam = "IP6"
    BY <1>2 DEF ValidEntry, Valid, Is4In6, MapLen, Families
  <2>2. s.len \in 0 .. 16 /\ BitLen["IP4"] = 4 /\ s.addr \in Addrs("IP6")
    BY <2>1 DEF Parsed, BitLen
  <2>3. s.len - MapLen \in 0 .. 4
    BY <2>1, <2>2 DEF MapLen
  <2>4. Unmap(s) \in Addrs("IP4")
    <3>1. 2^4 = 16
      <4>1. 4 \in 0 .. 16
        OBVIOUS
      <4>2. QED
        BY <4>1, PowerIs DEF Power
    <3>2. s.addr \in Nat
      BY <2>2, Addrs6
    <3>3. s.addr % 16 \in Nat /\ s.addr % 16 < 16
      BY <3>2
    <3>4. Unmap(s) = s.addr % 16
      BY <2>2, <3>1 DEF Unmap
    <3>5. Power(4) = 16
      BY DEF Power
    <3>6. QED
      BY <2>2, <3>3, <3>4, <3>5, AddrsAre DEF Families
  <2>5. QED
    BY <1>2, <2>1, <2>2, <2>3, <2>4 DEF NormalizeRawEntryIP, RawEntries
<1>3. QED
  BY <1>1, <1>2

\* Masking an entry leaves one with the same prefix, which it covers.
LEMMA MaskedIs ==
  ASSUME NEW f \in Families, NEW e \in RawEntries(f)
  PROVE  Masked(f, e) = [addr |-> NetworkPart(f, e.addr, e.len), len |-> e.len]
  BY DEF Masked, RawEntries

\* It is an entry of the family.
LEMMA MaskedRight ==
  ASSUME NEW f \in Families, NEW e \in RawEntries(f)
  PROVE  Masked(f, e) \in RawEntries(f)
<1>1. e.addr \in Nat /\ e.addr < Power(BitLen[f]) /\ e.len \in 0 .. BitLen[f]
  BY AddrsAre DEF RawEntries
<1>2. PICK m \in Nat, h \in Nat : Parts(f, e.addr, e.len, m, h)
  BY <1>1, Split
<1>3. m = NetworkPart(f, e.addr, e.len) /\ e.addr = m + h
  BY <1>2 DEF Parts
<1>4. m < Power(BitLen[f])
  <2>1. PICK c \in Nat : c = Power(BitLen[f])
    <3>1. BitLen[f] \in 0 .. 16
      BY DEF Families, BitLen
    <3>2. QED
      BY <3>1, PowerType
  <2>2. QED
    BY <1>1, <1>3, <2>1
<1>5. m \in Addrs(f)
  BY <1>4, AddrsAre
<1>6. Masked(f, e) = [addr |-> m, len |-> e.len]
  BY <1>3, MaskedIs
<1>7. QED
  BY <1>1, <1>5, <1>6 DEF RawEntries

\* A range covers an entry if it covers the range of the entry.
LEMMA CoversMasked ==
  ASSUME NEW f \in Families, NEW i \in RawEntries(f), NEW e \in RawEntries(f)
  PROVE  Covers(f, i, Masked(f, e)) <=> Covers(f, i, e)
<1>1. Masked(f, e).len = e.len /\ Masked(f, e).addr = NetworkPart(f, e.addr, e.len)
  BY MaskedIs
<1>2. CASE i.len <= e.len
  <2>1. e.addr \in Nat /\ e.len \in 0 .. BitLen[f] /\ i.len \in 0 .. BitLen[f]
    BY AddrsAre DEF RawEntries
  <2>2. NetworkPart(f, NetworkPart(f, e.addr, e.len), i.len) = NetworkPart(f, e.addr, i.len)
    BY <1>2, <2>1, ShorterPart
  <2>3. QED
    BY <1>1, <2>2 DEF Covers, Contains
<1>3. QED
  BY <1>1, <1>2 DEF Covers
===============================================================================
