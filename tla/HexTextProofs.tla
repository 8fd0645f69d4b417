--------------------------- MODULE HexTextProofs ---------------------------
(***************************************************************************)
(* parse_hex reads intact files as they were meant and notices a replaced  *)
(* character, for every base of the digits, every record and every file.   *)
(***************************************************************************)
EXTENDS HexText, SequenceTheorems, WellFoundedInduction, TLAPS

(* Induction, with the claim given as the set of numbers it holds for.     *)
LEMMA SetInduction ==
  ASSUME NEW S, 0 \in S, \A n \in Nat : n \in S => n + 1 \in S
  PROVE  Nat \subseteq S
<1> DEFINE Bad == Nat \ S
           R == OpToRel(<, Nat)
<1>1. SUFFICES ASSUME Bad # {} PROVE FALSE
  OBVIOUS
<1>2. IsWellFoundedOn(R, Nat)
  BY NatLessThanWellFounded
<1>3. \A m, n \in Nat : m < n => <<m, n>> \in R
  BY DEF OpToRel
<1>4. Bad \subseteq Nat
  OBVIOUS
<1> HIDE DEF R, Bad
<1>5. PICK x \in Bad : \A y \in Bad : ~ (<<y, x>> \in R)
  BY <1>1, <1>2, <1>4, WFMin, Zenon
<1>6. x \in Nat /\ x # 0 /\ x - 1 \in Nat
  BY <1>5 DEF Bad
<1>7. x - 1 \notin Bad
  <2>1. \A y \in Nat : y < x => <<y, x>> \in R
    BY <1>3, <1>6
  <2>2. x - 1 < x
    BY <1>6
  <2> QED
    BY <1>5, <1>6, <2>1, <2>2, Zenon
<1> QED
  BY <1>5, <1>6, <1>7 DEF Bad

(* The same for the numbers up to a bound.                                 *)
LEMMA BoundedInduction ==
  ASSUME NEW S, NEW N \in Nat, 0 \in S, \A n \in 0 .. N - 1 : n \in S => n + 1 \in S
  PROVE  0 .. N \subseteq S
<1> DEFINE T == {n \in Nat : n <= N => n \in S}
<1>1. 0 \in T
  OBVIOUS
<1>2. ASSUME NEW n \in Nat, n \in T PROVE n + 1 \in T
  BY <1>2
<1> HIDE DEF T
<1>3. Nat \subseteq T
  BY <1>1, <1>2, SetInduction
<1> QED
  BY <1>3 DEF T

----------------------------------------------------------------------------
(* Sums of bytes                                                           *)

(* The recursion of partial has a solution, so partial satisfies it.       *)
LEMMA PartialDefined ==
  ASSUME NEW s \in Seq(Int)
  PROVE  /\ partial(s)[0] = 0
         /\ \A n \in 0 .. Len(s) - 1 : partial(s)[n + 1] = partial(s)[n] + s[n + 1]
         /\ \A n \in 0 .. Len(s) : partial(s)[n] \in Int
<1> DEFINE Solves(f, N) == f = [n \in 0 .. N |-> IF n = 0 THEN 0 ELSE f[n - 1] + s[n]]
           S == {N \in 0 .. Len(s) : \E f : Solves(f, N)}
<1>0. Len(s) \in Nat /\ \A n \in 1 .. Len(s) : s[n] \in Int
  OBVIOUS
<1>1. 0 \in S
  <2> DEFINE f == [n \in 0 .. 0 |-> 0]
  <2>1. Solves(f, 0)
    OBVIOUS
  <2>2. 0 \in 0 .. Len(s)
    BY <1>0
  <2> HIDE DEF f, Solves
  <2> QED
    BY <2>1, <2>2
<1>2. ASSUME NEW N \in 0 .. Len(s) - 1, N \in S PROVE N + 1 \in S
  <2>1. PICK f : Solves(f, N)
    BY <1>2
  <2> DEFINE g == [n \in 0 .. N + 1 |-> IF n <= N THEN f[n] ELSE f[N] + s[N + 1]]
  <2>2. ASSUME NEW n \in 0 .. N + 1
        PROVE  g[n] = IF n = 0 THEN 0 ELSE g[n - 1] + s[n]
    <3>1. CASE n <= N
      BY <2>1, <3>1
    <3>2. CASE n = N + 1
      BY <3>2
    <3> QED
      BY <3>1, <3>2
  <2>3. Solves(g, N + 1)
    BY <2>2
  <2>4. N + 1 \in 0 .. Len(s)
    BY <1>0
  <2> HIDE DEF g, Solves
  <2> QED
    BY <2>3, <2>4
<1> HIDE DEF S
<1>3. Len(s) \in S
  <2>1. 0 .. Len(s) \subseteq S
    BY <1>0, <1>1, <1>2, BoundedInduction
  <2> QED
    BY <1>0, <2>1
<1>4. Solves(partial(s), Len(s))
  <2>1. PICK fn : Solves(fn, Len(s))
    BY <1>3 DEF S
  <2>2. partial(s) = CHOOSE f : Solves(f, Len(s))
    BY DEF partial
  <2> HIDE DEF Solves
  <2> QED
    BY <2>1, <2>2
<1>5. /\ partial(s)[0] = 0
      /\ \A n \in 0 .. Len(s) - 1 : partial(s)[n + 1] = partial(s)[n] + s[n + 1]
  <2> DEFINE value(n) == IF n = 0 THEN 0 ELSE partial(s)[n - 1] + s[n]
  <2>1. partial(s) = [n \in 0 .. Len(s) |-> value(n)]
    BY <1>4
  <2> HIDE DEF value
  <2>2. \A n \in 0 .. Len(s) : partial(s)[n] = value(n)
    BY <2>1
  <2>3. value(0) = 0 /\ \A n \in 0 .. Len(s) - 1 : value(n + 1) = partial(s)[n] + s[n + 1]
    BY <1>0 DEF value
  <2> QED
    BY <1>0, <2>2, <2>3
<1> DEFINE T == {n \in 0 .. Len(s) : partial(s)[n] \in Int}
<1>6. 0 \in T
  BY <1>0, <1>5
<1>7. ASSUME NEW n \in 0 .. Len(s) - 1, n \in T PROVE n + 1 \in T
  <2>1. n + 1 \in 1 .. Len(s) /\ n + 1 \in 0 .. Len(s)
    BY <1>0
  <2> QED
    BY <1>0, <1>5, <1>7, <2>1
<1> HIDE DEF T, Solves
<1>8. 0 .. Len(s) \subseteq T
  BY <1>0, <1>6, <1>7, BoundedInduction
<1> QED
  BY <1>5, <1>8 DEF T

(* t is s with d added at place j, up to N.                                *)
DifferAt(s, t, N, j, d) == \A n \in 1 .. N : t[n] = IF n = j THEN s[n] + d ELSE s[n]

(* Two sequences that differ by d at one place j have sums that differ by  *)
(* d from there on.                                                        *)
LEMMA OneDifference ==
  ASSUME NEW s \in Seq(Int), NEW t \in Seq(Int), NEW N \in Nat, N <= Len(s), N <= Len(t),
         NEW j \in Int, NEW d \in Int, DifferAt(s, t, N, j, d)
  PROVE  partial(t)[N] = IF 1 <= j /\ j <= N THEN partial(s)[N] + d ELSE partial(s)[N]
<1> DEFINE claim(n) == partial(t)[n] = IF 1 <= j /\ j <= n THEN partial(s)[n] + d ELSE partial(s)[n]
           S == {n \in 0 .. N : claim(n)}
<1>1. Len(s) \in Nat /\ Len(t) \in Nat /\ \A n \in 1 .. N : s[n] \in Int /\ t[n] \in Int
  OBVIOUS
<1>2. /\ partial(s)[0] = 0 /\ partial(t)[0] = 0
      /\ \A n \in 0 .. N - 1 : /\ partial(s)[n + 1] = partial(s)[n] + s[n + 1]
                               /\ partial(t)[n + 1] = partial(t)[n] + t[n + 1]
      /\ \A n \in 0 .. N : partial(s)[n] \in Int /\ partial(t)[n] \in Int
  BY <1>1, PartialDefined
<1>3. 0 \in S
  BY <1>2
<1>4. ASSUME NEW n \in 0 .. N - 1, n \in S PROVE n + 1 \in S
  <2>1. n + 1 \in 1 .. N /\ n + 1 \in 0 .. N /\ n \in 0 .. N
    OBVIOUS
  <2>2. claim(n)
    BY <1>4
  <2>3. t[n + 1] = IF n + 1 = j THEN s[n + 1] + d ELSE s[n + 1]
    BY <2>1 DEF DifferAt
  <2>4. /\ partial(s)[n + 1] = partial(s)[n] + s[n + 1] /\ partial(t)[n + 1] = partial(t)[n] + t[n + 1]
        /\ partial(s)[n] \in Int /\ partial(t)[n] \in Int /\ s[n + 1] \in Int
    BY <1>1, <1>2, <2>1
  <2>5. claim(n + 1)
    <3>1. CASE j = n + 1
      BY <2>2, <2>3, <2>4, <3>1
    <3>2. CASE j # n + 1
      <4>1. (1 <= j /\ j <= n) <=> (1 <= j /\ j <= n + 1)
        BY <3>2
      <4>2. t[n + 1] = s[n + 1]
        BY <2>3, <3>2
      <4>3. CASE 1 <= j /\ j <= n
        <5>1. partial(t)[n] = partial(s)[n] + d
          BY <2>2, <4>3
        <5>2. partial(t)[n + 1] = partial(s)[n + 1] + d
          BY <2>4, <4>2, <5>1
        <5> QED
          BY <4>1, <4>3, <5>2
      <4>4. CASE ~(1 <= j /\ j <= n)
        <5>1. partial(t)[n] = partial(s)[n]
          BY <2>2, <4>4
        <5>2. partial(t)[n + 1] = partial(s)[n + 1]
          BY <2>4, <4>2, <5>1
        <5> QED
          BY <4>1, <4>4, <5>2
      <4> QED
        BY <4>3, <4>4
    <3> QED
      BY <3>1, <3>2
  <2> QED
    BY <2>1, <2>5
<1> HIDE DEF S
<1>5. N \in S
  <2>1. 0 .. N \subseteq S
    BY <1>3, <1>4, BoundedInduction
  <2> QED
    BY <2>1
<1> QED
  BY <1>5 DEF S
----------------------------------------------------------------------------
(* The checksum                                                            *)

(* Quotient and remainder are unique.                                      *)
LEMMA DivisionUnique ==
  ASSUME NEW n \in Nat \ {0}, NEW q \in Int, NEW r \in 0 .. n - 1
  PROVE  (n * q + r) \div n = q /\ (n * q + r) % n = r
<1> DEFINE a == n * q + r
           d == a \div n
           m == a % n
<1>1. n * q \in Int /\ a \in Int
  OBVIOUS
<1>2. d \in Int /\ m \in 0 .. n - 1 /\ a = n * d + m
  BY <1>1
<1> HIDE DEF d, m
<1>3. n * d - n * q = r - m
  BY <1>1, <1>2
<1>4. n * (d - q) = n * d - n * q
  BY <1>2
<1>5. d - q < 1
  <2>1. SUFFICES ASSUME d - q >= 1 PROVE FALSE
    BY <1>2
  <2>2. n * (d - q) >= n
    BY <1>2, <2>1
  <2> QED
    BY <1>2, <1>3, <1>4, <2>2
<1>6. q - d < 1
  <2>1. SUFFICES ASSUME q - d >= 1 PROVE FALSE
    BY <1>2
  <2>2. n * (d - q) <= -n
    BY <1>2, <2>1
  <2> QED
    BY <1>2, <1>3, <1>4, <2>2
<1>7. d = q
  BY <1>2, <1>5, <1>6
<1>8. m = r
  BY <1>2, <1>3, <1>7
<1> QED
  BY <1>7, <1>8 DEF d, m

(* A byte has at least four values.                                        *)
LEMMA ByteCountType == ByteCount \in Nat /\ ByteCount >= 4 /\ DigitBase < ByteCount
<1>1. \A x \in Nat : x >= 2 => x * x >= 4 /\ x < x * x
  <2> TAKE x \in Nat
  <2> HAVE x >= 2
  <2>1. x * x >= 2 * x
    OBVIOUS
  <2> QED
    BY <2>1
<1> QED
  BY <1>1, DigitAssumption DEF ByteCount

(* hex_checksum gives the byte that makes the sum a multiple of ByteCount. *)
LEMMA Complement ==
  ASSUME NEW B \in Nat \ {0}, NEW a \in Int, NEW b \in 0 .. B - 1
  PROVE  (-a) % B = b <=> (a + b) % B = 0
<1>1. ASSUME (-a) % B = b PROVE (a + b) % B = 0
  <2> DEFINE q == (-a) \div B
  <2>1. q \in Int /\ -a = B * q + b
    BY <1>1
  <2> HIDE DEF q
  <2>2. a + b = B * (-q) + 0 /\ -q \in Int /\ 0 \in 0 .. B - 1
    BY <2>1
  <2>3. (B * (-q) + 0) % B = 0
    BY <2>2, DivisionUnique
  <2> QED
    BY <2>2, <2>3
<1>2. ASSUME (a + b) % B = 0 PROVE (-a) % B = b
  <2> DEFINE q == (a + b) \div B
  <2>1. q \in Int /\ a + b = B * q
    BY <1>2
  <2> HIDE DEF q
  <2>2. -a = B * (-q) + b /\ -q \in Int
    BY <2>1
  <2> QED
    BY <2>2, DivisionUnique
<1> QED
  BY <1>1, <1>2

(* Bytes cannot differ by a multiple of ByteCount.                         *)
LEMMA SmallDifference ==
  ASSUME NEW B \in Nat \ {0}, NEW a \in Int, NEW u \in 0 .. B - 1, NEW v \in 0 .. B - 1,
         a % B = 0, (a + (v - u)) % B = 0
  PROVE  u = v
<1> DEFINE q == a \div B
           p == (a + (v - u)) \div B
<1>1. q \in Int /\ p \in Int /\ a = B * q /\ a + (v - u) = B * p
  OBVIOUS
<1> HIDE DEF q, p
<1>2. B * (p - q) = v - u /\ p - q \in Int
  BY <1>1
<1>3. ~(p - q >= 1) /\ ~(p - q <= -1)
  <2>1. p - q >= 1 => B * (p - q) >= B
    BY <1>1
  <2>2. p - q <= -1 => B * (p - q) <= -B
    BY <1>1
  <2> QED
    BY <1>2, <2>1, <2>2
<1>4. p - q = 0
  BY <1>1, <1>3
<1> QED
  BY <1>2, <1>4

(* The sum of all bytes, from that of all but the last.                    *)
LEMMA TotalOfFront ==
  ASSUME NEW s \in Seq(Int), NEW t \in Seq(Int), Len(s) = Len(t) + 1,
         \A n \in 1 .. Len(t) : t[n] = s[n]
  PROVE  total(s) = total(t) + s[Len(s)] /\ total(t) \in Int /\ total(s) \in Int
<1>1. Len(t) \in Nat /\ Len(s) \in Nat /\ Len(t) <= Len(s) /\ Len(t) \in 0 .. Len(s) - 1
  OBVIOUS
<1>2. partial(t)[Len(t)] = partial(s)[Len(t)]
  <2>1. DifferAt(s, t, Len(t), 0, 0)
    BY DEF DifferAt
  <2> QED
    BY <1>1, <2>1, OneDifference
<1>3. partial(s)[Len(t) + 1] = partial(s)[Len(t)] + s[Len(t) + 1]
  BY <1>1, PartialDefined
<1>4. partial(s)[Len(s)] \in Int /\ partial(t)[Len(t)] \in Int
  BY <1>1, PartialDefined
<1> QED
  BY <1>2, <1>3, <1>4 DEF total

(* A record's checksums agree exactly when all its bytes, the last one     *)
(* included, sum to a multiple of ByteCount.                               *)
LEMMA ChecksumsAgree ==
  ASSUME NEW s \in Seq(Byte), Len(s) >= 1
  PROVE  hex_checksum(Front(s)) = Last(s) <=> total(s) % ByteCount = 0
<1> DEFINE t == Front(s)
<1>1. /\ s \in Seq(Int) /\ Len(s) \in Nat /\ Last(s) = s[Len(s)] /\ s[Len(s)] \in Byte
      /\ t \in Seq(Int) /\ Len(t) = Len(s) - 1 /\ \A n \in 1 .. Len(t) : t[n] = s[n]
  <2>1. \A n \in 1 .. Len(s) : s[n] \in Byte
    OBVIOUS
  <2>2. s \in Seq(Int)
    BY <2>1, ByteCountType DEF Byte, AllOnes
  <2>3. t = SubSeq(s, 1, Len(s) - 1)
    BY DEF Front
  <2>4. t \in Seq(Int) /\ Len(t) = Len(s) - 1 /\ \A n \in 1 .. Len(t) : t[n] = s[n]
    <3> DEFINE m == Len(s) - 1
    <3>1. m \in Nat /\ \A i \in 1 .. m : s[i] \in Int
      BY <2>2
    <3> HIDE DEF m
    <3>2. /\ SubSeq(s, 1, m) \in Seq(Int) /\ Len(SubSeq(s, 1, m)) = IF 1 <= m THEN m - 1 + 1 ELSE 0
          /\ \A i \in 1 .. m - 1 + 1 : SubSeq(s, 1, m)[i] = s[1 + i - 1]
      BY <3>1, SubSeqProperties
    <3>3. t = SubSeq(s, 1, m)
      BY <2>3 DEF m
    <3>4. t \in Seq(Int) /\ Len(t) = m /\ \A i \in 1 .. m : t[i] = s[i]
      BY <3>1, <3>2, <3>3
    <3> QED
      BY <3>4 DEF m
  <2> QED
    BY <2>1, <2>2, <2>4 DEF Last
<1> HIDE DEF t
<1>2. total(s) = total(t) + s[Len(s)] /\ total(t) \in Int
  <2>1. Len(s) = Len(t) + 1
    BY <1>1
  <2> QED
    BY <1>1, <2>1, TotalOfFront
<1>3. s[Len(s)] \in 0 .. ByteCount - 1 /\ ByteCount \in Nat \ {0}
  BY <1>1, ByteCountType DEF Byte, AllOnes
<1>4. (-total(t)) % ByteCount = s[Len(s)] <=> (total(t) + s[Len(s)]) % ByteCount = 0
  BY <1>2, <1>3, Complement
<1> QED
  BY <1>1, <1>2, <1>4 DEF hex_checksum, t

----------------------------------------------------------------------------
(* Bytes and their digits                                                  *)

(* Two digits of a byte are joined to the byte again.                      *)
LEMMA DigitPair ==
  ASSUME NEW b \in Byte
  PROVE  /\ b \div DigitBase \in Digit /\ b % DigitBase \in Digit
         /\ joined(b \div DigitBase, b % DigitBase) = b
<1> DEFINE q == b \div DigitBase
           m == b % DigitBase
<1>1. b \in Nat /\ b < DigitBase * DigitBase /\ DigitBase \in Nat /\ DigitBase >= 2
  BY ByteCountType, DigitAssumption DEF Byte, AllOnes, ByteCount
<1>2. q \in Int /\ m \in 0 .. DigitBase - 1 /\ b = DigitBase * q + m
  BY <1>1
<1> HIDE DEF q, m
<1>3. q < DigitBase
  <2>1. SUFFICES ASSUME q >= DigitBase PROVE FALSE
    BY <1>1, <1>2
  <2>2. DigitBase * q >= DigitBase * DigitBase
    BY <1>1, <1>2, <2>1
  <2> QED
    BY <1>1, <1>2, <2>2
<1>4. q >= 0
  <2>1. SUFFICES ASSUME q <= -1 PROVE FALSE
    BY <1>2
  <2>2. DigitBase * q <= -DigitBase
    BY <1>1, <1>2, <2>1
  <2> QED
    BY <1>1, <1>2, <2>2
<1>5. q \in Digit /\ m \in Digit
  BY <1>1, <1>2, <1>3, <1>4 DEF Digit
<1>6. joined(q, m) = q * DigitBase + m
  BY <1>5 DEF joined, from_hex_char
<1> QED
  BY <1>1, <1>2, <1>5, <1>6 DEF q, m

(* Any two characters are read as a byte.                                  *)
LEMMA JoinedType ==
  ASSUME NEW c, NEW d
  PROVE  joined(c, d) \in Nat /\ joined(c, d) % ByteCount \in Byte
<1>1. /\ ByteCount \in Nat /\ ByteCount >= 4 /\ AllOnes \in Nat /\ DigitBase \in Nat
      /\ AllOnes = ByteCount - 1
  BY ByteCountType, DigitAssumption DEF AllOnes
<1>2. from_hex_char(c) \in Nat /\ from_hex_char(d) \in Nat
  BY <1>1 DEF from_hex_char, Digit
<1> DEFINE high == from_hex_char(c) * DigitBase
<1>3. high \in Nat
  BY <1>1, <1>2
<1> HIDE DEF high
<1>4. high % ByteCount \in 0 .. ByteCount - 1 /\ high - (high % ByteCount) >= 0
  <2>1. high = ByteCount * (high \div ByteCount) + (high % ByteCount) /\ high \div ByteCount \in Nat
        /\ high % ByteCount \in 0 .. ByteCount - 1
    BY <1>1, <1>3
  <2>2. ByteCount * (high \div ByteCount) >= 0
    BY <1>1, <2>1
  <2> QED
    BY <1>1, <1>3, <2>1, <2>2
<1>5. joined(c, d) \in Nat
  BY <1>1, <1>2, <1>3, <1>4 DEF joined, high
<1> QED
  BY <1>1, <1>5 DEF Byte

(* The two bytes of an address.                                            *)
LEMMA TwoPlaces ==
  ASSUME NEW B \in Nat, B >= 4, NEW x \in Nat, x < B * B
  PROVE  x \div B \in 0 .. B - 1 /\ x % B \in 0 .. B - 1 /\ (x \div B) * B + (x % B) = x
<1> DEFINE a == x \div B
           b == x % B
<1>1. a \in Int /\ b \in 0 .. B - 1 /\ x = B * a + b
  OBVIOUS
<1> HIDE DEF a, b
<1>2. a < B
  <2>1. SUFFICES ASSUME a >= B PROVE FALSE
    BY <1>1
  <2>2. B * a >= B * B
    BY <1>1, <2>1
  <2> QED
    BY <1>1, <2>2
<1>3. a >= 0
  <2>1. SUFFICES ASSUME a <= -1 PROVE FALSE
    BY <1>1
  <2>2. B * a <= -B
    BY <1>1, <2>1
  <2> QED
    BY <1>1, <2>2
<1>4. a * B = B * a
  BY <1>1
<1>5. a \in 0 .. B - 1 /\ b \in 0 .. B - 1 /\ a * B + b = x
  BY <1>1, <1>2, <1>3, <1>4
<1> QED
  BY <1>5 DEF a, b

(* The bytes of a written record, which sum to a multiple of ByteCount.    *)
LEMMA RecordBytes ==
  ASSUME NEW r, IsRecord(r), NEW s, s = recordBytes(r)
  PROVE  /\ s \in Seq(Byte) /\ Len(s) = Len(r.data) + 5 /\ Len(r.data) \in Nat
         /\ s[1] = Len(r.data) /\ s[2] * ByteCount + s[3] = r.offset /\ s[4] = r.type
         /\ \A i \in 1 .. Len(r.data) : s[i + 4] = r.data[i]
         /\ total(s) % ByteCount = 0
<1> DEFINE n == Len(r.data)
           a == r.offset \div ByteCount
           b == r.offset % ByteCount
           head == <<n, a, b, r.type>>
           body == head \o r.data
           last == (-total(body)) % ByteCount
<1>1. ByteCount \in Nat /\ ByteCount >= 4 /\ Byte = 0 .. ByteCount - 1
  BY ByteCountType DEF Byte, AllOnes
<1>2. /\ r.data \in Seq(Byte) /\ n \in Byte /\ n \in Nat /\ r.type \in Byte
      /\ r.offset \in Nat /\ r.offset < ByteCount * ByteCount
  BY <1>1 DEF IsRecord
<1>3. a \in Byte /\ b \in Byte /\ a * ByteCount + b = r.offset
  BY <1>1, <1>2, TwoPlaces
<1> HIDE DEF n, a, b
<1>4. /\ head \in Seq(Byte) /\ Len(head) = 4
      /\ head[1] = n /\ head[2] = a /\ head[3] = b /\ head[4] = r.type
  BY <1>2, <1>3
<1> HIDE DEF head
<1>5. /\ body \in Seq(Byte) /\ Len(body) = n + 4
      /\ \A i \in 1 .. n + 4 : body[i] = IF i <= 4 THEN head[i] ELSE r.data[i - 4]
  <2> DEFINE d == r.data
  <2>1. d \in Seq(Byte) /\ Len(d) = n
    BY <1>2 DEF n
  <2> HIDE DEF d
  <2>2. /\ head \o d \in Seq(Byte) /\ Len(head \o d) = Len(head) + Len(d)
        /\ \A i \in 1 .. Len(head) + Len(d) :
             (head \o d)[i] = IF i <= Len(head) THEN head[i] ELSE d[i - Len(head)]
    BY <1>4, <2>1, ConcatProperties
  <2>3. /\ head \o d \in Seq(Byte) /\ Len(head \o d) = n + 4
        /\ \A i \in 1 .. n + 4 : (head \o d)[i] = IF i <= 4 THEN head[i] ELSE d[i - 4]
    BY <1>2, <1>4, <2>1, <2>2
  <2> QED
    BY <2>3 DEF d
<1> HIDE DEF body
<1>6. body \in Seq(Int) /\ total(body) \in Int
  <2>1. body \in Seq(Int)
    BY <1>1, <1>5
  <2>2. Len(body) \in 0 .. Len(body)
    BY <1>2, <1>5
  <2> QED
    BY <2>1, <2>2, PartialDefined DEF total
<1>7. last \in Byte
  BY <1>1, <1>6
<1> HIDE DEF last
<1>8. s = Append(body, last)
  BY DEF recordBytes, body, last, head, n, a, b
<1>9. /\ s \in Seq(Byte) /\ Len(s) = n + 5 /\ s[n + 5] = last
      /\ \A i \in 1 .. n + 4 : s[i] = body[i]
  BY <1>2, <1>5, <1>7, <1>8
<1>10. s \in Seq(Int)
  BY <1>1, <1>9
<1>11. total(s) = total(body) + last
  <2>1. Len(s) = Len(body) + 1 /\ s[Len(s)] = last /\ \A i \in 1 .. Len(body) : body[i] = s[i]
    BY <1>2, <1>5, <1>9
  <2> QED
    BY <1>6, <1>10, <2>1, TotalOfFront
<1>12. total(s) % ByteCount = 0
  <2>1. last \in 0 .. ByteCount - 1 /\ ByteCount \in Nat \ {0} /\ (-total(body)) % ByteCount = last
    BY <1>1, <1>7 DEF last
  <2>2. (total(body) + last) % ByteCount = 0
    BY <1>6, <2>1, Complement
  <2> QED
    BY <1>11, <2>2
<1>13. s[1] = n /\ s[2] = a /\ s[3] = b /\ s[4] = r.type
  BY <1>2, <1>4, <1>5, <1>9
<1>14. \A i \in 1 .. n : s[i + 4] = r.data[i]
  <2> TAKE i \in 1 .. n
  <2>1. i + 4 \in 1 .. n + 4 /\ ~(i + 4 <= 4) /\ (i + 4) - 4 = i
    BY <1>2
  <2> QED
    BY <1>5, <1>9, <2>1
<1> QED
  BY <1>2, <1>3, <1>9, <1>12, <1>13, <1>14 DEF n

(* The characters of a written record.                                     *)
LEMMA RecordText ==
  ASSUME NEW r, NEW s \in Seq(Byte), s = recordBytes(r), NEW text, text = recordText(r)
  PROVE  /\ text \in Seq(Char) /\ Len(text) = 2 * Len(s) + 1 /\ text[1] = Colon
         /\ \A i \in 1 .. Len(s) :
              text[2 * i] = s[i] \div DigitBase /\ text[2 * i + 1] = s[i] % DigitBase
<1> DEFINE ds == digits(s)
           n == Len(s)
<1>1. n \in Nat /\ \A i \in 1 .. n : s[i] \in Byte
  OBVIOUS
<1> HIDE DEF n
<1>2. \A k \in 1 .. 2 * n : (k + 1) \div 2 \in 1 .. n
  BY <1>1
<1> DEFINE digit(k) == LET byte == s[(k + 1) \div 2] IN
                       IF k % 2 = 1 THEN byte \div DigitBase ELSE byte % DigitBase
<1>3. \A k \in 1 .. 2 * n : digit(k) \in Char
  BY <1>1, <1>2, DigitPair DEF Char
<1>4. ds = [k \in 1 .. 2 * n |-> digit(k)]
  BY DEF digits, n
<1> HIDE DEF digit, ds
<1>5. ds \in [1 .. 2 * n -> Char] /\ 2 * n \in Nat
  BY <1>1, <1>3, <1>4
<1>6. ds \in Seq(Char) /\ Len(ds) = 2 * n
  BY <1>5
<1>7. <<Colon>> \in Seq(Char) /\ Len(<<Colon>>) = 1 /\ <<Colon>>[1] = Colon
  BY DEF Char
<1>8. text = <<Colon>> \o ds
  BY DEF recordText, ds
<1>9. /\ text \in Seq(Char) /\ Len(text) = 2 * n + 1 /\ text[1] = Colon
      /\ \A k \in 1 .. 2 * n : text[k + 1] = ds[k]
  <2> DEFINE c == <<Colon>>
             m == 2 * n
  <2>0. c \in Seq(Char) /\ Len(c) = 1 /\ c[1] = Colon /\ m \in Nat /\ Len(ds) = m
    BY <1>5, <1>6, <1>7
  <2> HIDE DEF c, m
  <2>1. /\ c \o ds \in Seq(Char) /\ Len(c \o ds) = Len(c) + Len(ds)
        /\ \A k \in 1 .. Len(c) + Len(ds) : (c \o ds)[k] = IF k <= Len(c) THEN c[k] ELSE ds[k - Len(c)]
    BY <1>6, <2>0, ConcatProperties
  <2>2. text = c \o ds
    BY <1>8 DEF c
  <2>3. /\ text \in Seq(Char) /\ Len(text) = m + 1
        /\ \A k \in 1 .. m + 1 : text[k] = IF k <= 1 THEN c[k] ELSE ds[k - 1]
    BY <2>0, <2>1, <2>2
  <2>4. text[1] = Colon /\ \A k \in 1 .. m : text[k + 1] = ds[k]
    BY <2>0, <2>3
  <2> QED
    BY <2>3, <2>4 DEF m
<1>10. ASSUME NEW i \in 1 .. n
       PROVE  text[2 * i] = s[i] \div DigitBase /\ text[2 * i + 1] = s[i] % DigitBase
  <2>1. /\ 2 * i - 1 \in 1 .. 2 * n /\ (2 * i - 1) % 2 = 1
        /\ ((2 * i - 1) + 1) \div 2 = i /\ (2 * i - 1) + 1 = 2 * i
    BY <1>1
  <2>2. 2 * i \in 1 .. 2 * n /\ (2 * i) % 2 # 1 /\ (2 * i + 1) \div 2 = i
    BY <1>1
  <2>3. ds[2 * i - 1] = s[i] \div DigitBase
    BY <1>4, <2>1 DEF digit
  <2>4. ds[2 * i] = s[i] % DigitBase
    BY <1>4, <2>2 DEF digit
  <2> QED
    BY <1>9, <2>1, <2>2, <2>3, <2>4
<1> QED
  BY <1>9, <1>10 DEF n

(* Where line.find finds the colon.                                        *)
LEMMA FirstColon ==
  ASSUME NEW line, Len(line) \in Nat, NEW p \in 1 .. Len(line), line[p] = Colon,
         \A i \in 1 .. p - 1 : line[i] # Colon
  PROVE  substr(line) = SubSeq(line, p, Len(line))
<1> DEFINE I == {i \in 1 .. Len(line) : line[i] = Colon}
<1>1. p \in I /\ \A i \in I : p <= i
  OBVIOUS
<1>2. \A i \in I : (\A k \in I : i <= k) => i = p
  BY <1>1
<1>3. Min(I) = p
  <2> HIDE DEF I
  <2> QED
    BY <1>1, <1>2 DEF Min
<1>4. SelectInSeq(line, LAMBDA c : c = Colon) = IF I # {} THEN Min(I) ELSE 0
  BY DEF SelectInSeq
<1> HIDE DEF I
<1> QED
  BY <1>1, <1>3, <1>4 DEF substr

----------------------------------------------------------------------------
(* Lines                                                                   *)

(* The text from a place on.                                               *)
LEMMA Suffix ==
  ASSUME NEW line \in Seq(Char), NEW p \in 1 .. Len(line)
  PROVE  /\ SubSeq(line, p, Len(line)) \in Seq(Char)
         /\ Len(SubSeq(line, p, Len(line))) = Len(line) - p + 1
         /\ \A i \in 1 .. Len(line) - p + 1 : SubSeq(line, p, Len(line))[i] = line[p + i - 1]
<1> DEFINE n == Len(line)
<1>1. p \in Int /\ n \in Int /\ p <= n /\ \A i \in p .. n : line[i] \in Char
  OBVIOUS
<1> HIDE DEF n
<1>2. /\ SubSeq(line, p, n) \in Seq(Char) /\ Len(SubSeq(line, p, n)) = IF p <= n THEN n - p + 1 ELSE 0
      /\ \A i \in 1 .. n - p + 1 : SubSeq(line, p, n)[i] = line[p + i - 1]
  BY <1>1, SubSeqProperties
<1> QED
  BY <1>1, <1>2 DEF n

(* The text from the first colon on, when a record stands after something  *)
(* without a colon.                                                        *)
LEMMA FoundRecord ==
  ASSUME NEW lead \in Seq(Char \ {Colon}), NEW text \in Seq(Char), NEW trail \in Seq(Char),
         Len(text) >= 1, text[1] = Colon
  PROVE  LET line == lead \o text \o trail
             sub == substr(line)
         IN  /\ Colon \in Range(line)
             /\ sub \in Seq(Char) /\ Len(sub) = Len(text) + Len(trail)
             /\ \A i \in 1 .. Len(text) : sub[i] = text[i]
<1> DEFINE line == lead \o text \o trail
           sub == substr(line)
           a == Len(lead)
           b == Len(text)
           c == Len(trail)
           first == lead \o text
<1>1. a \in Nat /\ b \in Nat /\ c \in Nat /\ b >= 1 /\ lead \in Seq(Char)
  <2>1. \A i \in 1 .. Len(lead) : lead[i] \in Char
    OBVIOUS
  <2> QED
    BY <2>1
<1>2. \A i \in 1 .. a : lead[i] # Colon
  OBVIOUS
<1>3. /\ first \in Seq(Char) /\ Len(first) = a + b
      /\ \A i \in 1 .. a + b : first[i] = IF i <= a THEN lead[i] ELSE text[i - a]
  BY <1>1, ConcatProperties
<1>4. line = first \o trail
  OBVIOUS
<1> HIDE DEF first, line
<1>5. /\ line \in Seq(Char) /\ Len(line) = Len(first) + c
      /\ \A i \in 1 .. Len(first) + c : line[i] = IF i <= Len(first) THEN first[i] ELSE trail[i - Len(first)]
  <2>1. /\ first \o trail \in Seq(Char) /\ Len(first \o trail) = Len(first) + Len(trail)
        /\ \A i \in 1 .. Len(first) + Len(trail) :
             (first \o trail)[i] = IF i <= Len(first) THEN first[i] ELSE trail[i - Len(first)]
    BY <1>3, ConcatProperties
  <2> QED
    BY <1>4, <2>1
<1> DEFINE p == a + 1
           n == Len(line)
<1> HIDE DEF a, b, c
<1>6. /\ n \in Nat /\ n = a + b + c /\ \A i \in 1 .. a : line[i] = lead[i]
      /\ \A i \in 1 .. b : line[a + i] = text[i]
  BY <1>1, <1>3, <1>5
<1>7. p \in 1 .. n /\ line[p] = Colon /\ \A i \in 1 .. p - 1 : line[i] # Colon
  <2>1. p \in 1 .. n /\ 1 \in 1 .. b /\ \A i \in 1 .. p - 1 : i \in 1 .. a
    BY <1>1, <1>6
  <2> QED
    BY <1>2, <1>6, <2>1, Zenon
<1>8. sub = SubSeq(line, p, n)
  <2>1. Len(line) \in Nat
    BY <1>6
  <2> HIDE DEF p
  <2> QED
    BY <1>7, <2>1, FirstColon
<1> HIDE DEF p, n, sub
<1>9. p \in Nat /\ n \in Nat /\ p <= n + 1
  BY <1>1, <1>6, <1>7 DEF p
<1>11. /\ sub \in Seq(Char) /\ Len(sub) = n - p + 1
       /\ \A i \in 1 .. n - p + 1 : sub[i] = line[p + i - 1]
  BY <1>5, <1>7, <1>8, Suffix DEF n
<1>12. Len(sub) = b + c
  BY <1>1, <1>6, <1>11 DEF p
<1>13. \A i \in 1 .. b : sub[i] = text[i]
  <2> TAKE i \in 1 .. b
  <2>1. i \in 1 .. n - p + 1 /\ p + i - 1 = a + i
    BY <1>1, <1>6 DEF p
  <2> QED
    BY <1>6, <1>11, <2>1
<1>14. Colon \in Range(line)
  <2>1. p \in DOMAIN line
    BY <1>5, <1>7, <1>9 DEF n
  <2> QED
    BY <1>7, <2>1 DEF Range
<1> QED
  BY <1>11, <1>12, <1>13, <1>14 DEF b, c, line, sub

(* A line that lost nothing and is followed by at most one character: what *)
(* from_hex makes of it differs from the record's bytes at most where the  *)
(* character was replaced.                                                 *)
Whole(l) == l.record # NoRecord /\ l.lost = 0 /\ Len(l.trail) <= 1

LEMMA LineBytes ==
  ASSUME NEW l, IsLine(l), Whole(l), NEW s, s = recordBytes(l.record),
         NEW sub, sub = substr(lineText(l)), NEW bytes, bytes = from_hex(Tail(sub))
  PROVE  /\ Colon \in Range(lineText(l))
         /\ Len(sub) \in Nat /\ Len(sub) >= 2 * Len(s) + 1
         /\ bytes \in Seq(Byte) /\ Len(bytes) = Len(s)
         /\ \A i \in 1 .. Len(s) : i # l.at \div 2 => bytes[i] = s[i]
         /\ l.at # 0 => l.at \div 2 \in 1 .. Len(s)
         /\ l.at = 0 => joined(sub[2], sub[3]) = s[1]
<1> DEFINE r == l.record
           text == recordText(r)
           at == l.at
           n == Len(s)
<1>1. /\ IsRecord(r) /\ at \in {0} \cup 2 .. Len(text)
      /\ l.lead \in Seq(Char \ {Colon}) /\ l.trail \in Seq(Char) /\ l.by \in Char
  BY DEF IsLine, Whole
<1>2. s \in Seq(Byte) /\ n \in Nat /\ n >= 5
  <2> HIDE DEF r, n
  <2>1. s \in Seq(Byte) /\ Len(s) = Len(r.data) + 5 /\ Len(r.data) \in Nat
    BY <1>1, RecordBytes DEF r
  <2> QED
    BY <2>1 DEF n
<1>3. /\ text \in Seq(Char) /\ Len(text) = 2 * n + 1 /\ text[1] = Colon
      /\ \A i \in 1 .. n : text[2 * i] = s[i] \div DigitBase /\ text[2 * i + 1] = s[i] % DigitBase
  BY <1>2, RecordText
<1> DEFINE changed == IF at = 0 THEN text ELSE [text EXCEPT ![at] = l.by]
           m == 2 * n + 1
<1>4. m \in Nat /\ at \in {0} \cup 2 .. m
  BY <1>1, <1>2, <1>3
<1> HIDE DEF text, m, n, at
<1>5. /\ changed \in Seq(Char) /\ Len(changed) = m /\ changed[1] = Colon
      /\ \A i \in 1 .. m : i # at => changed[i] = text[i]
  <2>1. CASE at = 0
    BY <1>3, <2>1 DEF m
  <2>2. CASE at # 0
    <3>1. text \in Seq(Char) /\ Len(text) = m /\ at \in 2 .. m
      BY <1>3, <1>4, <2>2 DEF m
    <3>2. changed = [text EXCEPT ![at] = l.by]
      BY <2>2
    <3> HIDE DEF changed
    <3> QED
      BY <1>1, <1>3, <1>4, <3>1, <3>2
  <2> QED
    BY <2>1, <2>2
<1>6. lineText(l) = l.lead \o changed \o l.trail
  <2>1. lineText(l) = l.lead \o SubSeq(changed, 1, Len(changed) - l.lost) \o l.trail
    BY DEF lineText, Whole, changed, text, r, at
  <2> HIDE DEF changed
  <2>2. Len(changed) - l.lost = Len(changed)
    BY <1>4, <1>5 DEF Whole
  <2>3. SubSeq(changed, 1, Len(changed)) = changed
    BY <1>4, <1>5
  <2> QED
    BY <2>1, <2>2, <2>3
<1> HIDE DEF changed
<1>7. /\ Colon \in Range(lineText(l)) /\ sub \in Seq(Char) /\ Len(sub) = m + Len(l.trail)
      /\ \A i \in 1 .. m : sub[i] = changed[i]
  <2> DEFINE lead == l.lead
             trail == l.trail
             line == lineText(l)
  <2>1. Len(changed) >= 1 /\ lead \in Seq(Char \ {Colon}) /\ trail \in Seq(Char)
    BY <1>1, <1>2, <1>5 DEF m
  <2>2. line = lead \o changed \o trail /\ sub = substr(line)
    BY <1>6
  <2> HIDE DEF lead, trail, line
  <2> DEFINE whole == lead \o changed \o trail
  <2>3. /\ Colon \in Range(whole) /\ substr(whole) \in Seq(Char)
        /\ Len(substr(whole)) = Len(changed) + Len(trail)
        /\ \A i \in 1 .. Len(changed) : substr(whole)[i] = changed[i]
    BY <1>5, <2>1, FoundRecord
  <2> HIDE DEF whole
  <2>4. /\ Colon \in Range(line) /\ sub \in Seq(Char) /\ Len(sub) = Len(changed) + Len(trail)
        /\ \A i \in 1 .. Len(changed) : sub[i] = changed[i]
    BY <2>2, <2>3 DEF whole
  <2> QED
    BY <1>5, <2>4 DEF line, trail
<1>8. Len(l.trail) \in {0, 1}
  <2> DEFINE trail == l.trail
  <2>1. trail \in Seq(Char) /\ Len(trail) <= 1
    BY <1>1 DEF Whole
  <2> HIDE DEF trail
  <2>2. Len(trail) \in Nat
    BY <2>1
  <2>3. Len(trail) \in {0, 1}
    <3>1. \A x \in Nat : x <= 1 => x \in {0, 1}
      OBVIOUS
    <3> QED
      BY <2>1, <2>2, <3>1, Zenon
  <2> QED
    BY <2>3 DEF trail
<1> DEFINE hex == Tail(sub)
           extra == Len(l.trail)
<1>9. /\ hex \in Seq(Char) /\ Len(hex) = 2 * n + extra /\ extra \in {0, 1}
      /\ \A i \in 1 .. 2 * n : hex[i] = changed[i + 1]
  <2> HIDE DEF extra
  <2>0. extra \in {0, 1} /\ sub \in Seq(Char) /\ Len(sub) = m + extra /\ m = 2 * n + 1
    BY <1>7, <1>8, Zenon DEF m, extra
  <2>1. sub # <<>> /\ Len(sub) - 1 = 2 * n + extra
    BY <1>2, <2>0
  <2>2. /\ Tail(sub) \in Seq(Char) /\ Len(Tail(sub)) = Len(sub) - 1
        /\ \A i \in 1 .. Len(sub) - 1 : Tail(sub)[i] = sub[i + 1]
    BY <2>0, <2>1
  <2>3. \A i \in 1 .. 2 * n : i \in 1 .. 2 * n + extra /\ i + 1 \in 1 .. m
    BY <1>2, <2>0
  <2> QED
    BY <1>7, <2>0, <2>1, <2>2, <2>3, Zenon DEF hex
<1> HIDE DEF hex, extra
<1>10. Len(hex) \div 2 = n
  <2>1. \A x \in Nat : (2 * x + 0) \div 2 = x /\ (2 * x + 1) \div 2 = x
    OBVIOUS
  <2> QED
    BY <1>2, <1>9, <2>1, Zenon
<1> DEFINE byte(i) == joined(hex[2 * i - 1], hex[2 * i]) % ByteCount
<1>11. bytes = [i \in 1 .. n |-> byte(i)]
  BY <1>10 DEF from_hex, hex
<1>12. \A i \in 1 .. n : byte(i) \in Byte
  BY JoinedType
<1>13. \A i \in 1 .. n : /\ 2 * i - 1 \in 1 .. 2 * n /\ 2 * i \in 1 .. 2 * n /\ (2 * i - 1) + 1 = 2 * i
                         /\ 2 * i \in 1 .. m /\ 2 * i + 1 \in 1 .. m
  BY <1>2 DEF m
<1>14. \A i \in 1 .. n : byte(i) = joined(changed[2 * i], changed[2 * i + 1]) % ByteCount
  BY <1>9, <1>13
<1> HIDE DEF byte
<1>15. bytes \in Seq(Byte) /\ Len(bytes) = n /\ \A i \in 1 .. n : bytes[i] = byte(i)
  <2>1. bytes \in [1 .. n -> Byte]
    BY <1>11, <1>12
  <2> QED
    BY <1>2, <1>11, <2>1
<1>16. ASSUME NEW i \in 1 .. n, i # at \div 2
       PROVE  bytes[i] = s[i] /\ joined(changed[2 * i], changed[2 * i + 1]) = s[i]
  <2>1. 2 * i # at /\ 2 * i + 1 # at
    BY <1>2, <1>4, <1>16
  <2>2. changed[2 * i] = s[i] \div DigitBase /\ changed[2 * i + 1] = s[i] % DigitBase
    BY <1>3, <1>5, <1>13, <2>1
  <2>3. s[i] \in Byte
    BY <1>2 DEF n
  <2>4. joined(changed[2 * i], changed[2 * i + 1]) = s[i]
    BY <2>2, <2>3, DigitPair
  <2>5. s[i] % ByteCount = s[i]
    BY <2>3, ByteCountType DEF Byte, AllOnes
  <2> QED
    BY <1>14, <1>15, <2>4, <2>5
<1>17. at # 0 => at \div 2 \in 1 .. n
  BY <1>2, <1>4 DEF m
<1>18. at = 0 => joined(sub[2], sub[3]) = s[1]
  <2>1. SUFFICES ASSUME at = 0 PROVE joined(sub[2], sub[3]) = s[1]
    OBVIOUS
  <2>2. 1 \in 1 .. n /\ 1 # at \div 2 /\ 2 * 1 = 2 /\ 2 * 1 + 1 = 3 /\ 2 \in 1 .. m /\ 3 \in 1 .. m
    BY <1>2, <2>1 DEF m
  <2> QED
    BY <1>7, <1>16, <2>2
<1>19. Len(sub) \in Nat /\ Len(sub) >= 2 * n + 1
  <2>1. m + Len(l.trail) \in Nat /\ m + Len(l.trail) >= m
    BY <1>4, <1>8
  <2> QED
    BY <1>7, <2>1 DEF m
<1> QED
  BY <1>7, <1>15, <1>16, <1>17, <1>18, <1>19 DEF n, at

(* Bytes are integers.                                                     *)
LEMMA BytesAreIntegers ==
  ASSUME NEW s \in Seq(Byte)
  PROVE  s \in Seq(Int) /\ \A i \in 1 .. Len(s) : s[i] \in 0 .. ByteCount - 1
<1>1. \A i \in 1 .. Len(s) : s[i] \in Byte
  OBVIOUS
<1>2. \A i \in 1 .. Len(s) : s[i] \in 0 .. ByteCount - 1
  BY <1>1 DEF Byte, AllOnes
<1>3. \A i \in 1 .. Len(s) : s[i] \in Int
  BY <1>2, ByteCountType
<1> QED
  BY <1>2, <1>3

(* get_extend and get_start decode the addresses the data encode.          *)
LEMMA AddressesDecoded ==
  ASSUME NEW r, IsRecord(r)
  PROVE  get_extend(r) = r.extend /\ get_start(r) = r.start
<1> DEFINE B == ByteCount
           Q == ByteCount * ByteCount
           x == r.extend
           y == r.start
<1>1. B \in Nat \ {0} /\ DigitBase \in Nat \ {0} /\ x \in Nat /\ y \in Nat
  BY ByteCountType, DigitAssumption DEF IsRecord
<1>2. Q \in Nat \ {0}
  <2>1. \A n \in Nat \ {0} : n * n \in Nat \ {0}
    OBVIOUS
  <2> QED
    BY <1>1, <2>1
<1>3. \A n \in Nat \ {0} : \A v \in Nat :
        /\ v \div n \in Nat /\ v % n \in Nat /\ (v \div n) * n + (v % n) = v
        /\ v % n = 0 => (v \div n) * n = v
  OBVIOUS
<1>4. \A n \in Nat : pair(twoBytes(n)[1], twoBytes(n)[2]) = n
  <2> TAKE n \in Nat
  <2>1. twoBytes(n)[1] = n \div B /\ twoBytes(n)[2] = n % B
    BY DEF twoBytes
  <2> QED
    BY <1>1, <1>3, <2>1 DEF pair
<1>5. ASSUME NEW unit \in Nat \ {0}, encodesExtend(r, unit)
      PROVE  pair(r.data[1], r.data[2]) * unit = x
  <2>1. r.data = twoBytes(x \div unit) /\ x % unit = 0 /\ x \div unit \in Nat
    BY <1>1, <1>3, <1>5 DEF encodesExtend
  <2>2. pair(r.data[1], r.data[2]) = x \div unit
    BY <1>4, <2>1
  <2> QED
    BY <1>1, <1>3, <2>1, <2>2
<1>6. ASSUME encodesStart(r)
      PROVE  pair(r.data[1], r.data[2]) * Q + pair(r.data[3], r.data[4]) = y
  <2> DEFINE hi == y \div Q
             lo == y % Q
  <2>1. hi \in Nat /\ lo \in Nat /\ hi * Q + lo = y
    BY <1>1, <1>2, <1>3
  <2>2. r.data = twoBytes(hi) \o twoBytes(lo)
    BY <1>6 DEF encodesStart
  <2> HIDE DEF hi, lo
  <2>3. \A n \in Nat : /\ twoBytes(n) \in Seq(Nat) /\ Len(twoBytes(n)) = 2
                       /\ twoBytes(n)[1] = n \div B /\ twoBytes(n)[2] = n % B
    BY <1>1, <1>3 DEF twoBytes
  <2> DEFINE first == twoBytes(hi)
             second == twoBytes(lo)
  <2>4. r.data[1] = hi \div B /\ r.data[2] = hi % B /\ r.data[3] = lo \div B /\ r.data[4] = lo % B
    <3>1. /\ first \in Seq(Nat) /\ Len(first) = 2 /\ first[1] = hi \div B /\ first[2] = hi % B
          /\ second \in Seq(Nat) /\ Len(second) = 2 /\ second[1] = lo \div B /\ second[2] = lo % B
      BY <2>1, <2>3
    <3> HIDE DEF first, second
    <3> DEFINE four == first \o second
    <3>2. \A i \in 1 .. Len(first) + Len(second) :
            four[i] = IF i <= Len(first) THEN first[i] ELSE second[i - Len(first)]
      BY <3>1, ConcatProperties
    <3> HIDE DEF four
    <3>3. \A i \in 1 .. 4 : four[i] = IF i <= 2 THEN first[i] ELSE second[i - 2]
      BY <3>1, <3>2
    <3>4. four[1] = first[1] /\ four[2] = first[2] /\ four[3] = second[1] /\ four[4] = second[2]
      BY <3>3
    <3>5. r.data = four
      BY <2>2 DEF first, second, four
    <3> QED
      BY <3>1, <3>4, <3>5
  <2>5. pair(hi \div B, hi % B) = hi /\ pair(lo \div B, lo % B) = lo
    BY <1>1, <1>3, <2>1 DEF pair
  <2> QED
    BY <2>1, <2>4, <2>5
<1>7. get_extend(r) = r.extend
  <2>1. CASE r.type = 2 /\ Len(r.data) = 2
    BY <1>1, <1>5, <2>1 DEF IsRecord, get_extend
  <2>2. CASE r.type = 4 /\ Len(r.data) = 2
    BY <1>2, <1>5, <2>2 DEF IsRecord, get_extend
  <2>3. CASE ~(r.type = 2 /\ Len(r.data) = 2) /\ ~(r.type = 4 /\ Len(r.data) = 2)
    BY <2>3 DEF IsRecord, get_extend
  <2> QED
    BY <2>1, <2>2, <2>3
<1>8. get_start(r) = r.start
  BY <1>6 DEF IsRecord, get_start
<1> QED
  BY <1>7, <1>8

(* What parse_hex_record makes of a line, intact or found valid: the       *)
(* record that was meant.                                                  *)
ReadRight(r, l) == Whole(l) /\ (l.at = 0 \/ is_valid(r)) => carries(r, l.record)

LEMMA LineRead ==
  ASSUME NEW l, IsLine(l), NEW beyond,
         NEW r, r = parse_hex_record(Tail(substr(lineText(l))), beyond)
  PROVE  ReadRight(r, l)
<1> SUFFICES ASSUME Whole(l), l.at = 0 \/ is_valid(r) PROVE carries(r, l.record)
  BY DEF ReadRight
<1> DEFINE meant == l.record
           s == recordBytes(meant)
           bytes == from_hex(Tail(substr(lineText(l))))
           n == Len(s)
           j == l.at \div 2
<1>1. IsRecord(meant)
  BY DEF IsLine, Whole
<1> HIDE DEF s, bytes
<1>2. /\ s \in Seq(Byte) /\ n = Len(meant.data) + 5 /\ Len(meant.data) \in Nat
      /\ s[1] = Len(meant.data) /\ s[2] * ByteCount + s[3] = meant.offset /\ s[4] = meant.type
      /\ \A i \in 1 .. Len(meant.data) : s[i + 4] = meant.data[i]
      /\ total(s) % ByteCount = 0
  <2> HIDE DEF meant
  <2> QED
    BY <1>1, RecordBytes DEF s
<1>3. /\ bytes \in Seq(Byte) /\ Len(bytes) = n /\ n \in Nat /\ n >= 5
      /\ \A i \in 1 .. n : i # j => bytes[i] = s[i]
      /\ l.at # 0 => j \in 1 .. n
      /\ l.at = 0 => j = 0
  <2>1. n \in Nat /\ n >= 5
    BY <1>2
  <2>2. /\ bytes \in Seq(Byte) /\ Len(bytes) = Len(s)
        /\ \A i \in 1 .. Len(s) : i # l.at \div 2 => bytes[i] = s[i]
        /\ l.at # 0 => l.at \div 2 \in 1 .. Len(s)
    BY LineBytes DEF s, bytes
  <2> QED
    BY <2>1, <2>2
<1>4. /\ r.sum_actual = hex_checksum(Front(bytes)) /\ r.sum_expected = Last(bytes)
      /\ r.count = bytes[1] /\ r.offset = bytes[2] * ByteCount + bytes[3] /\ r.type = bytes[4]
      /\ r.data = [i \in 1 .. bytes[1] |-> IF 4 + i <= Len(bytes) THEN bytes[4 + i] ELSE beyond]
  BY DEF parse_hex_record, bytes
<1> HIDE DEF n, j, meant
<1>5. ByteCount \in Nat \ {0} /\ Byte = 0 .. ByteCount - 1
  BY ByteCountType DEF Byte, AllOnes
<1>6. hex_checksum(Front(s)) = Last(s) /\ (r.sum_actual = r.sum_expected <=> total(bytes) % ByteCount = 0)
  <2>1. Len(s) >= 1 /\ Len(bytes) >= 1
    BY <1>3 DEF n
  <2> QED
    BY <1>2, <1>3, <1>4, <2>1, ChecksumsAgree
<1>7. \A i \in 1 .. n : bytes[i] \in 0 .. ByteCount - 1 /\ s[i] \in 0 .. ByteCount - 1
  BY <1>2, <1>3, BytesAreIntegers DEF n
<1>8. bytes = s
  <2>1. ASSUME l.at # 0, j \in 1 .. n PROVE bytes[j] = s[j]
    <3> DEFINE d == bytes[j] - s[j]
    <3>1. s \in Seq(Int) /\ bytes \in Seq(Int) /\ d \in Int /\ j \in Int
      <4>1. s \in Seq(Int) /\ bytes \in Seq(Int)
        BY <1>2, <1>3, BytesAreIntegers
      <4>2. bytes[j] \in Int /\ s[j] \in Int /\ j \in Int
        BY <1>3, <1>5, <1>7, <2>1
      <4> QED
        BY <4>1, <4>2
    <3>2. DifferAt(s, bytes, n, j, d)
      <4> SUFFICES ASSUME NEW i \in 1 .. n PROVE bytes[i] = IF i = j THEN s[i] + d ELSE s[i]
        BY DEF DifferAt
      <4>1. CASE i = j
        BY <1>7, <4>1
      <4>2. CASE i # j
        BY <1>3, <4>2
      <4> QED
        BY <4>1, <4>2
    <3> HIDE DEF d
    <3>3. partial(bytes)[n] = IF 1 <= j /\ j <= n THEN partial(s)[n] + d ELSE partial(s)[n]
      <4>1. n <= Len(s) /\ n <= Len(bytes)
        BY <1>3 DEF n
      <4> QED
        BY <1>3, <3>1, <3>2, <4>1, OneDifference
    <3>4. total(bytes) = total(s) + d
      <4>1. 1 <= j /\ j <= n
        BY <1>3, <2>1
      <4> QED
        BY <1>3, <3>3, <4>1 DEF total, n
    <3>5. total(s) \in Int
      <4>1. Len(s) \in 0 .. Len(s)
        BY <1>3 DEF n
      <4> QED
        BY <3>1, <4>1, PartialDefined DEF total
    <3>6. total(bytes) % ByteCount = 0
      BY <1>6, <2>1 DEF is_valid
    <3>7. (total(s) + (bytes[j] - s[j])) % ByteCount = 0
      BY <3>4, <3>6 DEF d
    <3> DEFINE u == s[j]
               v == bytes[j]
    <3>8. u \in 0 .. ByteCount - 1 /\ v \in 0 .. ByteCount - 1 /\ (total(s) + (v - u)) % ByteCount = 0
      BY <1>7, <2>1, <3>7
    <3> HIDE DEF u, v
    <3>9. u = v
      BY <1>2, <1>5, <3>5, <3>8, SmallDifference
    <3> QED
      BY <3>9 DEF u, v
  <2>2. \A i \in 1 .. n : bytes[i] = s[i]
    BY <1>3, <2>1
  <2> QED
    BY <1>2, <1>3, <2>2 DEF n
<1>9. r.sum_actual = r.sum_expected
  BY <1>2, <1>6, <1>8
<1>10. r.count = Len(meant.data) /\ r.type = meant.type /\ r.offset = meant.offset
  BY <1>2, <1>4, <1>8
<1>11. r.data = meant.data
  <2> DEFINE k == Len(meant.data)
             data == meant.data
  <2>1. k \in Nat /\ Len(s) = k + 5 /\ s[1] = k /\ data \in Seq(Byte) /\ Len(data) = k
        /\ \A i \in 1 .. k : s[i + 4] = data[i]
    BY <1>1, <1>2 DEF IsRecord, n
  <2>2. r.data = [i \in 1 .. s[1] |-> IF 4 + i <= Len(s) THEN s[4 + i] ELSE beyond]
    BY <1>4, <1>8
  <2> HIDE DEF k, data
  <2>3. \A i \in 1 .. k : 4 + i <= k + 5 /\ 4 + i = i + 4
    BY <2>1
  <2> DEFINE value(i) == IF 4 + i <= Len(s) THEN s[4 + i] ELSE beyond
  <2>4. \A i \in 1 .. k : value(i) = data[i]
    BY <2>1, <2>3
  <2>5. r.data = [i \in 1 .. k |-> value(i)]
    BY <2>1, <2>2
  <2> HIDE DEF value
  <2>6. data = [i \in 1 .. k |-> data[i]]
    BY <2>1
  <2> QED
    BY <2>4, <2>5, <2>6 DEF data
<1>12. is_valid(r)
  BY <1>9, <1>10, <1>11 DEF is_valid
<1>13. get_extend(r) = meant.extend /\ get_start(r) = meant.start
  <2>1. get_extend(r) = get_extend(meant) /\ get_start(r) = get_start(meant)
    BY <1>10, <1>11 DEF get_extend, get_start
  <2> QED
    BY <1>1, <2>1, AddressesDecoded
<1> QED
  BY <1>10, <1>11, <1>12, <1>13 DEF carries, meant

(* parse_hex takes an intact line that carries a record for one.           *)
LEMMA IntactLineAccepted ==
  ASSUME NEW l, IsLine(l), Whole(l), l.at = 0, NEW sub, sub = substr(lineText(l))
  PROVE  /\ Colon \in Range(lineText(l))
         /\ min_record_size <= Len(sub) /\ min_record_size + joined(sub[2], sub[3]) <= Len(sub)
<1> DEFINE meant == l.record
           s == recordBytes(meant)
           k == Len(meant.data)
<1>1. IsRecord(meant)
  BY DEF IsLine, Whole
<1>2. Len(s) = k + 5 /\ k \in Nat /\ s[1] = k
  <2> HIDE DEF meant
  <2> QED
    BY <1>1, RecordBytes
<1>3. /\ Colon \in Range(lineText(l)) /\ Len(sub) \in Nat /\ Len(sub) >= 2 * Len(s) + 1
      /\ joined(sub[2], sub[3]) = s[1]
  BY LineBytes
<1> HIDE DEF s, k
<1> QED
  BY <1>2, <1>3 DEF min_record_size

(* A line without a record has no colon.                                   *)
LEMMA NoRecordNoColon ==
  ASSUME NEW l, IsLine(l), l.record = NoRecord, l.lost = 0
  PROVE  Colon \notin Range(lineText(l))
<1> DEFINE lead == l.lead
<1>1. lead \in Seq(Char \ {Colon}) /\ l.at = 0 /\ l.trail = <<>>
  BY DEF IsLine
<1>2. lineText(l) = lead \o SubSeq(<<>>, 1, Len(<<>>) - 0) \o <<>>
  BY <1>1 DEF lineText
<1> HIDE DEF lead
<1>3. SubSeq(<<>>, 1, Len(<<>>) - 0) = <<>>
  OBVIOUS
<1>4. lead \o <<>> = lead
  BY <1>1
<1>5. lineText(l) = lead
  BY <1>2, <1>3, <1>4
<1>6. \A i \in DOMAIN lead : lead[i] # Colon
  BY <1>1
<1> QED
  BY <1>5, <1>6 DEF Range

----------------------------------------------------------------------------
(* Files                                                                   *)

done == Len(source) - Len(rest)
Texts == {lineText(l) : l \in Lines}
Intact == \A k \in DOMAIN source : intact(source[k])
Carrying == {k \in DOMAIN source : source[k].record # NoRecord}
Wanted == {k \in Carrying : \A j \in Carrying : j < k => ~is_eof(source[j].record)}
Taken(res) == {res[i].line : i \in DOMAIN res}

(* Where parse_hex is: what is left to read are the last lines.            *)
Reading ==
  /\ source \in Files
  /\ rest \in Seq(Texts) /\ Len(rest) <= Len(source)
  /\ \A i \in 1 .. Len(rest) : rest[i] = lineText(source[done + i])
  /\ result \in Seq(Range(result))
  /\ status \in {"parsing", "parsed", "nullopt"}

(* Every record was made of a line already read and is right if it has to  *)
(* be.                                                                     *)
ReadSoFar ==
  \A i \in 1 .. Len(result) :
    result[i].line \in 1 .. done /\ ReadRight(result[i].record, source[result[i].line])

(* The records stand in the order of their lines.                          *)
InOrder ==
  \A i, j \in 1 .. Len(result) : i < j => result[i].line < result[j].line

(* In an intact file, every line with a record read so far has given one,  *)
(* up to the first end-of-file record.                                     *)
NoneSkipped ==
  Intact =>
    /\ status = "parsing" =>
         /\ Taken(result) = Carrying \cap (1 .. done)
         /\ \A k \in Carrying \cap (1 .. done) : ~is_eof(source[k].record)
    /\ status # "parsing" =>
         /\ status = "parsed"
         /\ Taken(result) = Wanted

ParseInvariant == Reading /\ ReadSoFar /\ InOrder /\ NoneSkipped

(* The lines of a file are lines.                                          *)
LEMMA FileLines ==
  ASSUME source \in Files
  PROVE  /\ source \in Seq(Lines) /\ Len(source) \in Nat /\ DOMAIN source = 1 .. Len(source)
         /\ \A k \in 1 .. Len(source) : source[k] \in Lines /\ IsLine(source[k])
<1>1. source \in Seq(Lines)
  BY FilesAssumption
<1> QED
  BY <1>1, FilesAssumption

(* Appending to a sequence.                                                *)
LEMMA AppendTaken ==
  ASSUME NEW S, NEW q \in Seq(S), NEW x
  PROVE  LET r == Append(q, x)
         IN  /\ r \in Seq(Range(r)) /\ Len(q) \in Nat /\ Len(r) = Len(q) + 1
             /\ \A i \in 1 .. Len(q) : r[i] = q[i]
             /\ r[Len(q) + 1] = x
             /\ Taken(r) = Taken(q) \cup {x.line}
<1> DEFINE r == Append(q, x)
           T == S \cup {x}
           n == Len(q)
<1>1. q \in Seq(T) /\ x \in T /\ n \in Nat /\ DOMAIN q = 1 .. n
  OBVIOUS
<1>2. r \in Seq(T) /\ Len(r) = n + 1 /\ r[n + 1] = x /\ \A i \in 1 .. n : r[i] = q[i]
  <2> HIDE DEF T
  <2> QED
    BY <1>1
<1> HIDE DEF r, T, n
<1>3. DOMAIN r = 1 .. n + 1
  BY <1>1, <1>2
<1>4. r \in Seq(Range(r))
  <2>1. \A i \in 1 .. n + 1 : r[i] \in Range(r)
    BY <1>3 DEF Range
  <2> QED
    BY <1>1, <1>2, <2>1
<1>5. Taken(r) = Taken(q) \cup {x.line}
  <2>1. ASSUME NEW t \in Taken(r) PROVE t \in Taken(q) \cup {x.line}
    <3>1. PICK i \in 1 .. n + 1 : t = r[i].line
      BY <1>3 DEF Taken
    <3>2. CASE i = n + 1
      BY <1>2, <3>1, <3>2
    <3>3. CASE i \in 1 .. n
      BY <1>1, <1>2, <3>1, <3>3 DEF Taken
    <3> QED
      BY <1>1, <3>2, <3>3
  <2>2. x.line \in Taken(r)
    <3>1. n + 1 \in DOMAIN r
      BY <1>1, <1>3
    <3> QED
      BY <1>2, <3>1 DEF Taken
  <2>3. ASSUME NEW t \in Taken(q) PROVE t \in Taken(r)
    <3>1. PICK i \in 1 .. n : t = q[i].line
      BY <1>1 DEF Taken
    <3>2. i \in DOMAIN r /\ r[i] = q[i]
      BY <1>1, <1>2, <1>3
    <3> QED
      BY <3>1, <3>2 DEF Taken
  <2> QED
    BY <2>1, <2>2, <2>3
<1> QED
  BY <1>1, <1>2, <1>4, <1>5 DEF r, n

(* What getline gives, and what is left after it.                          *)
LEMMA NextLine ==
  ASSUME Reading, rest # <<>>
  PROVE  /\ done + 1 \in 1 .. Len(source) /\ done \in Nat
         /\ Line = lineText(source[done + 1]) /\ IsLine(source[done + 1])
         /\ Tail(rest) \in Seq(Texts) /\ Len(Tail(rest)) = Len(rest) - 1
         /\ Len(rest) \in Nat /\ Len(source) \in Nat /\ Len(Tail(rest)) <= Len(source)
         /\ \A i \in 1 .. Len(Tail(rest)) : Tail(rest)[i] = lineText(source[(done + 1) + i])
<1> DEFINE n == Len(source)
           m == Len(rest)
           t == Tail(rest)
<1>1. /\ n \in Nat /\ rest \in Seq(Texts) /\ m <= n /\ rest # <<>>
      /\ \A i \in 1 .. m : rest[i] = lineText(source[n - m + i])
      /\ \A k \in 1 .. n : IsLine(source[k])
  BY FileLines DEF Reading, done
<1>2. /\ m \in Nat /\ m >= 1 /\ Head(rest) = rest[1] /\ t \in Seq(Texts) /\ Len(t) = m - 1
      /\ \A i \in 1 .. m - 1 : t[i] = rest[i + 1]
  BY <1>1
<1> HIDE DEF n, m, t
<1>3. n - m + 1 \in 1 .. n /\ 1 \in 1 .. m /\ n - m \in Nat /\ m - 1 <= n
  BY <1>1, <1>2
<1>4. \A i \in 1 .. m - 1 : i + 1 \in 1 .. m /\ n - m + (i + 1) = (n - m + 1) + i
  BY <1>1, <1>2
<1>5. \A i \in 1 .. m - 1 : t[i] = lineText(source[(n - m + 1) + i])
  BY <1>1, <1>2, <1>4
<1>6. Head(rest) = lineText(source[n - m + 1]) /\ IsLine(source[n - m + 1])
  BY <1>1, <1>2, <1>3
<1> QED
  BY <1>1, <1>2, <1>3, <1>5, <1>6 DEF Line, done, n, m, t

(* An intact line and what parse_hex does with it.                         *)
LEMMA IntactLine ==
  ASSUME Reading, rest # <<>>, Intact
  PROVE  /\ intact(source[done + 1])
         /\ done + 1 \in Carrying <=> source[done + 1].record # NoRecord
         /\ done + 1 \in Carrying => Whole(source[done + 1]) /\ long_enough
         /\ done + 1 \in Carrying <=> Colon \in Range(Line)
<1> DEFINE l == source[done + 1]
<1>1. done + 1 \in DOMAIN source /\ Line = lineText(l) /\ IsLine(l)
  BY NextLine, FileLines DEF Reading
<1>2. intact(l) /\ l.lost = 0 /\ l.at = 0
  BY <1>1 DEF Intact, intact
<1>3. done + 1 \in Carrying <=> l.record # NoRecord
  BY <1>1 DEF Carrying
<1>4. l.record # NoRecord => Whole(l)
  BY <1>2 DEF intact, Whole
<1>5. Whole(l) => Colon \in Range(Line) /\ long_enough
  BY <1>1, <1>2, IntactLineAccepted DEF long_enough, fromColon
<1>6. l.record = NoRecord => Colon \notin Range(Line)
  BY <1>1, <1>2, NoRecordNoColon
<1> QED
  BY <1>2, <1>3, <1>4, <1>5, <1>6

(* parse_hex starts with all lines to be read.                             *)
LEMMA ParseStarts == Init => ParseInvariant
<1> SUFFICES ASSUME Init PROVE ParseInvariant
  OBVIOUS
<1> DEFINE n == Len(source)
<1>1. /\ source \in Files /\ n \in Nat /\ DOMAIN source = 1 .. n
      /\ \A k \in 1 .. n : source[k] \in Lines
  BY FileLines DEF Init
<1>2. rest = [i \in 1 .. n |-> lineText(source[i])]
  BY <1>1 DEF Init
<1> HIDE DEF n
<1>3. rest \in Seq(Texts) /\ Len(rest) = n
  <2>1. \A k \in 1 .. n : lineText(source[k]) \in Texts
    BY <1>1 DEF Texts
  <2>2. rest \in [1 .. n -> Texts]
    BY <1>2, <2>1
  <2> QED
    BY <1>1, <1>2, <2>2
<1>4. done = 0
  BY <1>1, <1>3 DEF done, n
<1>5. \A i \in 1 .. Len(rest) : rest[i] = lineText(source[done + i])
  BY <1>1, <1>2, <1>3, <1>4
<1>6. result = <<>> /\ status = "parsing" /\ Len(result) = 0 /\ DOMAIN result = {}
  BY DEF Init
<1>7. Reading
  <2>1. result \in Seq(Range(result))
    BY <1>6
  <2> QED
    BY <1>1, <1>3, <1>5, <1>6, <2>1 DEF Reading, n
<1>8. ReadSoFar /\ InOrder
  BY <1>6 DEF ReadSoFar, InOrder
<1>9. NoneSkipped
  <2>1. Taken(result) = {}
    BY <1>6 DEF Taken
  <2>2. 1 .. done = {}
    BY <1>4
  <2> QED
    BY <1>6, <2>1, <2>2 DEF NoneSkipped
<1> QED
  BY <1>7, <1>8, <1>9 DEF ParseInvariant

(* The lines up to the next one.                                           *)
LEMMA OneMoreLine ==
  ASSUME NEW d \in Nat
  PROVE  1 .. (d + 1) = (1 .. d) \cup {d + 1}
OBVIOUS

(* getline's loop keeps the invariant.                                     *)
LEMMA ParseStep == ParseInvariant /\ [getline]_vars => ParseInvariant'
<1> SUFFICES ASSUME ParseInvariant, [getline]_vars PROVE ParseInvariant'
  OBVIOUS
<1> USE DEF ParseInvariant
<1>1. CASE UNCHANGED vars
  BY <1>1 DEF vars, Reading, ReadSoFar, InOrder, NoneSkipped, done, Intact, Carrying, Wanted
<1>2. ASSUME getline, rest = <<>>, status' = "parsed", UNCHANGED <<rest, result>>
      PROVE  ParseInvariant'
  <2>1. UNCHANGED source /\ status = "parsing"
    BY <1>2 DEF getline
  <2>2. Reading'
    BY <1>2, <2>1 DEF Reading, done
  <2>3. ReadSoFar' /\ InOrder'
    BY <1>2, <2>1 DEF ReadSoFar, InOrder, done
  <2>4. Carrying \cap (1 .. done) = Carrying
    <3>1. done = Len(source) /\ DOMAIN source = 1 .. Len(source)
      BY <1>2, FileLines DEF done, Reading
    <3> QED
      BY <3>1 DEF Carrying
  <2>5. Intact => Taken(result) = Wanted
    <3>1. Intact => Taken(result) = Carrying /\ \A k \in Carrying : ~is_eof(source[k].record)
      BY <2>1, <2>4 DEF NoneSkipped
    <3> QED
      BY <3>1 DEF Wanted
  <2>6. NoneSkipped'
    BY <1>2, <2>1, <2>5 DEF NoneSkipped, Intact, Carrying, Wanted
  <2> QED
    BY <2>2, <2>3, <2>6
<1>3. ASSUME getline, rest # <<>>, skip_line PROVE ParseInvariant'
  <2>1. UNCHANGED source /\ status = "parsing" /\ rest' = Tail(rest) /\ UNCHANGED <<result, status>>
    BY <1>3 DEF getline, skip_line
  <2>2. done' = done + 1 /\ done \in Nat
    BY <1>3, <2>1, NextLine DEF done
  <2>3. Reading'
    BY <1>3, <2>1, <2>2, NextLine DEF Reading
  <2>4. ReadSoFar' /\ InOrder'
    <3>1. 1 .. done \subseteq 1 .. (done + 1)
      BY <2>2
    <3> QED
      BY <2>1, <2>2, <3>1 DEF ReadSoFar, InOrder
  <2>5. Intact => Carrying \cap (1 .. (done + 1)) = Carrying \cap (1 .. done)
    <3>1. Intact => done + 1 \notin Carrying
      BY <1>3, IntactLine DEF skip_line
    <3> QED
      BY <2>2, <3>1, OneMoreLine
  <2>6. NoneSkipped'
    <3>1. Intact' = Intact /\ Carrying' = Carrying /\ Taken(result)' = Taken(result)
      BY <2>1 DEF Intact, Carrying
    <3> QED
      BY <2>1, <2>2, <2>5, <3>1 DEF NoneSkipped
  <2> QED
    BY <2>3, <2>4, <2>6
<1>4. ASSUME getline, rest # <<>>, refuse_line PROVE ParseInvariant'
  <2>1. UNCHANGED <<source, rest, result>> /\ status = "parsing" /\ status' = "nullopt"
    BY <1>4 DEF getline, refuse_line
  <2>2. Reading'
    BY <2>1 DEF Reading, done
  <2>3. ReadSoFar' /\ InOrder'
    BY <2>1 DEF ReadSoFar, InOrder, done
  <2>4. ~Intact
    BY <1>4, IntactLine DEF refuse_line
  <2>5. NoneSkipped'
    BY <2>1, <2>4 DEF NoneSkipped, Intact
  <2> QED
    BY <2>2, <2>3, <2>5
<1>5. ASSUME getline, rest # <<>>, parse_line PROVE ParseInvariant'
  <2>1. UNCHANGED source /\ status = "parsing" /\ rest' = Tail(rest) /\ Colon \in Range(Line)
    BY <1>5 DEF getline, parse_line
  <2>2. PICK beyond \in 0 .. AllOnes :
          LET record == parse_hex_record(Tail(fromColon), beyond) IN
          /\ result' = Append(result, [record |-> record, line |-> Len(source) - Len(rest) + 1])
          /\ status' = IF is_eof(record) THEN "parsed" ELSE status
    BY <1>5 DEF parse_line
  <2> DEFINE record == parse_hex_record(Tail(fromColon), beyond)
             entry == [record |-> record, line |-> done + 1]
             k == done + 1
             l == source[k]
  <2>3. result' = Append(result, entry) /\ status' = IF is_eof(record) THEN "parsed" ELSE status
    BY <2>2 DEF done
  <2>4. /\ done' = k /\ done \in Nat /\ k \in 1 .. Len(source) /\ k \in DOMAIN source
        /\ Line = lineText(l) /\ IsLine(l)
    BY <1>5, <2>1, NextLine, FileLines DEF Reading, done
  <2>5. ReadRight(record, l)
    BY <2>4, LineRead DEF fromColon
  <2>6. entry.record = record /\ entry.line = k
    OBVIOUS
  <2> HIDE DEF record, entry
  <2>7. /\ result' \in Seq(Range(result')) /\ Len(result) \in Nat /\ Len(result') = Len(result) + 1
        /\ \A i \in 1 .. Len(result) : result'[i] = result[i]
        /\ result'[Len(result) + 1] = entry
        /\ Taken(result') = Taken(result) \cup {k}
    BY <2>3, <2>6, AppendTaken DEF Reading
  <2>8. Reading'
    <3>1. status' \in {"parsing", "parsed", "nullopt"}
      BY <2>1, <2>3
    <3> QED
      BY <1>5, <2>1, <2>4, <2>7, <3>1, NextLine DEF Reading
  <2>9. ReadSoFar'
    <3> SUFFICES ASSUME NEW i \in 1 .. Len(result')
                 PROVE  result'[i].line \in 1 .. k /\ ReadRight(result'[i].record, source[result'[i].line])
      BY <2>1, <2>4 DEF ReadSoFar
    <3>1. CASE i = Len(result) + 1
      BY <2>4, <2>5, <2>6, <2>7, <3>1
    <3>2. CASE i \in 1 .. Len(result)
      <4>1. 1 .. done \subseteq 1 .. k
        BY <2>4
      <4>2. result[i].line \in 1 .. done /\ ReadRight(result[i].record, source[result[i].line])
        BY <3>2 DEF ReadSoFar
      <4> QED
        BY <2>7, <3>2, <4>1, <4>2
    <3> QED
      BY <2>7, <3>1, <3>2
  <2>10. InOrder'
    <3> SUFFICES ASSUME NEW i \in 1 .. Len(result'), NEW j \in 1 .. Len(result'), i < j
                 PROVE  result'[i].line < result'[j].line
      BY DEF InOrder
    <3>1. i \in 1 .. Len(result)
      BY <2>7
    <3>2. CASE j \in 1 .. Len(result)
      BY <2>7, <3>1, <3>2 DEF InOrder
    <3>3. CASE j = Len(result) + 1
      <4>1. result[i].line \in 1 .. done
        BY <3>1 DEF ReadSoFar
      <4> QED
        BY <2>4, <2>6, <2>7, <3>1, <3>3, <4>1
    <3> QED
      BY <2>7, <3>2, <3>3
  <2>11. NoneSkipped'
    <3>1. Intact' = Intact /\ Carrying' = Carrying /\ Wanted' = Wanted
      BY <2>1 DEF Intact, Carrying, Wanted
    <3>2. SUFFICES ASSUME Intact
                   PROVE  /\ status' = "parsing" =>
                               /\ Taken(result') = Carrying \cap (1 .. k)
                               /\ \A j \in Carrying \cap (1 .. k) : ~is_eof(source[j].record)
                          /\ status' # "parsing" =>
                               /\ status' = "parsed"
                               /\ Taken(result') = Wanted
      BY <2>1, <2>4, <3>1 DEF NoneSkipped
    <3>3. k \in Carrying /\ Whole(l) /\ l.at = 0
      BY <1>5, <2>1, <3>2, IntactLine DEF intact
    <3>4. is_eof(record) <=> is_eof(l.record)
      BY <2>5, <3>3 DEF ReadRight, carries, is_eof
    <3>5. /\ Taken(result) = Carrying \cap (1 .. done)
          /\ \A j \in Carrying \cap (1 .. done) : ~is_eof(source[j].record)
      BY <2>1, <3>2 DEF NoneSkipped
    <3>6. 1 .. k = (1 .. done) \cup {k}
      BY <2>4, OneMoreLine
    <3>7. Taken(result') = Carrying \cap (1 .. k)
      BY <2>7, <3>3, <3>5, <3>6
    <3>8. CASE ~is_eof(record)
      <4>1. status' = "parsing"
        BY <2>1, <2>3, <3>8
      <4>2. \A j \in Carrying \cap (1 .. k) : ~is_eof(source[j].record)
        BY <3>4, <3>5, <3>6, <3>8
      <4> QED
        BY <3>7, <4>1, <4>2
    <3>9. CASE is_eof(record)
      <4>1. status' = "parsed"
        BY <2>3, <3>9
      <4>2. Carrying \cap (1 .. k) = Wanted
        <5>1. \A i \in Carrying : i \in Nat /\ i >= 1
          BY FileLines DEF Carrying, Reading
        <5>2. \A i \in Carrying : i <= k <=> i \in 1 .. k
          BY <2>4, <5>1
        <5>3. ASSUME NEW i \in Carrying, i <= k, NEW j \in Carrying, j < i PROVE ~is_eof(source[j].record)
          <6>1. j \in 1 .. done
            BY <2>4, <5>1, <5>3
          <6> QED
            BY <3>5, <5>3, <6>1
        <5>4. ASSUME NEW i \in Carrying, ~(i <= k) PROVE k < i /\ is_eof(source[k].record)
          BY <2>4, <3>4, <3>9, <5>1, <5>4
        <5> QED
          BY <3>3, <5>2, <5>3, <5>4 DEF Wanted
      <4> QED
        BY <3>7, <4>1, <4>2
    <3> QED
      BY <3>8, <3>9
  <2> QED
    BY <2>8, <2>9, <2>10, <2>11
<1> QED
  BY <1>1, <1>2, <1>3, <1>4, <1>5 DEF getline

(* So the invariant holds all the time.                                    *)
LEMMA ParseInvariantHolds == Spec => []ParseInvariant
BY ParseStarts, ParseStep, PTL DEF Spec

(* ReadsIntactFiles, for every base of the digits and every file of the    *)
(* format: parse_hex reads an intact file as it was meant.                 *)
THEOREM IntactFilesAreRead == Spec => []ReadsIntactFiles
<1>1. ASSUME ParseInvariant PROVE ReadsIntactFiles
  <2>1. SUFFICES ASSUME Intact, status # "parsing"
                 PROVE  /\ status = "parsed"
                        /\ Taken(result) = Wanted
                        /\ \A i, j \in DOMAIN result : i < j => result[i].line < result[j].line
                        /\ \A i \in DOMAIN result : carries(result[i].record, source[result[i].line].record)
    BY DEF ReadsIntactFiles, Intact, Carrying, Wanted, Taken
  <2>2. /\ status = "parsed"
        /\ Taken(result) = Wanted
    BY <1>1, <2>1 DEF ParseInvariant, NoneSkipped
  <2>3. \A i, j \in DOMAIN result : i < j => result[i].line < result[j].line
    <3>1. DOMAIN result = 1 .. Len(result)
      BY <1>1 DEF ParseInvariant, Reading
    <3> QED
      BY <1>1, <3>1 DEF ParseInvariant, InOrder
  <2>4. ASSUME NEW i \in DOMAIN result PROVE carries(result[i].record, source[result[i].line].record)
    <3> DEFINE k == result[i].line
    <3>1. k \in Carrying
      BY <2>2 DEF Taken, Wanted
    <3>2. intact(source[k]) /\ source[k].record # NoRecord
      BY <2>1, <3>1 DEF Carrying, Intact
    <3>3. i \in 1 .. Len(result)
      BY <1>1 DEF ParseInvariant, Reading
    <3>4. ReadRight(result[i].record, source[k])
      BY <1>1, <3>3 DEF ParseInvariant, ReadSoFar
    <3> QED
      BY <3>2, <3>4 DEF ReadRight, Whole, intact
  <2> QED
    BY <2>2, <2>3, <2>4
<1> QED
  BY <1>1, ParseInvariantHolds, PTL

(* OneErrorDetected, likewise: whichever character of a record is replaced *)
(* and by whatever, the record is read as it was meant or not valid.       *)
THEOREM OneErrorIsDetected == Spec => []OneErrorDetected
<1>1. ASSUME ParseInvariant PROVE OneErrorDetected
  <2> SUFFICES ASSUME NEW i \in DOMAIN result,
                      source[result[i].line].at # 0, source[result[i].line].lost = 0,
                      Len(source[result[i].line].trail) <= 1, is_valid(result[i].record)
               PROVE  carries(result[i].record, source[result[i].line].record)
    BY DEF OneErrorDetected
  <2> DEFINE k == result[i].line
             l == source[k]
  <2>1. i \in 1 .. Len(result)
    BY <1>1 DEF ParseInvariant, Reading
  <2>2. k \in 1 .. done /\ ReadRight(result[i].record, l)
    BY <1>1, <2>1 DEF ParseInvariant, ReadSoFar
  <2>3. k \in 1 .. Len(source)
    <3>1. Len(source) \in Nat /\ Len(rest) \in Nat
      BY <1>1, FileLines DEF ParseInvariant, Reading
    <3> QED
      BY <2>2, <3>1 DEF done
  <2>4. IsLine(l)
    BY <1>1, <2>3, FileLines DEF ParseInvariant, Reading
  <2>5. Whole(l)
    BY <2>4 DEF IsLine, Whole
  <2> QED
    BY <2>2, <2>5 DEF ReadRight
<1> QED
  BY <1>1, ParseInvariantHolds, PTL
=============================================================================
