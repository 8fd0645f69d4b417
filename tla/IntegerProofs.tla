--------------------------- MODULE IntegerProofs ---------------------------
(***************************************************************************)
(* Theorems about the integer handlers, for every register width: what     *)
(* IntegerUnit's run checks on four-bit words.                             *)
(***************************************************************************)
EXTENDS IntegerUnit, AluProofs

----------------------------------------------------------------------------
(* Division with remainder                                                 *)

(* Quotient and remainder make up the dividend.                            *)
LEMMA DivisionExact ==
  \A a \in Int, n \in Nat \ {0} :
    a \div n \in Int /\ a % n \in 0 .. n - 1 /\ a = n * (a \div n) + (a % n)
OBVIOUS

(* Quotient and remainder are unique.                                      *)
LEMMA DivisionUnique ==
  ASSUME NEW n \in Nat \ {0}, NEW q \in Int, NEW r \in 0 .. n - 1
  PROVE  (n * q + r) \div n = q /\ (n * q + r) % n = r
<1> DEFINE a == n * q + r
           d == a \div n
           m == a % n
<1>1. n * q \in Int /\ a \in Int
  OBVIOUS
<1>2. d \in Int /\ m \in 0 .. n - 1 /\ a = n * d + m
  BY <1>1
<1> HIDE DEF d, m
<1>3. n * d - n * q = r - m
  BY <1>1, <1>2
<1>4. n * (d - q) = n * d - n * q
  BY <1>2
<1>5. d - q < 1
  <2>1. SUFFICES ASSUME d - q >= 1 PROVE FALSE
    BY <1>2
  <2>2. n * (d - q) >= n
    BY <1>2, <2>1
  <2> QED
    BY <1>2, <1>3, <1>4, <2>2
<1>6. q - d < 1
  <2>1. SUFFICES ASSUME q - d >= 1 PROVE FALSE
    BY <1>2
  <2>2. n * (d - q) <= -n
    BY <1>2, <2>1
  <2> QED
    BY <1>2, <1>3, <1>4, <2>2
<1>7. d = q
  BY <1>2, <1>5, <1>6
<1>8. m = r
  BY <1>2, <1>3, <1>7
<1> QED
  BY <1>7, <1>8 DEF d, m

(* Adding a multiple of the modulus changes nothing.                       *)
LEMMA ModPeriodic ==
  ASSUME NEW n \in Nat \ {0}, NEW a \in Int, NEW k \in Int
  PROVE  (a + n * k) % n = a % n /\ (a + n * k) \div n = a \div n + k
<1> DEFINE d == a \div n
           m == a % n
<1>1. d \in Int /\ m \in 0 .. n - 1 /\ a = n * d + m
  OBVIOUS
<1> HIDE DEF d, m
<1>2. a + n * k = n * (d + k) + m /\ d + k \in Int
  BY <1>1
<1>3. (n * (d + k) + m) \div n = d + k /\ (n * (d + k) + m) % n = m
  BY <1>1, <1>2, DivisionUnique
<1> QED
  BY <1>2, <1>3 DEF d, m

(* A word and the integer it stands for differ by a multiple of WordCount, *)
(* which to_word takes off again.                                          *)
LEMMA WordOfSigned ==
  ASSUME NEW x \in Word
  PROVE  /\ to_word(x) = x /\ to_word(to_signed(x)) = x
         /\ \E s \in {0, 1} : to_signed(x) = x - WordCount * s
<1>1. WordCount \in Nat \ {0} /\ x \in 0 .. WordCount - 1
  BY WordCountType DEF Word
<1>2. x % WordCount = x
  BY <1>1
<1>3. (x + WordCount * (-1)) % WordCount = x % WordCount
  BY <1>1, ModPeriodic
<1>4. CASE to_signed(x) = x
  BY <1>1, <1>2, <1>4 DEF to_word
<1>5. CASE to_signed(x) = x - WordCount
  BY <1>1, <1>2, <1>3, <1>5 DEF to_word
<1> QED
  BY <1>4, <1>5 DEF to_signed

(* In the range of signed words, the way through a word gives the integer  *)
(* back.                                                                   *)
LEMMA SignedOfWord ==
  ASSUME NEW i \in Int, -(2 ^ (XLEN - 1)) <= i, i < 2 ^ (XLEN - 1)
  PROVE  to_signed(to_word(i)) = i
<1> DEFINE half == 2 ^ (XLEN - 1)
<1>1. WordCount \in Nat \ {0} /\ half \in Nat \ {0} /\ WordCount = 2 * half
  BY WordCountType
<1>2. to_signed(to_word(i)) = IF to_word(i) >= half THEN to_word(i) - WordCount ELSE to_word(i)
  BY DEF to_signed
<1>3. -half <= i /\ i < half
  OBVIOUS
<1> HIDE DEF half
<1>4. CASE i >= 0
  <2>1. to_word(i) = i
    BY <1>1, <1>3, <1>4 DEF to_word
  <2> QED
    BY <1>2, <1>3, <2>1, <1>1
<1>5. CASE i < 0
  <2>0. \A k \in Int : (i + WordCount * k) % WordCount = i % WordCount
    BY <1>1, ModPeriodic
  <2>1. (i + WordCount) % WordCount = i % WordCount
    <3>1. \A k \in Int : k = 1 => i + WordCount * k = i + WordCount
      BY <1>1
    <3> QED
      BY <2>0, <3>1
  <2>2. i + WordCount \in 0 .. WordCount - 1
    BY <1>1, <1>3, <1>5
  <2>3. to_word(i) = i + WordCount
    BY <1>1, <2>1, <2>2 DEF to_word
  <2> QED
    BY <1>1, <1>2, <1>3, <2>3
<1> QED
  BY <1>4, <1>5

(* Different words stand for different integers.                           *)
LEMMA SignedInjective == \A x, y \in Word : to_signed(x) = to_signed(y) => x = y
BY WordOfSigned

(* The result a handler of a single value gives.                           *)
LEMMA OnlyChoice == \A x : (CHOOSE w \in {x} : TRUE) = x
OBVIOUS

----------------------------------------------------------------------------
(* The inductive invariant                                                 *)

(* The result is one the handler may give for the operands shown.          *)
Computed ==
  /\ TypeOK
  /\ insn # none => result \in calculate(insn.op, insn.lhs, insn.rhs)

(* Every instruction establishes it.                                       *)
LEMMA ComputedStep ==
  /\ Init => Computed
  /\ Computed /\ [Next]_vars => Computed'
<1>1. ASSUME Init PROVE Computed
  BY <1>1, WordCountType DEF Init, Computed, TypeOK, Word
<1>2. ASSUME Computed, [Next]_vars PROVE Computed'
  <2>1. ASSUME NEW op \in ValueOps, NEW lhs \in Word, NEW rhs \in Word, exec(op, lhs, rhs)
        PROVE  Computed'
    <3>1. insn' \in [op : ValueOps, lhs : Word, rhs : Word]
      BY <2>1 DEF exec
    <3>2. result' \in calculate(insn'.op, insn'.lhs, insn'.rhs)
      BY <2>1 DEF exec
    <3>3. result' \in Word
      BY <2>1, CalculateType DEF exec
    <3> QED
      BY <3>1, <3>2, <3>3 DEF Computed, TypeOK
  <2>2. CASE Done
    BY <2>2, WordCountType DEF Done, Computed, TypeOK, Word
  <2>3. CASE UNCHANGED vars
    BY <1>2, <2>3 DEF vars, Computed, TypeOK
  <2> QED
    BY <1>2, <2>1, <2>2, <2>3 DEF Next
<1> QED
  BY <1>1, <1>2

(* The operands of the instruction shown.                                  *)
LEMMA Operands ==
  ASSUME Computed, NEW ops, Executed(ops)
  PROVE  /\ insn.op \in ops \cap ValueOps /\ insn.lhs \in Word /\ insn.rhs \in Word /\ result \in Word
         /\ result \in calculate(insn.op, insn.lhs, insn.rhs)
BY DEF Computed, TypeOK, Executed

(* What the handlers hand to set_register is a word, for every width.      *)
THEOREM ResultsAreWords == Spec => []TypeOK
<1>1. Computed => TypeOK
  BY DEF Computed
<1> QED
  BY ComputedStep, <1>1, PTL DEF Spec

----------------------------------------------------------------------------
(* Comparisons                                                             *)

(* The conditions of the branches, one by one.                             *)
LEMMA CompareCases ==
  ASSUME NEW x, NEW y
  PROVE  /\ compare("beq", x, y) = (to_signed(x) = to_signed(y))
         /\ compare("bne", x, y) = (to_signed(x) # to_signed(y))
         /\ compare("blt", x, y) = (to_signed(x) < to_signed(y))
         /\ compare("bge", x, y) = (to_signed(x) >= to_signed(y))
         /\ compare("bltu", x, y) = (x < y)
         /\ compare("bgeu", x, y) = (x >= y)
BY DEF compare

(* slt, sltu and sub give the results of these operands.                   *)
LEMMA OrderResults ==
  ASSUME Computed, Executed({"slt", "sltu", "sub"})
  PROVE  LET x == insn.lhs
             y == insn.rhs
         IN  /\ insn.op \in {"slt", "sltu", "sub"} /\ x \in Word /\ y \in Word
             /\ insn.op = "slt" => result = flag(to_signed(x) < to_signed(y))
             /\ insn.op = "sltu" => result = flag(x < y)
             /\ insn.op = "sub" => result = to_word(x - y)
<1>1. /\ insn.op \in {"slt", "sltu", "sub"} /\ insn.lhs \in Word /\ insn.rhs \in Word
      /\ result \in calculate(insn.op, insn.lhs, insn.rhs)
  BY Operands
<1>2. result \in int_r(insn.op, insn.lhs, insn.rhs)
  BY <1>1, CalculateCases DEF IntOps
<1>3. /\ int_r("slt", insn.lhs, insn.rhs) = {flag(to_signed(insn.lhs) < to_signed(insn.rhs))}
      /\ int_r("sltu", insn.lhs, insn.rhs) = {flag(insn.lhs < insn.rhs)}
      /\ int_r("sub", insn.lhs, insn.rhs) = {to_word(insn.lhs - insn.rhs)}
  BY DEF int_r
<1> QED
  BY <1>1, <1>2, <1>3

(* The difference of two words is zero for equal words only.               *)
LEMMA DifferenceZero == \A x, y \in Word : (to_word(x - y) = 0) = (x = y)
<1> SUFFICES ASSUME NEW x \in Word, NEW y \in Word PROVE (to_word(x - y) = 0) = (x = y)
  OBVIOUS
<1>1. WordCount \in Nat \ {0} /\ x \in 0 .. WordCount - 1 /\ y \in 0 .. WordCount - 1
  BY WordCountType DEF Word
<1>2. CASE x >= y
  <2>1. (x - y) % WordCount = x - y
    BY <1>1, <1>2
  <2> QED
    BY <1>1, <2>1 DEF to_word
<1>3. CASE x < y
  <2>1. \A k \in Int : ((x - y) + WordCount * k) % WordCount = (x - y) % WordCount
    BY <1>1, ModPeriodic
  <2>2. \A k \in Int : k = 1 => (x - y) + WordCount * k = x - y + WordCount
    BY <1>1
  <2>3. (x - y + WordCount) % WordCount = (x - y) % WordCount
    BY <2>1, <2>2
  <2>4. x - y + WordCount \in 1 .. WordCount - 1
    BY <1>1, <1>3
  <2>5. (x - y) % WordCount = x - y + WordCount
    BY <1>1, <2>3, <2>4
  <2> QED
    BY <1>1, <1>3, <2>4, <2>5 DEF to_word
<1> QED
  BY <1>1, <1>2, <1>3

(* slt, sltu, sub and the six branch conditions agree on one order, for    *)
(* every width.                                                            *)
THEOREM OrderIsConsistent == Spec => []OrderConsistent
<1>1. ASSUME Computed PROVE OrderConsistent
  <2> SUFFICES ASSUME Executed({"slt", "sltu", "sub"}) PROVE OrderConsistent
    BY DEF OrderConsistent
  <2> DEFINE x == insn.lhs
             y == insn.rhs
             less == IF insn.op = "sltu" THEN "bltu" ELSE "blt"
             geq == IF insn.op = "sltu" THEN "bgeu" ELSE "bge"
  <2>1. /\ insn.op \in {"slt", "sltu", "sub"} /\ x \in Word /\ y \in Word
        /\ insn.op = "slt" => result = flag(to_signed(x) < to_signed(y))
        /\ insn.op = "sltu" => result = flag(x < y)
        /\ insn.op = "sub" => result = to_word(x - y)
    BY <1>1, OrderResults
  <2>2. x \in Int /\ y \in Int /\ to_signed(x) \in Int /\ to_signed(y) \in Int
    BY <2>1, SignedType, WordCountType DEF Word
  <2>3. (to_signed(x) = to_signed(y)) = (x = y)
    BY <2>1, SignedInjective
  <2>4. insn.op # "sub" => (result = 1) = compare(less, x, y)
    BY <2>1, CompareCases DEF flag
  <2>5. insn.op = "sub" => (result = 0) = compare("beq", x, y)
    BY <2>1, <2>3, CompareCases, DifferenceZero
  <2>6. compare(geq, x, y) = ~compare(less, x, y)
    <3>1. CASE insn.op = "sltu"
      <4>1. compare(geq, x, y) = (x >= y) /\ compare(less, x, y) = (x < y)
        BY <3>1, CompareCases
      <4>2. (x >= y) = ~(x < y)
        BY <2>2
      <4> QED
        BY <4>1, <4>2, Zenon
    <3>2. CASE insn.op # "sltu"
      <4>1. /\ compare(geq, x, y) = (to_signed(x) >= to_signed(y))
            /\ compare(less, x, y) = (to_signed(x) < to_signed(y))
        BY <3>2, CompareCases
      <4>2. (to_signed(x) >= to_signed(y)) = ~(to_signed(x) < to_signed(y))
        BY <2>2
      <4> QED
        BY <4>1, <4>2, Zenon
    <3> QED
      BY <3>1, <3>2
  <2>7. compare("bne", x, y) = (compare(less, x, y) # compare(less, y, x))
    <3>1. compare("bne", x, y) = (x # y)
      BY <2>3, CompareCases
    <3>2. CASE insn.op = "sltu"
      <4>1. compare(less, x, y) = (x < y) /\ compare(less, y, x) = (y < x)
        BY <3>2, CompareCases
      <4> QED
        BY <2>2, <3>1, <4>1
    <3>3. CASE insn.op # "sltu"
      <4>1. /\ compare(less, x, y) = (to_signed(x) < to_signed(y))
            /\ compare(less, y, x) = (to_signed(y) < to_signed(x))
        BY <3>3, CompareCases
      <4> QED
        BY <2>2, <2>3, <3>1, <4>1
    <3> QED
      BY <3>2, <3>3
  <2> QED
    BY <2>4, <2>5, <2>6, <2>7 DEF OrderConsistent
<1> QED
  BY ComputedStep, <1>1, PTL DEF Spec

----------------------------------------------------------------------------
(* Products                                                                *)

(* The two halves of an integer modulo the double width.                   *)
LEMMA HalvesJoin ==
  ASSUME NEW p \in Int
  PROVE  high(p) * WordCount + to_word(p) = p % (WordCount * WordCount)
<1> DEFINE n == WordCount
           d == p \div n
           m == p % n
           e == d \div n
           h == d % n
<1>1. n \in Nat \ {0}
  BY WordCountType
<1>2. high(p) = h /\ to_word(p) = m
  BY DEF high, to_word
<1>3. WordCount * WordCount = n * n
  OBVIOUS
<1> HIDE DEF n
<1>4. d \in Int /\ m \in 0 .. n - 1 /\ p = n * d + m
  BY <1>1
<1>5. e \in Int /\ h \in 0 .. n - 1 /\ d = n * e + h
  BY <1>1, <1>4
<1> HIDE DEF d, m, e, h
<1>6. n * n \in Nat \ {0}
  BY <1>1
<1>7. h * n \in Int /\ 0 <= h * n /\ h * n <= n * n - n
  <2>1. (n - 1 - h) * n >= 0 /\ h * n >= 0 /\ h * n \in Int
    BY <1>1, <1>5
  <2>2. (n - 1 - h) * n = n * n - n - h * n
    BY <1>1, <1>5
  <2> QED
    BY <1>1, <1>6, <2>1, <2>2
<1>8. h * n + m \in 0 .. (n * n) - 1
  BY <1>1, <1>4, <1>6, <1>7
<1>9. p = (n * n) * e + (h * n + m)
  <2>1. n * d = n * (n * e) + n * h
    BY <1>1, <1>5
  <2>2. n * (n * e) = (n * n) * e /\ n * h = h * n
    BY <1>1, <1>5
  <2> QED
    BY <1>1, <1>4, <1>5, <2>1, <2>2
<1>10. p % (n * n) = h * n + m
  BY <1>5, <1>6, <1>8, <1>9, DivisionUnique
<1> QED
  BY <1>2, <1>3, <1>10 DEF n

(* The low half does not depend on the signs the operands are given.       *)
LEMMA LowHalf ==
  ASSUME NEW x \in Word, NEW y \in Word, NEW s \in {0, 1}, NEW t \in {0, 1}
  PROVE  to_word((x - WordCount * s) * (y - WordCount * t)) = to_word(x * y)
<1> DEFINE n == WordCount
           k == n * (s * t) - x * t - y * s
<1>1. n \in Nat \ {0} /\ x \in Nat /\ y \in Nat /\ k \in Int /\ x * y \in Int
  BY WordCountType DEF Word
<1>2. (x - n * s) * (y - n * t) = x * y + n * k
  <2>1. CASE s = 0 /\ t = 0
    BY <1>1, <2>1
  <2>2. CASE s = 0 /\ t = 1
    BY <1>1, <2>2
  <2>3. CASE s = 1 /\ t = 0
    BY <1>1, <2>3
  <2>4. CASE s = 1 /\ t = 1
    BY <1>1, <2>4
  <2> QED
    BY <2>1, <2>2, <2>3, <2>4
<1>3. (x * y + n * k) % n = (x * y) % n
  BY <1>1, ModPeriodic
<1> QED
  BY <1>2, <1>3 DEF to_word

(* mul with mulh, mulhsu or mulhu makes up the exact double-width product, *)
(* for each signedness of the operands and every width.                    *)
THEOREM HalvesMakeTheProduct == Spec => []ProductHalves
<1>1. ASSUME Computed PROVE ProductHalves
  <2> SUFFICES ASSUME Executed({"mulh", "mulhsu", "mulhu"}) PROVE ProductHalves
    BY DEF ProductHalves
  <2> DEFINE x == insn.lhs
             y == insn.rhs
             l == IF insn.op = "mulhu" THEN x ELSE to_signed(x)
             r == IF insn.op = "mulh" THEN to_signed(y) ELSE y
             low == CHOOSE w \in multiply("mul", x, y) : TRUE
  <2>1. /\ insn.op \in {"mulh", "mulhsu", "mulhu"} /\ x \in Word /\ y \in Word
        /\ result \in calculate(insn.op, x, y)
    BY <1>1, Operands
  <2>2. result \in multiply(insn.op, x, y)
    BY <2>1, CalculateCases DEF MulOps
  <2>3. result = high(l * r)
    BY <2>1, <2>2 DEF multiply
  <2>4. low = to_word(to_signed(x) * to_signed(y))
    <3>1. multiply("mul", x, y) = {to_word(to_signed(x) * to_signed(y))}
      BY DEF multiply
    <3> QED
      BY <3>1, OnlyChoice
  <2>5. to_word(l * r) = low
    <3>1. PICK s \in {0, 1} : to_signed(x) = x - WordCount * s
      BY <2>1, WordOfSigned
    <3>2. PICK t \in {0, 1} : to_signed(y) = y - WordCount * t
      BY <2>1, WordOfSigned
    <3>3. low = to_word(x * y)
      BY <2>1, <2>4, <3>1, <3>2, LowHalf
    <3>4. \A u, v \in {0, 1} : to_word((x - WordCount * u) * (y - WordCount * v)) = to_word(x * y)
      BY <2>1, LowHalf
    <3>5. x - WordCount * 0 = x /\ y - WordCount * 0 = y
      BY <2>1, WordCountType DEF Word
    <3>6. l = x - WordCount * 0 \/ l = x - WordCount * s
      BY <3>1, <3>5
    <3>7. r = y - WordCount * 0 \/ r = y - WordCount * t
      BY <3>2, <3>5
    <3> HIDE DEF l, r, low, x, y
    <3> QED
      BY <3>3, <3>4, <3>6, <3>7
  <2>6. l * r \in Int
    <3>1. l \in Int /\ r \in Int
      BY <2>1, SignedType, WordCountType DEF Word
    <3> QED
      BY <3>1
  <2>7. result * WordCount + low = (l * r) % (WordCount * WordCount)
    BY <2>3, <2>5, <2>6, HalvesJoin
  <2> QED
    BY <2>7 DEF ProductHalves
<1> QED
  BY ComputedStep, <1>1, PTL DEF Spec

----------------------------------------------------------------------------
(* Quotients                                                               *)

(* C++'s / and %: the remainder is smaller than the divisor and has the    *)
(* dividend's sign.                                                        *)
LEMMA TruncatedDivision ==
  ASSUME NEW l \in Int, NEW r \in Int \ {0}
  PROVE  LET q == quotient(l, r)
             m == remainder(l, r)
         IN  /\ q \in Int /\ m \in Int /\ r * q + m = l
             /\ abs(m) < abs(r) /\ (m # 0 => (m < 0) = (l < 0))
<1> DEFINE a == abs(l)
           b == abs(r)
           k == a \div b
           c == a % b
           q == quotient(l, r)
           m == remainder(l, r)
<1>1. a \in Nat /\ b \in Nat \ {0} /\ (l = a \/ l = -a) /\ (r = b \/ r = -b)
  BY DEF abs
<1>2. k \in Int /\ c \in 0 .. b - 1 /\ a = b * k + c
  <2> HIDE DEF a, b
  <2>1. a \in Int
    BY <1>1
  <2> QED
    BY <1>1, <2>1, DivisionExact
<1>3. /\ (l < 0) = (r < 0) => q = k
      /\ (l < 0) # (r < 0) => q = -k
  BY DEF quotient
<1>4. m = l - r * q
  BY DEF remainder
<1>5. q \in Int
  BY <1>2, <1>3
<1>6. r * q \in Int /\ b * k \in Int
  BY <1>1, <1>2, <1>5
<1>7. l >= 0 => l = a
  BY DEF abs
<1>8. l < 0 => l = -a
  BY DEF abs
<1>9. r >= 0 => r = b
  BY DEF abs
<1>10. r < 0 => r = -b
  BY DEF abs
<1>11. abs(r) = b
  OBVIOUS
<1> HIDE DEF a, b, k, c, q, m
<1>12. CASE l >= 0
  <2>1. r * q = b * k
    <3>1. CASE r >= 0
      BY <1>2, <1>3, <1>9, <1>12, <3>1
    <3>2. CASE r < 0
      <4>1. q = -k /\ r = -b
        BY <1>3, <1>10, <1>12, <3>2
      <4> QED
        BY <1>1, <1>2, <4>1
    <3> QED
      BY <3>1, <3>2
  <2>2. m = c
    BY <1>1, <1>2, <1>4, <1>6, <1>7, <1>12, <2>1
  <2>3. abs(m) = c /\ ~(m < 0) /\ ~(l < 0)
    BY <1>2, <1>12, <2>2 DEF abs
  <2> QED
    BY <1>1, <1>2, <1>4, <1>5, <1>6, <1>11, <2>2, <2>3 DEF q, m
<1>13. CASE l < 0
  <2>1. r * q = -(b * k)
    <3>1. CASE r >= 0
      <4>1. q = -k /\ r = b
        BY <1>3, <1>9, <1>13, <3>1
      <4> QED
        BY <1>1, <1>2, <4>1
    <3>2. CASE r < 0
      <4>1. q = k /\ r = -b
        BY <1>3, <1>10, <1>13, <3>2
      <4> QED
        BY <1>1, <1>2, <4>1
    <3> QED
      BY <3>1, <3>2
  <2>2. m = -c
    BY <1>1, <1>2, <1>4, <1>6, <1>8, <1>13, <2>1
  <2>3. abs(m) = c /\ (m # 0 => m < 0) /\ l < 0
    BY <1>2, <1>13, <2>2 DEF abs
  <2> QED
    BY <1>1, <1>2, <1>4, <1>5, <1>6, <1>11, <2>2, <2>3 DEF q, m
<1> QED
  BY <1>12, <1>13

(* The values of divide, one by one.                                       *)
LEMMA DivideCases ==
  ASSUME NEW x \in Word, NEW y \in Word
  PROVE  LET l == to_signed(x)
             r == to_signed(y)
             overflow == l = signedMin /\ r = -1
         IN  /\ divide("divu", x, y) = {IF y = 0 THEN WordCount - 1 ELSE x \div y}
             /\ divide("remu", x, y) = {IF y = 0 THEN x ELSE x % y}
             /\ overflow => divide("div", x, y) = {x} /\ divide("rem", x, y) = {0}
             /\ y = 0 => divide("div", x, y) = {WordCount - 1} /\ divide("rem", x, y) = {x}
             /\ ~overflow /\ y # 0 => /\ divide("div", x, y) = {to_word(quotient(l, r))}
                                      /\ divide("rem", x, y) = {to_word(remainder(l, r))}
<1>1. y = 0 => to_signed(y) = 0
  BY ZeroSigned
<1>2. y = 0 => to_signed(y) # -1
  BY <1>1
<1> QED
  BY <1>2 DEF divide

(* Unsigned division satisfies the identity.                               *)
LEMMA UnsignedIdentity ==
  ASSUME NEW x \in Word, NEW y \in Word, NEW q, NEW m,
         q = IF y = 0 THEN WordCount - 1 ELSE x \div y,
         m = IF y = 0 THEN x ELSE x % y
  PROVE  /\ to_word(q * y + m) = x
         /\ y # 0 => abs(m) < abs(y) /\ (m # 0 => (m < 0) = (x < 0))
<1>1. WordCount \in Nat \ {0} /\ x \in Nat /\ y \in Nat /\ to_word(x) = x
  BY WordCountType, WordOfSigned DEF Word
<1>2. CASE y = 0
  <2>1. q * y + m = x
    BY <1>1, <1>2
  <2> QED
    BY <1>1, <1>2, <2>1
<1>3. CASE y # 0
  <2>1. y \in Nat \ {0} /\ x \in Int /\ q = x \div y /\ m = x % y
    BY <1>1, <1>3
  <2>2. q \in Int /\ m \in 0 .. y - 1 /\ x = y * q + m
    BY <2>1, DivisionExact
  <2>3. y * q = q * y
    BY <2>1, <2>2
  <2>4. abs(m) = m /\ abs(y) = y
    BY <1>1, <2>2 DEF abs
  <2> QED
    BY <1>1, <2>2, <2>3, <2>4
<1> QED
  BY <1>2, <1>3

(* Signed division satisfies it too, where neither operand is special: the *)
(* remainder fits a word, and the quotient's wrap is a multiple of         *)
(* WordCount.                                                              *)
LEMMA SignedIdentity ==
  ASSUME NEW x \in Word, NEW y \in Word, y # 0, NEW q, NEW m,
         q = to_word(quotient(to_signed(x), to_signed(y))),
         m = to_signed(to_word(remainder(to_signed(x), to_signed(y))))
  PROVE  /\ to_word(q * to_signed(y) + m) = x
         /\ abs(m) < abs(to_signed(y)) /\ (m # 0 => (m < 0) = (to_signed(x) < 0))
<1> DEFINE n == WordCount
           half == 2 ^ (XLEN - 1)
           l == to_signed(x)
           r == to_signed(y)
           c == quotient(l, r)
           k == c \div n
<1>1. n \in Nat \ {0} /\ half \in Nat \ {0}
  BY WordCountType
<1>2. l \in Int /\ r \in Int \ {0} /\ -half <= r /\ r < half
  BY SignedType, ZeroSigned
<1>3. /\ c \in Int /\ remainder(l, r) \in Int /\ r * c + remainder(l, r) = l
      /\ abs(remainder(l, r)) < abs(r)
      /\ remainder(l, r) # 0 => (remainder(l, r) < 0) = (l < 0)
  BY <1>2, TruncatedDivision
<1>4. -half <= remainder(l, r) /\ remainder(l, r) < half
  <2> HIDE DEF half, l, r, c
  <2> QED
    BY <1>1, <1>2, <1>3 DEF abs
<1>5. m = remainder(l, r)
  BY <1>3, <1>4, SignedOfWord
<1>6. k \in Int /\ q \in Int /\ c = n * k + q
  <2>1. c \div n \in Int /\ c % n \in 0 .. n - 1 /\ c = n * (c \div n) + (c % n)
    BY <1>1, <1>3, DivisionExact
  <2> QED
    BY <1>1, <2>1 DEF to_word
<1>7. to_word(l) = x
  BY WordOfSigned
<1> HIDE DEF l, r, c, k, n
<1>8. q * r + m = l + n * (-(k * r))
  <2>1. r * c = n * (k * r) + q * r
    BY <1>1, <1>2, <1>3, <1>6
  <2>2. n * (-(k * r)) = -(n * (k * r)) /\ n * (k * r) \in Int /\ q * r \in Int
    BY <1>1, <1>2, <1>6
  <2> QED
    BY <1>2, <1>3, <1>5, <2>1, <2>2
<1>9. -(k * r) \in Int
  BY <1>2, <1>6
<1>10. (l + n * (-(k * r))) % n = l % n
  BY <1>1, <1>2, <1>9, ModPeriodic
<1>11. to_word(q * r + m) = x
  BY <1>7, <1>8, <1>10 DEF to_word, n
<1> QED
  BY <1>3, <1>5, <1>11 DEF l, r

(* A quotient and a remainder of the same operands satisfy l = q*r + rem   *)
(* with a remainder smaller than the divisor and of the dividend's sign,   *)
(* the two special cases included, for every width.                        *)
THEOREM DivisionIsExact == Spec => []DivisionIdentity
<1>1. ASSUME Computed PROVE DivisionIdentity
  <2> SUFFICES ASSUME Executed({"rem", "remu"}) PROVE DivisionIdentity
    BY DEF DivisionIdentity
  <2> DEFINE x == insn.lhs
             y == insn.rhs
             l == to_signed(x)
             r == to_signed(y)
             overflow == l = signedMin /\ r = -1
  <2>1. /\ insn.op \in {"rem", "remu"} /\ x \in Word /\ y \in Word
        /\ result \in calculate(insn.op, x, y)
    BY <1>1, Operands
  <2>2. result \in divide(insn.op, x, y)
    BY <2>1, CalculateCases DEF DivOps
  <2>3. ASSUME insn.op = "remu" PROVE DivisionIdentity
    <3> DEFINE q == CHOOSE w \in divide("divu", x, y) : TRUE
    <3>1. result = IF y = 0 THEN x ELSE x % y
      BY <2>1, <2>2, <2>3, DivideCases
    <3>2. q = IF y = 0 THEN WordCount - 1 ELSE x \div y
      BY <2>1, DivideCases, OnlyChoice
    <3> HIDE DEF q, x, y
    <3>3. /\ to_word(q * y + result) = x
          /\ y # 0 => abs(result) < abs(y) /\ (result # 0 => (result < 0) = (x < 0))
      BY <2>1, <3>1, <3>2, UnsignedIdentity
    <3> QED
      BY <2>3, <3>2, <3>3 DEF DivisionIdentity, q, x, y
  <2>4. ASSUME insn.op = "rem" PROVE DivisionIdentity
    <3> DEFINE q == CHOOSE w \in divide("div", x, y) : TRUE
               m == to_signed(result)
    <3>0. WordCount \in Nat \ {0} /\ WordCount = 2 * 2 ^ (XLEN - 1) /\ 2 ^ (XLEN - 1) \in Nat \ {0}
      BY WordCountType
    <3>1. r = 0 <=> y = 0
      BY <2>1, ZeroSigned
    <3>2. /\ to_word(q * r + m) = x
          /\ r # 0 => abs(m) < abs(r) /\ (m # 0 => (m < 0) = (l < 0))
          /\ r = 0 => q = WordCount - 1
      <4>1. CASE overflow
        <5>1. result = 0 /\ q = x
          BY <2>1, <2>2, <2>4, <4>1, DivideCases, OnlyChoice
        <5>2. m = 0 /\ r = -1
          BY <2>1, <3>0, <4>1, <5>1 DEF to_signed
        <5>3. x = 2 ^ (XLEN - 1)
          BY <2>1, <3>0, <4>1 DEF to_signed, signedMin, Word
        <5>4. q * r + m = l
          <6> HIDE DEF q, m, r, l
          <6>1. l = -(2 ^ (XLEN - 1)) /\ q = 2 ^ (XLEN - 1)
            BY <4>1, <5>1, <5>3 DEF signedMin
          <6> QED
            BY <3>0, <5>2, <6>1
        <5>5. to_word(l) = x
          BY <2>1, WordOfSigned
        <5> QED
          BY <5>2, <5>4, <5>5 DEF abs
      <4>2. CASE y = 0
        <5>1. result = x /\ q = WordCount - 1 /\ r = 0
          BY <2>1, <2>2, <2>4, <3>1, <4>2, DivideCases, OnlyChoice
        <5>2. q * r + m = l
          <6>1. l \in Int /\ m = l
            BY <2>1, <5>1, SignedType
          <6> HIDE DEF q, m, r, l
          <6> QED
            BY <3>0, <5>1, <6>1
        <5>3. to_word(l) = x
          BY <2>1, WordOfSigned
        <5> QED
          BY <5>1, <5>2, <5>3
      <4>3. CASE ~overflow /\ y # 0
        <5>1. result = to_word(remainder(l, r)) /\ q = to_word(quotient(l, r))
          BY <2>1, <2>2, <2>4, <4>3, DivideCases, OnlyChoice
        <5>2. m = to_signed(to_word(remainder(to_signed(x), to_signed(y))))
          BY <5>1
        <5>3. q = to_word(quotient(to_signed(x), to_signed(y)))
          BY <5>1
        <5> HIDE DEF q, m, x, y
        <5>4. /\ to_word(q * to_signed(y) + m) = x
              /\ abs(m) < abs(to_signed(y)) /\ (m # 0 => (m < 0) = (to_signed(x) < 0))
          BY <2>1, <4>3, <5>2, <5>3, SignedIdentity
        <5> QED
          BY <3>1, <4>3, <5>4
      <4> QED
        BY <4>1, <4>2, <4>3
    <3> QED
      BY <2>4, <3>2 DEF DivisionIdentity
  <2> QED
    BY <2>1, <2>3, <2>4
<1> QED
  BY ComputedStep, <1>1, PTL DEF Spec

----------------------------------------------------------------------------
(* Bits                                                                    *)

(* A further bit of a number.                                              *)
LEMMA NextBit ==
  ASSUME NEW x \in Nat, NEW n \in 0 .. XLEN - 1
  PROVE  x % 2 ^ (n + 1) = (x % 2 ^ n) + 2 ^ n * ((x \div 2 ^ n) % 2)
<1> DEFINE p == 2 ^ n
           d == x \div p
           m == x % p
           e == d \div 2
           b == d % 2
<1>1. p \in Nat \ {0} /\ 2 ^ (n + 1) = 2 * p
  BY PowersOfTwo, XLENAssumption
<1> HIDE DEF p
<1>2. d \in Int /\ m \in 0 .. p - 1 /\ x = p * d + m
  BY <1>1
<1> HIDE DEF d, m
<1>3. e \in Int /\ b \in 0 .. 1 /\ d = 2 * e + b
  BY <1>2
<1> HIDE DEF e, b
<1>4. x = (2 * p) * e + (m + p * b)
  <2>1. p * d = (2 * p) * e + p * b
    BY <1>1, <1>3
  <2>2. p * d \in Int /\ (2 * p) * e \in Int /\ p * b \in Int
    BY <1>1, <1>2, <1>3
  <2> QED
    BY <1>1, <1>2, <2>1, <2>2
<1>5. m + p * b \in 0 .. (2 * p) - 1
  <2>1. CASE b = 0
    BY <1>1, <1>2, <2>1
  <2>2. CASE b = 1
    BY <1>1, <1>2, <2>2
  <2> QED
    BY <1>3, <2>1, <2>2
<1>6. x % (2 * p) = m + p * b
  <2>1. 2 * p \in Nat \ {0}
    BY <1>1
  <2> QED
    BY <1>3, <1>4, <1>5, <2>1, DivisionUnique
<1> QED
  BY <1>1, <1>6 DEF p, d, m, b

(* The bits of a word make up the word again, and its low part the part.   *)
LEMMA SumOfBits ==
  ASSUME NEW x \in Word
  PROVE  /\ \A n \in 0 .. XLEN : sums(bits(x))[n] = x % 2 ^ n
         /\ word(bits(x)) = x
<1> DEFINE S == {n \in 0 .. XLEN : sums(bits(x))[n] = x % 2 ^ n}
<1>0. x \in Nat /\ x < WordCount
  BY WordCountType DEF Word
<1>1. 0 \in S
  <2>1. 2 ^ 0 = 1 /\ sums(bits(x))[0] = 0 /\ 0 \in 0 .. XLEN
    BY PowersOfTwo, SumsDefined, XLENAssumption
  <2>2. x % 1 = 0
    BY <1>0
  <2> QED
    BY <2>1, <2>2
<1>2. ASSUME NEW n \in 0 .. XLEN - 1, n \in S PROVE n + 1 \in S
  <2>1. n + 1 \in 0 .. XLEN /\ 2 ^ n \in Nat
    BY XLENAssumption, PowersOfTwo
  <2>2. sums(bits(x))[n + 1] = (x % 2 ^ n) + bit(bits(x), n)
    BY <1>2, SumsDefined
  <2>3. bit(bits(x), n) = 2 ^ n * ((x \div 2 ^ n) % 2)
    <3>1. n \in bits(x) <=> (x \div 2 ^ n) % 2 = 1
      BY DEF bits
    <3>2. (x \div 2 ^ n) % 2 \in {0, 1}
      BY <1>0, <2>1, PowersOfTwo, XLENAssumption
    <3>3. CASE (x \div 2 ^ n) % 2 = 1
      BY <2>1, <3>1, <3>3 DEF bit
    <3>4. CASE (x \div 2 ^ n) % 2 = 0
      BY <2>1, <3>1, <3>4 DEF bit
    <3> QED
      BY <3>2, <3>3, <3>4
  <2>4. x % 2 ^ (n + 1) = (x % 2 ^ n) + 2 ^ n * ((x \div 2 ^ n) % 2)
    BY <1>0, NextBit
  <2> QED
    BY <2>1, <2>2, <2>3, <2>4
<1>3. 0 .. XLEN \subseteq S
  <2> HIDE DEF S
  <2> QED
    BY <1>1, <1>2, XLENAssumption, BoundedInduction
<1>4. sums(bits(x))[XLEN] = x % WordCount
  BY <1>3, XLENAssumption DEF WordCount
<1>5. x % WordCount = x
  BY <1>0, WordCountType
<1> QED
  BY <1>3, <1>4, <1>5 DEF word

----------------------------------------------------------------------------
(* Arithmetic shifts                                                       *)

(* Powers of two multiply.                                                 *)
LEMMA PowerSum ==
  ASSUME NEW a \in 0 .. XLEN, NEW b \in 0 .. XLEN - a
  PROVE  2 ^ (a + b) = 2 ^ a * 2 ^ b
<1> DEFINE S == {c \in 0 .. XLEN - a : 2 ^ (a + c) = 2 ^ a * 2 ^ c}
<1>0. XLEN - a \in Nat /\ 2 ^ a \in Nat \ {0}
  BY XLENAssumption, PowersOfTwo
<1>1. 0 \in S
  <2>1. a + 0 = a /\ 2 ^ 0 = 1 /\ 0 \in 0 .. XLEN - a
    BY <1>0, PowersOfTwo
  <2>2. 2 ^ (a + 0) = 2 ^ a * 2 ^ 0
    BY <1>0, <2>1
  <2> QED
    BY <2>1, <2>2
<1>2. ASSUME NEW c \in 0 .. XLEN - a - 1, c \in S PROVE c + 1 \in S
  <2>1. /\ c + 1 \in 0 .. XLEN - a /\ a + c \in 0 .. XLEN - 1 /\ c \in 0 .. XLEN - 1
        /\ (a + c) + 1 = a + (c + 1)
    BY <1>0, XLENAssumption
  <2>2. 2 ^ (a + (c + 1)) = 2 * 2 ^ (a + c) /\ 2 ^ (c + 1) = 2 * 2 ^ c
    BY <2>1, PowersOfTwo
  <2>3. 2 ^ (a + c) = 2 ^ a * 2 ^ c /\ 2 ^ c \in Nat
    <3>1. c \in 0 .. XLEN
      BY <2>1, XLENAssumption
    <3>2. 2 ^ c \in Nat
      BY <3>1, PowersOfTwo
    <3> QED
      BY <1>2, <3>2
  <2>4. \A p, q \in Nat : 2 * (p * q) = p * (2 * q)
    OBVIOUS
  <2>5. 2 ^ (a + (c + 1)) = 2 ^ a * 2 ^ (c + 1)
    BY <1>0, <2>2, <2>3, <2>4
  <2> QED
    BY <2>1, <2>5
<1>3. 0 .. XLEN - a \subseteq S
  <2> HIDE DEF S
  <2> QED
    BY <1>0, <1>1, <1>2, BoundedInduction
<1> QED
  BY <1>3

(* Powers of two grow.                                                     *)
LEMMA PowersGrow ==
  ASSUME NEW a \in 0 .. XLEN, NEW b \in 0 .. XLEN, a <= b
  PROVE  2 ^ a <= 2 ^ b
<1>1. b - a \in 0 .. XLEN - a /\ b - a \in 0 .. XLEN /\ a + (b - a) = b
  BY XLENAssumption
<1>2. 2 ^ b = 2 ^ a * 2 ^ (b - a)
  BY <1>1, PowerSum
<1>3. 2 ^ a \in Nat \ {0} /\ 2 ^ (b - a) \in Nat \ {0}
  BY <1>1, PowersOfTwo
<1>4. \A p, q \in Nat \ {0} : p <= p * q
  OBVIOUS
<1> QED
  BY <1>2, <1>3, <1>4

(* Bounds of a quotient.                                                   *)
LEMMA QuotientBounds ==
  ASSUME NEW a \in Nat, NEW n \in Nat \ {0}, NEW c \in Nat
  PROVE  /\ n * c <= a => c <= a \div n
         /\ a < n * c => a \div n < c
<1> DEFINE d == a \div n
           m == a % n
<1>1. d \in Int /\ m \in 0 .. n - 1 /\ a = n * d + m
  OBVIOUS
<1> HIDE DEF d, m
<1>2. ASSUME n * c <= a PROVE c <= d
  <2>1. SUFFICES ASSUME c - d >= 1 PROVE FALSE
    BY <1>1
  <2>2. n * (c - d) >= n /\ n * (c - d) = n * c - n * d
    BY <1>1, <2>1
  <2>3. n * c \in Int /\ n * d \in Int
    BY <1>1
  <2> QED
    BY <1>1, <1>2, <2>2, <2>3
<1>3. ASSUME a < n * c PROVE d < c
  <2>1. SUFFICES ASSUME d - c >= 0 PROVE FALSE
    BY <1>1
  <2>2. n * (d - c) >= 0 /\ n * (d - c) = n * d - n * c
    BY <1>1, <2>1
  <2>3. n * c \in Int /\ n * d \in Int
    BY <1>1
  <2> QED
    BY <1>1, <1>3, <2>2, <2>3
<1> QED
  BY <1>2, <1>3 DEF d

(* The sign bit of a word.                                                 *)
LEMMA SignBit ==
  ASSUME NEW x \in Word
  PROVE  XLEN - 1 \in bits(x) <=> x >= 2 ^ (XLEN - 1)
<1> DEFINE half == 2 ^ (XLEN - 1)
<1>1. half \in Nat \ {0} /\ x \in Nat /\ x < 2 * half
  BY WordCountType DEF Word
<1>2. XLEN - 1 \in bits(x) <=> (x \div half) % 2 = 1
  BY XLENAssumption DEF bits
<1> HIDE DEF half
<1>3. CASE x >= half
  <2>1. x \div half = 1
    BY <1>1, <1>3
  <2> QED
    BY <1>2, <1>3, <2>1 DEF half
<1>4. CASE x < half
  <2>1. x \div half = 0
    BY <1>1, <1>4
  <2> QED
    BY <1>1, <1>2, <1>4, <2>1 DEF half
<1> QED
  BY <1>1, <1>3, <1>4

(* What fillFromTop makes of a number whose highest one is at position t:  *)
(* every position from t up becomes a one.                                 *)
LEMMA FilledWord ==
  ASSUME NEW v \in Word, NEW t \in 0 .. XLEN - 1, 2 ^ t <= v, v < 2 ^ (t + 1)
  PROVE  fillFromTop(v) = v + WordCount - 2 ^ (t + 1)
<1> DEFINE P == bits(v)
           F == bits(v) \cup t .. XLEN - 1
           top == 2 ^ (t + 1)
<1>1. /\ t + 1 \in 0 .. XLEN /\ t \in 0 .. XLEN /\ v \in Nat
      /\ 2 ^ t \in Nat \ {0} /\ top = 2 * 2 ^ t /\ top \in Nat \ {0}
  <2>1. t + 1 \in 0 .. XLEN /\ t \in 0 .. XLEN
    BY XLENAssumption
  <2> QED
    BY <2>1, PowersOfTwo, WordCountType DEF Word
<1>2. t \in P
  <2>1. v \div 2 ^ t = 1
    BY <1>1
  <2> QED
    BY <2>1 DEF bits
<1>3. ASSUME NEW j \in P PROVE j <= t
  <2>1. j \in 0 .. XLEN - 1 /\ (v \div 2 ^ j) % 2 = 1
    BY <1>3 DEF bits
  <2>2. SUFFICES ASSUME t + 1 <= j PROVE FALSE
    BY <2>1
  <2>3. j \in 0 .. XLEN
    BY <2>1, XLENAssumption
  <2>4. top <= 2 ^ j /\ 2 ^ j \in Nat \ {0}
    BY <1>1, <2>2, <2>3, PowersGrow, PowersOfTwo
  <2>5. v < 2 ^ j
    BY <1>1, <2>4
  <2>6. v \div 2 ^ j = 0
    BY <1>1, <2>4, <2>5
  <2> QED
    BY <2>1, <2>6
<1>4. highestBit(v) = t
  <2>1. P \subseteq Int
    BY XLENAssumption DEF bits
  <2>2. \A i \in P : (\A j \in P : j <= i) => i = t
    BY <1>1, <1>2, <1>3, <2>1
  <2>3. t \in P /\ \A j \in P : j <= t
    BY <1>2, <1>3
  <2> HIDE DEF P
  <2>4. (CHOOSE i \in P : \A j \in P : j <= i) = t
    BY <2>2, <2>3
  <2> QED
    BY <2>4 DEF highestBit, P
<1>5. fillFromTop(v) = sums(F)[XLEN]
  <2>1. bits(v) # {}
    BY <1>2
  <2> QED
    BY <1>4, <2>1 DEF fillFromTop, word
<1>6. sums(F)[t + 1] = v
  <2> DEFINE S == {n \in 0 .. t + 1 : sums(F)[n] = sums(P)[n]}
  <2>1. 0 \in S
    BY <1>1, SumsDefined
  <2>2. ASSUME NEW n \in 0 .. (t + 1) - 1, n \in S PROVE n + 1 \in S
    <3>1. n \in 0 .. XLEN - 1 /\ n + 1 \in 0 .. t + 1 /\ n <= t
      BY <1>1, XLENAssumption
    <3>2. n \in F <=> n \in P
      <4>1. n \in t .. XLEN - 1 => n = t
        BY <1>1, <3>1
      <4> QED
        BY <1>2, <4>1
    <3>3. bit(F, n) = bit(P, n)
      BY <3>2 DEF bit
    <3> HIDE DEF F, P
    <3>4. sums(F)[n + 1] = sums(F)[n] + bit(F, n) /\ sums(P)[n + 1] = sums(P)[n] + bit(P, n)
      BY <3>1, SumsDefined
    <3> QED
      BY <2>2, <3>1, <3>3, <3>4
  <2>3. 0 .. t + 1 \subseteq S
    <3> HIDE DEF S
    <3>1. t + 1 \in Nat
      BY <1>1
    <3> QED
      BY <2>1, <2>2, <3>1, BoundedInduction
  <2>4. sums(F)[t + 1] = sums(P)[t + 1]
    <3>1. t + 1 \in 0 .. t + 1
      BY <1>1
    <3> QED
      BY <2>3, <3>1
  <2>5. sums(P)[t + 1] = v % top
    BY <1>1, SumOfBits
  <2>6. v % top = v
    BY <1>1
  <2> QED
    BY <2>4, <2>5, <2>6
<1>7. sums(F)[XLEN] = v + WordCount - top
  <2> DEFINE N == XLEN - (t + 1)
             S == {c \in 0 .. N : sums(F)[(t + 1) + c] = v + 2 ^ ((t + 1) + c) - top}
  <2>0. N \in Nat /\ (t + 1) + N = XLEN
    BY <1>1, XLENAssumption
  <2>1. 0 \in S
    <3>1. (t + 1) + 0 = t + 1 /\ 0 \in 0 .. N
      BY <1>1, <2>0
    <3>2. v = v + top - top
      BY <1>1
    <3> HIDE DEF F, N
    <3> QED
      BY <1>6, <3>1, <3>2
  <2>2. ASSUME NEW c \in 0 .. N - 1, c \in S PROVE c + 1 \in S
    <3> DEFINE i == (t + 1) + c
    <3>1. /\ i \in 0 .. XLEN - 1 /\ i \in t .. XLEN - 1 /\ i \in 0 .. XLEN
          /\ (t + 1) + (c + 1) = i + 1 /\ c + 1 \in 0 .. N
      BY <1>1, <2>0
    <3>2. 2 ^ i \in Nat /\ 2 ^ (i + 1) = 2 * 2 ^ i
      BY <3>1, PowersOfTwo
    <3>3. bit(F, i) = 2 ^ i
      BY <3>1 DEF bit
    <3>4. sums(F)[i] = v + 2 ^ i - top
      BY <2>2
    <3> HIDE DEF F, i
    <3>5. sums(F)[i + 1] = sums(F)[i] + bit(F, i)
      BY <3>1, SumsDefined
    <3>6. sums(F)[i + 1] = v + 2 ^ (i + 1) - top
      BY <1>1, <3>2, <3>3, <3>4, <3>5
    <3> QED
      BY <3>1, <3>6
  <2>3. 0 .. N \subseteq S
    <3> HIDE DEF S, N
    <3> QED
      BY <2>0, <2>1, <2>2, BoundedInduction
  <2>4. N \in S
    <3> HIDE DEF S, N
    <3>1. N \in 0 .. N
      BY <2>0
    <3> QED
      BY <2>3, <3>1
  <2> QED
    BY <2>0, <2>4 DEF WordCount
<1> QED
  BY <1>5, <1>7

(* The handlers' shift of a word is division rounded down.                 *)
LEMMA ShiftIsDivision ==
  ASSUME NEW x \in Word, NEW k \in 0 .. XLEN - 1
  PROVE  to_signed(extend_sign(shiftRight(x, k), x)) = to_signed(x) \div 2 ^ k
<1> DEFINE half == 2 ^ (XLEN - 1)
           v == x \div 2 ^ k
           t == XLEN - 1 - k
           top == 2 ^ (t + 1)
<1>1. /\ k \in 0 .. XLEN /\ t \in 0 .. XLEN - 1 /\ t \in 0 .. XLEN /\ t + 1 \in 0 .. XLEN
      /\ t \in 0 .. XLEN - k /\ t + 1 \in 0 .. XLEN - k /\ XLEN - 1 \in 0 .. XLEN
      /\ k + t = XLEN - 1 /\ k + (t + 1) = XLEN
  BY XLENAssumption
<1>2. /\ 2 ^ k \in Nat \ {0} /\ 2 ^ t \in Nat \ {0} /\ top \in Nat \ {0} /\ top = 2 * 2 ^ t
      /\ half \in Nat \ {0} /\ WordCount = 2 * half /\ WordCount \in Nat \ {0}
  BY <1>1, PowersOfTwo, WordCountType
<1>3. half = 2 ^ k * 2 ^ t /\ WordCount = 2 ^ k * top
  <2> HIDE DEF t
  <2> QED
    BY <1>1, PowerSum DEF WordCount
<1>4. x \in Nat /\ x < WordCount /\ v \in Nat /\ v \in Word /\ shiftRight(x, k) = v
  <2>1. shiftRight(x, k) = v /\ v \in Word
    BY <1>1, ShiftTypes DEF shiftRight
  <2> QED
    BY <2>1, WordCountType DEF Word
<1>5. 2 ^ t <= half
  <2> HIDE DEF t
  <2>1. t <= XLEN - 1
    BY <1>1
  <2> QED
    BY <1>1, <2>1, PowersGrow
<1>6. to_signed(x) = IF x >= half THEN x - WordCount ELSE x
  BY DEF to_signed
<1>7. \A y \in Word : to_signed(y) = IF y >= half THEN y - WordCount ELSE y
  BY DEF to_signed
<1>8. CASE x < half
  <2>1. XLEN - 1 \notin bits(x)
    BY <1>2, <1>4, <1>8, SignBit
  <2>2. extend_sign(shiftRight(x, k), x) = v
    BY <1>4, <2>1 DEF extend_sign
  <2>3. v <= x
    BY <1>2, <1>4, DivisionShrinks
  <2>4. ~(v >= half) /\ ~(x >= half)
    BY <1>2, <1>4, <1>8, <2>3
  <2>5. to_signed(v) = v /\ to_signed(x) = x
    BY <1>4, <1>6, <1>7, <2>4
  <2> QED
    BY <2>2, <2>5
<1>9. CASE x >= half
  <2>1. 2 ^ t <= v /\ v < top
    <3>1. 2 ^ k * 2 ^ t <= x /\ x < 2 ^ k * top
      BY <1>3, <1>4, <1>9
    <3> HIDE DEF t, top
    <3> QED
      BY <1>2, <1>4, <3>1, QuotientBounds
  <2>2. extend_sign(shiftRight(x, k), x) = v + WordCount - top
    <3>1. XLEN - 1 \in bits(x)
      BY <1>9, SignBit
    <3>2. fillFromTop(v) = v + WordCount - top
      <4> HIDE DEF t, v
      <4> QED
        BY <1>1, <1>4, <2>1, FilledWord
    <3> QED
      BY <1>4, <3>1, <3>2 DEF extend_sign
  <2>3. to_signed(x) \div 2 ^ k = v - top
    <3>1. to_signed(x) = x - WordCount
      BY <1>6, <1>9
    <3>2. \A c \in Int : (x + 2 ^ k * c) \div 2 ^ k = v + c
      BY <1>2, <1>4, ModPeriodic
    <3> HIDE DEF v, top, half
    <3>3. x - WordCount = x + 2 ^ k * (-top) /\ -top \in Int
      BY <1>2, <1>3, <1>4
    <3>4. (x + 2 ^ k * (-top)) \div 2 ^ k = v + (-top)
      BY <3>2, <3>3
    <3> QED
      BY <1>2, <1>4, <3>1, <3>3, <3>4
  <2>4. to_signed(v + WordCount - top) = v - top
    <3> DEFINE y == v + WordCount - top
    <3> HIDE DEF v, top, half, t
    <3>1. y \in Word /\ y >= half
      BY <1>2, <1>4, <1>5, <2>1 DEF Word
    <3>2. to_signed(y) = y - WordCount
      BY <1>7, <3>1
    <3> QED
      BY <1>2, <1>4, <3>2
  <2> QED
    BY <2>2, <2>3, <2>4
<1> QED
  BY <1>2, <1>4, <1>8, <1>9

(* sra and srai rebuild the sign by filling from the highest one bit: that *)
(* is division by 2^count, rounded down, for every count below XLEN and    *)
(* every width.                                                            *)
THEOREM ShiftsRoundDown == Spec => []ArithmeticShift
<1>1. ASSUME Computed PROVE ArithmeticShift
  <2> SUFFICES ASSUME Executed({"srai"}) \/ (Executed({"sra"}) /\ insn.rhs < XLEN)
               PROVE  to_signed(result) = to_signed(insn.lhs) \div 2 ^ (insn.rhs % XLEN)
    BY DEF ArithmeticShift
  <2> DEFINE x == insn.lhs
             y == insn.rhs
             k == y % XLEN
  <2>1. /\ insn.op \in {"srai", "sra"} /\ x \in Word /\ y \in Word
        /\ result \in calculate(insn.op, x, y)
        /\ insn.op = "sra" => y < XLEN
    <3>1. CASE Executed({"srai"})
      BY <1>1, <3>1, Operands
    <3>2. CASE Executed({"sra"}) /\ insn.rhs < XLEN
      BY <1>1, <3>2, Operands
    <3> QED
      BY <3>1, <3>2
  <2>2. y \in Nat /\ k \in 0 .. XLEN - 1
    BY <2>1, XLENAssumption, WordCountType DEF Word
  <2>3. result = extend_sign(shiftRight(x, k), x)
    <3>1. CASE insn.op = "srai"
      <4>1. result \in shift_imm("srai", x, y)
        BY <2>1, <3>1, CalculateCases DEF ShiftOps
      <4>2. shift_imm("srai", x, y) = {extend_sign(shiftRight(x, k), x)}
        BY DEF shift_imm
      <4> QED
        BY <4>1, <4>2
    <3>2. CASE insn.op = "sra"
      <4>1. result \in int_r("sra", x, y)
        BY <2>1, <3>2, CalculateCases DEF IntOps
      <4>2. int_r("sra", x, y) = {extend_sign(shiftRight(x, c), x) : c \in shiftCounts(y)}
        BY DEF int_r
      <4>3. shiftCounts(y) = {k}
        <5>1. y % XLEN = y
          BY <2>1, <2>2, <3>2, XLENAssumption
        <5> QED
          BY <2>1, <3>2, <5>1 DEF shiftCounts
      <4> HIDE DEF x, y, k
      <4> QED
        BY <4>1, <4>2, <4>3
    <3> QED
      BY <2>1, <3>1, <3>2
  <2> QED
    BY <2>1, <2>2, <2>3, ShiftIsDivision
<1> QED
  BY ComputedStep, <1>1, PTL DEF Spec
============================================================================
