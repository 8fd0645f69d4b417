----------------------------- MODULE AluProofs -----------------------------
(***************************************************************************)
(* What the operators of Alu compute, for every width XLEN.                *)
(***************************************************************************)
EXTENDS Alu, WellFoundedInduction, TLAPS

(* Induction, with the claim given as the set of numbers it holds for.     *)
LEMMA SetInduction ==
  ASSUME NEW S, 0 \in S, \A n \in Nat : n \in S => n + 1 \in S
  PROVE  Nat \subseteq S
<1> DEFINE Bad == Nat \ S
           R == OpToRel(<, Nat)
<1>1. SUFFICES ASSUME Bad # {} PROVE FALSE
  OBVIOUS
<1>2. IsWellFoundedOn(R, Nat)
  BY NatLessThanWellFounded
<1>3. \A m, n \in Nat : m < n => <<m, n>> \in R
  BY DEF OpToRel
<1>4. Bad \subseteq Nat
  OBVIOUS
<1> HIDE DEF R, Bad
<1>5. PICK x \in Bad : \A y \in Bad : ~ (<<y, x>> \in R)
  BY <1>1, <1>2, <1>4, WFMin, Zenon
<1>6. x \in Nat /\ x # 0 /\ x - 1 \in Nat
  BY <1>5 DEF Bad
<1>7. x - 1 \notin Bad
  <2>1. \A y \in Nat : y < x => <<y, x>> \in R
    BY <1>3, <1>6
  <2>2. x - 1 < x
    BY <1>6
  <2> QED
    BY <1>5, <1>6, <2>1, <2>2, Zenon
<1> QED
  BY <1>5, <1>6, <1>7 DEF Bad

(* The same for the numbers up to a bound.                                 *)
LEMMA BoundedInduction ==
  ASSUME NEW S, NEW N \in Nat, 0 \in S, \A n \in 0 .. N - 1 : n \in S => n + 1 \in S
  PROVE  0 .. N \subseteq S
<1> DEFINE T == {n \in Nat : n <= N => n \in S}
<1>1. 0 \in T
  OBVIOUS
<1>2. ASSUME NEW n \in Nat, n \in T PROVE n + 1 \in T
  BY <1>2
<1> HIDE DEF T
<1>3. Nat \subseteq T
  BY <1>1, <1>2, SetInduction
<1> QED
  BY <1>3 DEF T

----------------------------------------------------------------------------
(* Powers of two up to the width are positive and grow by doubling.        *)
LEMMA PowersOfTwo ==
  /\ 2 ^ 0 = 1
  /\ \A n \in 0 .. XLEN : 2 ^ n \in Nat \ {0}
  /\ \A n \in 0 .. XLEN - 1 : 2 ^ (n + 1) = 2 * 2 ^ n
<1>1. 2 ^ 0 = 1 /\ \A n \in 0 .. XLEN - 1 : 2 ^ (n + 1) = 2 * 2 ^ n
  BY PowerAssumption DEF Powers
<1> DEFINE S == {n \in 0 .. XLEN : 2 ^ n \in Nat \ {0}}
<1>2. 0 \in S
  BY <1>1, XLENAssumption
<1>3. ASSUME NEW n \in 0 .. XLEN - 1, n \in S PROVE n + 1 \in S
  BY <1>1, <1>3, XLENAssumption
<1> HIDE DEF S
<1>4. 0 .. XLEN \subseteq S
  BY <1>2, <1>3, BoundedInduction, XLENAssumption
<1> QED
  BY <1>1, <1>4 DEF S

(* A word has a positive, even number of values.                           *)
LEMMA WordCountType ==
  /\ WordCount \in Nat \ {0} /\ 2 ^ (XLEN - 1) \in Nat \ {0}
  /\ WordCount = 2 * 2 ^ (XLEN - 1)
<1>1. XLEN \in 0 .. XLEN /\ XLEN - 1 \in 0 .. XLEN - 1 /\ XLEN - 1 \in 0 .. XLEN /\ (XLEN - 1) + 1 = XLEN
  BY XLENAssumption
<1> QED
  BY <1>1, PowersOfTwo DEF WordCount

(* Masking gives a word.                                                   *)
LEMMA ToWordType == \A i \in Int : to_word(i) \in Word
BY WordCountType DEF to_word, Word

----------------------------------------------------------------------------
(* Words from positions                                                    *)

bit(positions, n) == IF n \in positions THEN 2 ^ n ELSE 0

(* The recursion of sums has a solution, so sums satisfies it.             *)
LEMMA SumsDefined ==
  ASSUME NEW P
  PROVE  /\ sums(P) \in [0 .. XLEN -> Nat]
         /\ sums(P)[0] = 0
         /\ \A n \in 0 .. XLEN - 1 : sums(P)[n + 1] = sums(P)[n] + bit(P, n)
<1> DEFINE Solves(f, N) ==
             f = [n \in 0 .. N |-> IF n = 0 THEN 0 ELSE f[n - 1] + bit(P, n - 1)]
           S == {N \in 0 .. XLEN : \E f : Solves(f, N)}
<1>1. 0 \in S
  <2> DEFINE f == [n \in 0 .. 0 |-> 0]
  <2>1. Solves(f, 0)
    OBVIOUS
  <2>2. 0 \in 0 .. XLEN
    BY XLENAssumption
  <2> HIDE DEF f, Solves
  <2> QED
    BY <2>1, <2>2
<1>2. ASSUME NEW N \in 0 .. XLEN - 1, N \in S PROVE N + 1 \in S
  <2>1. PICK f : Solves(f, N)
    BY <1>2
  <2> DEFINE g == [n \in 0 .. N + 1 |-> IF n <= N THEN f[n] ELSE f[N] + bit(P, N)]
  <2>2. ASSUME NEW n \in 0 .. N + 1
        PROVE  g[n] = IF n = 0 THEN 0 ELSE g[n - 1] + bit(P, n - 1)
    <3>1. CASE n <= N
      BY <2>1, <3>1
    <3>2. CASE n = N + 1
      BY <3>2
    <3> QED
      BY <3>1, <3>2
  <2>3. Solves(g, N + 1)
    BY <2>2
  <2>4. N + 1 \in 0 .. XLEN
    BY XLENAssumption
  <2> HIDE DEF g, Solves
  <2> QED
    BY <2>3, <2>4
<1> HIDE DEF S
<1>3. XLEN \in S
  BY <1>1, <1>2, BoundedInduction, XLENAssumption
<1>4. Solves(sums(P), XLEN)
  <2>1. PICK fn : Solves(fn, XLEN)
    BY <1>3 DEF S
  <2>2. sums(P) = CHOOSE f : Solves(f, XLEN)
    BY DEF sums, bit
  <2> HIDE DEF Solves
  <2> QED
    BY <2>1, <2>2
<1>5. /\ sums(P)[0] = 0 /\ DOMAIN sums(P) = 0 .. XLEN
      /\ \A n \in 0 .. XLEN - 1 : sums(P)[n + 1] = sums(P)[n] + bit(P, n)
  <2> DEFINE value(n) == IF n = 0 THEN 0 ELSE sums(P)[n - 1] + bit(P, n - 1)
  <2>1. sums(P) = [n \in 0 .. XLEN |-> value(n)]
    BY <1>4
  <2> HIDE DEF value
  <2>2. DOMAIN sums(P) = 0 .. XLEN /\ \A n \in 0 .. XLEN : sums(P)[n] = value(n)
    BY <2>1
  <2>3. value(0) = 0 /\ \A n \in 0 .. XLEN - 1 : value(n + 1) = sums(P)[n] + bit(P, n)
    BY XLENAssumption DEF value
  <2> QED
    BY <2>2, <2>3, XLENAssumption
<1>6. \A n \in 0 .. XLEN : bit(P, n) \in Nat
  BY PowersOfTwo DEF bit
<1> DEFINE T == {n \in 0 .. XLEN : sums(P)[n] \in Nat}
<1>7. 0 \in T
  BY <1>5, XLENAssumption
<1>8. ASSUME NEW n \in 0 .. XLEN - 1, n \in T PROVE n + 1 \in T
  BY <1>5, <1>6, <1>8, XLENAssumption
<1> HIDE DEF T, Solves
<1>9. 0 .. XLEN \subseteq T
  BY <1>7, <1>8, BoundedInduction, XLENAssumption
<1>10. sums(P) = [n \in 0 .. XLEN |-> sums(P)[n]]
  BY <1>4 DEF Solves
<1> QED
  BY <1>5, <1>9, <1>10 DEF T

(* The n lowest bits make a number below 2^n: a word is a word.            *)
LEMMA SumsBound == \A P : \A n \in 0 .. XLEN : sums(P)[n] \in 0 .. 2 ^ n - 1
<1> SUFFICES ASSUME NEW P PROVE \A n \in 0 .. XLEN : sums(P)[n] \in 0 .. 2 ^ n - 1
  OBVIOUS
<1> DEFINE S == {n \in 0 .. XLEN : sums(P)[n] \in 0 .. 2 ^ n - 1}
<1>1. 0 \in S
  BY SumsDefined, PowersOfTwo, XLENAssumption
<1>2. ASSUME NEW n \in 0 .. XLEN - 1, n \in S PROVE n + 1 \in S
  <2>1. /\ n \in 0 .. XLEN /\ n + 1 \in 0 .. XLEN
        /\ 2 ^ n \in Nat \ {0} /\ 2 ^ (n + 1) = 2 * 2 ^ n
    BY PowersOfTwo, XLENAssumption
  <2>2. sums(P)[n + 1] = sums(P)[n] + bit(P, n)
    BY SumsDefined
  <2> QED
    BY <1>2, <2>1, <2>2 DEF bit
<1> HIDE DEF S
<1> QED
  BY <1>1, <1>2, BoundedInduction, XLENAssumption DEF S

(* word makes words.                                                       *)
LEMMA WordType == \A P : word(P) \in Word
BY SumsBound, XLENAssumption DEF word, Word, WordCount

----------------------------------------------------------------------------
(* Types of the operations                                                 *)

(* Dividing a natural number does not make it larger.                      *)
LEMMA DivisionShrinks ==
  \A a \in Nat, b \in Nat \ {0} : a \div b \in 0 .. a
OBVIOUS

(* The counts a shift may use are at most the width.                       *)
LEMMA ShiftCountsType == \A r \in Word : shiftCounts(r) \subseteq 0 .. XLEN
BY XLENAssumption, WordCountType DEF shiftCounts, Word

(* Shifts of words are words.                                              *)
LEMMA ShiftTypes ==
  \A x \in Word, k \in 0 .. XLEN : shiftLeft(x, k) \in Word /\ shiftRight(x, k) \in Word
<1> SUFFICES ASSUME NEW x \in Word, NEW k \in 0 .. XLEN
             PROVE  shiftLeft(x, k) \in Word /\ shiftRight(x, k) \in Word
  OBVIOUS
<1>1. x \in Nat /\ x < WordCount /\ 2 ^ k \in Nat \ {0} /\ WordCount \in Nat \ {0}
  BY WordCountType, PowersOfTwo DEF Word
<1>2. shiftRight(x, k) \in 0 .. x
  BY <1>1, DivisionShrinks DEF shiftRight
<1>3. x * 2 ^ k \in Int
  BY <1>1
<1>4. shiftLeft(x, k) \in 0 .. WordCount - 1
  BY <1>1, <1>3 DEF shiftLeft
<1> QED
  BY <1>1, <1>2, <1>4 DEF Word

(* So is what extend_sign makes of a word.                                 *)
LEMMA ExtendType == \A x, c : x \in Word => extend_sign(x, c) \in Word
BY WordType DEF extend_sign, fillFromTop

(* The integer a word stands for.                                          *)
LEMMA SignedType ==
  \A x \in Word : /\ to_signed(x) \in Int
                  /\ -(2 ^ (XLEN - 1)) <= to_signed(x) /\ to_signed(x) < 2 ^ (XLEN - 1)
BY WordCountType DEF Word, to_signed

(* int_r gives words.                                                      *)
LEMMA IntRType ==
  ASSUME NEW op \in IntOps, NEW l \in Word, NEW r \in Word
  PROVE  int_r(op, l, r) \subseteq Word
<1>1. l \in Int /\ r \in Int /\ 0 \in Word /\ 1 \in Word
  BY WordCountType DEF Word
<1>2. CASE op \in {"add", "sub"}
  BY <1>1, <1>2, ToWordType DEF int_r
<1>3. CASE op \in {"slt", "sltu"}
  BY <1>1, <1>3 DEF int_r, flag
<1>4. CASE op \in {"xor", "or", "and"}
  BY <1>4, WordType DEF int_r
<1>5. CASE op = "sll"
  BY <1>5, ShiftCountsType, ShiftTypes DEF int_r
<1>6. CASE op = "srl"
  BY <1>6, ShiftCountsType, ShiftTypes DEF int_r
<1>7. CASE op = "sra"
  BY <1>7, ShiftCountsType, ShiftTypes, ExtendType DEF int_r
<1> QED
  BY <1>2, <1>3, <1>4, <1>5, <1>6, <1>7 DEF IntOps

(* int_imm gives words.                                                    *)
LEMMA IntImmType ==
  ASSUME NEW op \in ImmOps, NEW l \in Word, NEW r \in Word
  PROVE  int_imm(op, l, r) \subseteq Word
<1>1. \A o \in IntOps : int_r(o, l, r) \subseteq Word
  BY IntRType
<1> QED
  BY <1>1 DEF int_imm, ImmOps, IntOps

(* shift_imm gives words.                                                  *)
LEMMA ShiftImmType ==
  ASSUME NEW op \in ShiftOps, NEW l \in Word, NEW r \in Word
  PROVE  shift_imm(op, l, r) \subseteq Word
<1>1. r % XLEN \in 0 .. XLEN
  BY XLENAssumption, WordCountType DEF Word
<1>2. /\ shiftLeft(l, r % XLEN) \in Word /\ shiftRight(l, r % XLEN) \in Word
      /\ extend_sign(shiftRight(l, r % XLEN), l) \in Word
  BY <1>1, ShiftTypes, ExtendType
<1> QED
  BY <1>2 DEF shift_imm, ShiftOps

(* The products are words.                                                 *)
LEMMA MultiplyType ==
  ASSUME NEW op \in MulOps, NEW l \in Word, NEW r \in Word
  PROVE  multiply(op, l, r) \subseteq Word
<1>1. l \in Int /\ r \in Int /\ to_signed(l) \in Int /\ to_signed(r) \in Int
  BY WordCountType, SignedType DEF Word
<1>2. \A x, y \in Int : to_word(x * y) \in Word
  BY ToWordType
<1>3. \A x, y \in Int : high(x * y) \in Word
  BY ToWordType, WordCountType DEF high
<1> QED
  BY <1>1, <1>2, <1>3 DEF multiply, MulOps

(* Truncated division is division of the absolute values.                  *)
LEMMA QuotientType ==
  \A l \in Int, r \in Int \ {0} : quotient(l, r) \in Int /\ remainder(l, r) \in Int
<1> SUFFICES ASSUME NEW l \in Int, NEW r \in Int \ {0}
             PROVE  quotient(l, r) \in Int /\ remainder(l, r) \in Int
  OBVIOUS
<1>1. abs(l) \in Nat /\ abs(r) \in Nat \ {0}
  BY DEF abs
<1>2. quotient(l, r) \in Int
  BY <1>1 DEF quotient
<1> QED
  BY <1>2 DEF remainder

(* A word is zero exactly when the integer it stands for is.               *)
LEMMA ZeroSigned == \A x \in Word : to_signed(x) = 0 <=> x = 0
BY WordCountType DEF Word, to_signed

(* Quotients and remainders are words, the special cases included.         *)
LEMMA DivideType ==
  ASSUME NEW op \in DivOps, NEW l \in Word, NEW r \in Word
  PROVE  divide(op, l, r) \subseteq Word
<1>1. l \in Nat /\ r \in Nat /\ to_signed(l) \in Int /\ to_signed(r) \in Int
  BY WordCountType, SignedType DEF Word
<1>2. WordCount - 1 \in Word /\ 0 \in Word
  BY WordCountType DEF Word
<1>3. r # 0 => /\ to_word(quotient(to_signed(l), to_signed(r))) \in Word
               /\ to_word(remainder(to_signed(l), to_signed(r))) \in Word
  BY <1>1, ZeroSigned, QuotientType, ToWordType
<1>4. r # 0 => l \div r \in Word /\ l % r \in Word
  BY <1>1, DivisionShrinks, WordCountType DEF Word
<1>5. CASE op = "div"
  BY <1>2, <1>3, <1>5 DEF divide
<1>6. CASE op = "divu"
  BY <1>2, <1>4, <1>6 DEF divide
<1>7. CASE op = "rem"
  BY <1>2, <1>3, <1>7 DEF divide
<1>8. CASE op = "remu"
  BY <1>2, <1>4, <1>8 DEF divide
<1> QED
  BY <1>5, <1>6, <1>7, <1>8 DEF DivOps

(* No operation belongs to two of the handler classes.                     *)
LEMMA CalculateCases ==
  ASSUME NEW op, NEW l, NEW r
  PROVE  /\ op \in IntOps => calculate(op, l, r) = int_r(op, l, r)
         /\ op \in ImmOps => calculate(op, l, r) = int_imm(op, l, r)
         /\ op \in ShiftOps => calculate(op, l, r) = shift_imm(op, l, r)
         /\ op \in MulOps => calculate(op, l, r) = multiply(op, l, r)
         /\ op \in DivOps => calculate(op, l, r) = divide(op, l, r)
<1>1. /\ op \in IntOps => op \notin ImmOps \cup ShiftOps \cup MulOps \cup DivOps
      /\ op \in ImmOps => op \notin ShiftOps \cup MulOps \cup DivOps
      /\ op \in ShiftOps => op \notin MulOps \cup DivOps
      /\ op \in MulOps => op \notin DivOps
  BY DEF IntOps, ImmOps, ShiftOps, MulOps, DivOps
<1>2. CASE op \in IntOps
  BY <1>1, <1>2 DEF calculate
<1>3. CASE op \in ImmOps
  BY <1>1, <1>3 DEF calculate
<1>4. CASE op \in ShiftOps
  BY <1>1, <1>4 DEF calculate
<1>5. CASE op \in MulOps
  BY <1>1, <1>5 DEF calculate
<1>6. CASE op \in DivOps
  BY <1>1, <1>6 DEF calculate
<1> QED
  BY <1>2, <1>3, <1>4, <1>5, <1>6

(* Every handler hands a word to set_register.                             *)
LEMMA CalculateType ==
  ASSUME NEW op \in ValueOps, NEW l \in Word, NEW r \in Word
  PROVE  calculate(op, l, r) \subseteq Word
BY CalculateCases, IntRType, IntImmType, ShiftImmType, MultiplyType, DivideType DEF ValueOps
============================================================================
