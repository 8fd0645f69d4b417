-------------------------------- MODULE Alu --------------------------------
(***************************************************************************)
(* The value computations of the instruction handlers (calculate, compare  *)
(* and the immediate forms in vm_handlers_rv32i.hxx, vm_handlers_rv32m.hxx)*)
(* on words of XLEN bits.  A word is a natural number; the bitwise         *)
(* operators work on the set of its one bits.                              *)
(*                                                                         *)
(* The register forms return the SET of results a build may produce: a     *)
(* shift by XLEN or more is undefined in C++, and hosts either take the    *)
(* count modulo XLEN or shift every bit out.  The 32-bit signed product of *)
(* mul also overflows formally; every host wraps it.                       *)
(***************************************************************************)
EXTENDS Integers

CONSTANT XLEN  \* bits of a register, 32 in the program

ASSUME XLENAssumption == XLEN \in Nat \ {0}

(* What the proofs use of powers, for which the provers have no axioms.    *)
Powers(base, n) == base ^ 0 = 1 /\ \A i \in 0 .. n - 1 : base ^ (i + 1) = base * base ^ i
ASSUME PowerAssumption == Powers(2, XLEN)

WordCount == 2 ^ XLEN
Word == 0 .. WordCount - 1

to_signed(x) == IF x >= 2 ^ (XLEN - 1) THEN x - WordCount ELSE x
(* Mutant: a result kept in a wider integer.                               *)
UnmaskedWord(i) == i
to_word(i) == i % WordCount
flag(condition) == IF condition THEN 1 ELSE 0

bits(x) == {i \in 0 .. XLEN - 1 : (x \div 2 ^ i) % 2 = 1}

(* The word with ones at the positions: sums has the value of its n lowest *)
(* bits for every n.                                                       *)
sums(positions) ==
  LET value[n \in 0 .. XLEN] ==
        IF n = 0 THEN 0 ELSE value[n - 1] + (IF n - 1 \in positions THEN 2 ^ (n - 1) ELSE 0)
  IN  value
word(positions) == sums(positions)[XLEN]

shiftLeft(x, count) == (x * 2 ^ count) % WordCount
shiftRight(x, count) == x \div 2 ^ count

(* bit_tools::bits::extend_sign(code): ones from the highest one bit up.   *)
highestBit(x) == CHOOSE i \in bits(x) : \A j \in bits(x) : j <= i
fillFromTop(x) ==
  IF bits(x) = {} THEN x ELSE word(bits(x) \cup highestBit(x) .. XLEN - 1)

(* Mutant: the sign of the original word is not looked at.                 *)
ExtendAlways(value, code) == fillFromTop(value)

(* opcode::extend_sign(value, code)                                        *)
extend_sign(value, code) ==
  IF XLEN - 1 \in bits(code) THEN fillFromTop(value) ELSE value

(* The counts by which the host's shift instruction may really shift.      *)
shiftCounts(rhs) == IF rhs < XLEN THEN {rhs} ELSE {rhs % XLEN, XLEN}

----------------------------------------------------------------------------
IntOps == {"add", "sub", "sll", "slt", "sltu", "xor", "srl", "sra", "or", "and"}

int_r(op, lhs, rhs) ==
  CASE op = "add"  -> {to_word(lhs + rhs)}
    [] op = "sub"  -> {to_word(lhs - rhs)}
    [] op = "sll"  -> {shiftLeft(lhs, k) : k \in shiftCounts(rhs)}
    [] op = "slt"  -> {flag(to_signed(lhs) < to_signed(rhs))}
    [] op = "sltu" -> {flag(lhs < rhs)}
    [] op = "xor"  -> {word((bits(lhs) \cup bits(rhs)) \ (bits(lhs) \cap bits(rhs)))}
    [] op = "srl"  -> {shiftRight(lhs, k) : k \in shiftCounts(rhs)}
    [] op = "sra"  -> {extend_sign(shiftRight(lhs, k), lhs) : k \in shiftCounts(rhs)}
    [] op = "or"   -> {word(bits(lhs) \cup bits(rhs))}
    [] op = "and"  -> {word(bits(lhs) \cap bits(rhs))}

(* data is the sign-extended immediate, as a word.                         *)
ImmOps == {"addi", "slti", "sltiu", "xori", "ori", "andi"}

int_imm(op, value, data) ==
  CASE op = "addi"  -> int_r("add", value, data)
    [] op = "slti"  -> int_r("slt", value, data)
    [] op = "sltiu" -> int_r("sltu", value, data)
    [] op = "xori"  -> int_r("xor", value, data)
    [] op = "ori"   -> int_r("or", value, data)
    [] op = "andi"  -> int_r("and", value, data)

(* The immediate shifts keep the low five bits of the immediate.           *)
ShiftOps == {"slli", "srli", "srai"}

shift_imm(op, value, data) ==
  LET count == data % XLEN IN
  CASE op = "slli" -> {shiftLeft(value, count)}
    [] op = "srli" -> {shiftRight(value, count)}
    [] op = "srai" -> {extend_sign(shiftRight(value, count), value)}

----------------------------------------------------------------------------
(* C++ division truncates towards zero, and % keeps the dividend's sign.   *)
abs(i) == IF i < 0 THEN -i ELSE i
quotient(l, r) ==
  IF (l < 0) = (r < 0) THEN abs(l) \div abs(r) ELSE -(abs(l) \div abs(r))
(* Mutant: the remainder of floored division.                              *)
FlooredRemainder(l, r) == l % abs(r)
remainder(l, r) == l - r * quotient(l, r)

signedMin == -(2 ^ (XLEN - 1))

MulOps == {"mul", "mulh", "mulhsu", "mulhu"}
DivOps == {"div", "divu", "rem", "remu"}

(* Mutant: the product is divided instead of shifted.                      *)
HighByDivision(product) == to_word(quotient(product, WordCount))

(* The upper half of a 64-bit product: (result >> result_size) & mask.     *)
high(product) == to_word(product \div WordCount)

multiply(op, lhs, rhs) ==
  LET l == to_signed(lhs)
      r == to_signed(rhs)
  IN
  CASE op = "mul"    -> {to_word(l * r)}
    [] op = "mulh"   -> {high(l * r)}
    [] op = "mulhsu" -> {high(l * rhs)}
    [] op = "mulhu"  -> {high(lhs * rhs)}

divide(op, lhs, rhs) ==
  LET l == to_signed(lhs)
      r == to_signed(rhs)
      overflow == l = signedMin /\ r = -1
      zero == rhs = 0
  IN
  CASE op = "div" /\ overflow           -> {lhs}
    [] op = "div" /\ zero               -> {WordCount - 1}
    [] op = "div" /\ ~overflow /\ ~zero -> {to_word(quotient(l, r))}
    [] op = "divu"                      -> {IF zero THEN WordCount - 1 ELSE lhs \div rhs}
    [] op = "rem" /\ overflow           -> {0}
    [] op = "rem" /\ zero               -> {lhs}
    [] op = "rem" /\ ~overflow /\ ~zero -> {to_word(remainder(l, r))}
    [] op = "remu"                      -> {IF zero THEN lhs ELSE lhs % rhs}

----------------------------------------------------------------------------
BranchOps == {"beq", "bne", "blt", "bge", "bltu", "bgeu"}

(* Mutant: bge is not taken on equal operands.                             *)
CompareStrict(op, lhs, rhs) ==
  CASE op = "beq"  -> to_signed(lhs) = to_signed(rhs)
    [] op = "bne"  -> to_signed(lhs) # to_signed(rhs)
    [] op = "blt"  -> to_signed(lhs) < to_signed(rhs)
    [] op = "bge"  -> to_signed(lhs) > to_signed(rhs)
    [] op = "bltu" -> lhs < rhs
    [] op = "bgeu" -> lhs >= rhs

compare(op, lhs, rhs) ==
  CASE op = "beq"  -> to_signed(lhs) = to_signed(rhs)
    [] op = "bne"  -> to_signed(lhs) # to_signed(rhs)
    [] op = "blt"  -> to_signed(lhs) < to_signed(rhs)
    [] op = "bge"  -> to_signed(lhs) >= to_signed(rhs)
    [] op = "bltu" -> lhs < rhs
    [] op = "bgeu" -> lhs >= rhs

ValueOps == IntOps \cup ImmOps \cup ShiftOps \cup MulOps \cup DivOps

calculate(op, lhs, rhs) ==
  CASE op \in IntOps   -> int_r(op, lhs, rhs)
    [] op \in ImmOps   -> int_imm(op, lhs, rhs)
    [] op \in ShiftOps -> shift_imm(op, lhs, rhs)
    [] op \in MulOps   -> multiply(op, lhs, rhs)
    [] op \in DivOps   -> divide(op, lhs, rhs)
============================================================================
