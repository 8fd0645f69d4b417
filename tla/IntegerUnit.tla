---------------------------- MODULE IntegerUnit ----------------------------
(***************************************************************************)
(* The integer handlers at work: any instruction on any operands, one at a *)
(* time.  The properties compare what Alu translates from the handlers     *)
(* with definitions on mathematical integers.                              *)
(***************************************************************************)
EXTENDS Alu

CONSTANT none  \* no instruction is executing

ASSUME NoneAssumption == none \notin [op : ValueOps, lhs : Word, rhs : Word]

VARIABLES
  insn,   \* the instruction just executed and its operands, or none
  result  \* the value handed to set_register

vars == <<insn, result>>

TypeOK ==
  /\ insn \in [op : ValueOps, lhs : Word, rhs : Word] \cup {none}
  /\ result \in Word

Init == insn = none /\ result = 0

exec(op, lhs, rhs) ==
  /\ insn = none
  /\ insn' = [op |-> op, lhs |-> lhs, rhs |-> rhs]
  /\ result' \in calculate(op, lhs, rhs)

Done == insn # none /\ insn' = none /\ result' = 0

Next ==
  \/ \E op \in ValueOps, lhs, rhs \in Word : exec(op, lhs, rhs)
  \/ Done

Spec == Init /\ [][Next]_vars

Executed(ops) == insn # none /\ insn.op \in ops

----------------------------------------------------------------------------
(* div, divu, rem and remu: a quotient and a remainder of the same         *)
(* operands satisfy l = q*r + rem with a remainder smaller than the        *)
(* divisor and of the dividend's sign, also in the two cases the handlers  *)
(* treat apart (division by zero keeps l as the remainder, and the         *)
(* overflowing quotient wraps).                                            *)
DivisionIdentity ==
  Executed({"rem", "remu"}) =>
    LET signed == insn.op = "rem"
        value(x) == IF signed THEN to_signed(x) ELSE x
        l == value(insn.lhs)
        r == value(insn.rhs)
        m == value(result)
        q == CHOOSE w \in divide(IF signed THEN "div" ELSE "divu", insn.lhs, insn.rhs) : TRUE
    IN  /\ to_word(q * r + m) = insn.lhs
        /\ r # 0 => abs(m) < abs(r) /\ (m # 0 => (m < 0) = (l < 0))
        /\ r = 0 => q = WordCount - 1

(* mul with mulh, mulhsu or mulhu: the two halves make up the exact        *)
(* double-width product, for each signedness of the operands.              *)
ProductHalves ==
  Executed({"mulh", "mulhsu", "mulhu"}) =>
    LET l == IF insn.op = "mulhu" THEN insn.lhs ELSE to_signed(insn.lhs)
        r == IF insn.op = "mulh" THEN to_signed(insn.rhs) ELSE insn.rhs
        low == CHOOSE w \in multiply("mul", insn.lhs, insn.rhs) : TRUE
    IN  result * WordCount + low = (l * r) % (WordCount * WordCount)

(* sra and srai rebuild the sign by filling from the highest one bit of    *)
(* the shifted word: that is division by 2^count, rounded down, for every  *)
(* count below XLEN.                                                       *)
ArithmeticShift ==
  Executed({"srai"}) \/ (Executed({"sra"}) /\ insn.rhs < XLEN) =>
    to_signed(result) = to_signed(insn.lhs) \div 2 ^ (insn.rhs % XLEN)

(* The order that sub, slt and sltu and the six branch conditions agree    *)
(* on: exactly one of less, equal and greater holds, and the difference is *)
(* zero exactly when beq is taken.                                         *)
OrderConsistent ==
  Executed({"slt", "sltu", "sub"}) =>
    LET x == insn.lhs
        y == insn.rhs
        less == IF insn.op = "sltu" THEN "bltu" ELSE "blt"
        geq == IF insn.op = "sltu" THEN "bgeu" ELSE "bge"
    IN  /\ insn.op # "sub" => (result = 1) = compare(less, x, y)
        /\ insn.op = "sub" => (result = 0) = compare("beq", x, y)
        /\ compare(geq, x, y) = ~compare(less, x, y)
        /\ compare("bne", x, y) = (compare(less, x, y) # compare(less, y, x))

(* The unit tests of sll, srl and sra take the low bits of the register as *)
(* the count.                                                              *)
RegisterShiftCount ==
  Executed({"sll", "srl", "sra"}) =>
    LET imm == CASE insn.op = "sll" -> "slli"
                 [] insn.op = "srl" -> "srli"
                 [] insn.op = "sra" -> "srai"
    IN  result \in shift_imm(imm, insn.lhs, insn.rhs)
============================================================================
