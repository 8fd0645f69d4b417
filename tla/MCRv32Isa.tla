----------------------------- MODULE MCRv32Isa -----------------------------
(***************************************************************************)
(* Every opcode group and one unused group with every funct3; the funct7   *)
(* values of RV32IM and the top bit; register fields of zeros, ones and a  *)
(* pattern; immediates of one bit, of the sign bit, of all bits.           *)
(***************************************************************************)
EXTENDS Rv32Isa

MCGroups == {h.group : h \in IsaHandlers} \cup {make_opcode(1, 3)}
MCOperands == {<<{}, {}, {}>>, <<0 .. 4, {}, {}>>, <<{}, 0 .. 4, {}>>, <<{}, {}, 0 .. 4>>, <<{0, 2}, {1, 3}, {0, 4}>>}

oneBit(low, sign) == {{k} : k \in low .. sign - 1} \cup {{}, sign .. 31, low .. 31}
MCImmediates(f) ==
  CASE f = "R" -> {{}} [] f \in {"I", "S"} -> oneBit(0, 11) [] f = "B" -> oneBit(1, 12)
    [] f = "U" -> oneBit(12, 31) [] f = "J" -> oneBit(1, 20)

MCInstrs ==
  UNION {[group : {g}, func3 : {fa}, func7 : IF format(g, fa) = "R" THEN {0, 1, 32, 64} ELSE {0},
          rd : {o[1]}, rs1 : {o[2]}, rs2 : {o[3]}, imm : MCImmediates(format(g, fa))]
         : g \in MCGroups, fa \in 0 .. 7, o \in MCOperands}
MCCodes == {fields(assemble(i)) : i \in MCInstrs}
============================================================================
