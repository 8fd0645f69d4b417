------------------------------- MODULE Opcode -------------------------------
(***************************************************************************)
(* Instruction words at the level of their bits: the field tools of        *)
(* vm_bit_tools.hxx and the Decoder and Encoder of vm_opcode.hxx.  A word  *)
(* is the set of the positions of its ones, so | is union and & is         *)
(* intersection; a shift drops what leaves the 32 positions.               *)
(***************************************************************************)
EXTENDS Integers

Bits == 0 .. 31
Words == SUBSET Bits

shl(w, n) == {i \in Bits : i - n \in w}
shr(w, n) == {i \in Bits : i + n \in w}

make_mask(start, length) == {i \in Bits : start <= i /\ i < start + length}
get_bits(w, start, length) == shr(w, start) \cap make_mask(0, length)
get_range(w, lsb, msb) == shr(w, lsb) \cap make_mask(0, msb - lsb + 1)
shift_bits(w, start, to, length) == shl(shr(w \cap make_mask(start, length), start), to)
extend_sign(w, position) == w \cup {i \in Bits : position <= i /\ position \in w}

----------------------------------------------------------------------------
(* Decoder                                                                 *)

get_code(w) == get_bits(w, 0, 7)
get_rd(w) == get_bits(w, 7, 5)
get_func3(w) == get_bits(w, 12, 3)
get_rs1(w) == get_bits(w, 15, 5)
get_rs2(w) == get_bits(w, 20, 5)
(* Mutant: the top bit of the word is not read.                            *)
Func7Short(w) == get_bits(w, 25, 6)
get_func7(w) == get_bits(w, 25, 7)

decode_i_u(w) == shift_bits(w, 20, 0, 12)
decode_s_u(w) == shift_bits(w, 7, 0, 5) \cup shift_bits(w, 25, 5, 7)
decode_b_u(w) == shift_bits(w, 31, 12, 1) \cup shift_bits(w, 8, 1, 4)
                   \cup shift_bits(w, 25, 5, 6) \cup shift_bits(w, 7, 11, 1)

(* Mutant: the bit below the sign bit is taken from its neighbour.         *)
DecodeJShifted(w) == shift_bits(w, 31, 20, 1) \cup shift_bits(w, 12, 12, 8)
                   \cup shift_bits(w, 21, 11, 1) \cup shift_bits(w, 21, 1, 10)

decode_j_u(w) == shift_bits(w, 31, 20, 1) \cup shift_bits(w, 12, 12, 8)
                   \cup shift_bits(w, 20, 11, 1) \cup shift_bits(w, 21, 1, 10)

decode_i(w) == extend_sign(decode_i_u(w), 11)
decode_s(w) == extend_sign(decode_s_u(w), 11)
decode_b(w) == extend_sign(decode_b_u(w), 12)
decode_u(w) == w \cap make_mask(12, 30)
decode_j(w) == extend_sign(decode_j_u(w), 20)

----------------------------------------------------------------------------
(* Encoder.  Only s, b and j mask what they are given.                     *)

encode_group(group) == shl(group, 0)
encode_rd(id) == shl(id, 7)
encode_f3(id) == shl(id, 12)
encode_rs1(id) == shl(id, 15)
encode_rs2(id) == shl(id, 20)
encode_f7(id) == shl(id, 25)

encode_i(imm) == shl(imm, 20)
encode_s(imm) == shl(get_range(imm, 0, 4), 7) \cup shl(get_range(imm, 5, 11), 25)
encode_b(imm) == shl(get_range(imm, 11, 11), 7) \cup shl(get_range(imm, 1, 4), 8)
                   \cup shl(get_range(imm, 5, 10), 25) \cup shl(get_range(imm, 12, 12), 31)
encode_u(imm) == imm
encode_j(imm) == shl(get_range(imm, 20, 20), 31) \cup shl(get_range(imm, 1, 10), 21)
                   \cup shl(get_range(imm, 11, 11), 20) \cup shl(get_range(imm, 12, 19), 12)

r_type(group, rd, rs1, rs2, fa, fb) ==
  encode_group(group) \cup encode_rd(rd) \cup encode_f3(fa) \cup encode_rs1(rs1)
    \cup encode_rs2(rs2) \cup encode_f7(fb)
i_type(group, rd, rs1, imm, fa) ==
  encode_group(group) \cup encode_rd(rd) \cup encode_f3(fa) \cup encode_rs1(rs1) \cup encode_i(imm)
s_type(group, rs1, rs2, imm, fa) ==
  encode_group(group) \cup encode_f3(fa) \cup encode_rs1(rs1) \cup encode_rs2(rs2) \cup encode_s(imm)
b_type(group, rs1, rs2, imm, fa) ==
  encode_group(group) \cup encode_f3(fa) \cup encode_rs1(rs1) \cup encode_rs2(rs2) \cup encode_b(imm)
u_type(group, rd, imm) == encode_group(group) \cup encode_rd(rd) \cup encode_u(imm)
j_type(group, rd, imm) == encode_group(group) \cup encode_rd(rd) \cup encode_j(imm)

----------------------------------------------------------------------------
(* What a caller must pass, since the Encoder checks nothing ("TODO:       *)
(* Validation of value ranges").                                           *)
Group == SUBSET (0 .. 6)
Register5 == SUBSET (0 .. 4)
Func3 == SUBSET (0 .. 2)
Func7 == SUBSET (0 .. 6)

(* The values of length bits, sign-extended.                               *)
Signed(length) == {w \in Words : \A i \in Bits : i >= length - 1 => (i \in w <=> length - 1 \in w)}
Even(ws) == {w \in ws : 0 \notin w}

ImmI == Signed(12)
ImmS == Signed(12)
ImmB == Even(Signed(13))
ImmU == SUBSET (12 .. 31)
ImmJ == Even(Signed(21))
=============================================================================
