------------------------------ MODULE Rv32Isa ------------------------------
(***************************************************************************)
(* basic_vm::init_isa: register_rv32i_set and register_rv32m_set fill the  *)
(* registry handler by handler, in the order of the source.  Each list     *)
(* stops at its first refusal; the second is tried even so.                *)
(*                                                                         *)
(* Between two calls instructions are assembled by the Encoder, and the    *)
(* word is dispatched by find_handler and taken apart by its handler, both *)
(* through the Decoder.                                                    *)
(***************************************************************************)
EXTENDS HandlerRegistry, Opcode, Sequences

CONSTANT Instrs  \* the instructions that may be assembled

make_opcode(hi, lo) == hi * 2 ^ 5 + lo * 2 ^ 2 + 3

LOAD == make_opcode(0, 0)
STORE == make_opcode(1, 0)
BRANCH == make_opcode(3, 0)
JALR == make_opcode(3, 1)
MISC_MEM == make_opcode(0, 3)
JAL == make_opcode(3, 3)
OP_IMM == make_opcode(0, 4)
OP == make_opcode(1, 4)
SYSTEM == make_opcode(3, 4)
AUIPC == make_opcode(0, 5)
LUI == make_opcode(1, 5)

(* GenericHandler's template arguments; Variant << 5 in shift_imm, int_r.  *)
handler(g, a, b) == [group |-> g, funcA |-> a, funcB |-> b]
byFunc3(g, funcs) == [i \in DOMAIN funcs |-> handler(g, funcs[i], NoFuncB)]
byVariant(g, pairs) == [i \in DOMAIN pairs |-> handler(g, pairs[i][1], pairs[i][2] * 2 ^ 5)]
plain(g) == handler(g, NoFuncA, NoFuncB)

rv32i_set ==
     byFunc3(BRANCH, <<0, 1, 4, 5, 6, 7>>)
  \o byFunc3(LOAD, <<0, 1, 2, 4, 5>>)
  \o byFunc3(STORE, <<0, 1, 2>>)
  \o byFunc3(OP_IMM, <<0, 2, 3, 4, 6, 7>>)
  \o byVariant(OP_IMM, <<<<1, 0>>, <<5, 0>>, <<5, 1>>>>)
  \o byVariant(OP, <<<<0, 0>>, <<0, 1>>, <<1, 0>>, <<2, 0>>, <<3, 0>>, <<4, 0>>,
                     <<5, 0>>, <<5, 1>>, <<6, 0>>, <<7, 0>>>>)
  \o byFunc3(MISC_MEM, <<0, 1>>)
  \o byFunc3(SYSTEM, <<0, 1, 2, 3, 5, 6, 7>>)
  \o <<plain(LUI), plain(AUIPC), plain(JAL)>>
  \o byFunc3(JALR, <<0>>)

rv32m_set == [i \in 1 .. 8 |-> handler(OP, i - 1, 1)]

IsaHandlers == {rv32i_set[i] : i \in DOMAIN rv32i_set} \cup {rv32m_set[i] : i \in DOMAIN rv32m_set}

----------------------------------------------------------------------------
(* Fields are numbers to the registry and bits to the Encoder.             *)
bitsOf(n, length) == {i \in 0 .. length - 1 : (n \div 2 ^ i) % 2 = 1}
number(w) ==
  LET bit(i) == IF i \in w THEN 2 ^ i ELSE 0
  IN  bit(0) + bit(1) + bit(2) + bit(3) + bit(4) + bit(5) + bit(6)

(* The formats of the handlers: GenericHandler's second argument.  A group *)
(* without handlers stands for a word of any content.                      *)
format(group, func3) ==
  CASE group \in {LUI, AUIPC} -> "U"
    [] group = JAL -> "J"
    [] group = BRANCH -> "B"
    [] group = STORE -> "S"
    [] group \in {LOAD, JALR, MISC_MEM, SYSTEM} -> "I"
    [] group = OP_IMM -> IF func3 \in {1, 5} THEN "R" ELSE "I"
    [] OTHER -> "R"

Immediates(f) ==
  CASE f = "R" -> {{}} [] f = "I" -> ImmI [] f = "S" -> ImmS
    [] f = "B" -> ImmB [] f = "U" -> ImmU [] f = "J" -> ImmJ

IsInstr(i) ==
  /\ i.group \in 0 .. 127 /\ i.func3 \in 0 .. 7 /\ i.func7 \in 0 .. 127
  /\ {i.rd, i.rs1, i.rs2} \subseteq Register5
  /\ i.imm \in Immediates(format(i.group, i.func3))
ASSUME InstrsAssumption == nullptr \notin Instrs /\ \A i \in Instrs : IsInstr(i)

assemble(i) ==
  LET group == bitsOf(i.group, 7)
      fa == bitsOf(i.func3, 3)
      f == format(i.group, i.func3)
  IN  CASE f = "R" -> r_type(group, i.rd, i.rs1, i.rs2, fa, bitsOf(i.func7, 7))
        [] f = "I" -> i_type(group, i.rd, i.rs1, i.imm, fa)
        [] f = "S" -> s_type(group, i.rs1, i.rs2, i.imm, fa)
        [] f = "B" -> b_type(group, i.rs1, i.rs2, i.imm, fa)
        [] f = "U" -> u_type(group, i.rd, i.imm)
        [] f = "J" -> j_type(group, i.rd, i.imm)

fields(w) == [group |-> number(get_code(w)), func3 |-> number(get_func3(w)),
              func7 |-> number(get_func7(w))]

(* The registry is used with these handlers and these words.               *)
ASSUME IsaAssumption ==
  IsaHandlers \subseteq Handlers /\ {fields(assemble(i)) : i \in Instrs} \subseteq Codes

----------------------------------------------------------------------------
VARIABLES
  todo,   \* what is left of the two lists
  isa_ok, \* results of the two lists in the last call of init_isa
  instr   \* the instruction whose word is being executed, or nullptr

isaVars == <<vars, todo, isa_ok, instr>>

Idle == todo = <<<<>>, <<>>>>

IsaInit == Init /\ todo = <<<<>>, <<>>>> /\ isa_ok = <<FALSE, FALSE>> /\ instr = nullptr

init_isa ==
  /\ Idle /\ instr = nullptr
  /\ todo' = <<rv32i_set, rv32m_set>>
  /\ isa_ok' = <<TRUE, TRUE>>
  /\ UNCHANGED <<vars, instr>>

register_next ==
  LET k == IF todo[1] # <<>> THEN 1 ELSE 2
      h == Head(todo[k])
  IN
  /\ ~Idle
  /\ Register(h)
  /\ todo' = [todo EXCEPT ![k] = IF accepted(h) THEN Tail(@) ELSE <<>>]
  /\ isa_ok' = [isa_ok EXCEPT ![k] = accepted(h)]
  /\ UNCHANGED instr

fetch(i) ==
  /\ Idle /\ instr = nullptr
  /\ instr' = i
  /\ Lookup(fields(assemble(i)))
  /\ UNCHANGED <<todo, isa_ok>>

(* run_step is done with the word.                                         *)
retire ==
  /\ instr # nullptr
  /\ instr' = nullptr /\ found' = nullptr
  /\ UNCHANGED <<registry, todo, isa_ok>>

IsaNext == init_isa \/ register_next \/ (\E i \in Instrs : fetch(i)) \/ retire

IsaSpec == IsaInit /\ [][IsaNext]_isaVars

----------------------------------------------------------------------------
(* After init_isa the word assembled for an instruction runs the one       *)
(* handler meant for the instruction, or none: no handler of RV32I or      *)
(* RV32M hides another, in the order they are registered, no operand or    *)
(* immediate reaches into the fields dispatch looks at, and a second call  *)
(* that is refused halfway does no harm.                                   *)
IsaExact ==
  instr # nullptr /\ handlers # {} =>
    LET candidates == {h \in IsaHandlers : meant(h, instr)} IN
    IF candidates = {} THEN found.handler = nullptr ELSE candidates = {found.handler}

(* What the handlers of a format read from a word.                         *)
operandsRead(f, w, i) ==
  /\ f \in {"R", "I", "U", "J"} => get_rd(w) = i.rd
  /\ f \in {"R", "I", "S", "B"} => get_rs1(w) = i.rs1
  /\ f \in {"R", "S", "B"} => get_rs2(w) = i.rs2
  /\ f = "I" => decode_i(w) = i.imm
  /\ f = "S" => decode_s(w) = i.imm
  /\ f = "B" => decode_b(w) = i.imm
  /\ f = "U" => decode_u(w) = i.imm
  /\ f = "J" => decode_j(w) = i.imm
  /\ f = "R" => decode_i_u(w) \cap make_mask(0, 5) = i.rs2

(* A handler reads from the word exactly the registers and the immediate   *)
(* that were assembled into it: Decoder inverts Encoder for every format,  *)
(* although the pieces of an immediate are scattered over the word.  The   *)
(* shift count of shift_imm is the rs2 field.                              *)
OperandsExact ==
  instr # nullptr => operandsRead(format(instr.group, instr.func3), assemble(instr), instr)

(* init_isa can be repeated without harm: a registry that was filled never *)
(* changes again, and the repeated call reports failure.                   *)
IsaOnce ==
  [][handlers = IsaHandlers =>
       /\ UNCHANGED registry
       /\ todo # todo' /\ ~Idle => \E k \in {1, 2} : ~isa_ok'[k]]_isaVars
============================================================================
