------------------------------ MODULE MCMachine ------------------------------
(***************************************************************************)
(* Instances of Machine on 8-bit words made of four 2-bit bytes, and five  *)
(* registers.  Words 1, 2, ... encode the instructions of MCTable; every   *)
(* other word, the zeroed memory among them, has no handler.               *)
(***************************************************************************)
EXTENDS MachineProperties, SequencesExt

MCByte == 0 .. 3

I(kind, op, rd, rs1, rs2, imm) ==
  [kind |-> kind, op |-> op, rd |-> rd, rs1 |-> rs1, rs2 |-> rs2, imm |-> imm]

(* zero = 0, a0 = 1, a1 = 2, a2 = 3, a7 = 4; the data block starts at 32   *)
MCTable == <<
  I("imm", "addi", 4, 0, 0, 10),    \*  1  addi a7, zero, exit
  I("ecall", "", 0, 0, 0, 0),       \*  2
  I("imm", "addi", 2, 0, 0, 32),    \*  3  addi a1, zero, data
  I("store", "sw", 0, 2, 4, 0),     \*  4  sw a7, 0(a1)
  I("load", "lb", 1, 2, 0, 0),      \*  5  lb a0, 0(a1)
  I("jal", "", 1, 0, 0, 8),         \*  6  jal a0, +8
  I("jal", "", 1, 0, 0, 2),         \*  7  jal a0, +2
  I("jalr", "", 1, 2, 0, 1),        \*  8  jalr a0, 1(a1)
  I("branch", "beq", 0, 0, 0, 252), \*  9  beq zero, zero, -4
  I("branch", "beq", 0, 0, 0, 8),   \* 10  beq zero, zero, +8
  I("store", "sh", 0, 2, 4, 3),     \* 11  sh a7, 3(a1)
  I("load", "lw", 1, 0, 0, 100),    \* 12  lw a0, 100(zero)
  I("imm", "addi", 4, 0, 0, 3),     \* 13  addi a7, zero, read
  I("imm", "addi", 3, 0, 0, 20),    \* 14  addi a2, zero, 20
  I("csr", "", 1, 1, 0, 0),         \* 15
  I("fence", "", 0, 0, 0, 0),       \* 16
  I("ebreak", "", 0, 0, 0, 0),      \* 17
  I("lui", "", 3, 0, 0, 8),         \* 18  lui a2, 8
  I("auipc", "", 1, 0, 0, 4),       \* 19  auipc a0, 4
  I("reg", "sll", 1, 4, 2, 0),      \* 20  sll a0, a7, a1
  I("store", "sb", 0, 0, 4, 12),    \* 21  sb a7, 12(zero)
  I("imm", "addi", 4, 0, 0, 1),     \* 22  addi a7, zero, put_int
  I("branch", "bne", 0, 0, 0, 8),   \* 23  bne zero, zero, +8
  I("load", "lhu", 1, 2, 0, 2),     \* 24  lhu a0, 2(a1)
  I("imm", "addi", 2, 0, 0, 40),    \* 25  addi a1, zero, device
  I("store", "sw", 0, 2, 0, 0),     \* 26  sw zero, 0(a1)
  I("store", "sw", 0, 2, 4, 16),    \* 27  sw a7, 16(a1)
  I("store", "sb", 0, 2, 4, 1),     \* 28  sb a7, 1(a1)
  I("jalr", "", 0, 2, 0, 0)         \* 29  jalr zero, 0(a1)
>>
MCdecode == [w \in Word |-> IF w \in DOMAIN MCTable THEN MCTable[w] ELSE NoHandler]

(* The image of a sequence of instruction words.                           *)
image(words) ==
  [i \in 0 .. OpSize * Len(words) - 1 |-> toBytes(words[1 + i \div OpSize], OpSize)[i % OpSize]]

Layout(code, data_, ro, rw) ==
  [code_base |-> code, data_base |-> data_, ro_size |-> ro, rw_size |-> rw]

(* A data record at an offset, and the other records.                      *)
hexData(offs, words) ==
  [type |-> "data", valid |-> TRUE, offset |-> offs, data |-> image(words), value |-> 0]
hexOther(type, value) ==
  [type |-> type, valid |-> TRUE, offset |-> 0, data |-> image(<<>>), value |-> value]

----------------------------------------------------------------------------
(* Execution: 16 bytes of code at 0, 16 bytes of data at 32.               *)
ExecLayout == Layout(0, 32, 16, 16)
ExecSizes == {16}
ExecPrograms == {image(p) : p \in {
  <<3, 4, 1, 2>>, <<1, 2>>, <<13, 3, 14, 2>>, <<13, 3, 18, 2>>, <<6, 0, 3, 15>>,
  <<7>>, <<3, 8>>, <<20, 19, 16, 17>>, <<22, 2, 3, 5>>, <<1, 3, 11>>, <<1, 21, 23, 3>>, <<12>>,
  <<1, 3, 4, 5>>, <<10, 12, 3, 24>>, <<3, 4, 24, 10>>,
  <<1, 9>>, <<3, 4, 9, 2>>, <<13, 9>>, <<22, 2, 9>> }}

ExecEntries == {0, 2}
ExecHexFiles == {
  <<hexData(0, <<3, 4>>), hexData(8, <<1, 2>>), hexOther("eof", 0)>>,
  <<hexData(4, <<1, 9>>), hexOther("start", 4), hexOther("eof", 0)>>,
  <<hexData(0, <<1>>), [hexData(4, <<2>>) EXCEPT !.valid = FALSE], hexOther("eof", 0)>> }

----------------------------------------------------------------------------
(* Setup: regions of 8 bytes that may touch, entry points that are bad.    *)
SetupLayout == Layout(0, 8, 8, 8)
SetupBases == {0, 8}
SetupSizes == {0, 8}
SetupEntries == {0, 2, 100}
SetupPrograms == {image(p) : p \in {<<1, 2>>, <<1, 16, 2>>}}

SetupHexFiles == {
  <<hexData(0, <<1, 2>>), hexOther("eof", 0)>>,
  <<hexOther("extend", 8), hexData(0, <<1>>), hexOther("start", 8), hexOther("eof", 0)>>,
  <<hexData(0, <<1>>), hexData(252, <<1>>), hexOther("eof", 0)>>,
  <<hexData(0, <<>>), hexOther("eof", 0)>>,
  <<hexOther("start", 100), hexOther("eof", 0)>>,
  <<hexData(4, <<2>>), [hexOther("eof", 0) EXCEPT !.valid = FALSE]>>,
  <<hexOther("unknown", 0)>> }
MCNone == {}

(* The instances are within the hypotheses of the flat memory theorems.    *)
ASSUME BelowTop == LayoutBelowTop /\ ImagesBelowTop
==============================================================================
