-------------------------------- MODULE Csr --------------------------------
(***************************************************************************)
(* The CSR instructions (csrrw .. csrrci, vm_handlers_rv32i.hxx) on a      *)
(* machine that has control and status registers.  MachineInterface leaves *)
(* control_get and control_set to the machine; basic_vm refuses both       *)
(* (Readable = Writable = {}), a machine with CSRs refuses some.  A value  *)
(* is the set of its one bits.                                             *)
(***************************************************************************)
EXTENDS Integers

CONSTANTS
  Regs,      \* general registers, 0 among them
  Ids,       \* CSR numbers
  Readable,  \* CSRs whose control_get does not throw
  Writable,  \* CSRs whose control_set does not throw
  WordBits,  \* bit positions of a register
  none       \* no instruction is being executed

ASSUME RegsAssumption == 0 \in Regs /\ Regs \subseteq Nat
ASSUME AccessAssumption == Readable \subseteq Ids /\ Writable \subseteq Ids
ASSUME WordBitsAssumption == WordBits \subseteq Nat

Ops == {"csrrw", "csrrs", "csrrc", "csrrwi", "csrrsi", "csrrci"}
Instr == [op : Ops, csr_id : Ids, src_id : Regs, dst_id : Regs]
ASSUME NoneAssumption == none \notin Instr

VARIABLES
  registers,
  control,  \* the CSRs
  instr,    \* the instruction executed last, until run_step is done with it
  result    \* how it ended

vars == <<registers, control, instr, result>>

Init ==
  /\ registers \in {r \in [Regs -> SUBSET WordBits] : r[0] = {}}
  /\ control \in [Ids -> SUBSET WordBits]
  /\ instr = none /\ result = ""

(* csr::exec: the immediate forms use the number in the rs1 field.         *)
number(n) == {k \in WordBits : (n \div 2 ^ k) % 2 = 1}
immediate(i) == i.op \in {"csrrwi", "csrrsi", "csrrci"}
source(r, i) == IF immediate(i) THEN number(i.src_id) ELSE r[i.src_id]

(* csrrw does not read for x0, the others do not write for source x0 or 0. *)
replaces(i) == i.op \in {"csrrw", "csrrwi"}
(* Mutant: csrrw reads also for x0.                                        *)
ReadsAlways(i) == TRUE
reads(i) == ~replaces(i) \/ i.dst_id # 0
writes(i) == replaces(i) \/ i.src_id # 0

(* Mutant: csrrc keeps the bits it should clear.                           *)
Unmasked(i, value, operand) ==
  CASE i.op \in {"csrrw", "csrrwi"} -> operand
    [] i.op \in {"csrrs", "csrrsi"} -> value \cup operand
    [] i.op \in {"csrrc", "csrrci"} -> value \cap operand

new_value(i, value, operand) ==
  CASE i.op \in {"csrrw", "csrrwi"} -> operand
    [] i.op \in {"csrrs", "csrrsi"} -> value \cup operand
    [] i.op \in {"csrrc", "csrrci"} -> value \ operand

(* The destination as set_register leaves it after control_get.            *)
linked(i) ==
  IF reads(i) /\ i.dst_id # 0 THEN [registers EXCEPT ![i.dst_id] = control[i.csr_id]] ELSE registers

(* Mutant: the write happens before the access is checked.                 *)
WrittenAnyway(i) ==
  /\ registers' = linked(i)
  /\ control' = [control EXCEPT ![i.csr_id] = source(registers, i)]
  /\ result' = "control_access_error"

refused_write(i) ==
  /\ registers' = linked(i)
  /\ result' = "control_access_error" /\ UNCHANGED control

refused_read(i) ==
  /\ result' = "control_access_error" /\ UNCHANGED <<registers, control>>

(* The source register is read after the destination was written.          *)
finished(i) ==
  /\ registers' = linked(i)
  /\ control' = IF writes(i)
       THEN [control EXCEPT ![i.csr_id] = new_value(i, control[i.csr_id], source(linked(i), i))]
       ELSE control
  /\ result' = ""

exec(i) ==
  /\ instr = none
  /\ instr' = i
  /\ IF reads(i) /\ i.csr_id \notin Readable THEN refused_read(i)
     ELSE IF writes(i) /\ i.csr_id \notin Writable THEN refused_write(i)
     ELSE finished(i)

retire == instr # none /\ instr' = none /\ result' = "" /\ UNCHANGED <<registers, control>>

Next == (\E i \in Instr : exec(i)) \/ retire

Spec == Init /\ [][Next]_vars

----------------------------------------------------------------------------
(* The instruction's source register is its own destination.               *)
aliased(i) == ~immediate(i) /\ i.src_id = i.dst_id /\ i.src_id # 0

executing == instr' # instr /\ instr' # none

(* The effect of an instruction in one exchange: the destination gets the  *)
(* old CSR, the CSR its new value from the old source, nothing else moves. *)
Exchanged(i) ==
  /\ i.dst_id # 0 => registers'[i.dst_id] = control[i.csr_id]
  /\ \A r \in Regs : r # i.dst_id \/ r = 0 => registers'[r] = registers[r]
  /\ i.op \in {"csrrw", "csrrwi"} => control'[i.csr_id] = source(registers, i)
  /\ i.op \notin {"csrrw", "csrrwi"} /\ i.src_id = 0 => control'[i.csr_id] = control[i.csr_id]
  /\ i.op \in {"csrrs", "csrrsi"} /\ i.src_id # 0 =>
       control'[i.csr_id] = control[i.csr_id] \cup source(registers, i)
  /\ i.op \in {"csrrc", "csrrci"} /\ i.src_id # 0 =>
       control'[i.csr_id] = control[i.csr_id] \ source(registers, i)
  /\ \A id \in Ids : id # i.csr_id => control'[id] = control[id]

(* An instruction that completes has exchanged old values only, as the     *)
(* comments of csrrw, csrrs and csrrc say ("atomic read and write").       *)
AtomicExchange == [][executing /\ result' = "" => Exchanged(instr')]_vars

(* The same for instructions whose source is not their own destination:    *)
(* writing the destination first is harmless for them.                     *)
ExchangeUnlessAliased ==
  [][executing /\ result' = "" /\ ~aliased(instr') => Exchanged(instr')]_vars

(* control_set may throw after the destination was written.  A refused     *)
(* instruction has left every CSR as it was, and its own source too, so    *)
(* that it can be repeated once its CSR is accessible.  The one exception  *)
(* is an instruction that is its own source on a CSR that can be read and  *)
(* not written: its operand is lost, the CSR's value is in its place, and  *)
(* no repetition does what it would have done.                             *)
RetryUnlessAliased ==
  [][executing /\ result' # "" =>
       /\ control' = control
       /\ \/ source(registers', instr') = source(registers, instr')
          \/ /\ aliased(instr') /\ instr'.csr_id \in Readable \ Writable
             /\ source(registers', instr') = control[instr'.csr_id]]_vars

(* A CSR that can only be written serves csrrw with x0, one that can only  *)
(* be read serves csrrs and csrrc with x0: the instruction makes no access *)
(* it does not need, and completes.                                        *)
OneWayUsable ==
  [][executing =>
       /\ instr'.csr_id \in Writable /\ instr'.op \in {"csrrw", "csrrwi"} /\ instr'.dst_id = 0
            => result' = ""
       /\ instr'.csr_id \in Readable /\ instr'.op \notin {"csrrw", "csrrwi"} /\ instr'.src_id = 0
            => result' = ""]_vars
============================================================================
