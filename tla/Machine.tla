------------------------------ MODULE Machine ------------------------------
(***************************************************************************)
(* basic_vm (vm_basic.hxx, vm_basic.cxx) with the instruction handlers of  *)
(* RV32I and RV32M and the system calls of tools/yeti_main.cxx.            *)
(*                                                                         *)
(* A host program sets the machine up, starts it and calls run, which      *)
(* executes one instruction per step until the program halts it or an      *)
(* instruction throws.  Loading a hex file takes one step per record.      *)
(* calling says which of these is in progress.                             *)
(*                                                                         *)
(* A register, an address and an instruction word have the same width,     *)
(* OpSize bytes.  decode stands for opcode::Decoder and the lookup in      *)
(* HandlerRegistry: it maps a word to its instruction, or to NoHandler.    *)
(***************************************************************************)
EXTENDS MemoryBlock, Alu, Sequences

CONSTANTS
  ByteCount,       \* number of values of a byte
  NumRegs,         \* general registers, 32 in the program
  a0, a1, a2, a7,  \* the registers of the system call convention
  decode,          \* [Word -> Instructions \cup {NoHandler}]
  NoHandler,       \* find_handler returned nullptr
  NoHex,           \* no hex file is being loaded
  DefLayout,       \* def_code_base, def_data_base, def_code_size, def_data_size
  Bases,           \* addresses the host passes to the setup calls
  MemSizes,        \* sizes the host passes to the setup calls (size_t)
  EntryPoints,     \* values the host passes to init_pc and set_program
  Programs,        \* binary images, functions on 0 .. n-1
  HexFiles,        \* sequences of hex records
  SysRead, SysExit,  \* ids of the read and exit calls
  SyscallIds       \* ids the host may register; the others only print

ASSUME HostAssumption ==
  /\ Bases \subseteq Address /\ MemSizes \subseteq Nat /\ EntryPoints \subseteq Address
  /\ {DefLayout.code_base, DefLayout.data_base} \subseteq Address
  /\ {DefLayout.ro_size, DefLayout.rw_size} \subseteq Nat

OpSize == 4  \* sizeof(opcode_t)

ASSUME WidthAssumption == AddrSpace = WordCount /\ AddrSpace = ByteCount ^ OpSize
ASSUME ByteCountAssumption ==
  ByteCount \in Nat /\ Byte = 0 .. ByteCount - 1 /\ Powers(ByteCount, OpSize)

(* No region is within a word of the whole address space: in_range would   *)
(* wrap and let a word reach past its end.                                 *)
leaves_room(size) == size % AddrSpace <= AddrSpace - OpSize
ASSUME RoomAssumption ==
  \A size \in MemSizes \cup {DefLayout.ro_size, DefLayout.rw_size} : leaves_room(size)

Registers == 0 .. NumRegs - 1
ASSUME RegistersAssumption == NumRegs \in Nat \ {0} /\ {a0, a1, a2, a7} \subseteq Registers \ {0}

ASSUME SyscallAssumption == SysRead # SysExit

Flags == {"HAVE_CODE_BLOCK", "HAVE_DATA_BLOCK", "ISA_INITIALIZED", "PC_INITIALIZED"}

Kinds == {"lui", "auipc", "jal", "jalr", "branch", "load", "store", "imm", "reg",
          "fence", "ecall", "ebreak", "csr"}
LoadOps == {"lb", "lh", "lw", "lbu", "lhu"}
StoreOps == {"sb", "sh", "sw"}

OpsOf(kind) ==
  CASE kind = "imm"    -> ImmOps \cup ShiftOps
    [] kind = "reg"    -> IntOps \cup MulOps \cup DivOps
    [] kind = "branch" -> BranchOps
    [] kind = "load"   -> LoadOps
    [] kind = "store"  -> StoreOps
    [] OTHER           -> {""}
Instructions ==
  UNION {[kind : {k}, op : OpsOf(k), rd : Registers, rs1 : Registers, rs2 : Registers, imm : Word]
         : k \in Kinds}
ASSUME DecodeAssumption ==
  decode \in [Word -> Instructions \cup {NoHandler}] /\ NoHandler \notin Instructions

VARIABLES
  blocks, data,             \* mmu: the regions and their bytes
  initFlags,                \* InitFlag bits that are set
  ro_size, rw_size, code_base, data_base,
  initial_pc,
  registers, pc,            \* the register file; pc is its last element
  running,
  syscalls,                 \* ids registered in syscall_registry
  syscall_throw_on_error,
  calling,                  \* "client", "run", "hex", or "read" that never ends
  hex,                      \* the loader's locals: rest, offset, pc_value
  reply                     \* the last call and how it ended

memory == <<blocks, data>>
layout == <<ro_size, rw_size, code_base, data_base>>
boot == <<initFlags, initial_pc>>
cpu == <<registers, pc, running>>
calls == <<syscalls, syscall_throw_on_error>>
vars == <<memory, layout, boot, cpu, calls, calling, hex, reply>>

Results == {"", "true", "false", "domain_error", "unknown_instruction",
            "unknown_syscall", "code_access_error", "data_access_error",
            "control_access_error"}

TypeOK ==
  /\ blocks \subseteq Params
  /\ DOMAIN data = blocks
  /\ \A b \in blocks : data[b] \in [0 .. b.size - 1 -> Byte]
  /\ initFlags \subseteq Flags
  /\ ro_size \in Nat /\ rw_size \in Nat
  /\ code_base \in Address /\ data_base \in Address /\ initial_pc \in Address
  /\ registers \in [Registers -> Word] /\ pc \in Address
  /\ running \in BOOLEAN
  /\ syscalls \subseteq SyscallIds /\ syscall_throw_on_error \in BOOLEAN
  /\ calling \in {"client", "run", "hex", "read"}
  /\ (hex = NoHex) = (calling # "hex")
  /\ reply.result \in Results

Init ==
  /\ blocks = {} /\ data = allocate(<<>>, {})
  /\ initFlags = {} /\ initial_pc = 0
  /\ ro_size = DefLayout.ro_size /\ rw_size = DefLayout.rw_size
  /\ code_base = DefLayout.code_base /\ data_base = DefLayout.data_base
  /\ registers = [r \in Registers |-> 0] /\ pc = 0
  /\ running = FALSE
  /\ syscalls = {} /\ syscall_throw_on_error = TRUE
  /\ calling = "client" /\ hex = NoHex
  /\ reply = [call |-> "", result |-> ""]

----------------------------------------------------------------------------
(* Setup calls.  Each returns to the host at once.                         *)

is_flag_set(f) == f \in initFlags
have_code_block == is_flag_set("HAVE_CODE_BLOCK")
have_data_block == is_flag_set("HAVE_DATA_BLOCK")
is_initialized == initFlags = Flags

verdict(ok) == IF ok THEN "true" ELSE "false"

Return(call, result) ==
  /\ calling = "client"
  /\ reply' = [call |-> call, result |-> result]
  /\ UNCHANGED <<calling, hex>>

set_ro_size(size) ==
  /\ Return("set_ro_size", verdict(~have_code_block))
  /\ ro_size' = IF have_code_block THEN ro_size ELSE size
  /\ UNCHANGED <<memory, boot, rw_size, code_base, data_base, cpu, calls>>

set_rw_size(size) ==
  /\ Return("set_rw_size", verdict(~have_data_block))
  /\ rw_size' = IF have_data_block THEN rw_size ELSE size
  /\ UNCHANGED <<memory, boot, ro_size, code_base, data_base, cpu, calls>>

set_ro_base(base) ==
  /\ Return("set_ro_base", verdict(~have_code_block))
  /\ code_base' = IF have_code_block THEN code_base ELSE base
  /\ UNCHANGED <<memory, boot, ro_size, rw_size, data_base, cpu, calls>>

set_rw_base(base) ==
  /\ Return("set_rw_base", verdict(~have_data_block))
  /\ data_base' = IF have_data_block THEN data_base ELSE base
  /\ UNCHANGED <<memory, boot, ro_size, rw_size, code_base, cpu, calls>>

(* The size_t size is narrowed to 32 bits by generic_memory's constructor. *)
region(address, size) == [start |-> address, size |-> size % AddrSpace]

grow(regions) ==
  /\ blocks' = blocks \cup regions
  /\ data' = allocate(data, blocks')

add_memory(address, size) ==
  LET p == region(address, size) IN
  /\ Return("add_memory", verdict(accepts(blocks, p)))
  /\ grow({r \in {p} : accepts(blocks, p)})
  /\ UNCHANGED <<layout, boot, cpu, calls>>

(* add_code_block and add_data_block: a block of each kind is added once.  *)
add_block_once(call, f, address, size) ==
  LET p == region(address, size)
      ok == ~is_flag_set(f) /\ accepts(blocks, p)
  IN
  /\ Return(call, verdict(ok))
  /\ grow({r \in {p} : ok})
  /\ initFlags' = initFlags \cup {x \in {f} : ok}
  /\ UNCHANGED <<layout, initial_pc, cpu, calls>>

add_code_block(address, size) ==
  add_block_once("add_code_block", "HAVE_CODE_BLOCK", address, size)
add_data_block(address, size) ==
  add_block_once("add_data_block", "HAVE_DATA_BLOCK", address, size)

(* Mutant: the answer forgets whether the data block was added.            *)
InitMemoryCodeOnly(code_size, data_size) ==
  LET ro_ok == ~have_code_block
      rw_ok == ~have_data_block
      ro == IF ro_ok THEN code_size ELSE ro_size
      rw == IF rw_ok THEN data_size ELSE rw_size
      code == {p \in {region(code_base, ro)} : ro_ok /\ accepts(blocks, p)}
      dat == {p \in {region(data_base, rw)} : rw_ok /\ accepts(blocks \cup code, p)}
  IN
  /\ Return("init_memory", verdict(ro_ok /\ rw_ok /\ code # {}))
  /\ ro_size' = ro /\ rw_size' = rw
  /\ grow(code \cup dat)
  /\ initFlags' = initFlags \cup {f \in {"HAVE_CODE_BLOCK"} : code # {}}
                            \cup {f \in {"HAVE_DATA_BLOCK"} : dat # {}}
  /\ UNCHANGED <<code_base, data_base, initial_pc, cpu, calls>>

(* Both sizes are tried, then both blocks, whatever failed before.         *)
init_memory(code_size, data_size) ==
  LET ro_ok == ~have_code_block
      rw_ok == ~have_data_block
      ro == IF ro_ok THEN code_size ELSE ro_size
      rw == IF rw_ok THEN data_size ELSE rw_size
      code == {p \in {region(code_base, ro)} : ro_ok /\ accepts(blocks, p)}
      dat == {p \in {region(data_base, rw)} : rw_ok /\ accepts(blocks \cup code, p)}
  IN
  /\ Return("init_memory", verdict(ro_ok /\ rw_ok /\ code # {} /\ dat # {}))
  /\ ro_size' = ro /\ rw_size' = rw
  /\ grow(code \cup dat)
  /\ initFlags' = initFlags \cup {f \in {"HAVE_CODE_BLOCK"} : code # {}}
                            \cup {f \in {"HAVE_DATA_BLOCK"} : dat # {}}
  /\ UNCHANGED <<code_base, data_base, initial_pc, cpu, calls>>

(* A second call meets its own handlers and fails.                         *)
init_isa ==
  /\ Return("init_isa", verdict(~is_flag_set("ISA_INITIALIZED")))
  /\ initFlags' = initFlags \cup {"ISA_INITIALIZED"}
  /\ UNCHANGED <<memory, layout, initial_pc, cpu, calls>>

(* Mutant: the entry point can be changed after it was fixed.              *)
MoveEntry(address) ==
  /\ initial_pc' = address
  /\ initFlags' = initFlags \cup {"PC_INITIALIZED"}

set_entry(address) ==
  /\ initial_pc' = IF is_flag_set("PC_INITIALIZED") THEN initial_pc ELSE address
  /\ initFlags' = initFlags \cup {"PC_INITIALIZED"}

init_pc(address) ==
  /\ Return("init_pc", verdict(~is_flag_set("PC_INITIALIZED")))
  /\ set_entry(address)
  /\ UNCHANGED <<memory, layout, cpu, calls>>

syscall_should_throw(enable) ==
  /\ Return("syscall_should_throw", "")
  /\ syscall_throw_on_error' = enable
  /\ UNCHANGED <<memory, layout, boot, cpu, syscalls>>

(* syscall_registry::register_handler throws on an id already registered.  *)
register_handler(id) ==
  /\ Return("register_handler", IF id \in syscalls THEN "domain_error" ELSE "true")
  /\ syscalls' = syscalls \cup {id}
  /\ UNCHANGED <<memory, layout, boot, cpu, syscall_throw_on_error>>

----------------------------------------------------------------------------
(* Loading a program                                                       *)

image_size(bin) == IF DOMAIN bin = {} THEN 0
                   ELSE 1 + (CHOOSE i \in DOMAIN bin : i + 1 \notin DOMAIN bin)

(* What the loaders are given: images of bytes, and records as hex_record  *)
(* gives them, with 32-bit values.                                         *)
HexTypes == {"data", "eof", "start", "extend", "unknown"}
is_image(bin) == bin \in [0 .. image_size(bin) - 1 -> Byte]
is_record(r) ==
  r.type \in HexTypes /\ r.offset \in Nat /\ r.value \in Address /\ is_image(r.data)
HexRecords == UNION {{file[i] : i \in DOMAIN file} : file \in HexFiles}
LoaderState(records) == [rest : Seq(records), offset : Address, pc_value : Address]
ASSUME ImagesAssumption == \A bin \in Programs : is_image(bin)
ASSUME HexAssumption ==
  /\ HexFiles \subseteq Seq(HexRecords) /\ \A r \in HexRecords : is_record(r)
  /\ NoHex \notin LoaderState(HexRecords)

(* The entry point is fixed before the image is known to fit.              *)
set_program_bin(bin, pc_value) ==
  LET armed == have_code_block /\ ~is_flag_set("PC_INITIALIZED")
      code == find_block(blocks, code_base, image_size(bin))
      ok == armed /\ code # nullptr
  IN
  /\ Return("set_program_bin", verdict(ok))
  /\ IF armed THEN set_entry(pc_value) ELSE UNCHANGED boot
  /\ data' = IF ok THEN store(data, code, code_base, bin) ELSE data
  /\ UNCHANGED <<blocks, layout, cpu, calls>>

set_program_hex(file) ==
  /\ calling = "client"
  /\ IF have_code_block /\ ~is_flag_set("PC_INITIALIZED")
       THEN /\ calling' = "hex"
            /\ hex' = [rest |-> file, offset |-> 0, pc_value |-> 0]
            /\ reply' = [call |-> "set_program_hex", result |-> ""]
       ELSE Return("set_program_hex", "false")
  /\ UNCHANGED <<memory, layout, boot, cpu, calls>>

LoadEnds(result) ==
  /\ calling' = "client"
  /\ hex' = NoHex
  /\ reply' = [call |-> "set_program_hex", result |-> result]

LoadContinues(offs, pc_value) ==
  /\ hex' = [rest |-> Tail(hex.rest), offset |-> offs, pc_value |-> pc_value]
  /\ UNCHANGED <<calling, reply>>

Record == Head(hex.rest)

(* One turn of the loop of set_program(hex_file).  A record without data   *)
(* has a null data pointer, which the loader refuses.                      *)
LoadData ==
  LET address == (hex.offset + Record.offset) % AddrSpace
      size == image_size(Record.data)
      b == find_block(blocks, address, size)
  IN
  /\ Record.valid /\ Record.type = "data"
  /\ IF b # nullptr /\ size # 0
       THEN data' = store(data, b, address, Record.data) /\ LoadContinues(hex.offset, hex.pc_value)
       ELSE UNCHANGED data /\ LoadEnds("false")
  /\ UNCHANGED boot

(* Mutant: a start record fixes the entry point before the file's end.     *)
ArmAtStart ==
  /\ Record.valid
  /\ \/ Record.type = "start" /\ set_entry(Record.value) /\ LoadContinues(hex.offset, Record.value)
     \/ Record.type = "extend" /\ LoadContinues(Record.value, hex.pc_value) /\ UNCHANGED boot
     \/ Record.type = "eof" /\ set_entry(hex.pc_value) /\ LoadEnds("true")
  /\ UNCHANGED data

LoadControl ==
  /\ Record.valid
  /\ \/ Record.type = "start" /\ LoadContinues(hex.offset, Record.value) /\ UNCHANGED boot
     \/ Record.type = "extend" /\ LoadContinues(Record.value, hex.pc_value) /\ UNCHANGED boot
     \/ Record.type = "eof" /\ set_entry(hex.pc_value) /\ LoadEnds("true")
  /\ UNCHANGED data

LoadRefused ==
  /\ hex.rest = <<>> \/ ~Record.valid \/ Record.type = "unknown"
  /\ LoadEnds("false")
  /\ UNCHANGED <<data, boot>>

load_record ==
  /\ calling = "hex"
  /\ LoadRefused \/ (hex.rest # <<>> /\ (LoadData \/ LoadControl))
  /\ UNCHANGED <<blocks, layout, cpu, calls>>

----------------------------------------------------------------------------
(* Running                                                                 *)

fetchable(address) == find_block(blocks, address, OpSize) # nullptr

(* Mutant: the entry point is not checked.                                 *)
StartUnchecked ==
  /\ Return("start", "")
  /\ registers' = [r \in Registers |-> 0]
  /\ pc' = initial_pc
  /\ running' = is_initialized
  /\ UNCHANGED <<memory, layout, boot, calls>>

(* Mutant: a machine that is not ready is started.                         *)
StartAnyway ==
  /\ Return("start", IF fetchable(initial_pc) THEN "" ELSE "code_access_error")
  /\ registers' = [r \in Registers |-> 0]
  /\ pc' = IF fetchable(initial_pc) THEN initial_pc ELSE 0
  /\ running' = IF fetchable(initial_pc) THEN TRUE ELSE running
  /\ UNCHANGED <<memory, layout, boot, calls>>

(* set_pc throws after the registers, pc among them, have been cleared.    *)
start ==
  /\ Return("start", IF fetchable(initial_pc) THEN "" ELSE "code_access_error")
  /\ registers' = [r \in Registers |-> 0]
  /\ pc' = IF fetchable(initial_pc) THEN initial_pc ELSE 0
  /\ running' = IF fetchable(initial_pc) THEN is_initialized ELSE running
  /\ UNCHANGED <<memory, layout, boot, calls>>

run ==
  /\ calling = "client"
  /\ calling' = IF running THEN "run" ELSE "client"
  /\ reply' = [call |-> "run", result |-> ""]
  /\ UNCHANGED <<memory, layout, boot, cpu, calls, hex>>

host_halt ==
  /\ Return("halt", "")
  /\ running' = FALSE
  /\ UNCHANGED <<memory, layout, boot, registers, pc, calls>>

(* An exception leaves run through the host; nothing is rolled back.       *)
Throw(error) ==
  /\ calling' = "client"
  /\ reply' = [call |-> "run", result |-> error]
  /\ UNCHANGED pc

(* Mutant: the next address is not looked up.                              *)
GoAnywhere(address, aligned) ==
  IF aligned
    THEN /\ pc' = address
         /\ calling' = IF running' THEN "run" ELSE "client"
         /\ UNCHANGED reply
    ELSE Throw("code_access_error")

(* The instruction has taken effect; set_pc checks the next address.       *)
GoTo(address, aligned) ==
  IF aligned /\ fetchable(address)
    THEN /\ pc' = address
         /\ calling' = IF running' THEN "run" ELSE "client"
         /\ UNCHANGED reply
    ELSE Throw("code_access_error")

inc_pc == GoTo((pc + OpSize) % AddrSpace, TRUE)
(* Mutant: no alignment test.                                              *)
JumpUnaligned(dest) == GoTo(dest, TRUE)
jump_abs(dest) == GoTo(dest, dest % OpSize = 0)

get_register(r) == IF r = 0 THEN 0 ELSE registers[r]
set_register(r, value) ==
  registers' = IF r = 0 THEN registers ELSE [registers EXCEPT ![r] = value]

fromBytes(buffer, size) ==
  LET value[n \in 0 .. size] ==
        IF n = 0 THEN 0 ELSE value[n - 1] + buffer[n - 1] * ByteCount ^ (n - 1)
  IN  value[size]
toBytes(value, size) == [i \in 0 .. size - 1 |-> (value \div ByteCount ^ i) % ByteCount]

(* get_current, decoded.                                                   *)
Current == decode[fromBytes(load(data, find_block(blocks, pc, OpSize), pc, OpSize), OpSize)]

(* Mutant: no alignment test.                                              *)
AccessUnaligned(address, size) == find_block(blocks, address, size) # nullptr

(* get_ptr_ro, get_ptr_rw: the region of an aligned access, or an error.   *)
accessible(address, size) ==
  /\ address % size = 0
  /\ find_block(blocks, address, size) # nullptr

width(op) ==
  CASE op \in {"lb", "lbu", "sb"} -> 1
    [] op \in {"lh", "lhu", "sh"} -> 2
    [] op \in {"lw", "sw"} -> 4

(* Mutant: the extension is added to the whole word.                       *)
ExtendTooFar(op, value) ==
  LET half == ByteCount ^ width(op) IN
  IF op \in {"lb", "lh"} /\ 2 * value >= half THEN value + AddrSpace ELSE value

(* lb and lh set every bit above the sign bit of what they read.           *)
extended(op, value) ==
  LET half == ByteCount ^ width(op) IN
  IF op \in {"lb", "lh"} /\ 2 * value >= half THEN value + AddrSpace - half ELSE value

exec_value(i) ==
  LET lhs == get_register(i.rs1)
      values == CASE i.kind = "lui" -> {i.imm}
                  [] i.kind = "auipc" -> {to_word(i.imm + pc)}
                  [] i.kind = "imm" -> calculate(i.op, lhs, i.imm)
                  [] i.kind = "reg" -> calculate(i.op, lhs, get_register(i.rs2))
  IN
  /\ i.kind \in {"lui", "auipc", "imm", "reg"}
  /\ \E value \in values : set_register(i.rd, value)
  /\ UNCHANGED <<data, running>>
  /\ inc_pc

(* The link register is written before the jump is found possible.         *)
exec_jump(i) ==
  LET base == get_register(i.rs1) IN
  /\ i.kind \in {"jal", "jalr"}
  /\ set_register(i.rd, to_word(pc + OpSize))
  /\ UNCHANGED <<data, running>>
  /\ \/ i.kind = "jal" /\ jump_abs(to_word(pc + i.imm))
     \/ i.kind = "jalr" /\ LET dest == to_word(base + i.imm) IN jump_abs(dest - (dest % 2))

exec_branch(i) ==
  /\ i.kind = "branch"
  /\ UNCHANGED <<registers, data, running>>
  /\ IF compare(i.op, get_register(i.rs1), get_register(i.rs2))
       THEN jump_abs(to_word(pc + i.imm))
       ELSE inc_pc

(* Mutant: rd holds the address while the access is checked.               *)
LoadThroughRd(i) ==
  LET address == to_word(get_register(i.rs1) + i.imm)
      size == width(i.op)
      buffer == load(data, find_block(blocks, address, size), address, size)
  IN
  /\ i.kind = "load"
  /\ UNCHANGED <<data, running>>
  /\ IF accessible(address, size)
       THEN set_register(i.rd, extended(i.op, fromBytes(buffer, size))) /\ inc_pc
       ELSE Throw("data_access_error") /\ set_register(i.rd, address)

exec_load(i) ==
  LET address == to_word(get_register(i.rs1) + i.imm)
      size == width(i.op)
      buffer == load(data, find_block(blocks, address, size), address, size)
  IN
  /\ i.kind = "load"
  /\ UNCHANGED <<data, running>>
  /\ IF accessible(address, size)
       THEN set_register(i.rd, extended(i.op, fromBytes(buffer, size))) /\ inc_pc
       ELSE Throw("data_access_error") /\ UNCHANGED registers

exec_store(i) ==
  LET address == to_word(get_register(i.rs1) + i.imm)
      size == width(i.op)
      bytes == toBytes(get_register(i.rs2), size)
  IN
  /\ i.kind = "store"
  /\ UNCHANGED <<registers, running>>
  /\ IF accessible(address, size)
       THEN data' = store(data, find_block(blocks, address, size), address, bytes) /\ inc_pc
       ELSE Throw("data_access_error") /\ UNCHANGED data

(* fence and fence.i call barrier, ebreak calls debug: both are empty.     *)
exec_nothing(i) ==
  /\ i.kind \in {"fence", "ebreak"}
  /\ UNCHANGED <<registers, data, running>>
  /\ inc_pc

(* Every CSR access of basic_vm is refused before it changes anything.     *)
exec_csr(i) ==
  /\ i.kind = "csr"
  /\ Throw("control_access_error")
  /\ UNCHANGED <<registers, data, running>>

----------------------------------------------------------------------------
(* ecall                                                                   *)

(* Mutant: an ignored system call is not skipped.                          *)
SyscallRetried ==
  /\ registers[a7] \notin syscalls
  /\ UNCHANGED <<registers, data, running>>
  /\ IF syscall_throw_on_error THEN Throw("unknown_syscall") ELSE GoTo(pc, TRUE)

syscall_unknown ==
  /\ registers[a7] \notin syscalls
  /\ UNCHANGED <<registers, data, running>>
  /\ IF syscall_throw_on_error THEN Throw("unknown_syscall") ELSE inc_pc

syscall_exit ==
  /\ registers[a7] = SysExit
  /\ running' = FALSE
  /\ set_register(a0, 0)
  /\ UNCHANGED data
  /\ inc_pc

syscall_other ==
  /\ registers[a7] \notin {SysRead, SysExit}
  /\ set_register(a0, 0)
  /\ UNCHANGED <<data, running>>
  /\ inc_pc

(* read stores the word i*i at buffer + i for i = 0, 4, 8, ... below the   *)
(* size, and stops at the first word it cannot write.  i wraps to 0 before *)
(* it reaches a size above AddrSpace - OpSize: if every word of the        *)
(* address space is writable, the loop never ends (calling = "read").      *)
countable(size) == size <= AddrSpace - OpSize
readWords(size) == (size + OpSize - 1) \div OpSize
writable(buffer, k) ==
  \A j \in 0 .. k - 1 : accessible(to_word(buffer + j * OpSize), OpSize)
readInto(buffer, k) ==
  LET at(b, i) == (b.start + i - buffer) % AddrSpace
      aligned(b, i) == (b.start + i) - (at(b, i) % OpSize)
      written(b, i) == /\ at(b, i) < k * OpSize
                       /\ find_block(blocks, aligned(b, i), OpSize) = b
      square(n) == to_word(n * n)
  IN  [b \in blocks |->
         [i \in 0 .. b.size - 1 |->
            IF written(b, i)
              THEN toBytes(square(at(b, i) - (at(b, i) % OpSize)), OpSize)[at(b, i) % OpSize]
              ELSE data[b][i]]]

syscall_read ==
  LET buffer == registers[a1]
      n == readWords(registers[a2])
      k == CHOOSE k \in 0 .. n :
             writable(buffer, k) /\ (k = n \/ ~writable(buffer, k + 1))
  IN
  /\ registers[a7] = SysRead
  /\ data' = readInto(buffer, k)
  /\ UNCHANGED running
  /\ IF k # n THEN Throw("data_access_error") /\ UNCHANGED registers
     ELSE IF ~countable(registers[a2]) THEN calling' = "read" /\ UNCHANGED <<registers, pc, reply>>
     ELSE set_register(a0, 0) /\ inc_pc

exec_ecall(i) ==
  /\ i.kind = "ecall"
  /\ \/ syscall_unknown
     \/ registers[a7] \in syscalls /\ (syscall_exit \/ syscall_other \/ syscall_read)

----------------------------------------------------------------------------
exec(i) ==
  \/ exec_value(i) \/ exec_jump(i) \/ exec_branch(i) \/ exec_load(i) \/ exec_store(i)
  \/ exec_nothing(i) \/ exec_csr(i) \/ exec_ecall(i)

(* get_current throws on a misaligned pc, before anything is fetched.      *)
fetch_fails ==
  /\ \/ pc % OpSize # 0 /\ Throw("data_access_error")
     \/ pc % OpSize = 0 /\ Current = NoHandler /\ Throw("unknown_instruction")
  /\ UNCHANGED <<registers, data, running>>

run_step ==
  /\ calling = "run"
  /\ \/ fetch_fails
     \/ pc % OpSize = 0 /\ Current # NoHandler /\ exec(Current)
  /\ UNCHANGED <<blocks, layout, boot, calls, hex>>

----------------------------------------------------------------------------
SetupCall ==
  \/ \E size \in MemSizes : set_ro_size(size) \/ set_rw_size(size)
  \/ \E base \in Bases : set_ro_base(base) \/ set_rw_base(base)
  \/ \E base \in Bases, size \in MemSizes :
       add_memory(base, size) \/ add_code_block(base, size) \/ add_data_block(base, size)
  \/ \E code_size, data_size \in MemSizes : init_memory(code_size, data_size)
  \/ init_isa
  \/ \E address \in EntryPoints : init_pc(address)
  \/ \E bin \in Programs, address \in EntryPoints : set_program_bin(bin, address)
  \/ \E file \in HexFiles : set_program_hex(file)
  \/ \E enable \in BOOLEAN : syscall_should_throw(enable)
  \/ \E id \in SyscallIds : register_handler(id)

Next == SetupCall \/ load_record \/ start \/ run \/ host_halt \/ run_step

(* Once called, run and set_program are loops of one thread: they go on    *)
(* to their next step.  The host owes no further call.                     *)
Spec == Init /\ [][Next]_vars /\ WF_vars(run_step) /\ WF_vars(load_record)
============================================================================
