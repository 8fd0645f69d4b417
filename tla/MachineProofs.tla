--------------------------- MODULE MachineProofs ---------------------------
(***************************************************************************)
(* Theorems about basic_vm for every memory layout, program, instruction   *)
(* encoding and order of host calls.                                       *)
(***************************************************************************)
EXTENDS MachineProperties, AluProofs

(* Among the regions that hold a range one has the lowest start, so        *)
(* find_block fails only when no region holds the range.                   *)
LEMMA FindBlock ==
  ASSUME NEW bs, bs \subseteq Params, NEW a, NEW n
  PROVE  /\ find_block(bs, a, n) # nullptr <=> holders(bs, a, n) # {}
         /\ find_block(bs, a, n) # nullptr => find_block(bs, a, n) \in holders(bs, a, n)
<1> DEFINE H == holders(bs, a, n)
           T == {b.start : b \in H}
<1>1. CASE H = {}
  BY <1>1 DEF find_block
<1>2. CASE H # {}
  <2>1. T \subseteq Nat /\ T # {} /\ H \subseteq Params
    BY <1>2, AddrSpaceAssumption DEF holders, Params, Address
  <2>2. PICK x \in T : \A y \in T : x <= y
    <3> DEFINE R == OpToRel(<, Nat)
    <3>1. IsWellFoundedOn(R, Nat)
      BY NatLessThanWellFounded
    <3>2. \A m, n_ \in Nat : m < n_ => <<m, n_>> \in R
      BY DEF OpToRel
    <3> HIDE DEF R, T
    <3>3. PICK x \in T : \A y \in T : ~ (<<y, x>> \in R)
      BY <2>1, <3>1, WFMin, Zenon
    <3>4. ASSUME NEW y \in T PROVE x <= y
      <4>1. x \in Nat /\ y \in Nat
        BY <2>1
      <4>2. ~ (y < x)
        BY <3>2, <3>3, <4>1
      <4> QED
        BY <4>1, <4>2
    <3> QED
      BY <3>4
  <2>4. \E b \in H : \A c \in H : b.start <= c.start
    BY <2>2
  <2>5. find_block(bs, a, n) \in H
    BY <1>2, <2>4 DEF find_block
  <2> QED
    BY <1>2, <2>1, <2>5, NullptrAssumption
<1> QED
  BY <1>1, <1>2

(* What can be fetched stays so when regions are added.                    *)
LEMMA FetchableGrows ==
  ASSUME NEW bs, NEW cs, bs \subseteq cs, cs \subseteq Params, NEW a,
         find_block(bs, a, OpSize) # nullptr
  PROVE  find_block(cs, a, OpSize) # nullptr
<1>1. holders(bs, a, OpSize) # {}
  BY FindBlock
<1>2. holders(cs, a, OpSize) # {}
  BY <1>1 DEF holders
<1> QED
  BY <1>2, FindBlock

(* The narrowed size makes every requested region well formed.             *)
LEMMA RegionType ==
  ASSUME NEW a \in Address, NEW n \in Nat
  PROVE  region(a, n) \in Params
BY AddrSpaceAssumption DEF region, Params, Address

----------------------------------------------------------------------------
Layout ==
  /\ blocks \subseteq Params
  /\ code_base \in Address /\ data_base \in Address
  /\ ro_size \in Nat /\ rw_size \in Nat

Pending ==
  /\ calling \in {"client", "run", "hex", "read"}
  /\ calling = "read" => running
  /\ calling = "run" => running /\ reply.call = "run" /\ reply.result = ""
  /\ calling = "hex" => /\ reply.call = "set_program_hex" /\ reply.result = ""
                        /\ "PC_INITIALIZED" \notin initFlags

Started == initFlags = Flags /\ fetchable(initial_pc) /\ fetchable(pc)

(* The inductive invariant.  A running machine has all its flags, so its   *)
(* entry point can no longer move; regions only grow, so the entry point   *)
(* and pc stay fetchable.                                                  *)
Inv ==
  /\ Layout
  /\ Pending
  /\ running \in BOOLEAN
  /\ running => Started

(* A newly constructed basic_vm satisfies the invariant.                   *)
LEMMA InvInit == Init => Inv
BY HostAssumption DEF Init, Inv, Layout, Pending

----------------------------------------------------------------------------
(* What a setup call may do.                                               *)

Configures ==
  /\ calling = "client"
  /\ UNCHANGED cpu
  /\ Layout'
  /\ blocks \subseteq blocks'
  /\ initFlags \subseteq initFlags' /\ initFlags' \subseteq initFlags \cup Flags
  /\ "PC_INITIALIZED" \in initFlags => initial_pc' = initial_pc
  /\ reply'.call # "start"

Returns(call) == calling' = "client" /\ reply'.call = call

(* set_ro_size and set_rw_size only configure.                             *)
LEMMA SizeCalls ==
  ASSUME Inv, NEW size \in MemSizes, set_ro_size(size) \/ set_rw_size(size)
  PROVE  Configures /\ (Returns("set_ro_size") \/ Returns("set_rw_size"))
BY HostAssumption
DEF Inv, Layout, Configures, Returns, set_ro_size, set_rw_size, Return, memory, boot, cpu

(* set_ro_base and set_rw_base only configure.                             *)
LEMMA BaseCalls ==
  ASSUME Inv, NEW base \in Bases, set_ro_base(base) \/ set_rw_base(base)
  PROVE  Configures /\ (Returns("set_ro_base") \/ Returns("set_rw_base"))
BY HostAssumption
DEF Inv, Layout, Configures, Returns, set_ro_base, set_rw_base, Return, memory, boot, cpu

(* The calls that add one region never remove one.                         *)
LEMMA BlockCalls ==
  ASSUME Inv, NEW base \in Address, NEW size \in Nat,
         add_memory(base, size) \/ add_code_block(base, size) \/ add_data_block(base, size)
  PROVE  Configures /\ (\/ Returns("add_memory") \/ Returns("add_code_block")
                        \/ Returns("add_data_block"))
<1>1. region(base, size) \in Params
  BY RegionType
<1>2. CASE add_memory(base, size)
  BY <1>1, <1>2
  DEF Inv, Layout, Configures, Returns, add_memory, Return, grow, layout, boot, cpu
<1>3. CASE add_code_block(base, size)
  BY <1>1, <1>3
  DEF Inv, Layout, Configures, Returns, add_code_block, add_block_once, Return, grow,
      layout, cpu, Flags
<1>4. CASE add_data_block(base, size)
  BY <1>1, <1>4
  DEF Inv, Layout, Configures, Returns, add_data_block, add_block_once, Return, grow,
      layout, cpu, Flags
<1> QED
  BY <1>2, <1>3, <1>4

(* init_memory adds regions and sets flags; it clears nothing.             *)
LEMMA InitMemoryCall ==
  ASSUME Inv, NEW code_size \in Nat, NEW data_size \in Nat,
         init_memory(code_size, data_size)
  PROVE  Configures /\ Returns("init_memory")
<1> DEFINE ro == IF ~have_code_block THEN code_size ELSE ro_size
           rw == IF ~have_data_block THEN data_size ELSE rw_size
           code == {p \in {region(code_base, ro)} : ~have_code_block /\ accepts(blocks, p)}
           dat == {p \in {region(data_base, rw)} :
                     ~have_data_block /\ accepts(blocks \cup code, p)}
<1>1. ro \in Nat /\ rw \in Nat /\ code_base \in Address /\ data_base \in Address
  BY DEF Inv, Layout
<1>2. region(code_base, ro) \in Params /\ region(data_base, rw) \in Params
  BY <1>1, RegionType
<1>3. code \subseteq Params /\ dat \subseteq Params
  BY <1>2
<1>4. /\ Return("init_memory", verdict(~have_code_block /\ ~have_data_block
                                         /\ code # {} /\ dat # {}))
      /\ ro_size' = ro /\ rw_size' = rw
      /\ blocks' = blocks \cup (code \cup dat)
      /\ initFlags' = initFlags \cup {f \in {"HAVE_CODE_BLOCK"} : code # {}}
                                \cup {f \in {"HAVE_DATA_BLOCK"} : dat # {}}
      /\ UNCHANGED <<code_base, data_base, initial_pc, cpu>>
  BY DEF init_memory, grow
<1> HIDE DEF ro, rw, code, dat
<1>5. Layout' /\ blocks \subseteq blocks'
  BY <1>1, <1>3, <1>4 DEF Inv, Layout
<1> QED
  BY <1>4, <1>5 DEF Configures, Returns, Return, cpu, Flags

(* The calls that touch no memory only configure.                          *)
LEMMA OtherCalls ==
  ASSUME Inv,
         \/ init_isa
         \/ \E address \in EntryPoints : init_pc(address)
         \/ \E enable \in BOOLEAN : syscall_should_throw(enable)
         \/ \E id \in SyscallIds : register_handler(id)
  PROVE  Configures /\ (\/ Returns("init_isa") \/ Returns("init_pc")
                        \/ Returns("syscall_should_throw") \/ Returns("register_handler"))
<1>1. CASE init_isa
  BY <1>1
  DEF Inv, Layout, Configures, Returns, init_isa, Return, memory, layout, cpu, Flags
<1>2. CASE \E address \in EntryPoints : init_pc(address)
  BY <1>2
  DEF Inv, Layout, Configures, Returns, init_pc, set_entry, is_flag_set, Return,
      memory, layout, cpu, Flags
<1>3. CASE \E enable \in BOOLEAN : syscall_should_throw(enable)
  <2>1. Return("syscall_should_throw", "") /\ UNCHANGED <<memory, layout, boot, cpu>>
    BY <1>3, Zenon DEF syscall_should_throw
  <2> QED
    BY <2>1 DEF Inv, Layout, Configures, Returns, Return, memory, layout, boot, cpu
<1>4. CASE \E id \in SyscallIds : register_handler(id)
  BY <1>4
  DEF Inv, Layout, Configures, Returns, register_handler, Return, memory, layout, boot, cpu
<1> QED
  BY <1>1, <1>2, <1>3, <1>4

(* set_program(bin) fixes an entry point only when there is none.          *)
LEMMA SetProgramBin ==
  ASSUME Inv, NEW bin, NEW address, set_program_bin(bin, address)
  PROVE  Configures /\ Returns("set_program_bin")
<1>1. /\ calling = "client" /\ calling' = "client" /\ reply'.call = "set_program_bin"
      /\ UNCHANGED <<blocks, layout, cpu>>
  BY DEF set_program_bin, Return
<1>2. set_entry(address) \/ UNCHANGED boot
  BY DEF set_program_bin
<1> QED
  BY <1>1, <1>2
  DEF Inv, Layout, Configures, Returns, set_entry, is_flag_set, layout, boot, cpu, Flags

(* set_program(hex_file) begins a load only while no entry point is fixed. *)
LEMMA SetProgramHex ==
  ASSUME Inv, NEW file, set_program_hex(file)
  PROVE  /\ Configures
         /\ \/ Returns("set_program_hex")
            \/ /\ calling' = "hex" /\ "PC_INITIALIZED" \notin initFlags'
               /\ reply'.call = "set_program_hex" /\ reply'.result = ""
<1>1. calling = "client" /\ UNCHANGED <<memory, layout, boot, cpu>>
  BY DEF set_program_hex
<1>2. CASE Return("set_program_hex", "false")
  BY <1>1, <1>2 DEF Inv, Layout, Configures, Returns, Return, memory, layout, boot, cpu
<1>3. CASE have_code_block /\ ~is_flag_set("PC_INITIALIZED")
  <2>1. calling' = "hex" /\ reply' = [call |-> "set_program_hex", result |-> ""]
    BY <1>3 DEF set_program_hex
  <2>2. calling' = "hex" /\ reply'.call = "set_program_hex" /\ reply'.result = ""
    BY <2>1
  <2>3. "PC_INITIALIZED" \notin initFlags
    BY <1>3 DEF is_flag_set
  <2>4. reply'.call # "start"
    BY <2>2
  <2> QED
    BY <1>1, <2>2, <2>3, <2>4 DEF Inv, Layout, Configures, memory, layout, boot, cpu
<1> QED
  BY <1>2, <1>3 DEF set_program_hex

(* Every set-up call configures, and returns or begins a hex load.         *)
LEMMA SetupShape ==
  ASSUME Inv, SetupCall
  PROVE  /\ Configures
         /\ \/ calling' = "client" 
            \/ /\ calling' = "hex" /\ "PC_INITIALIZED" \notin initFlags'
               /\ reply'.call = "set_program_hex" /\ reply'.result = ""
<1>1. CASE \E size \in MemSizes : set_ro_size(size) \/ set_rw_size(size)
  BY <1>1, SizeCalls DEF Returns
<1>2. CASE \E base \in Bases : set_ro_base(base) \/ set_rw_base(base)
  BY <1>2, BaseCalls DEF Returns
<1>3. CASE \E base \in Bases, size \in MemSizes :
        add_memory(base, size) \/ add_code_block(base, size) \/ add_data_block(base, size)
  BY <1>3, HostAssumption, BlockCalls DEF Returns
<1>4. CASE \E code_size, data_size \in MemSizes : init_memory(code_size, data_size)
  BY <1>4, HostAssumption, InitMemoryCall DEF Returns
<1>5. CASE \/ init_isa
           \/ \E address \in EntryPoints : init_pc(address)
           \/ \E enable \in BOOLEAN : syscall_should_throw(enable)
           \/ \E id \in SyscallIds : register_handler(id)
  BY <1>5, OtherCalls DEF Returns
<1>6. CASE \E bin \in Programs, address \in EntryPoints : set_program_bin(bin, address)
  BY <1>6, SetProgramBin DEF Returns
<1>7. CASE \E file \in HexFiles : set_program_hex(file)
  BY <1>7, SetProgramHex DEF Returns
<1> QED
  BY <1>1, <1>2, <1>3, <1>4, <1>5, <1>6, <1>7 DEF SetupCall

----------------------------------------------------------------------------
(* What one record of a hex file may do: go on, refuse, or arm the machine *)
(* and succeed.                                                            *)
LEMMA LoadShape ==
  ASSUME load_record
  PROVE  /\ calling = "hex" /\ UNCHANGED <<blocks, layout, cpu>>
         /\ \/ UNCHANGED boot /\ calling' = "hex" /\ UNCHANGED reply
            \/ /\ UNCHANGED boot /\ calling' = "client"
               /\ reply'.call = "set_program_hex" /\ reply'.result = "false"
            \/ /\ initFlags' = initFlags \cup {"PC_INITIALIZED"} /\ calling' = "client"
               /\ reply'.call = "set_program_hex" /\ reply'.result = "true"
<1>1. calling = "hex" /\ UNCHANGED <<blocks, layout, cpu>>
  BY DEF load_record
<1>2. CASE LoadRefused
  BY <1>1, <1>2 DEF LoadRefused, LoadEnds, boot
<1>3. CASE LoadData
  BY <1>1, <1>3 DEF LoadData, LoadEnds, LoadContinues, boot
<1>4. CASE LoadControl
  BY <1>1, <1>4 DEF LoadControl, LoadEnds, LoadContinues, boot, set_entry
<1> QED
  BY <1>1, <1>2, <1>3, <1>4 DEF load_record

----------------------------------------------------------------------------
(* What one instruction may do.                                            *)

Advances ==
  /\ fetchable(pc)'
  /\ calling' = IF running' THEN "run" ELSE "client"
  /\ UNCHANGED reply

Throws ==
  /\ UNCHANGED pc
  /\ calling' = "client"
  /\ reply'.call = "run" /\ reply'.result # "" /\ reply'.result # "true"

(* read goes on for ever.                                                  *)
Hangs ==
  /\ UNCHANGED <<pc, reply, running>>
  /\ calling' = "read"

Errors == {"code_access_error", "data_access_error", "control_access_error",
           "unknown_syscall", "unknown_instruction"}

(* An exception leaves run with the error as the answer.                   *)
LEMMA ThrowShape ==
  ASSUME NEW error \in Errors, Throw(error)
  PROVE  Throws /\ reply'.result = error
<1>1. reply'.result = error /\ reply'.call = "run"
  BY DEF Throw
<1>2. error # "" /\ error # "true"
  BY DEF Errors
<1> QED
  BY <1>1, <1>2 DEF Throw, Throws

(* set_pc, which every instruction ends in, moves to a fetchable address   *)
(* or throws.                                                              *)
LEMMA GoToShape ==
  ASSUME NEW address, NEW aligned, GoTo(address, aligned), UNCHANGED blocks
  PROVE  Advances \/ (Throws /\ reply'.result = "code_access_error")
<1>1. CASE aligned /\ fetchable(address)
  BY <1>1 DEF GoTo, Advances, fetchable
<1>2. CASE Throw("code_access_error")
  BY <1>2, ThrowShape DEF Errors
<1> QED
  BY <1>1, <1>2 DEF GoTo

(* An instruction only stops the machine, and either moves to an address   *)
(* that can be fetched, throws out of run with pc in place, or never ends. *)
LEMMA ExecShape ==
  ASSUME NEW i, exec(i), UNCHANGED blocks
  PROVE  (Advances \/ Throws \/ Hangs) /\ running' \in {running, FALSE}
<1>1. \A error \in {"data_access_error", "control_access_error", "unknown_syscall"} :
        Throw(error) => Throws
  BY ThrowShape DEF Errors
<1>2. inc_pc => Advances \/ Throws
  BY GoToShape DEF inc_pc
<1>3. \A dest : jump_abs(dest) => Advances \/ Throws
  BY GoToShape DEF jump_abs
<1>4. CASE exec_value(i)
  BY <1>2, <1>4 DEF exec_value
<1>5. CASE exec_jump(i)
  BY <1>3, <1>5 DEF exec_jump
<1>6. CASE exec_branch(i)
  BY <1>2, <1>3, <1>6 DEF exec_branch
<1>7. CASE exec_load(i)
  BY <1>1, <1>2, <1>7 DEF exec_load
<1>8. CASE exec_store(i)
  BY <1>1, <1>2, <1>8 DEF exec_store
<1>9. CASE exec_nothing(i)
  BY <1>2, <1>9 DEF exec_nothing
<1>10. CASE exec_csr(i)
  BY <1>1, <1>10 DEF exec_csr
<1>11. CASE exec_ecall(i)
  <2>1. CASE syscall_unknown
    BY <1>1, <1>2, <2>1 DEF syscall_unknown
  <2>2. CASE syscall_exit
    BY <1>2, <2>2 DEF syscall_exit
  <2>3. CASE syscall_other
    BY <1>2, <2>3 DEF syscall_other
  <2>4. CASE syscall_read
    BY <1>1, <1>2, <2>4 DEF syscall_read, Hangs
  <2> QED
    BY <1>11, <2>1, <2>2, <2>3, <2>4 DEF exec_ecall
<1> QED
  BY <1>4, <1>5, <1>6, <1>7, <1>8, <1>9, <1>10, <1>11 DEF exec

(* run_step, the failed fetch included, has the shape of an instruction.   *)
LEMMA StepShape ==
  ASSUME run_step
  PROVE  /\ calling = "run" /\ UNCHANGED <<blocks, layout, boot>>
         /\ Advances \/ Throws \/ Hangs
         /\ running' \in {running, FALSE}
<1>1. calling = "run" /\ UNCHANGED <<blocks, layout, boot>>
  BY DEF run_step
<1>2. CASE fetch_fails
  BY <1>1, <1>2, ThrowShape DEF fetch_fails, Errors
<1>3. CASE exec(Current)
  BY <1>1, <1>3, ExecShape
<1> QED
  BY <1>1, <1>2, <1>3 DEF run_step

----------------------------------------------------------------------------
(* Every step keeps the invariant.                                         *)
LEMMA InvStep ==
  ASSUME Inv, [Next]_vars
  PROVE  Inv'
<1>1. CASE SetupCall
  <2>1. Configures /\ Pending'
    BY <1>1, SetupShape DEF Pending, Configures
  <2>2. running => Started'
    <3> SUFFICES ASSUME running PROVE Started'
      OBVIOUS
    <3>1. Started /\ initFlags' = Flags
      BY <2>1 DEF Inv, Started, Configures
    <3>2. initial_pc' = initial_pc /\ pc' = pc
      BY <2>1, <3>1 DEF Configures, Started, Flags, cpu
    <3>3. fetchable(initial_pc)' /\ fetchable(pc)'
      BY <2>1, <3>1, <3>2, FetchableGrows DEF Configures, Started, fetchable, Layout
    <3> QED
      BY <3>1, <3>3 DEF Started
  <2> QED
    BY <2>1, <2>2 DEF Inv, Configures, cpu
<1>2. CASE load_record
  <2>1. ~running
    BY <1>2, LoadShape DEF Inv, Pending, Started, Flags
  <2>2. Pending'
    BY <1>2, LoadShape DEF Inv, Pending, boot
  <2> QED
    BY <1>2, <2>1, <2>2, LoadShape DEF Inv, Layout, layout, cpu
<1>3. CASE start
  <2>1. Layout' /\ Pending'
    BY <1>3 DEF start, Return, Inv, Layout, Pending, memory, layout, boot
  <2>2. CASE fetchable(initial_pc)
    <3>1. running' = is_initialized /\ pc' = initial_pc /\ UNCHANGED <<blocks, boot>>
      BY <1>3, <2>2 DEF start, memory
    <3>2. running' => Started'
      BY <2>2, <3>1 DEF Started, is_initialized, boot, fetchable
    <3>3. running' \in BOOLEAN
      BY <3>1 DEF is_initialized
    <3> QED
      BY <2>1, <3>2, <3>3 DEF Inv
  <2>3. CASE ~fetchable(initial_pc)
    <3>1. running = FALSE /\ running' = running
      BY <1>3, <2>3 DEF start, Inv, Started
    <3> QED
      BY <2>1, <3>1 DEF Inv
  <2> QED
    BY <2>2, <2>3
<1>4. CASE run
  BY <1>4 DEF run, Inv, Layout, Pending, Started, fetchable, memory, layout, boot, cpu
<1>5. CASE host_halt
  BY <1>5 DEF host_halt, Return, Inv, Layout, Pending, memory, layout, boot
<1>6. CASE run_step
  <2>1. /\ calling = "run" /\ UNCHANGED <<blocks, layout, boot>>
        /\ (Advances \/ Throws \/ Hangs) /\ running' \in {running, FALSE}
    BY <1>6, StepShape
  <2>2. Started /\ running = TRUE
    BY <2>1 DEF Inv, Pending
  <2>3. fetchable(pc)'
    BY <2>1, <2>2 DEF Advances, Throws, Hangs, Started, fetchable
  <2>4. Started'
    BY <2>1, <2>2, <2>3 DEF Started, boot, fetchable
  <2>5. Pending'
    <3>1. CASE Advances
      BY <2>1, <2>2, <3>1 DEF Inv, Pending, Advances
    <3>2. CASE Throws
      BY <2>1, <2>2, <3>2 DEF Inv, Pending, Throws
    <3>3. CASE Hangs
      BY <2>1, <2>2, <3>3 DEF Inv, Pending, Hangs
    <3> QED
      BY <2>1, <3>1, <3>2, <3>3
  <2>6. Layout' /\ running' \in BOOLEAN
    BY <2>1, <2>2 DEF Inv, Layout, layout
  <2> QED
    BY <2>4, <2>5, <2>6 DEF Inv
<1>7. CASE UNCHANGED vars
  BY <1>7 DEF vars, memory, layout, boot, cpu, Inv, Layout, Pending, Started, fetchable
<1> QED
  BY <1>1, <1>2, <1>3, <1>4, <1>5, <1>6, <1>7 DEF Next

(* get_current never dereferences a null region: whatever the host does    *)
(* and wherever an exception left the machine, a running machine has its   *)
(* instruction in memory.                                                  *)
THEOREM FetchIsSafe == Spec => []FetchSafe
<1>1. Inv /\ [Next]_vars => Inv'
  BY InvStep
<1>2. Inv => FetchSafe
  BY DEF Inv, Started, FetchSafe
<1> QED
  BY InvInit, <1>1, <1>2, PTL DEF Spec

(* Only a call of start leaves "start" as the last call.                   *)
LEMMA OnlyStartSaysStart ==
  ASSUME Inv, Next, ~start, calling # "client" \/ reply'.call = "start"
  PROVE  load_record \/ run_step
<1>1. CASE SetupCall
  BY <1>1, SetupShape DEF Configures
<1>2. CASE run
  BY <1>2 DEF run
<1>3. CASE host_halt
  BY <1>3 DEF host_halt, Return
<1> QED
  BY <1>1, <1>2, <1>3 DEF Next

(* After a start that threw the machine is stopped, although start leaves  *)
(* the running flag of an earlier start alone.                             *)
THEOREM FailedStartIsStopped == Spec => FailedStartStops
<1>1. Inv /\ [Next]_vars => Inv'
  BY InvStep
<1>2. Inv /\ [Next]_vars => [reply'.call = "start" /\ reply'.result # "" => ~running']_vars
  <2> SUFFICES ASSUME Inv, Next, reply'.call = "start", reply'.result # ""
               PROVE  ~running'
    OBVIOUS
  <2>1. CASE start
    <3>1. ~fetchable(initial_pc)
      BY <2>1 DEF start, Return
    <3>2. ~running
      BY <3>1 DEF Inv, Started
    <3> QED
      BY <2>1, <3>1, <3>2 DEF start
  <2>2. CASE ~start
    <3>1. load_record \/ run_step
      BY <2>2, OnlyStartSaysStart
    <3>2. CASE load_record
      BY <3>2, LoadShape DEF Inv, Pending
    <3>3. CASE run_step
      BY <3>3, StepShape DEF Inv, Pending, Advances, Throws, Hangs
    <3> QED
      BY <3>1, <3>2, <3>3
  <2> QED
    BY <2>1, <2>2
<1> QED
  BY InvInit, <1>1, <1>2, PTL DEF Spec, FailedStartStops

----------------------------------------------------------------------------
(* The exceptions of one instruction, and what it may have changed.        *)

(* inc_pc throws only when the word after the instruction is not mapped.   *)
LEMMA IncThrows ==
  ASSUME inc_pc, reply' # reply
  PROVE  NextMissing
BY DEF inc_pc, GoTo, Throw, NextMissing

(* An instruction that throws has changed only what Precise allows.        *)
LEMMA ExecPrecise ==
  ASSUME NEW i, exec(i), reply' # reply
  PROVE  Precise(i)
<1>1. CASE exec_value(i)
  BY <1>1, IncThrows DEF exec_value, Precise
<1>2. CASE exec_jump(i)
  BY <1>2 DEF exec_jump, Precise
<1>3. CASE exec_branch(i)
  BY <1>3 DEF exec_branch, Precise
<1>4. CASE exec_load(i)
  BY <1>4, IncThrows DEF exec_load, Precise
<1>5. CASE exec_store(i)
  BY <1>5, IncThrows DEF exec_store, Precise
<1>6. CASE exec_nothing(i)
  BY <1>6 DEF exec_nothing, Precise
<1>7. CASE exec_csr(i)
  BY <1>7 DEF exec_csr, Precise
<1>8. CASE exec_ecall(i)
  <2>1. CASE syscall_unknown
    BY <2>1 DEF syscall_unknown, Precise
  <2>2. CASE syscall_exit
    BY <2>2, IncThrows DEF syscall_exit, Precise
  <2>3. CASE syscall_other
    BY <2>3, IncThrows DEF syscall_other, Precise
  <2>4. CASE syscall_read
    BY <1>8, <2>4, IncThrows DEF exec_ecall, syscall_read, Precise
  <2> QED
    BY <1>8, <2>1, <2>2, <2>3, <2>4 DEF exec_ecall
<1> QED
  BY <1>1, <1>2, <1>3, <1>4, <1>5, <1>6, <1>7, <1>8 DEF exec

(* Faults are precise but for the three named exceptions, for every        *)
(* instruction encoding and every memory layout.                           *)
THEOREM FaultIsPrecise == Spec => FaultPrecise
<1>1. Inv /\ [Next]_vars => Inv'
  BY InvStep
<1>2. Inv /\ [Next]_vars =>
        [Faulted => pc' = pc /\ Precise(Current)]_vars
  <2> SUFFICES ASSUME Inv, Next, Faulted PROVE pc' = pc /\ Precise(Current)
    OBVIOUS
  <2>1. run_step
    <3>1. ~start
      BY DEF start, Return, Faulted
    <3> QED
      BY <3>1, OnlyStartSaysStart, LoadShape DEF Faulted
  <2>2. calling = "run" /\ reply' # reply
    BY DEF Faulted, Inv, Pending
  <2>3. pc' = pc
    BY <2>1, <2>2, StepShape DEF Advances, Throws, Hangs
  <2>4. CASE fetch_fails
    BY <2>3, <2>4 DEF fetch_fails, Precise
  <2>5. CASE exec(Current)
    BY <2>2, <2>3, <2>5, ExecPrecise
  <2> QED
    BY <2>1, <2>4, <2>5 DEF run_step
<1> QED
  BY InvInit, <1>1, <1>2, PTL DEF Spec, FaultPrecise

----------------------------------------------------------------------------
(* Only a call of init_memory leaves "init_memory" as the last call.       *)
LEMMA OnlyInitMemorySays ==
  ASSUME Inv, Next, reply'.call = "init_memory"
  PROVE  \E code_size, data_size \in MemSizes : init_memory(code_size, data_size)
<1>1. CASE SetupCall
  <2>1. ASSUME NEW size \in MemSizes, set_ro_size(size) \/ set_rw_size(size)
        PROVE  FALSE
    BY <2>1, SizeCalls DEF Returns
  <2>2. ASSUME NEW base \in Bases, set_ro_base(base) \/ set_rw_base(base)
        PROVE  FALSE
    BY <2>2, BaseCalls DEF Returns
  <2>3. ASSUME NEW base \in Bases, NEW size \in MemSizes,
               add_memory(base, size) \/ add_code_block(base, size) \/ add_data_block(base, size)
        PROVE  FALSE
    BY <2>3, HostAssumption, BlockCalls DEF Returns
  <2>4. ASSUME \/ init_isa
               \/ \E address \in EntryPoints : init_pc(address)
               \/ \E enable \in BOOLEAN : syscall_should_throw(enable)
               \/ \E id \in SyscallIds : register_handler(id)
        PROVE  FALSE
    BY <2>4, OtherCalls DEF Returns
  <2>5. ASSUME NEW bin, NEW address, set_program_bin(bin, address)
        PROVE  FALSE
    BY <2>5, SetProgramBin DEF Returns
  <2>6. ASSUME NEW file, set_program_hex(file)
        PROVE  FALSE
    BY <2>6, SetProgramHex DEF Returns
  <2> QED
    BY <1>1, <2>1, <2>2, <2>3, <2>4, <2>5, <2>6 DEF SetupCall
<1>2. CASE load_record
  BY <1>2, LoadShape DEF Inv, Pending
<1>3. CASE run_step
  BY <1>3, StepShape DEF Inv, Pending, Advances, Throws, Hangs
<1>4. CASE start
  BY <1>4 DEF start, Return
<1>5. CASE run
  BY <1>5 DEF run
<1>6. CASE host_halt
  BY <1>6 DEF host_halt, Return
<1> QED
  BY <1>1, <1>2, <1>3, <1>4, <1>5, <1>6 DEF Next

(* The answer of one call of init_memory.                                  *)
LEMMA InitMemoryAnswer ==
  ASSUME NEW code_size, NEW data_size, init_memory(code_size, data_size)
  PROVE  reply'.result = "true"
           <=> BlockFlags \cap initFlags = {} /\ BlockFlags \subseteq initFlags'
<1> DEFINE
      ro == IF ~have_code_block THEN code_size ELSE ro_size
      rw == IF ~have_data_block THEN data_size ELSE rw_size
      code == {p \in {region(code_base, ro)} : ~have_code_block /\ accepts(blocks, p)}
      dat == {p \in {region(data_base, rw)} :
                ~have_data_block /\ accepts(blocks \cup code, p)}
<1>1. /\ Return("init_memory", verdict(~have_code_block /\ ~have_data_block
                                         /\ code # {} /\ dat # {}))
      /\ initFlags' = initFlags \cup {f \in {"HAVE_CODE_BLOCK"} : code # {}}
                                \cup {f \in {"HAVE_DATA_BLOCK"} : dat # {}}
  BY DEF init_memory
<1> HIDE DEF ro, rw, code, dat
<1>2. reply'.result = "true"
        <=> ~have_code_block /\ ~have_data_block /\ code # {} /\ dat # {}
  BY <1>1 DEF Return, verdict
<1> QED
  BY <1>1, <1>2 DEF BlockFlags, have_code_block, have_data_block, is_flag_set

(* init_memory answers true exactly when it added both blocks, for every   *)
(* layout and whatever was added or refused before.                        *)
THEOREM InitMemoryIsTruthful == Spec => InitMemoryVerdict
<1>1. Inv /\ [Next]_vars => Inv'
  BY InvStep
<1>2. Inv /\ [Next]_vars =>
        [reply'.call = "init_memory" =>
           (reply'.result = "true"
              <=> BlockFlags \cap initFlags = {} /\ BlockFlags \subseteq initFlags')]_vars
  BY OnlyInitMemorySays, InitMemoryAnswer
<1> QED
  BY InvInit, <1>1, <1>2, PTL DEF Spec, InitMemoryVerdict

(* A hex load that fails, at any record, leaves the machine unarmed, and   *)
(* one that succeeds arms it.                                              *)
THEOREM HexLoadArmsLast == Spec => HexLoadArms
<1>1. Inv /\ [Next]_vars => Inv'
  BY InvStep
<1>2. Inv /\ [Next]_vars =>
        [calling = "hex" =>
           ("PC_INITIALIZED" \in initFlags' <=> reply'.result = "true")]_vars
  <2> SUFFICES ASSUME Inv, Next, calling = "hex"
               PROVE  "PC_INITIALIZED" \in initFlags' <=> reply'.result = "true"
    OBVIOUS
  <2>1. load_record
    <3>1. ~start
      BY DEF start, Return
    <3> QED
      BY <3>1, OnlyStartSaysStart, StepShape
  <2>2. "PC_INITIALIZED" \notin initFlags /\ reply.result = ""
    BY DEF Inv, Pending
  <2> QED
    BY <2>1, <2>2, LoadShape DEF boot
<1> QED
  BY InvInit, <1>1, <1>2, PTL DEF Spec, HexLoadArms

----------------------------------------------------------------------------
(* The refinement mapping.                                                 *)
LEMMA LifecycleStep ==
  ASSUME Inv, [Next]_vars
  PROVE  [Lifecycle!Next]_Lifecycle!vars
<1> DEFINE ready == is_initialized
           inRun == calling = "run" \/ calling = "read"
<1>1. CASE SetupCall
  <2>1. ~inRun /\ UNCHANGED running
    BY <1>1, SetupShape DEF Configures, cpu
  <2>2. inRun' = inRun
    BY <1>1, <2>1, SetupShape
  <2>3. ready' \in {ready, TRUE}
    BY <1>1, SetupShape DEF Configures, is_initialized
  <2> QED
    BY <2>1, <2>2, <2>3 DEF Lifecycle!Next, Lifecycle!Configure
<1>2. CASE load_record
  <2>1. ~inRun /\ UNCHANGED running
    BY <1>2, LoadShape DEF cpu
  <2>2. inRun' = inRun
    BY <1>2, <2>1, LoadShape
  <2>3. ready' \in {ready, TRUE}
    BY <1>2, LoadShape DEF boot, is_initialized, Flags
  <2> QED
    BY <2>1, <2>2, <2>3 DEF Lifecycle!Next, Lifecycle!Configure
<1>3. CASE start
  <2>1. ~inRun /\ inRun' = inRun /\ UNCHANGED ready
    BY <1>3 DEF start, Return, boot, is_initialized
  <2>2. running' = ready \/ UNCHANGED running
    BY <1>3 DEF start
  <2> QED
    BY <2>1, <2>2 DEF Lifecycle!Next, Lifecycle!Start, Lifecycle!vars
<1>4. CASE run
  <2>1. ~inRun /\ inRun' = running /\ UNCHANGED ready /\ UNCHANGED running
    BY <1>4 DEF run, boot, cpu, is_initialized, Inv
  <2> QED
    BY <2>1 DEF Lifecycle!Next, Lifecycle!Run
<1>5. CASE host_halt
  <2>1. ~inRun /\ inRun' = inRun /\ UNCHANGED ready /\ running' = FALSE
    BY <1>5 DEF host_halt, Return, boot, is_initialized
  <2> QED
    BY <2>1 DEF Lifecycle!Next, Lifecycle!Stop
<1>6. CASE run_step
  <2>1. inRun /\ running /\ UNCHANGED ready /\ running' \in BOOLEAN
    BY <1>6, StepShape DEF Inv, Pending, boot, is_initialized
  <2>2. inRun' => running'
    BY <1>6, StepShape DEF Advances, Throws, Hangs, Inv, Pending
  <2> QED
    BY <2>1, <2>2 DEF Lifecycle!Next, Lifecycle!Step
<1>7. CASE UNCHANGED vars
  BY <1>7 DEF vars, boot, cpu, is_initialized, Lifecycle!vars
<1> QED
  BY <1>1, <1>2, <1>3, <1>4, <1>5, <1>6, <1>7 DEF Next

(* basic_vm implements the life cycle of VmLifecycle: it runs only when    *)
(* ready, and executes only inside run and only while running.             *)
THEOREM MachineImplementsLifecycle == Spec => LifecycleSpec
<1>1. Init => Lifecycle!Init
  BY DEF Init, Lifecycle!Init, is_initialized, Flags
<1>2. Inv /\ [Next]_vars => Inv'
  BY InvStep
<1>3. Inv /\ [Next]_vars => [Lifecycle!Next]_Lifecycle!vars
  BY LifecycleStep
<1> QED
  BY InvInit, <1>1, <1>2, <1>3, PTL DEF Spec, LifecycleSpec, Lifecycle!Spec
----------------------------------------------------------------------------
(* Bytes and words                                                         *)

(* The powers of the byte size, up to the size of a word.                  *)
LEMMA ByteCountPowers ==
  /\ ByteCount \in Nat \ {0}
  /\ ByteCount ^ 0 = 1
  /\ \A n \in 0 .. OpSize : ByteCount ^ n \in Nat \ {0} /\ ByteCount ^ n <= AddrSpace
  /\ \A n \in 0 .. OpSize - 1 : ByteCount ^ (n + 1) = ByteCount * ByteCount ^ n
<1> DEFINE B == ByteCount
<1>1. B \in Nat \ {0}
  BY ByteCountAssumption, ByteAssumption
<1>2. B ^ 0 = 1 /\ \A n \in 0 .. OpSize - 1 : B ^ (n + 1) = B * B ^ n
  BY ByteCountAssumption DEF Powers
<1>3. B ^ 1 = B * B ^ 0 /\ B ^ 2 = B * B ^ 1 /\ B ^ 3 = B * B ^ 2 /\ B ^ 4 = B * B ^ 3
  <2>1. B ^ (0 + 1) = B * B ^ 0 /\ B ^ (1 + 1) = B * B ^ 1 /\ B ^ (2 + 1) = B * B ^ 2
        /\ B ^ (3 + 1) = B * B ^ 3
    BY <1>2 DEF OpSize
  <2> QED
    BY <2>1
<1>4. \A x, y \in Nat \ {0} : x * y \in Nat \ {0} /\ y <= x * y
  OBVIOUS
<1>5. B ^ 1 = B
  BY <1>1, <1>2, <1>3
<1>6. /\ B ^ 2 \in Nat \ {0} /\ B ^ 1 <= B ^ 2
      /\ B ^ 3 \in Nat \ {0} /\ B ^ 2 <= B ^ 3
      /\ B ^ 4 \in Nat \ {0} /\ B ^ 3 <= B ^ 4
  BY <1>1, <1>3, <1>4, <1>5
<1>7. AddrSpace = B ^ 4
  BY WidthAssumption DEF OpSize
<1>8. ASSUME NEW n \in 0 .. OpSize
      PROVE  B ^ n \in Nat \ {0} /\ B ^ n <= AddrSpace
  <2>1. n = 0 \/ n = 1 \/ n = 2 \/ n = 3 \/ n = 4
    BY DEF OpSize
  <2> HIDE DEF B
  <2> QED
    BY <1>1, <1>2, <1>5, <1>6, <1>7, <2>1
<1> QED
  BY <1>1, <1>2, <1>8

(* The address space is a whole number of words.                           *)
LEMMA AddrSpaceWords == AddrSpace % OpSize = 0
<1>1. PICK h \in Nat : AddrSpace = 2 * h
  BY WordCountType, WidthAssumption
<1> DEFINE B == ByteCount
           Q == B * B
<1>2. B \in Nat /\ Q \in Nat
  BY ByteCountPowers
<1>3. AddrSpace = Q * Q
  <2>1. /\ B ^ (0 + 1) = B * B ^ 0 /\ B ^ (1 + 1) = B * B ^ 1 /\ B ^ (2 + 1) = B * B ^ 2
        /\ B ^ (3 + 1) = B * B ^ 3 /\ B ^ 0 = 1
    BY ByteCountPowers DEF OpSize
  <2>2. B ^ 1 = B /\ B ^ 2 = B * B /\ B ^ 3 = B * (B * B) /\ B ^ 4 = B * (B * (B * B))
    BY <1>2, <2>1
  <2> QED
    BY <1>2, <2>2, WidthAssumption DEF OpSize
<1>4. \A x \in Nat : \E c \in Nat : x = 2 * c \/ x = 2 * c + 1
  <2> SUFFICES ASSUME NEW x \in Nat PROVE \E c \in Nat : x = 2 * c \/ x = 2 * c + 1
    OBVIOUS
  <2>1. x \div 2 \in Nat /\ (x = 2 * (x \div 2) \/ x = 2 * (x \div 2) + 1)
    OBVIOUS
  <2> QED
    BY <2>1
<1>5. \A c \in Nat : (2 * c + 1) * (2 * c + 1) = 2 * (2 * c * c + 2 * c) + 1
  OBVIOUS
<1>6. PICK c \in Nat : Q = 2 * c
  <2>1. PICK c \in Nat : Q = 2 * c \/ Q = 2 * c + 1
    BY <1>2, <1>4
  <2>2. ASSUME Q = 2 * c + 1 PROVE FALSE
    <3>1. AddrSpace = 2 * (2 * c * c + 2 * c) + 1
      BY <1>3, <1>5, <2>2
    <3>2. 2 * c * c + 2 * c \in Nat
      OBVIOUS
    <3> QED
      BY <1>1, <3>1, <3>2
  <2> QED
    BY <2>1, <2>2
<1>7. AddrSpace = 4 * (c * c) /\ c * c \in Nat
  BY <1>3, <1>6
<1> QED
  BY <1>7 DEF OpSize
Buffer(n) == [0 .. n - 1 -> Byte]

(* fromBytes satisfies its recursion: it is a sum of bytes times powers.   *)
LEMMA FromBytesSum ==
  ASSUME NEW size \in 0 .. OpSize, NEW buffer
  PROVE  \E value : /\ fromBytes(buffer, size) = value[size]
                    /\ value[0] = 0
                    /\ \A n \in 0 .. size - 1 :
                         value[n + 1] = value[n] + buffer[n] * ByteCount ^ n
<1> DEFINE term(n) == buffer[n] * ByteCount ^ n
           Solves(f, N) == f = [n \in 0 .. N |-> IF n = 0 THEN 0 ELSE f[n - 1] + term(n - 1)]
           S == {N \in 0 .. size : \E f : Solves(f, N)}
<1>0. size \in Nat /\ size <= OpSize /\ 0 \in 0 .. size
  BY DEF OpSize
<1>1. 0 \in S
  <2> DEFINE f == [n \in 0 .. 0 |-> 0]
  <2>1. Solves(f, 0)
    OBVIOUS
  <2> HIDE DEF f, Solves
  <2> QED
    BY <1>0, <2>1
<1>2. ASSUME NEW N \in 0 .. size - 1, N \in S PROVE N + 1 \in S
  <2>1. PICK f : Solves(f, N)
    BY <1>2
  <2> DEFINE g == [n \in 0 .. N + 1 |-> IF n <= N THEN f[n] ELSE f[N] + term(N)]
  <2> HIDE DEF term
  <2>2. ASSUME NEW n \in 0 .. N + 1
        PROVE  g[n] = IF n = 0 THEN 0 ELSE g[n - 1] + term(n - 1)
    <3>1. CASE n <= N
      BY <2>1, <3>1
    <3>2. CASE n = N + 1
      <4>1. n - 1 = N
        BY <3>2
      <4> QED
        BY <3>2, <4>1
    <3> QED
      BY <3>1, <3>2
  <2>3. Solves(g, N + 1)
    BY <2>2
  <2>4. N + 1 \in 0 .. size
    BY <1>0
  <2> HIDE DEF g, Solves
  <2> QED
    BY <2>3, <2>4
<1> HIDE DEF S
<1>3. size \in S
  BY <1>0, <1>1, <1>2, BoundedInduction
<1> DEFINE value == CHOOSE f : Solves(f, size)
<1>4. Solves(value, size)
  <2>1. PICK f : Solves(f, size)
    BY <1>3 DEF S
  <2> HIDE DEF Solves
  <2> QED
    BY <2>1
<1>5. fromBytes(buffer, size) = value[size]
  BY DEF fromBytes
<1> HIDE DEF value, term
<1>6. value[0] = 0 /\ \A n \in 0 .. size - 1 : value[n + 1] = value[n] + term(n)
  BY <1>0, <1>4
<1> QED
  BY <1>5, <1>6 DEF term

(* It is less than the next power.                                         *)
LEMMA FromBytesBound ==
  ASSUME NEW size \in 0 .. OpSize, NEW buffer \in Buffer(size)
  PROVE  fromBytes(buffer, size) \in 0 .. ByteCount ^ size - 1
<1>0. size \in Nat /\ size <= OpSize /\ 0 \in 0 .. size
  BY DEF OpSize
<1>1. PICK value : /\ fromBytes(buffer, size) = value[size]
                   /\ value[0] = 0
                   /\ \A n \in 0 .. size - 1 :
                        value[n + 1] = value[n] + buffer[n] * ByteCount ^ n
  BY FromBytesSum
<1> DEFINE T == {n \in 0 .. size : value[n] \in 0 .. ByteCount ^ n - 1}
<1>2. 0 \in T
  BY <1>0, <1>1, ByteCountPowers
<1>3. ASSUME NEW n \in 0 .. size - 1, n \in T PROVE n + 1 \in T
  <2>1. /\ n \in 0 .. OpSize - 1 /\ n \in 0 .. OpSize /\ n + 1 \in 0 .. size
        /\ value[n] \in 0 .. ByteCount ^ n - 1
    BY <1>0, <1>3 DEF OpSize
  <2>2. ByteCount ^ n \in Nat \ {0} /\ ByteCount ^ (n + 1) = ByteCount * ByteCount ^ n
    BY <2>1, ByteCountPowers
  <2>3. buffer[n] \in 0 .. ByteCount - 1 /\ ByteCount \in Nat
    BY ByteCountAssumption DEF Buffer
  <2>4. \A p \in Nat : \A v \in 0 .. p - 1, b \in 0 .. ByteCount - 1 :
          v + b * p \in 0 .. ByteCount * p - 1
    <3> SUFFICES ASSUME NEW p \in Nat, NEW v \in 0 .. p - 1, NEW b \in 0 .. ByteCount - 1
                 PROVE  v + b * p \in 0 .. ByteCount * p - 1
      OBVIOUS
    <3>1. PICK k \in Nat : ByteCount = b + 1 + k
      <4>1. ByteCount - b - 1 \in Nat /\ ByteCount = b + 1 + (ByteCount - b - 1)
        BY <2>3
      <4> QED
        BY <4>1
    <3>2. ByteCount * p = b * p + p + k * p /\ k * p \in Nat /\ b * p \in Nat
      BY <3>1
    <3> QED
      BY <3>2
  <2>5. value[n + 1] \in 0 .. ByteCount ^ (n + 1) - 1
    BY <1>1, <2>1, <2>2, <2>3, <2>4
  <2> QED
    BY <2>1, <2>5
<1> HIDE DEF T
<1>4. size \in T
  BY <1>0, <1>2, <1>3, BoundedInduction
<1> QED
  BY <1>1, <1>4 DEF T

(* toBytes makes bytes.                                                    *)
LEMMA ToBytesType ==
  ASSUME NEW value \in Nat, NEW size \in 0 .. OpSize
  PROVE  toBytes(value, size) \in Buffer(size)
<1>1. ASSUME NEW i \in 0 .. size - 1 PROVE (value \div ByteCount ^ i) % ByteCount \in Byte
  <2>1. i \in 0 .. OpSize
    BY DEF OpSize
  <2>2. ByteCount ^ i \in Nat \ {0} /\ ByteCount \in Nat \ {0}
    BY <2>1, ByteCountPowers
  <2>3. value \div ByteCount ^ i \in Nat
    BY <2>2
  <2> QED
    BY <2>2, <2>3, ByteCountAssumption
<1> QED
  BY <1>1 DEF toBytes, Buffer

(* The widths of the memory instructions.                                  *)
LEMMA WidthType ==
  \A op \in LoadOps \cup StoreOps : width(op) \in {1, 2, 4} /\ width(op) \in 0 .. OpSize
BY DEF LoadOps, StoreOps, width, OpSize

(* A loaded value, sign-extended or not, is a word.                        *)
LEMMA ExtendedType ==
  ASSUME NEW op \in LoadOps, NEW v \in 0 .. ByteCount ^ width(op) - 1
  PROVE  extended(op, v) \in Word
<1>1. ByteCount ^ width(op) \in Nat \ {0} /\ ByteCount ^ width(op) <= AddrSpace
  BY WidthType, ByteCountPowers
<1>2. AddrSpace = WordCount
  BY WidthAssumption
<1> QED
  BY <1>1, <1>2, AddrSpaceAssumption DEF extended, Word
----------------------------------------------------------------------------
(* The memory keeps its shape: one buffer of bytes per region, of its size *)

MemoryTyped ==
  /\ blocks \subseteq Params
  /\ DOMAIN data = blocks
  /\ \A b \in blocks : data[b] \in Buffer(b.size)

(* No region is so large that in_range wraps for a word.                   *)
roomy(bs) == \A b \in bs : b.size + OpSize <= AddrSpace

(* A region that find_block returns for an access of an instruction has    *)
(* every byte of it.                                                       *)
LEMMA HolderHolds ==
  ASSUME MemoryTyped, roomy(blocks), NEW a \in Address, NEW n \in 0 .. OpSize,
         find_block(blocks, a, n) # nullptr
  PROVE  LET b == find_block(blocks, a, n) IN
         /\ b \in blocks
         /\ offset(b, a) = a - b.start /\ offset(b, a) \in Nat /\ offset(b, a) + n <= b.size
<1> DEFINE b == find_block(blocks, a, n)
<1>1. b \in holders(blocks, a, n)
  BY FindBlock DEF MemoryTyped
<1>2. b \in blocks /\ in_range(b, a, n) /\ b \in Params
  BY <1>1 DEF holders, MemoryTyped
<1>3. b.start \in Nat /\ b.size \in Nat /\ b.size + OpSize <= AddrSpace /\ AddrSpace \in Nat \ {0}
  BY <1>2, AddrSpaceAssumption DEF Params, Address, roomy
<1>4. a \in Nat /\ a < AddrSpace /\ n \in Nat /\ n <= OpSize
  BY AddrSpaceAssumption DEF Address, OpSize
<1> HIDE DEF b
<1>5. a >= b.start /\ a - b.start < b.size /\ (offset(b, a) + n) % AddrSpace <= b.size
  BY <1>2 DEF in_range, contains
<1>6. offset(b, a) = a - b.start
  <2>1. \A x, y \in Nat : x < y => x % y = x
    OBVIOUS
  <2>2. a - b.start \in Nat /\ a - b.start < AddrSpace
    BY <1>3, <1>4, <1>5 DEF OpSize
  <2> QED
    BY <1>3, <2>1, <2>2 DEF offset
<1>7. (offset(b, a) + n) % AddrSpace = offset(b, a) + n
  BY <1>3, <1>4, <1>5, <1>6 DEF OpSize
<1> QED
  BY <1>2, <1>3, <1>4, <1>5, <1>6, <1>7 DEF b

(* What is loaded is a buffer of the width asked for.                      *)
LEMMA LoadedType ==
  ASSUME MemoryTyped, roomy(blocks), NEW a \in Address, NEW n \in 0 .. OpSize,
         find_block(blocks, a, n) # nullptr
  PROVE  load(data, find_block(blocks, a, n), a, n) \in Buffer(n)
<1> DEFINE b == find_block(blocks, a, n)
<1>1. b \in blocks /\ offset(b, a) \in Nat /\ offset(b, a) + n <= b.size
  BY HolderHolds
<1>2. data[b] \in [0 .. b.size - 1 -> Byte] /\ b.size \in Nat /\ n \in Nat
  BY <1>1, AddrSpaceAssumption DEF MemoryTyped, Buffer, Params, Address, OpSize
<1> HIDE DEF b
<1>3. ASSUME NEW i \in 0 .. n - 1 PROVE data[b][offset(b, a) + i] \in Byte
  <2>1. offset(b, a) + i \in 0 .. b.size - 1
    BY <1>1, <1>2
  <2> QED
    BY <1>2, <2>1
<1>4. load(data, b, a, n) \in Buffer(n)
  BY <1>3 DEF load, Buffer
<1> QED
  BY <1>4 DEF b

(* Stored bytes keep the shape, and change one region only.                *)
LEMMA StoreType ==
  ASSUME MemoryTyped, NEW b \in blocks, NEW a, NEW source,
         \A k \in DOMAIN source : source[k] \in Byte, UNCHANGED blocks,
         data' = store(data, b, a, source)
  PROVE  MemoryTyped'
<1> DEFINE row == [i \in 0 .. b.size - 1 |->
                     IF i - offset(b, a) \in DOMAIN source
                       THEN source[i - offset(b, a)] ELSE data[b][i]]
<1>1. row \in Buffer(b.size)
  BY DEF MemoryTyped, Buffer
<1>2. data' = [data EXCEPT ![b] = row]
  BY DEF store
<1> HIDE DEF row
<1> QED
  BY <1>1, <1>2 DEF MemoryTyped

(* So do added regions, whose buffers are zeroed.                          *)
LEMMA GrowType ==
  ASSUME MemoryTyped, roomy(blocks), NEW regions, regions \subseteq Params, roomy(regions),
         grow(regions)
  PROVE  MemoryTyped' /\ roomy(blocks')
<1>1. /\ blocks' = blocks \cup regions
      /\ data' = [b \in blocks' |-> IF b \in blocks THEN data[b] ELSE zeroed(b)]
  BY DEF grow, allocate, MemoryTyped
<1>2. \A b : zeroed(b) \in Buffer(b.size)
  BY ByteAssumption DEF zeroed, Buffer
<1>3. ASSUME NEW b \in blocks' PROVE data'[b] \in Buffer(b.size)
  BY <1>1, <1>2 DEF MemoryTyped
<1>4. blocks' \subseteq Params /\ DOMAIN data' = blocks' /\ roomy(blocks')
  BY <1>1 DEF MemoryTyped, roomy
<1> QED
  BY <1>3, <1>4 DEF MemoryTyped

(* And the words that the read call stores.                                *)
LEMMA ReadIntoType ==
  ASSUME MemoryTyped, NEW buffer \in Int, NEW k, UNCHANGED blocks,
         data' = readInto(buffer, k)
  PROVE  MemoryTyped'
<1> DEFINE at(b, i) == (b.start + i - buffer) % AddrSpace
           aligned(b, i) == (b.start + i) - (at(b, i) % OpSize)
           written(b, i) == /\ at(b, i) < k * OpSize
                            /\ find_block(blocks, aligned(b, i), OpSize) = b
           square(n) == to_word(n * n)
           cell(b, i) == IF written(b, i)
                           THEN toBytes(square(at(b, i) - (at(b, i) % OpSize)), OpSize)
                                  [at(b, i) % OpSize]
                           ELSE data[b][i]
<1>1. data' = [b \in blocks |-> [i \in 0 .. b.size - 1 |-> cell(b, i)]]
  BY DEF readInto
<1>2. ASSUME NEW b \in blocks, NEW i \in 0 .. b.size - 1 PROVE cell(b, i) \in Byte
  <2>1. b.start \in Nat /\ b.size \in Nat /\ data[b][i] \in Byte
    BY AddrSpaceAssumption DEF MemoryTyped, Params, Address, Buffer
  <2>2. at(b, i) \in Nat
    BY <2>1, AddrSpaceAssumption
  <2> HIDE DEF at
  <2>3. at(b, i) % OpSize \in 0 .. OpSize - 1 /\ OpSize \in 0 .. OpSize
    BY <2>2 DEF OpSize
  <2>4. \A n \in Int : square(n) \in Nat
    <3>1. \A n \in Int : n * n \in Int
      OBVIOUS
    <3>2. \A w \in Word : w \in Nat
      BY WordCountType DEF Word
    <3> QED
      BY <3>1, <3>2, ToWordType
  <2> HIDE DEF square
  <2>5. square(at(b, i) - (at(b, i) % OpSize)) \in Nat
    <3>1. at(b, i) - (at(b, i) % OpSize) \in Int
      BY <2>2, <2>3 DEF OpSize
    <3> QED
      BY <2>4, <3>1
  <2>6. toBytes(square(at(b, i) - (at(b, i) % OpSize)), OpSize)[at(b, i) % OpSize] \in Byte
    BY <2>3, <2>5, ToBytesType DEF Buffer
  <2> QED
    BY <2>1, <2>6
<1> HIDE DEF cell
<1>3. \A b \in blocks : data'[b] \in Buffer(b.size)
  BY <1>1, <1>2 DEF Buffer
<1> QED
  BY <1>1, <1>3 DEF MemoryTyped
----------------------------------------------------------------------------
(* The register file and pc keep their types.                              *)

CpuTyped == registers \in [Registers -> Word] /\ pc \in Address

(* The fields of an instruction.                                           *)
LEMMA InstructionFields ==
  ASSUME NEW i \in Instructions
  PROVE  /\ i.kind \in Kinds /\ i.op \in OpsOf(i.kind) /\ i.imm \in Word
         /\ i.rd \in Registers /\ i.rs1 \in Registers /\ i.rs2 \in Registers
BY DEF Instructions

(* An address and a word are the same numbers.                             *)
LEMMA AddressIsWord == Address = Word /\ Word \subseteq Nat /\ 0 \in Word
BY WidthAssumption, WordCountType DEF Address, Word

(* What is fetched decodes to an instruction or to none.                   *)
LEMMA CurrentType ==
  ASSUME MemoryTyped, roomy(blocks), pc \in Address, fetchable(pc)
  PROVE  Current \in Instructions \cup {NoHandler}
<1> DEFINE buffer == load(data, find_block(blocks, pc, OpSize), pc, OpSize)
<1>1. OpSize \in 0 .. OpSize
  BY DEF OpSize
<1>2. buffer \in Buffer(OpSize)
  BY <1>1, LoadedType DEF fetchable
<1> HIDE DEF buffer
<1>3. fromBytes(buffer, OpSize) \in 0 .. ByteCount ^ OpSize - 1
  BY <1>1, <1>2, FromBytesBound
<1>4. ByteCount ^ OpSize = WordCount
  BY WidthAssumption
<1>5. fromBytes(buffer, OpSize) \in Word
  BY <1>3, <1>4 DEF Word
<1>6. Current = decode[fromBytes(buffer, OpSize)]
  BY DEF Current, buffer
<1> QED
  BY <1>5, <1>6, DecodeAssumption

(* get_register reads a word.                                              *)
LEMMA GetRegisterType ==
  ASSUME CpuTyped
  PROVE  \A r \in Registers : get_register(r) \in Word
BY AddressIsWord DEF CpuTyped, get_register

(* set_register keeps the register file typed.                             *)
LEMMA SetRegisterType ==
  ASSUME registers \in [Registers -> Word], NEW r \in Registers, NEW v \in Word,
         set_register(r, v)
  PROVE  registers' \in [Registers -> Word]
BY DEF set_register

(* set_pc keeps pc an address.                                             *)
LEMMA PcType ==
  ASSUME pc \in Address
  PROVE  /\ inc_pc => pc' \in Address
         /\ \A dest \in Address : jump_abs(dest) => pc' \in Address
         /\ \A error : Throw(error) => pc' \in Address
<1>1. (pc + OpSize) % AddrSpace \in Address
  BY AddrSpaceAssumption DEF Address, OpSize
<1> QED
  BY <1>1 DEF inc_pc, jump_abs, GoTo, Throw

(* One instruction keeps the types.                                        *)
LEMMA ExecType ==
  ASSUME MemoryTyped, roomy(blocks), CpuTyped, NEW i \in Instructions, exec(i),
         UNCHANGED blocks
  PROVE  MemoryTyped' /\ CpuTyped'
<1>1. /\ i.kind \in Kinds /\ i.op \in OpsOf(i.kind) /\ i.imm \in Word
      /\ i.rd \in Registers /\ i.rs1 \in Registers /\ i.rs2 \in Registers
  BY InstructionFields
<1>2. pc \in Address /\ registers \in [Registers -> Word]
  BY DEF CpuTyped
<1>3. /\ inc_pc => pc' \in Address
      /\ \A dest \in Address : jump_abs(dest) => pc' \in Address
      /\ \A error : Throw(error) => pc' \in Address
  BY <1>2, PcType
<1>4. \A r \in Registers : get_register(r) \in Word
  BY GetRegisterType
<1>5. /\ \A x, y \in Word : to_word(x + y) \in Word
      /\ to_word(pc + i.imm) \in Word /\ to_word(i.imm + pc) \in Word
      /\ to_word(pc + OpSize) \in Word
  <2>1. \A x, y \in Nat : to_word(x + y) \in Word
    BY ToWordType
  <2>2. pc \in Nat /\ i.imm \in Nat /\ OpSize \in Nat /\ Word \subseteq Nat
    BY <1>1, <1>2, AddressIsWord DEF OpSize
  <2> QED
    BY <2>1, <2>2
<1>6. UNCHANGED data => MemoryTyped'
  BY DEF MemoryTyped
<1>7. /\ UNCHANGED registers => registers' \in [Registers -> Word]
      /\ \A r \in Registers, v \in Word :
           set_register(r, v) => registers' \in [Registers -> Word]
  BY <1>2, SetRegisterType
<1>8. CASE exec_value(i)
  <2> DEFINE values == CASE i.kind = "lui" -> {i.imm}
                         [] i.kind = "auipc" -> {to_word(i.imm + pc)}
                         [] i.kind = "imm" -> calculate(i.op, get_register(i.rs1), i.imm)
                         [] i.kind = "reg" -> calculate(i.op, get_register(i.rs1),
                                                        get_register(i.rs2))
  <2>1. /\ \E value \in values : set_register(i.rd, value)
        /\ UNCHANGED data /\ inc_pc /\ i.kind \in {"lui", "auipc", "imm", "reg"}
    BY <1>8 DEF exec_value
  <2>2. values \subseteq Word
    <3>1. CASE i.kind = "lui"
      BY <1>1, <3>1
    <3>2. CASE i.kind = "auipc"
      BY <1>5, <3>2
    <3>3. CASE i.kind = "imm"
      BY <1>1, <1>4, <3>3, CalculateType DEF OpsOf, ValueOps
    <3>4. CASE i.kind = "reg"
      BY <1>1, <1>4, <3>4, CalculateType DEF OpsOf, ValueOps
    <3> QED
      BY <2>1, <3>1, <3>2, <3>3, <3>4
  <2> HIDE DEF values
  <2> QED
    BY <1>1, <1>3, <1>6, <1>7, <2>1, <2>2 DEF CpuTyped
<1>9. CASE exec_jump(i)
  <2>1. set_register(i.rd, to_word(pc + OpSize)) /\ UNCHANGED data
    BY <1>9 DEF exec_jump
  <2>2. CASE jump_abs(to_word(pc + i.imm))
    BY <1>1, <1>3, <1>5, <1>6, <1>7, <2>1, <2>2, AddressIsWord DEF CpuTyped
  <2> DEFINE dest == to_word(get_register(i.rs1) + i.imm)
  <2>3. CASE jump_abs(dest - (dest % 2))
    <3>1. dest \in Word
      BY <1>1, <1>4, <1>5
    <3> HIDE DEF dest
    <3>2. dest - (dest % 2) \in Address
      BY <3>1, AddressIsWord, AddrSpaceAssumption DEF Address
    <3> QED
      BY <1>1, <1>3, <1>5, <1>6, <1>7, <2>1, <2>3, <3>2 DEF CpuTyped
  <2> QED
    BY <1>9, <2>2, <2>3 DEF exec_jump
<1>10. CASE exec_branch(i)
  BY <1>3, <1>5, <1>6, <1>7, <1>10, AddressIsWord DEF exec_branch, CpuTyped
<1>11. CASE exec_load(i)
  <2> DEFINE a == to_word(get_register(i.rs1) + i.imm)
             n == width(i.op)
             buffer == load(data, find_block(blocks, a, n), a, n)
  <2>1. /\ UNCHANGED data /\ i.kind = "load"
        /\ \/ accessible(a, n) /\ set_register(i.rd, extended(i.op, fromBytes(buffer, n))) /\ inc_pc
           \/ Throw("data_access_error") /\ UNCHANGED registers
    BY <1>11 DEF exec_load
  <2>2. a \in Address /\ i.op \in LoadOps
    BY <1>1, <1>4, <1>5, <2>1, AddressIsWord DEF OpsOf
  <2>3. n \in 0 .. OpSize
    BY <2>2, WidthType
  <2>4. accessible(a, n) => extended(i.op, fromBytes(buffer, n)) \in Word
    <3> SUFFICES ASSUME accessible(a, n) PROVE extended(i.op, fromBytes(buffer, n)) \in Word
      OBVIOUS
    <3> HIDE DEF a
    <3>1. buffer \in Buffer(n)
      BY <2>2, <2>3, LoadedType DEF accessible
    <3> HIDE DEF buffer
    <3>2. fromBytes(buffer, n) \in 0 .. ByteCount ^ width(i.op) - 1
      BY <2>3, <3>1, FromBytesBound
    <3> HIDE DEF n
    <3> QED
      BY <2>2, <3>2, ExtendedType
  <2> HIDE DEF a, n, buffer
  <2> QED
    BY <1>1, <1>3, <1>6, <1>7, <2>1, <2>4 DEF CpuTyped
<1>12. CASE exec_store(i)
  <2> DEFINE a == to_word(get_register(i.rs1) + i.imm)
             n == width(i.op)
             bytes == toBytes(get_register(i.rs2), n)
  <2>1. /\ UNCHANGED registers /\ i.kind = "store"
        /\ \/ accessible(a, n) /\ data' = store(data, find_block(blocks, a, n), a, bytes) /\ inc_pc
           \/ Throw("data_access_error") /\ UNCHANGED data
    BY <1>12 DEF exec_store
  <2>2. a \in Address /\ i.op \in StoreOps
    BY <1>1, <1>4, <1>5, <2>1, AddressIsWord DEF OpsOf
  <2>3. n \in 0 .. OpSize
    BY <2>2, WidthType
  <2>4. get_register(i.rs2) \in Nat
    BY <1>1, <1>4, AddressIsWord
  <2> HIDE DEF a, n
  <2>5. bytes \in Buffer(n)
    BY <2>3, <2>4, ToBytesType
  <2>6. \A k \in DOMAIN bytes : bytes[k] \in Byte
    BY <2>5 DEF Buffer
  <2> HIDE DEF bytes
  <2>7. accessible(a, n) => find_block(blocks, a, n) \in blocks
    BY <2>2, <2>3, HolderHolds DEF accessible
  <2>8. MemoryTyped'
    BY <1>6, <2>1, <2>6, <2>7, StoreType
  <2> QED
    BY <1>3, <1>7, <2>1, <2>8 DEF CpuTyped
<1>13. CASE exec_nothing(i)
  BY <1>3, <1>6, <1>7, <1>13 DEF exec_nothing, CpuTyped
<1>14. CASE exec_csr(i)
  BY <1>3, <1>6, <1>7, <1>14 DEF exec_csr, CpuTyped
<1>15. CASE exec_ecall(i)
  <2>0. a0 \in Registers /\ a1 \in Registers /\ 0 \in Word
    BY RegistersAssumption, AddressIsWord
  <2>1. CASE syscall_unknown
    BY <1>3, <1>6, <1>7, <2>1 DEF syscall_unknown, CpuTyped
  <2>2. CASE syscall_exit
    BY <1>3, <1>6, <1>7, <2>0, <2>2 DEF syscall_exit, CpuTyped
  <2>3. CASE syscall_other
    BY <1>3, <1>6, <1>7, <2>0, <2>3 DEF syscall_other, CpuTyped
  <2>4. CASE syscall_read
    <3>1. registers[a1] \in Int
      <4>1. registers[a1] \in Word
        BY <1>2, <2>0
      <4>2. \A w \in Word : w \in Int
        BY AddressIsWord
      <4> QED
        BY <4>1, <4>2
    <3>2. PICK k : data' = readInto(registers[a1], k)
      BY <2>4 DEF syscall_read
    <3>3. MemoryTyped'
      BY <3>1, <3>2, ReadIntoType
    <3>4. registers' \in [Registers -> Word] /\ pc' \in Address
      BY <1>2, <1>3, <1>7, <2>0, <2>4 DEF syscall_read
    <3> QED
      BY <3>3, <3>4 DEF CpuTyped
  <2> QED
    BY <1>15, <2>1, <2>2, <2>3, <2>4 DEF exec_ecall
<1> QED
  BY <1>8, <1>9, <1>10, <1>11, <1>12, <1>13, <1>14, <1>15 DEF exec
----------------------------------------------------------------------------
(* The whole state                                                         *)

Roomy == roomy(blocks) /\ leaves_room(ro_size) /\ leaves_room(rw_size)

HostTyped ==
  /\ initFlags \subseteq Flags /\ initial_pc \in Address
  /\ syscalls \subseteq SyscallIds /\ syscall_throw_on_error \in BOOLEAN
  /\ running \in BOOLEAN /\ calling \in {"client", "run", "hex", "read"}
  /\ reply.result \in Results

LoaderTyped(records) ==
  IF calling = "hex" THEN hex \in LoaderState(records) ELSE hex = NoHex

(* TypeOK made inductive: a loader's rest is made of the records it was    *)
(* given, and the regions leave the room that in_range needs.              *)
Typed(records) ==
  Layout /\ MemoryTyped /\ Roomy /\ CpuTyped /\ HostTyped /\ LoaderTyped(records)

(* The answers of the setup calls are results.                             *)
LEMMA ReturnType ==
  ASSUME NEW R, HostTyped, LoaderTyped(R), NEW call, NEW result \in Results, Return(call, result)
  PROVE  calling' = "client" /\ LoaderTyped(R)' /\ reply'.result \in Results
BY DEF Return, LoaderTyped

(* So are their truth values.                                              *)
LEMMA VerdictType == \A ok : verdict(ok) \in Results
BY DEF verdict, Results

(* The sizes and the bases.                                                *)
LEMMA LayoutCallsType ==
  ASSUME NEW R, Typed(R),
         \/ \E size \in Nat : leaves_room(size) /\ (set_ro_size(size) \/ set_rw_size(size))
         \/ \E base \in Address : set_ro_base(base) \/ set_rw_base(base)
  PROVE  Typed(R)'
<1>1. calling' = "client" /\ LoaderTyped(R)' /\ reply'.result \in Results
  BY ReturnType, VerdictType DEF Typed, set_ro_size, set_rw_size, set_ro_base, set_rw_base
<1>2. UNCHANGED <<memory, boot, cpu, calls>>
  BY DEF set_ro_size, set_rw_size, set_ro_base, set_rw_base
<1>3. /\ ro_size' \in Nat /\ rw_size' \in Nat /\ code_base' \in Address /\ data_base' \in Address
      /\ leaves_room(ro_size') /\ leaves_room(rw_size')
  BY DEF Typed, Layout, Roomy, set_ro_size, set_rw_size, set_ro_base, set_rw_base
<1>4. MemoryTyped' /\ roomy(blocks)' /\ CpuTyped' /\ Layout'
  <2>1. blocks' = blocks /\ data' = data /\ registers' = registers /\ pc' = pc
    BY <1>2 DEF memory, cpu
  <2>2. MemoryTyped' /\ roomy(blocks)'
    BY <2>1 DEF Typed, Roomy, MemoryTyped
  <2>3. CpuTyped' /\ Layout'
    BY <1>3, <2>1 DEF Typed, Layout, CpuTyped
  <2> QED
    BY <2>2, <2>3
<1>5. HostTyped'
  BY <1>1, <1>2 DEF Typed, HostTyped, boot, cpu, calls
<1> QED
  BY <1>1, <1>3, <1>4, <1>5 DEF Typed, Roomy

(* A requested region is well formed and leaves room.                      *)
LEMMA RegionRoom ==
  ASSUME NEW a \in Address, NEW n \in Nat, leaves_room(n)
  PROVE  region(a, n) \in Params /\ roomy({region(a, n)})
<1>1. (n % AddrSpace) + OpSize <= AddrSpace
  BY AddrSpaceAssumption DEF leaves_room, OpSize
<1>2. region(a, n).size = n % AddrSpace
  BY DEF region
<1>3. roomy({region(a, n)})
  BY <1>1, <1>2 DEF roomy
<1> QED
  BY <1>3, RegionType

(* The calls that add one region.                                          *)
LEMMA BlockCallsType ==
  ASSUME NEW R, Typed(R), NEW base \in Address, NEW size \in Nat, leaves_room(size),
         add_memory(base, size) \/ add_code_block(base, size) \/ add_data_block(base, size)
  PROVE  Typed(R)'
<1> DEFINE p == region(base, size)
<1>1. p \in Params /\ roomy({p})
  BY RegionRoom
<1> HIDE DEF p
<1>2. PICK new \in SUBSET {p} : grow(new)
  <2>1. CASE add_memory(base, size)
    BY <2>1 DEF add_memory, p
  <2>2. CASE add_code_block(base, size)
    BY <2>2 DEF add_code_block, add_block_once, p
  <2>3. CASE add_data_block(base, size)
    BY <2>3 DEF add_data_block, add_block_once, p
  <2> QED
    BY <2>1, <2>2, <2>3
<1>3. new \subseteq Params /\ roomy(new)
  BY <1>1 DEF roomy
<1>4. MemoryTyped' /\ roomy(blocks)'
  BY <1>2, <1>3, GrowType DEF Typed, Roomy
<1>5. /\ calling' = "client" /\ LoaderTyped(R)' /\ reply'.result \in Results
      /\ UNCHANGED <<layout, initial_pc, cpu, calls>>
  BY ReturnType, VerdictType
  DEF Typed, add_memory, add_code_block, add_data_block, add_block_once, boot
<1>6. initFlags' \subseteq Flags
  BY DEF Typed, HostTyped, Flags, add_memory, add_code_block, add_data_block, add_block_once, boot
<1>7. Layout' /\ Roomy'
  BY <1>4, <1>5 DEF Typed, Layout, Roomy, MemoryTyped, layout
<1>8. CpuTyped' /\ HostTyped'
  BY <1>5, <1>6 DEF Typed, CpuTyped, HostTyped, cpu, calls
<1> QED
  BY <1>4, <1>5, <1>7, <1>8 DEF Typed

(* init_memory.                                                            *)
LEMMA InitMemoryType ==
  ASSUME NEW R, Typed(R), NEW code_size \in Nat, NEW data_size \in Nat,
         leaves_room(code_size), leaves_room(data_size), init_memory(code_size, data_size)
  PROVE  Typed(R)'
<1> DEFINE ro == IF ~have_code_block THEN code_size ELSE ro_size
           rw == IF ~have_data_block THEN data_size ELSE rw_size
           code == {p \in {region(code_base, ro)} : ~have_code_block /\ accepts(blocks, p)}
           dat == {p \in {region(data_base, rw)} :
                     ~have_data_block /\ accepts(blocks \cup code, p)}
<1>1. /\ ro \in Nat /\ rw \in Nat /\ code_base \in Address /\ data_base \in Address
      /\ leaves_room(ro) /\ leaves_room(rw)
  BY DEF Typed, Layout, Roomy
<1>2. /\ Return("init_memory", verdict(~have_code_block /\ ~have_data_block
                                         /\ code # {} /\ dat # {}))
      /\ ro_size' = ro /\ rw_size' = rw
      /\ grow(code \cup dat)
      /\ initFlags' = initFlags \cup {f \in {"HAVE_CODE_BLOCK"} : code # {}}
                                \cup {f \in {"HAVE_DATA_BLOCK"} : dat # {}}
      /\ UNCHANGED <<code_base, data_base, initial_pc, cpu, calls>>
  BY DEF init_memory
<1> HIDE DEF ro, rw
<1>3. /\ region(code_base, ro) \in Params /\ roomy({region(code_base, ro)})
      /\ region(data_base, rw) \in Params /\ roomy({region(data_base, rw)})
  BY <1>1, RegionRoom
<1>4. code \cup dat \subseteq Params /\ roomy(code \cup dat)
  BY <1>3 DEF roomy
<1> HIDE DEF code, dat
<1>5. MemoryTyped' /\ roomy(blocks)'
  BY <1>2, <1>4, GrowType DEF Typed, Roomy
<1>6. calling' = "client" /\ LoaderTyped(R)' /\ reply'.result \in Results
  BY <1>2, ReturnType, VerdictType DEF Typed
<1>7. Layout' /\ Roomy'
  BY <1>1, <1>2, <1>5 DEF Typed, Layout, Roomy, MemoryTyped
<1>8. CpuTyped' /\ HostTyped'
  BY <1>2, <1>6 DEF Typed, CpuTyped, HostTyped, Flags, cpu, calls
<1> QED
  BY <1>5, <1>6, <1>7, <1>8 DEF Typed
(* The calls that touch neither memory nor layout.                         *)
LEMMA OtherCallsType ==
  ASSUME NEW R, Typed(R),
         \/ init_isa
         \/ \E address \in Address : init_pc(address)
         \/ \E enable \in BOOLEAN : syscall_should_throw(enable)
         \/ \E id \in SyscallIds : register_handler(id)
  PROVE  Typed(R)'
<1>1. "domain_error" \in Results /\ "true" \in Results /\ "" \in Results
  BY DEF Results
<1>2. calling' = "client" /\ LoaderTyped(R)' /\ reply'.result \in Results
  BY <1>1, ReturnType, VerdictType
  DEF Typed, init_isa, init_pc, syscall_should_throw, register_handler
<1>3. UNCHANGED <<memory, layout, cpu>>
  BY DEF init_isa, init_pc, syscall_should_throw, register_handler
<1>4. initFlags' \subseteq Flags /\ initial_pc' \in Address
  BY DEF Typed, HostTyped, Flags, init_isa, init_pc, set_entry, boot, syscall_should_throw,
         register_handler
<1>5. syscalls' \subseteq SyscallIds
  BY DEF Typed, HostTyped, init_isa, init_pc, syscall_should_throw, register_handler, calls
<1>6. syscall_throw_on_error' \in BOOLEAN
  <2>1. ASSUME NEW enable \in BOOLEAN, syscall_should_throw(enable)
        PROVE  syscall_throw_on_error' \in BOOLEAN
    BY <2>1, Zenon DEF syscall_should_throw
  <2>2. ASSUME syscall_throw_on_error' = syscall_throw_on_error
        PROVE  syscall_throw_on_error' \in BOOLEAN
    BY <2>2, Zenon DEF Typed, HostTyped
  <2>3. ASSUME init_isa \/ (\E address \in Address : init_pc(address))
                 \/ (\E id \in SyscallIds : register_handler(id))
        PROVE  syscall_throw_on_error' = syscall_throw_on_error
    BY <2>3 DEF init_isa, init_pc, register_handler, calls
  <2> QED
    BY <2>1, <2>2, <2>3
<1>7. HostTyped'
  <2>1. running' = running
    BY <1>3 DEF cpu
  <2> QED
    BY <1>2, <1>4, <1>5, <1>6, <2>1, Zenon DEF Typed, HostTyped
<1>8. MemoryTyped' /\ CpuTyped' /\ Layout' /\ Roomy'
  BY <1>3 DEF Typed, Layout, Roomy, MemoryTyped, CpuTyped, memory, layout, cpu
<1> QED
  BY <1>2, <1>7, <1>8 DEF Typed

(* The bytes of an image.                                                  *)
LEMMA ImageBytes == \A bin : is_image(bin) => \A k \in DOMAIN bin : bin[k] \in Byte
BY DEF is_image

(* set_program(bin).                                                       *)
LEMMA SetProgramBinType ==
  ASSUME NEW R, Typed(R), NEW bin, is_image(bin), NEW address \in Address,
         set_program_bin(bin, address)
  PROVE  Typed(R)'
<1>1. /\ calling' = "client" /\ LoaderTyped(R)' /\ reply'.result \in Results
      /\ UNCHANGED <<blocks, layout, cpu, calls>>
  BY ReturnType, VerdictType DEF Typed, set_program_bin
<1>2. initFlags' \subseteq Flags /\ initial_pc' \in Address
  BY DEF Typed, HostTyped, Flags, set_program_bin, set_entry, boot
<1>3. MemoryTyped'
  <2> DEFINE code == find_block(blocks, code_base, image_size(bin))
  <2>1. data' = data \/ (code # nullptr /\ data' = store(data, code, code_base, bin))
    BY DEF set_program_bin
  <2>2. code # nullptr => code \in blocks
    BY FindBlock DEF Typed, Layout, holders
  <2> HIDE DEF code
  <2>3. CASE data' = data
    BY <1>1, <2>3 DEF Typed, MemoryTyped
  <2>4. CASE code # nullptr /\ data' = store(data, code, code_base, bin)
    BY <1>1, <2>2, <2>4, ImageBytes, StoreType DEF Typed
  <2> QED
    BY <2>1, <2>3, <2>4
<1>4. CpuTyped' /\ Layout' /\ Roomy'
  BY <1>1 DEF Typed, Layout, Roomy, CpuTyped, layout, cpu
<1>5. HostTyped'
  BY <1>1, <1>2 DEF Typed, HostTyped, cpu, calls
<1> QED
  BY <1>1, <1>3, <1>4, <1>5 DEF Typed

(* set_program(hex_file) starts at the first of the given records.         *)
LEMMA SetProgramHexType ==
  ASSUME NEW R, Typed(R), NEW content \in Seq(R), set_program_hex(content)
  PROVE  Typed(R)'
<1>1. UNCHANGED <<memory, layout, boot, cpu, calls>>
  BY DEF set_program_hex
<1>2. calling' \in {"client", "hex"} /\ LoaderTyped(R)' /\ reply'.result \in Results
  <2>1. CASE Return("set_program_hex", "false")
    BY <2>1, ReturnType DEF Typed, Results
  <2>2. CASE /\ calling' = "hex" /\ hex' = [rest |-> content, offset |-> 0, pc_value |-> 0]
             /\ reply' = [call |-> "set_program_hex", result |-> ""]
    <3>1. 0 \in Address
      BY AddrSpaceAssumption DEF Address
    <3> QED
      BY <2>2, <3>1 DEF LoaderTyped, LoaderState, Results
  <2> QED
    BY <2>1, <2>2 DEF set_program_hex
<1>3. MemoryTyped' /\ CpuTyped' /\ Layout' /\ Roomy'
  BY <1>1 DEF Typed, Layout, Roomy, MemoryTyped, CpuTyped, memory, layout, cpu
<1>4. HostTyped'
  BY <1>1, <1>2 DEF Typed, HostTyped, boot, cpu, calls
<1> QED
  BY <1>2, <1>3, <1>4 DEF Typed

(* One record of a hex file.                                               *)
LEMMA LoadRecordType ==
  ASSUME NEW R, \A r \in R : is_record(r), Typed(R), load_record
  PROVE  Typed(R)'
<1>1. calling = "hex" /\ UNCHANGED <<blocks, layout, cpu, calls>>
  BY DEF load_record
<1>2. hex \in LoaderState(R)
  BY <1>1 DEF Typed, LoaderTyped
<1>3. hex.rest # <<>> => Tail(hex.rest) \in Seq(R) /\ Record \in R
  BY <1>2 DEF LoaderState, Record
<1>4. /\ \A offs, pc_value \in Address :
           hex.rest # <<>> /\ LoadContinues(offs, pc_value) =>
             LoaderTyped(R)' /\ calling' = "hex" /\ reply' = reply
      /\ \A result \in {"true", "false"} :
           LoadEnds(result) => LoaderTyped(R)' /\ calling' = "client" /\ reply'.result \in Results
  <2>1. ASSUME NEW offs \in Address, NEW pc_value \in Address, hex.rest # <<>>,
               LoadContinues(offs, pc_value)
        PROVE  LoaderTyped(R)' /\ calling' = "hex" /\ reply' = reply
    <3>1. /\ hex' = [rest |-> Tail(hex.rest), offset |-> offs, pc_value |-> pc_value]
          /\ calling' = "hex" /\ reply' = reply
      BY <1>1, <2>1 DEF LoadContinues
    <3>2. hex' \in LoaderState(R)
      BY <1>3, <2>1, <3>1 DEF LoaderState
    <3> QED
      BY <3>1, <3>2 DEF LoaderTyped
  <2>2. ASSUME NEW result \in {"true", "false"}, LoadEnds(result)
        PROVE  LoaderTyped(R)' /\ calling' = "client" /\ reply'.result \in Results
    BY <2>2 DEF LoadEnds, LoaderTyped, Results
  <2> QED
    BY <2>1, <2>2
<1>5. hex.offset \in Address /\ hex.pc_value \in Address
  BY <1>2 DEF LoaderState
<1>6. /\ LoaderTyped(R)' /\ calling' \in {"hex", "client"} /\ reply'.result \in Results
      /\ initFlags' \subseteq Flags /\ initial_pc' \in Address
  <2>1. CASE LoadRefused
    BY <1>4, <2>1 DEF LoadRefused, boot, Typed, HostTyped
  <2>2. CASE hex.rest # <<>> /\ LoadData
    BY <1>4, <1>5, <2>2 DEF LoadData, boot, Typed, HostTyped
  <2>3. CASE hex.rest # <<>> /\ LoadControl
    <3>1. Record.value \in Address
      BY <1>3, <2>3 DEF is_record
    <3> QED
      BY <1>4, <1>5, <2>3, <3>1 DEF LoadControl, set_entry, boot, Typed, HostTyped, Flags
  <2> QED
    BY <2>1, <2>2, <2>3 DEF load_record
<1>7. MemoryTyped'
  <2> DEFINE address == (hex.offset + Record.offset) % AddrSpace
             b == find_block(blocks, address, image_size(Record.data))
  <2>1. \/ data' = data
        \/ hex.rest # <<>> /\ b # nullptr /\ data' = store(data, b, address, Record.data)
    BY DEF load_record, LoadRefused, LoadControl, LoadData
  <2>2. b # nullptr => b \in blocks
    BY FindBlock DEF Typed, Layout, holders
  <2> HIDE DEF b, address
  <2>3. CASE data' = data
    BY <1>1, <2>3 DEF Typed, MemoryTyped
  <2>4. CASE hex.rest # <<>> /\ b # nullptr /\ data' = store(data, b, address, Record.data)
    <3>1. \A k \in DOMAIN Record.data : Record.data[k] \in Byte
      BY <1>3, <2>4, ImageBytes DEF is_record
    <3> QED
      BY <1>1, <2>2, <2>4, <3>1, StoreType DEF Typed
  <2> QED
    BY <2>1, <2>3, <2>4
<1>8. CpuTyped' /\ Layout' /\ Roomy'
  BY <1>1 DEF Typed, Layout, Roomy, CpuTyped, layout, cpu
<1>9. HostTyped'
  BY <1>1, <1>6 DEF Typed, HostTyped, cpu, calls
<1> QED
  BY <1>6, <1>7, <1>8, <1>9 DEF Typed
(* The host's own calls.                                                   *)
LEMMA HostCallsType ==
  ASSUME NEW R, Typed(R), start \/ run \/ host_halt
  PROVE  Typed(R)'
<1>1. 0 \in Address /\ 0 \in Word /\ "" \in Results /\ "code_access_error" \in Results
  BY AddressIsWord DEF Results
<1>2. UNCHANGED <<memory, layout, boot, calls>>
  BY DEF start, run, host_halt
<1>3. CpuTyped'
  BY <1>1 DEF Typed, CpuTyped, HostTyped, start, run, host_halt, cpu
<1>4. calling' \in {"client", "run"} /\ LoaderTyped(R)' /\ reply'.result \in Results
  <2>1. CASE start \/ host_halt
    BY <1>1, <2>1, ReturnType DEF Typed, start, host_halt
  <2>2. CASE run
    BY <1>1, <2>2 DEF Typed, run, LoaderTyped
  <2> QED
    BY <2>1, <2>2
<1>5. running' \in BOOLEAN
  <2>1. running' \in {running, FALSE} \/ running' = is_initialized
    BY DEF start, run, host_halt, cpu
  <2>2. is_initialized \in BOOLEAN
    BY DEF is_initialized
  <2> QED
    BY <2>1, <2>2 DEF Typed, HostTyped
<1>6. MemoryTyped' /\ Layout' /\ Roomy'
  BY <1>2 DEF Typed, Layout, Roomy, MemoryTyped, memory, layout
<1>7. HostTyped'
  BY <1>2, <1>4, <1>5 DEF Typed, HostTyped, boot, calls
<1> QED
  BY <1>3, <1>4, <1>6, <1>7 DEF Typed

(* What an instruction answers, if it answers.                             *)
LEMMA ExecReply ==
  ASSUME NEW i, exec(i), reply.result \in Results
  PROVE  reply'.result \in Results
<1>1. \A error \in Results : Throw(error) => reply'.result \in Results
  BY DEF Throw
<1>2. {"code_access_error", "data_access_error", "control_access_error",
       "unknown_syscall"} \subseteq Results
  BY DEF Results
<1>3. \A a, aligned : GoTo(a, aligned) => reply'.result \in Results
  BY <1>1, <1>2 DEF GoTo
<1>4. /\ inc_pc => reply'.result \in Results
      /\ \A dest : jump_abs(dest) => reply'.result \in Results
  BY <1>3 DEF inc_pc, jump_abs
<1>5. CASE exec_ecall(i)
  BY <1>1, <1>2, <1>4, <1>5
  DEF exec_ecall, syscall_unknown, syscall_exit, syscall_other, syscall_read
<1>6. CASE exec_jump(i) \/ exec_branch(i)
  BY <1>4, <1>6 DEF exec_jump, exec_branch
<1>7. CASE exec_load(i) \/ exec_store(i)
  BY <1>1, <1>2, <1>4, <1>7 DEF exec_load, exec_store
<1>8. CASE exec_value(i) \/ exec_nothing(i) \/ exec_csr(i)
  BY <1>1, <1>2, <1>4, <1>8 DEF exec_value, exec_nothing, exec_csr
<1> QED
  BY <1>5, <1>6, <1>7, <1>8 DEF exec

(* One step of run.                                                        *)
LEMMA RunStepType ==
  ASSUME NEW R, Typed(R), fetchable(pc), run_step
  PROVE  Typed(R)'
<1>1. calling = "run" /\ UNCHANGED <<blocks, layout, boot, calls, hex>>
  BY DEF run_step
<1>2. Current \in Instructions \cup {NoHandler}
  BY CurrentType DEF Typed, CpuTyped, Roomy
<1>3. MemoryTyped' /\ CpuTyped' /\ reply'.result \in Results
  <2>1. CASE fetch_fails
    <3>1. /\ registers' = registers /\ data' = data /\ pc' = pc
          /\ reply'.result \in {"data_access_error", "unknown_instruction"}
      BY <2>1 DEF fetch_fails, Throw
    <3>2. MemoryTyped' /\ CpuTyped'
      BY <1>1, <3>1 DEF Typed, MemoryTyped, CpuTyped
    <3> QED
      BY <3>1, <3>2 DEF Results
  <2>2. CASE Current # NoHandler /\ exec(Current)
    BY <1>1, <1>2, <2>2, ExecType, ExecReply DEF Typed, HostTyped, Roomy
  <2> QED
    BY <2>1, <2>2 DEF run_step
<1>4. calling' \in {"client", "run", "read"} /\ running' \in {running, FALSE}
  BY StepShape DEF Advances, Throws, Hangs
<1>5. running' \in BOOLEAN
  BY <1>4 DEF Typed, HostTyped
<1>6. LoaderTyped(R)' /\ Layout' /\ Roomy'
  BY <1>1, <1>4 DEF Typed, LoaderTyped, Layout, Roomy, layout
<1>7. HostTyped'
  BY <1>1, <1>3, <1>4, <1>5 DEF Typed, HostTyped, boot, calls
<1> QED
  BY <1>3, <1>6, <1>7 DEF Typed

(* A new machine is typed.                                                 *)
LEMMA TypedInit == ASSUME NEW R, Init PROVE Typed(R)
<1>1. 0 \in Address /\ 0 \in Word
  BY AddressIsWord
<1>2. MemoryTyped /\ roomy(blocks)
  BY DEF Init, MemoryTyped, roomy, allocate
<1>3. Layout /\ Roomy
  BY <1>2, HostAssumption, RoomAssumption DEF Init, Layout, Roomy
<1>4. CpuTyped /\ HostTyped /\ LoaderTyped(R)
  BY <1>1 DEF Init, CpuTyped, HostTyped, LoaderTyped, Results
<1> QED
  BY <1>2, <1>3, <1>4 DEF Typed

(* A step of the host alone changes nothing.                               *)
LEMMA TypedStutter ==
  ASSUME NEW R, Typed(R), UNCHANGED vars
  PROVE  Typed(R)'
<1>1. /\ UNCHANGED <<blocks, data, initFlags, ro_size, rw_size, code_base, data_base>>
      /\ UNCHANGED <<initial_pc, registers, pc, running, syscalls>>
      /\ UNCHANGED <<syscall_throw_on_error, calling, hex, reply>>
  BY DEF vars, memory, layout, boot, cpu, calls
<1>2. MemoryTyped' /\ Layout' /\ Roomy' /\ CpuTyped' /\ LoaderTyped(R)'
  BY <1>1 DEF Typed, Layout, Roomy, MemoryTyped, CpuTyped, LoaderTyped
<1>3. HostTyped'
  BY <1>1, Zenon DEF Typed, HostTyped
<1> QED
  BY <1>2, <1>3 DEF Typed

(* Every step keeps the types.                                             *)
LEMMA TypedStep ==
  ASSUME Inv, Typed(HexRecords), [Next]_vars
  PROVE  Typed(HexRecords)'
<1>1. CASE SetupCall
  <2>0. /\ \A size \in MemSizes : size \in Nat /\ leaves_room(size)
        /\ \A base \in Bases : base \in Address
        /\ \A address \in EntryPoints : address \in Address
    BY HostAssumption, RoomAssumption
  <2>1. CASE \/ \E size \in MemSizes : set_ro_size(size) \/ set_rw_size(size)
             \/ \E base \in Bases : set_ro_base(base) \/ set_rw_base(base)
    BY <2>0, <2>1, LayoutCallsType
  <2>2. CASE \E base \in Bases, size \in MemSizes :
          add_memory(base, size) \/ add_code_block(base, size) \/ add_data_block(base, size)
    BY <2>0, <2>2, BlockCallsType
  <2>3. CASE \E code_size, data_size \in MemSizes : init_memory(code_size, data_size)
    BY <2>0, <2>3, InitMemoryType
  <2>4. CASE \/ init_isa
             \/ \E address \in EntryPoints : init_pc(address)
             \/ \E enable \in BOOLEAN : syscall_should_throw(enable)
             \/ \E id \in SyscallIds : register_handler(id)
    <3>1. \/ init_isa
          \/ \E address \in Address : init_pc(address)
          \/ \E enable \in BOOLEAN : syscall_should_throw(enable)
          \/ \E id \in SyscallIds : register_handler(id)
      BY <2>0, <2>4, Zenon
    <3> QED
      BY <3>1, OtherCallsType, Zenon
  <2>5. CASE \E bin \in Programs, address \in EntryPoints : set_program_bin(bin, address)
    BY <2>0, <2>5, ImagesAssumption, SetProgramBinType
  <2>6. CASE \E file \in HexFiles : set_program_hex(file)
    BY <2>6, HexAssumption, SetProgramHexType
  <2> QED
    BY <1>1, <2>1, <2>2, <2>3, <2>4, <2>5, <2>6, Zenon DEF SetupCall
<1>2. CASE load_record
  BY <1>2, HexAssumption, LoadRecordType
<1>3. CASE start \/ run \/ host_halt
  BY <1>3, HostCallsType
<1>4. CASE run_step
  <2>1. fetchable(pc)
    BY <1>4, StepShape DEF Inv, Pending, Started
  <2> QED
    BY <1>4, <2>1, RunStepType
<1>5. CASE UNCHANGED vars
  BY <1>5, TypedStutter
<1> QED
  BY <1>1, <1>2, <1>3, <1>4, <1>5 DEF Next

(* The typed state is what TypeOK asks for.                                *)
LEMMA TypedIsTypeOK == Typed(HexRecords) => TypeOK
<1> SUFFICES ASSUME Typed(HexRecords) PROVE TypeOK
  OBVIOUS
<1>1. /\ blocks \subseteq Params /\ DOMAIN data = blocks
      /\ \A b \in blocks : data[b] \in [0 .. b.size - 1 -> Byte]
  BY DEF Typed, MemoryTyped, Buffer
<1>2. (hex = NoHex) = (calling # "hex")
  BY HexAssumption DEF Typed, LoaderTyped
<1> QED
  BY <1>1, <1>2, Zenon DEF Typed, Layout, CpuTyped, HostTyped, TypeOK

(* Every word, byte, address and flag of the machine has its type in every *)
(* reachable state: no handler hands a value out of range to a register or *)
(* to memory, pc wraps with the address space, buffers keep their length.  *)
THEOREM TypesHold == Spec => []TypeOK
<1>1. Inv /\ Typed(HexRecords) /\ [Next]_vars => Inv' /\ Typed(HexRecords)'
  BY InvStep, TypedStep
<1>2. Init => Inv /\ Typed(HexRecords)
  BY InvInit, TypedInit
<1> QED
  BY <1>1, <1>2, TypedIsTypeOK, PTL DEF Spec
----------------------------------------------------------------------------
(* Word alignment of pc                                                    *)

(* Falling through wraps at the end of the address space, which is a whole *)
(* number of words.                                                        *)
LEMMA IncAligned ==
  ASSUME pc \in Address, pc % OpSize = 0
  PROVE  ((pc + OpSize) % AddrSpace) % OpSize = 0
<1>1. AddrSpace \in Nat \ {0} /\ AddrSpace % 4 = 0 /\ pc \in 0 .. AddrSpace - 1 /\ pc % 4 = 0
  BY AddrSpaceAssumption, AddrSpaceWords DEF Address, OpSize
<1>2. CASE pc + 4 < AddrSpace
  <2>1. (pc + 4) % AddrSpace = pc + 4
    BY <1>1, <1>2
  <2> QED
    BY <1>1, <2>1 DEF OpSize
<1>3. CASE pc + 4 >= AddrSpace
  <2>1. pc + 4 - AddrSpace \in 0 .. AddrSpace - 1
    BY <1>1, <1>3
  <2>2. (pc + 4) % AddrSpace = pc + 4 - AddrSpace
    BY <1>1, <2>1
  <2> QED
    BY <1>1, <2>2 DEF OpSize
<1> QED
  BY <1>1, <1>2, <1>3

(* An instruction leaves an aligned pc aligned.                            *)
LEMMA ExecAligned ==
  ASSUME pc \in Address, pc % OpSize = 0, NEW i, exec(i)
  PROVE  pc' % OpSize = 0
<1>1. /\ inc_pc => pc' % OpSize = 0
      /\ \A dest : jump_abs(dest) => pc' % OpSize = 0
      /\ \A error : Throw(error) => pc' % OpSize = 0
  BY IncAligned DEF inc_pc, jump_abs, GoTo, Throw
<1>2. CASE exec_ecall(i)
  BY <1>1, <1>2
  DEF exec_ecall, syscall_unknown, syscall_exit, syscall_other, syscall_read
<1>3. CASE exec_jump(i) \/ exec_branch(i)
  BY <1>1, <1>3 DEF exec_jump, exec_branch
<1>4. CASE exec_load(i) \/ exec_store(i)
  BY <1>1, <1>4 DEF exec_load, exec_store
<1>5. CASE exec_value(i) \/ exec_nothing(i) \/ exec_csr(i)
  BY <1>1, <1>5 DEF exec_value, exec_nothing, exec_csr
<1> QED
  BY <1>2, <1>3, <1>4, <1>5 DEF exec

(* A running machine's pc is aligned or still at the entry point.          *)
LEMMA PcAlignedStep ==
  ASSUME Inv, Typed(HexRecords), PcAligned, [Next]_vars
  PROVE  PcAligned'
<1> SUFFICES ASSUME running' PROVE (pc % OpSize = 0 \/ pc = initial_pc)'
  BY DEF PcAligned
<1>1. CASE SetupCall
  <2>1. running /\ UNCHANGED pc
    BY <1>1, SetupShape DEF Configures, cpu
  <2>2. initial_pc' = initial_pc
    BY <1>1, <2>1, SetupShape DEF Configures, Inv, Started, Flags
  <2> QED
    BY <2>1, <2>2 DEF PcAligned
<1>2. CASE load_record
  <2>1. running /\ "PC_INITIALIZED" \notin initFlags
    BY <1>2, LoadShape DEF Inv, Pending, cpu
  <2> QED
    BY <2>1 DEF Inv, Started, Flags
<1>3. CASE start
  <2>1. fetchable(initial_pc)
    BY <1>3 DEF start, Inv, Started
  <2> QED
    BY <1>3, <2>1 DEF start, boot
<1>4. CASE run
  BY <1>4 DEF run, boot, cpu, PcAligned
<1>5. CASE host_halt
  BY <1>5 DEF host_halt
<1>6. CASE run_step
  <2>1. running /\ initial_pc' = initial_pc
    BY <1>6 DEF run_step, Inv, Pending, boot
  <2>2. CASE fetch_fails
    BY <2>1, <2>2 DEF fetch_fails, Throw, PcAligned
  <2>3. CASE pc % OpSize = 0 /\ exec(Current)
    BY <2>3, ExecAligned DEF Typed, CpuTyped
  <2> QED
    BY <1>6, <2>2, <2>3 DEF run_step
<1>7. CASE UNCHANGED vars
  BY <1>7 DEF vars, boot, cpu, PcAligned
<1> QED
  BY <1>1, <1>2, <1>3, <1>4, <1>5, <1>6, <1>7 DEF Next

(* For every instruction set, program and memory layout, only the host can *)
(* make a running machine misaligned, by the entry point it chose.         *)
THEOREM PcStaysAligned == Spec => []PcAligned
<1>1. Inv /\ Typed(HexRecords) /\ PcAligned /\ [Next]_vars
        => Inv' /\ Typed(HexRecords)' /\ PcAligned'
  BY InvStep, TypedStep, PcAlignedStep
<1>2. Init => Inv /\ Typed(HexRecords) /\ PcAligned
  BY InvInit, TypedInit DEF Init, PcAligned
<1> QED
  BY <1>1, <1>2, PTL DEF Spec

----------------------------------------------------------------------------
(* Stores                                                                  *)

(* An aligned access stays within one word.                                *)
LEMMA WithinWord ==
  ASSUME NEW n \in {1, 2, 4}, NEW a \in Nat, a % n = 0, NEW k \in 0 .. n - 1
  PROVE  (a + k) \div 4 = a \div 4
<1>1. CASE n = 1
  BY <1>1
<1>2. CASE n = 2
  BY <1>2
<1>3. CASE n = 4
  BY <1>3
<1> QED
  BY <1>1, <1>2, <1>3

(* What a store instruction changes.                                       *)
LEMMA StoreChanges ==
  ASSUME Typed(HexRecords), NEW i \in Instructions, exec_store(i), data' # data
  PROVE  \E b \in blocks, w \in Address :
           \A c \in blocks, j \in Address :
             j < c.size /\ data'[c][j] # data[c][j] => c = b /\ (b.start + j) \div OpSize = w
<1> DEFINE a == to_word(get_register(i.rs1) + i.imm)
           n == width(i.op)
           bytes == toBytes(get_register(i.rs2), n)
           b == find_block(blocks, a, n)
<1>1. i.kind = "store" /\ accessible(a, n) /\ data' = store(data, b, a, bytes)
  BY DEF exec_store
<1>2. a \in Address /\ i.op \in StoreOps
  <2>1. get_register(i.rs1) \in Nat /\ i.imm \in Nat
    BY InstructionFields, GetRegisterType, AddressIsWord DEF Typed
  <2>2. a \in Word
    BY <2>1, ToWordType
  <2>3. i.op \in OpsOf("store")
    BY <1>1, InstructionFields
  <2> QED
    BY <2>2, <2>3, AddressIsWord DEF OpsOf
<1>3. n \in {1, 2, 4} /\ n \in 0 .. OpSize /\ DOMAIN bytes = 0 .. n - 1
  BY <1>2, WidthType DEF toBytes
<1> HIDE DEF a, n, bytes
<1>4. a \in Nat /\ a \div OpSize \in Address
  BY <1>2, AddrSpaceAssumption DEF Address, OpSize
<1>5. b \in blocks /\ offset(b, a) = a - b.start /\ a % n = 0
  BY <1>1, <1>2, <1>3, HolderHolds DEF accessible, Typed, Roomy
<1>6. DOMAIN data = blocks /\ b.start \in Nat /\ b.size \in Nat
  BY <1>5, AddrSpaceAssumption DEF Typed, MemoryTyped, Params, Address
<1> HIDE DEF b
<1>7. ASSUME NEW c \in blocks, NEW j \in Address, j < c.size, data'[c][j] # data[c][j]
      PROVE  c = b /\ (b.start + j) \div OpSize = a \div OpSize
  <2>1. c = b
    BY <1>1, <1>6, <1>7 DEF store
  <2>2. j \in Nat /\ j \in 0 .. b.size - 1
    BY <1>6, <1>7, <2>1, AddrSpaceAssumption DEF Address
  <2>3. data'[b][j] = IF j - offset(b, a) \in DOMAIN bytes
                        THEN bytes[j - offset(b, a)] ELSE data[b][j]
    BY <1>1, <1>5, <1>6, <2>2 DEF store
  <2>4. j - (a - b.start) \in 0 .. n - 1
    BY <1>3, <1>5, <1>7, <2>1, <2>3
  <2>5. b.start + j = a + (j - (a - b.start))
    BY <1>4, <1>6, <2>2
  <2>6. (a + (j - (a - b.start))) \div 4 = a \div 4
    BY <1>3, <1>4, <1>5, <2>4, WithinWord
  <2> QED
    BY <2>1, <2>5, <2>6 DEF OpSize
<1> QED
  BY <1>4, <1>5, <1>7

(* Only stores and the read call write to memory.                          *)
LEMMA OnlyStoreWrites ==
  ASSUME NEW i, exec(i), data' # data, i.kind # "ecall"
  PROVE  exec_store(i)
BY DEF exec, exec_value, exec_jump, exec_branch, exec_load, exec_nothing, exec_csr, exec_ecall

(* What a plain instruction stores stays within one aligned word of one    *)
(* region, for every memory layout that leaves in_range its room.          *)
THEOREM StoresAreContained == Spec => StoreContained
<1>1. Inv /\ Typed(HexRecords) /\ [Next]_vars => Inv' /\ Typed(HexRecords)'
  BY InvStep, TypedStep
<1>2. Inv /\ Typed(HexRecords) /\ [Next]_vars =>
        [calling = "run" /\ data' # data /\ Current.kind # "ecall" =>
           \E b \in blocks, w \in Address :
             \A c \in blocks, i \in Address :
               i < c.size /\ data'[c][i] # data[c][i]
                 => c = b /\ (b.start + i) \div OpSize = w]_vars
  <2> SUFFICES ASSUME Inv, Typed(HexRecords), Next,
                      calling = "run", data' # data, Current.kind # "ecall"
               PROVE  \E b \in blocks, w \in Address :
                        \A c \in blocks, i \in Address :
                          i < c.size /\ data'[c][i] # data[c][i]
                            => c = b /\ (b.start + i) \div OpSize = w
    OBVIOUS
  <2>1. run_step
    <3>1. ~start
      BY DEF start, Return
    <3> QED
      BY <3>1, OnlyStartSaysStart, LoadShape
  <2>2. exec(Current) /\ Current # NoHandler
    BY <2>1 DEF run_step, fetch_fails
  <2>3. Current \in Instructions
    <3>1. fetchable(pc)
      BY DEF Inv, Pending, Started
    <3> QED
      BY <2>2, <3>1, CurrentType DEF Typed, CpuTyped, Roomy
  <2> QED
    BY <2>2, <2>3, OnlyStoreWrites, StoreChanges
<1>3. Init => Inv /\ Typed(HexRecords)
  BY InvInit, TypedInit
<1> QED
  BY <1>1, <1>2, <1>3, PTL DEF Spec, StoreContained
----------------------------------------------------------------------------
(* The flat memory                                                         *)

(* A digit of a number in base B, next to the digits below it.             *)
LEMMA NextDigit ==
  ASSUME NEW v \in Nat, NEW B \in Nat \ {0}, NEW p \in Nat \ {0}
  PROVE  v % (B * p) = (v % p) + ((v \div p) % B) * p
<1> DEFINE q == v \div p
           r == v % p
           t == q \div B
           s == q % B
<1>1. v = q * p + r /\ q \in Nat /\ r \in 0 .. p - 1
  OBVIOUS
<1>2. q = t * B + s /\ t \in Nat /\ s \in 0 .. B - 1
  BY <1>1
<1> HIDE DEF q, r, t, s
<1>3. v = t * (B * p) + (r + s * p)
  <2>1. (t * B + s) * p = t * (B * p) + s * p
    BY <1>2
  <2> QED
    BY <1>1, <1>2, <2>1
<1>4. B * p \in Nat \ {0} /\ r + s * p \in 0 .. B * p - 1
  <2>1. PICK k \in Nat : B = s + 1 + k
    <3>1. B - s - 1 \in Nat /\ B = s + 1 + (B - s - 1)
      BY <1>2
    <3> QED
      BY <3>1
  <2>2. B * p = s * p + p + k * p /\ k * p \in Nat /\ s * p \in Nat
    BY <1>2, <2>1
  <2> QED
    BY <1>1, <2>2
<1> DEFINE m == B * p
           x == r + s * p
<1> HIDE DEF m, x
<1>5. v = t * m + x /\ m \in Nat \ {0} /\ x \in 0 .. m - 1 /\ t \in Nat
  BY <1>2, <1>3, <1>4 DEF m, x
<1>6. v % m = x
  <2>1. v = (v \div m) * m + (v % m) /\ v \div m \in Nat /\ v % m \in 0 .. m - 1
    BY <1>5
  <2> DEFINE d == v \div m
             y == v % m
  <2> HIDE DEF d, y
  <2>2. d * m + y = t * m + x /\ d \in Nat /\ y \in 0 .. m - 1
    BY <1>5, <2>1 DEF d, y
  <2>3. CASE d = t
    BY <1>5, <2>2, <2>3 DEF y
  <2>4. ASSUME NEW e \in Nat, NEW f \in Nat, e > f, NEW w \in 0 .. m - 1, NEW z \in 0 .. m - 1,
               e * m + w = f * m + z
        PROVE  FALSE
    <3>1. PICK k \in Nat : e = f + 1 + k
      <4>1. e - f - 1 \in Nat /\ e = f + 1 + (e - f - 1)
        BY <2>4
      <4> QED
        BY <4>1
    <3>2. e * m = f * m + m + k * m /\ k * m \in Nat /\ f * m \in Nat
      BY <1>5, <3>1
    <3> QED
      BY <1>5, <2>4, <3>2
  <2> QED
    BY <1>5, <2>2, <2>3, <2>4
<1> QED
  BY <1>6 DEF m, x, r, s, q

(* A word that was taken apart is put together again, cut to its size.     *)
LEMMA FromToBytes ==
  ASSUME NEW v \in Nat, NEW size \in 0 .. OpSize
  PROVE  fromBytes(toBytes(v, size), size) = v % ByteCount ^ size
<1> DEFINE bytes == toBytes(v, size)
<1>0. size \in Nat /\ size <= OpSize /\ 0 \in 0 .. size
  BY DEF OpSize
<1>1. PICK value : /\ fromBytes(bytes, size) = value[size]
                   /\ value[0] = 0
                   /\ \A n \in 0 .. size - 1 :
                        value[n + 1] = value[n] + bytes[n] * ByteCount ^ n
  BY FromBytesSum
<1>2. \A n \in 0 .. size - 1 : bytes[n] = (v \div ByteCount ^ n) % ByteCount
  BY DEF toBytes
<1> HIDE DEF bytes
<1> DEFINE S == {n \in 0 .. size : value[n] = v % ByteCount ^ n}
<1>3. 0 \in S
  <2>1. v % 1 = 0
    OBVIOUS
  <2> QED
    BY <1>0, <1>1, <2>1, ByteCountPowers
<1>4. ASSUME NEW n \in 0 .. size - 1, n \in S PROVE n + 1 \in S
  <2>1. n \in 0 .. OpSize - 1 /\ n \in 0 .. OpSize /\ n + 1 \in 0 .. size
    BY <1>0 DEF OpSize
  <2> DEFINE p == ByteCount ^ n
  <2>2. p \in Nat \ {0} /\ ByteCount \in Nat \ {0} /\ ByteCount ^ (n + 1) = ByteCount * p
    BY <2>1, ByteCountPowers
  <2>3. value[n + 1] = (v % p) + ((v \div p) % ByteCount) * p
    BY <1>1, <1>2, <1>4
  <2> HIDE DEF p
  <2>4. value[n + 1] = v % (ByteCount * p)
    BY <2>2, <2>3, NextDigit
  <2> QED
    BY <2>1, <2>2, <2>4
<1> HIDE DEF S
<1>5. size \in S
  BY <1>0, <1>3, <1>4, BoundedInduction
<1> QED
  BY <1>1, <1>5 DEF S, bytes

(* No address belongs to two regions of a set, none of which is empty or   *)
(* reaches the last address.                                               *)
Placed(bs) ==
  /\ \A b, c \in bs : \A a \in Address : contains(b, a) /\ contains(c, a) => b = c
  /\ \A b \in bs : b \in Params /\ b.size # 0 /\ b.start + b.size < AddrSpace

(* A region that add_block accepts finds its own place.                    *)
LEMMA AcceptedPlaced ==
  ASSUME NEW bs, Placed(bs), NEW p \in Params, p.start + p.size < AddrSpace, accepts(bs, p)
  PROVE  Placed(bs \cup {p})
<1>1. (p.start + p.size) % AddrSpace = p.start + p.size
  BY AddrSpaceAssumption DEF Params, Address
<1>2. ASSUME NEW b \in bs, NEW a \in Address, contains(p, a), contains(b, a)
      PROVE  FALSE
  <2>1. b \in Params /\ ~is_overlap(b, p.start, p.size)
    BY DEF Placed, accepts
  <2> QED
    BY <1>1, <1>2, <2>1, AddrSpaceAssumption DEF is_overlap, contains, Params, Address
<1>3. p.size # 0
  BY DEF accepts
<1> QED
  BY <1>2, <1>3 DEF Placed

(* What the host asks for stays below the last address.                    *)
LEMMA RegionBelowTop ==
  ASSUME LayoutBelowTop, NEW base \in HostBases, NEW size \in HostSizes
  PROVE  /\ region(base, size) \in Params
         /\ region(base, size).start + region(base, size).size < AddrSpace
         /\ region(base, size).size = size % AddrSpace
<1>1. base \in Address /\ size \in Nat
  BY HostAssumption DEF HostBases, HostSizes
<1>2. region(base, size).start = base /\ region(base, size).size = size % AddrSpace
  BY DEF region
<1> QED
  BY <1>1, <1>2, RegionType DEF LayoutBelowTop

(* The inductive invariant of the flat memory: the layout and the sizes    *)
(* are the ones the host asked for and the regions are placed.             *)
requested(bs) == \A b \in bs : \E size \in HostSizes : b.size = size % AddrSpace
FlatInv ==
  /\ code_base \in HostBases /\ data_base \in HostBases
  /\ ro_size \in HostSizes /\ rw_size \in HostSizes
  /\ Placed(blocks) /\ requested(blocks)

Grows == \E new : grow(new) /\ Placed(blocks \cup new)
LoadsProgram ==
  /\ UNCHANGED blocks
  /\ \E bin \in Programs, address \in EntryPoints :
       set_program_bin(bin, address) /\ data' # data
LoadsRecord == UNCHANGED blocks /\ load_record /\ data' # data
HostStep == Grows \/ UNCHANGED memory \/ LoadsProgram \/ LoadsRecord

(* The calls that add a region.                                            *)
LEMMA BlockCallsGrow ==
  ASSUME LayoutBelowTop, FlatInv, NEW base \in HostBases, NEW size \in HostSizes,
         add_memory(base, size) \/ add_code_block(base, size) \/ add_data_block(base, size)
  PROVE  FlatInv' /\ Grows
<1> DEFINE p == region(base, size)
<1>1. p \in Params /\ p.start + p.size < AddrSpace /\ p.size = size % AddrSpace
  BY RegionBelowTop
<1> HIDE DEF p
<1>2. PICK new \in SUBSET {p} : grow(new) /\ (new # {} => accepts(blocks, p))
  <2>1. CASE add_memory(base, size)
    BY <2>1 DEF add_memory, p
  <2>2. CASE add_code_block(base, size)
    BY <2>2 DEF add_code_block, add_block_once, p
  <2>3. CASE add_data_block(base, size)
    BY <2>3 DEF add_data_block, add_block_once, p
  <2> QED
    BY <2>1, <2>2, <2>3
<1>3. Placed(blocks \cup new)
  <2>1. CASE new = {}
    BY <2>1 DEF FlatInv
  <2>2. CASE new = {p}
    BY <1>1, <1>2, <2>2, AcceptedPlaced DEF FlatInv
  <2> QED
    BY <2>1, <2>2
<1>4. UNCHANGED layout
  BY DEF add_memory, add_code_block, add_data_block, add_block_once
<1>5. blocks' = blocks \cup new
  BY <1>2 DEF grow
<1>6. requested(blocks')
  BY <1>1, <1>5 DEF FlatInv, requested
<1> QED
  BY <1>2, <1>3, <1>4, <1>5, <1>6 DEF FlatInv, layout, Grows

(* init_memory adds up to two.                                             *)
LEMMA InitMemoryGrows ==
  ASSUME LayoutBelowTop, FlatInv, NEW code_size \in HostSizes, NEW data_size \in HostSizes,
         init_memory(code_size, data_size)
  PROVE  FlatInv' /\ Grows
<1> DEFINE ro == IF ~have_code_block THEN code_size ELSE ro_size
           rw == IF ~have_data_block THEN data_size ELSE rw_size
           p == region(code_base, ro)
           q == region(data_base, rw)
           code == {x \in {p} : ~have_code_block /\ accepts(blocks, x)}
           dat == {x \in {q} : ~have_data_block /\ accepts(blocks \cup code, x)}
<1>1. ro \in HostSizes /\ rw \in HostSizes /\ code_base \in HostBases /\ data_base \in HostBases
  BY DEF FlatInv
<1>2. /\ ro_size' = ro /\ rw_size' = rw
      /\ grow(code \cup dat)
      /\ UNCHANGED <<code_base, data_base>>
  BY DEF init_memory
<1> HIDE DEF ro, rw
<1>3. /\ p \in Params /\ p.start + p.size < AddrSpace /\ p.size = ro % AddrSpace
      /\ q \in Params /\ q.start + q.size < AddrSpace /\ q.size = rw % AddrSpace
  BY <1>1, RegionBelowTop
<1> HIDE DEF p, q
<1>9. requested(blocks \cup (code \cup dat))
  BY <1>1, <1>3 DEF FlatInv, requested
<1>4. Placed(blocks \cup code)
  <2>1. CASE code = {}
    BY <2>1 DEF FlatInv
  <2>2. CASE code = {p} /\ accepts(blocks, p)
    BY <1>3, <2>2, AcceptedPlaced DEF FlatInv
  <2> QED
    BY <2>1, <2>2
<1> HIDE DEF code
<1>5. Placed((blocks \cup code) \cup dat)
  <2>1. CASE dat = {}
    BY <1>4, <2>1
  <2>2. CASE dat = {q} /\ accepts(blocks \cup code, q)
    BY <1>3, <1>4, <2>2, AcceptedPlaced
  <2> QED
    BY <2>1, <2>2
<1> HIDE DEF dat
<1>6. Placed(blocks \cup (code \cup dat))
  <2>1. blocks \cup (code \cup dat) = (blocks \cup code) \cup dat
    OBVIOUS
  <2> QED
    BY <1>5, <2>1
<1>7. blocks' = blocks \cup (code \cup dat)
  BY <1>2 DEF grow
<1>8. FlatInv'
  BY <1>1, <1>2, <1>6, <1>7, <1>9 DEF FlatInv
<1> QED
  BY <1>2, <1>6, <1>8 DEF Grows

(* What every other step of the host does to the memory: nothing, unless   *)
(* it is a loader's.                                                       *)
LEMMA HostSteps ==
  ASSUME Inv, LayoutBelowTop, FlatInv, Next, ~run_step
  PROVE  FlatInv' /\ HostStep
<1>0. \A base \in Bases : base \in HostBases
  BY DEF HostBases
<1>00. \A size \in MemSizes : size \in HostSizes
  BY DEF HostSizes
<1>1. ASSUME UNCHANGED <<blocks, layout>> PROVE FlatInv'
  BY <1>1 DEF FlatInv, layout
<1>2. CASE \E size \in MemSizes : set_ro_size(size) \/ set_rw_size(size)
  BY <1>00, <1>2 DEF set_ro_size, set_rw_size, FlatInv, HostStep, memory
<1>3. CASE \E base \in Bases : set_ro_base(base) \/ set_rw_base(base)
  BY <1>0, <1>3 DEF set_ro_base, set_rw_base, FlatInv, HostStep, memory
<1>4. CASE \E base \in Bases, size \in MemSizes :
        add_memory(base, size) \/ add_code_block(base, size) \/ add_data_block(base, size)
  BY <1>0, <1>00, <1>4, BlockCallsGrow DEF HostStep
<1>5. CASE \E code_size, data_size \in MemSizes : init_memory(code_size, data_size)
  BY <1>00, <1>5, InitMemoryGrows DEF HostStep
<1>6. CASE init_isa \/ (\E address \in EntryPoints : init_pc(address))
  BY <1>1, <1>6 DEF init_isa, init_pc, HostStep, memory
<1>7. CASE (\E enable \in BOOLEAN : syscall_should_throw(enable))
             \/ (\E id \in SyscallIds : register_handler(id))
  <2>1. UNCHANGED <<memory, layout>>
    BY <1>7, Zenon DEF syscall_should_throw, register_handler
  <2> QED
    BY <1>1, <2>1 DEF HostStep, memory
<1>8. CASE \E bin \in Programs, address \in EntryPoints : set_program_bin(bin, address)
  <2>1. PICK bin \in Programs, address \in EntryPoints : set_program_bin(bin, address)
    BY <1>8
  <2>2. UNCHANGED <<blocks, layout>>
    BY <2>1 DEF set_program_bin
  <2> QED
    BY <1>1, <2>1, <2>2 DEF HostStep, LoadsProgram, memory
<1>9. CASE \E file \in HexFiles : set_program_hex(file)
  BY <1>1, <1>9 DEF set_program_hex, HostStep, memory
<1>10. CASE load_record
  <2>1. UNCHANGED <<blocks, layout>>
    BY <1>10, LoadShape
  <2> QED
    BY <1>1, <1>10, <2>1 DEF HostStep, LoadsRecord, memory
<1>11. CASE start \/ run \/ host_halt
  BY <1>1, <1>11 DEF start, run, host_halt, HostStep, memory
<1> QED
  BY <1>2, <1>3, <1>4, <1>5, <1>6, <1>7, <1>8, <1>9, <1>10, <1>11, Zenon DEF Next, SetupCall

(* In placed regions each address of a region belongs to it alone.         *)
LEMMA PlacedHolder ==
  ASSUME NEW bs, Placed(bs), NEW b \in bs, NEW a \in extent(b)
  PROVE  /\ a \in Address /\ a \in UNION {extent(c) : c \in bs}
         /\ (CHOOSE c \in bs : contains(c, a)) = b
         /\ offset(b, a) = a - b.start /\ a - b.start \in 0 .. b.size - 1
<1>1. b \in Params /\ b.start + b.size < AddrSpace
  BY DEF Placed
<1>2. a \in Address /\ contains(b, a) /\ a - b.start \in 0 .. b.size - 1
  BY <1>1, AddrSpaceAssumption DEF extent, contains, Params, Address
<1>3. offset(b, a) = a - b.start
  <2>1. \A x, y \in Nat : x < y => x % y = x
    OBVIOUS
  <2>2. a - b.start \in Nat /\ a - b.start < AddrSpace /\ AddrSpace \in Nat
    BY <1>1, <1>2, AddrSpaceAssumption DEF Params, Address
  <2> QED
    BY <2>1, <2>2 DEF offset
<1>4. \A c \in bs : contains(c, a) => c = b
  BY <1>2 DEF Placed
<1> QED
  BY <1>2, <1>3, <1>4

(* So the flat memory holds the bytes of the regions.                      *)
LEMMA ContentsAt ==
  ASSUME Placed(blocks), NEW b \in blocks, NEW a \in extent(b)
  PROVE  a \in mapped /\ holder(a) = b /\ contents[a] = data[b][a - b.start]
BY PlacedHolder DEF mapped, holder, contents

(* And after a step.                                                       *)
LEMMA ContentsAtNext ==
  ASSUME Placed(blocks'), NEW b \in blocks', NEW a \in extent(b)
  PROVE  a \in mapped' /\ contents'[a] = data'[b][a - b.start]
BY PlacedHolder DEF mapped, holder, contents

(* Adding regions keeps what is there and adds zeros.                      *)
LEMMA GrowsFlat ==
  ASSUME MemoryTyped, Placed(blocks), NEW new, grow(new), Placed(blocks \cup new)
  PROVE  /\ mapped \subseteq mapped' /\ keeps(mapped)
         /\ \A a \in mapped' \ mapped : contents'[a] = 0
<1>1. /\ blocks' = blocks \cup new
      /\ data' = [b \in blocks' |-> IF b \in blocks THEN data[b] ELSE zeroed(b)]
  BY DEF grow, allocate, MemoryTyped
<1>2. Placed(blocks')
  BY <1>1
<1>3. ASSUME NEW a \in mapped PROVE a \in mapped' /\ contents'[a] = contents[a]
  <2>1. PICK b \in blocks : a \in extent(b)
    BY DEF mapped
  <2>2. contents[a] = data[b][a - b.start]
    BY <2>1, ContentsAt
  <2>3. b \in blocks' /\ data'[b] = data[b]
    BY <1>1
  <2>4. a \in mapped' /\ contents'[a] = data'[b][a - b.start]
    BY <1>2, <2>1, <2>3, ContentsAtNext
  <2> QED
    BY <2>2, <2>3, <2>4
<1>4. ASSUME NEW a \in mapped', a \notin mapped PROVE contents'[a] = 0
  <2>1. PICK b \in blocks' : a \in extent(b)
    BY DEF mapped
  <2>2. b \notin blocks
    BY <1>4, <2>1 DEF mapped
  <2>3. contents'[a] = data'[b][a - b.start] /\ a - b.start \in 0 .. b.size - 1
    BY <1>2, <2>1, ContentsAtNext, PlacedHolder
  <2>4. data'[b] = zeroed(b)
    BY <1>1, <2>2
  <2> QED
    BY <2>3, <2>4 DEF zeroed
<1> QED
  BY <1>3, <1>4 DEF keeps, agree

(* A loader, or an unchanged memory, leaves the addresses as they are.     *)
LEMMA SameAddresses ==
  ASSUME UNCHANGED blocks
  PROVE  mapped' = mapped
BY DEF mapped

(* Every reachable state is typed, placed and satisfies Inv.               *)
FlatState == Inv /\ Typed(HexRecords) /\ FlatInv
LEMMA FlatStep ==
  ASSUME LayoutBelowTop, FlatState, [Next]_vars
  PROVE  FlatState'
<1>1. FlatInv'
  <2>1. CASE run_step
    BY <2>1 DEF run_step, layout, FlatState, FlatInv
  <2>2. CASE Next /\ ~run_step
    BY <2>2, HostSteps DEF FlatState
  <2>3. CASE UNCHANGED vars
    BY <2>3 DEF vars, memory, layout, FlatState, FlatInv
  <2> QED
    BY <2>1, <2>2, <2>3
<1> QED
  BY <1>1, InvStep, TypedStep DEF FlatState

(* The new machine has no region.                                          *)
LEMMA FlatInit == Init => FlatState
<1> SUFFICES ASSUME Init PROVE FlatState
  OBVIOUS
<1>1. FlatInv
  BY DEF Init, FlatInv, HostBases, HostSizes, Placed, requested
<1> QED
  BY <1>1, InvInit, TypedInit DEF FlatState

(* The bytes of an access that find_block answers belong to one region.    *)
LEMMA FoundExtent ==
  ASSUME Placed(blocks), NEW a \in Address, NEW n \in Nat,
         \A b \in blocks : b.size + n <= AddrSpace, find_block(blocks, a, n) # nullptr
  PROVE  /\ find_block(blocks, a, n) \in blocks
         /\ offset(find_block(blocks, a, n), a) = a - find_block(blocks, a, n).start
         /\ \A k \in 0 .. n - 1 : a + k \in extent(find_block(blocks, a, n))
<1> DEFINE b == find_block(blocks, a, n)
<1>1. blocks \subseteq Params
  BY DEF Placed
<1>2. b \in blocks /\ in_range(b, a, n)
  BY <1>1, FindBlock DEF holders
<1>3. /\ b.start \in Nat /\ b.size \in Nat /\ b.start + b.size < AddrSpace
      /\ b.size + n <= AddrSpace /\ a \in Nat /\ AddrSpace \in Nat \ {0}
  BY <1>1, <1>2, AddrSpaceAssumption DEF Placed, Params, Address
<1> HIDE DEF b
<1>4. a \in extent(b) /\ (offset(b, a) + n) % AddrSpace <= b.size
  BY <1>2, <1>3 DEF in_range, contains, extent
<1>5. offset(b, a) = a - b.start /\ a - b.start \in 0 .. b.size - 1
  BY <1>2, <1>4, PlacedHolder
<1>6. (a - b.start) + n < AddrSpace /\ (a - b.start) + n \in Nat
  BY <1>3, <1>5
<1>7. ((a - b.start) + n) % AddrSpace = (a - b.start) + n
  BY <1>3, <1>6
<1>8. \A k \in 0 .. n - 1 : a + k \in extent(b)
  BY <1>3, <1>4, <1>5, <1>7 DEF extent
<1> QED
  BY <1>2, <1>5, <1>8 DEF b

(* Accesses of instructions never wrap.                                    *)
LEMMA RoomForWords ==
  ASSUME MemoryTyped, roomy(blocks), NEW n \in 0 .. OpSize
  PROVE  n \in Nat /\ \A b \in blocks : b.size + n <= AddrSpace
BY AddrSpaceAssumption DEF MemoryTyped, roomy, Params, Address, OpSize

(* A load copies from the flat memory.                                     *)
LEMMA FlatLoad ==
  ASSUME MemoryTyped, roomy(blocks), Placed(blocks), NEW a \in Address, NEW n \in 0 .. OpSize,
         find_block(blocks, a, n) # nullptr
  PROVE  fromBytes(load(data, find_block(blocks, a, n), a, n), n) = wordIn(contents, a, n)
<1> DEFINE b == find_block(blocks, a, n)
<1>1. b \in blocks /\ offset(b, a) = a - b.start /\ \A k \in 0 .. n - 1 : a + k \in extent(b)
  BY RoomForWords, FoundExtent
<1>2. b.start \in Nat /\ a \in Nat
  BY <1>1, AddrSpaceAssumption DEF MemoryTyped, Params, Address
<1> HIDE DEF b
<1>3. ASSUME NEW k \in 0 .. n - 1 PROVE data[b][offset(b, a) + k] = contents[a + k]
  <2>1. contents[a + k] = data[b][(a + k) - b.start]
    BY <1>1, ContentsAt
  <2>2. (a + k) - b.start = offset(b, a) + k
    BY <1>1, <1>2
  <2> QED
    BY <2>1, <2>2
<1>4. load(data, b, a, n) = [k \in 0 .. n - 1 |-> contents[a + k]]
  BY <1>3 DEF load
<1> QED
  BY <1>4 DEF wordIn, b

(* A store copies to it, and to nowhere else.                              *)
LEMMA FlatStore ==
  ASSUME MemoryTyped, Placed(blocks), NEW a \in Address, NEW n \in Nat,
         \A b \in blocks : b.size + n <= AddrSpace,
         find_block(blocks, a, n) # nullptr, NEW source \in Buffer(n), UNCHANGED blocks,
         data' = store(data, find_block(blocks, a, n), a, source)
  PROVE  Places(a, source) /\ wordIn(contents', a, n) = fromBytes(source, n)
<1> DEFINE b == find_block(blocks, a, n)
<1>1. /\ b \in blocks /\ offset(b, a) = a - b.start
      /\ \A k \in 0 .. n - 1 : a + k \in extent(b)
      /\ data' = store(data, b, a, source)
  BY FoundExtent
<1>2. /\ b.start \in Nat /\ b.size \in Nat /\ a \in Nat /\ n \in Nat
      /\ DOMAIN data = blocks /\ DOMAIN source = 0 .. n - 1
  BY <1>1, AddrSpaceAssumption DEF MemoryTyped, Params, Address, Buffer, OpSize
<1> HIDE DEF b
<1>3. /\ \A c \in blocks : c # b => data'[c] = data[c]
      /\ data'[b] = [i \in 0 .. b.size - 1 |->
                       IF i - (a - b.start) \in 0 .. n - 1
                         THEN source[i - (a - b.start)] ELSE data[b][i]]
  BY <1>1, <1>2 DEF store
<1>4. ASSUME NEW k \in 0 .. n - 1 PROVE contents'[a + k] = source[k]
  <2>1. a + k \in extent(b) /\ (a + k) - b.start \in 0 .. b.size - 1
    BY <1>1, PlacedHolder
  <2>2. contents'[a + k] = data'[b][(a + k) - b.start]
    BY <1>1, <2>1, ContentsAtNext
  <2>3. ((a + k) - b.start) - (a - b.start) = k
    BY <1>2
  <2> QED
    BY <1>3, <2>1, <2>2, <2>3
<1>5. [k \in 0 .. n - 1 |-> contents'[a + k]] = source
  BY <1>4 DEF Buffer
<1> DEFINE range == {a + k : k \in DOMAIN source}
<1>6. ASSUME NEW x \in mapped, x \notin range PROVE contents'[x] = contents[x]
  <2>1. PICK c \in blocks : x \in extent(c)
    BY DEF mapped
  <2>2. /\ contents[x] = data[c][x - c.start] /\ contents'[x] = data'[c][x - c.start]
        /\ x - c.start \in 0 .. c.size - 1 /\ x \in Nat
    BY <2>1, ContentsAt, ContentsAtNext, PlacedHolder, AddrSpaceAssumption DEF Address
  <2>3. CASE c # b
    BY <1>3, <2>2, <2>3
  <2>4. CASE c = b
    <3>1. (x - b.start) - (a - b.start) \notin 0 .. n - 1
      <4>1. x = a + ((x - b.start) - (a - b.start))
        BY <1>2, <2>2
      <4> QED
        BY <1>2, <1>6, <4>1
    <3> QED
      BY <1>3, <2>2, <2>4, <3>1
  <2> QED
    BY <2>3, <2>4
<1>7. range \subseteq mapped
  BY <1>1, <1>2, ContentsAt
<1> QED
  BY <1>2, <1>4, <1>5, <1>6, <1>7 DEF Places, wordIn, keeps, agree

(* Unchanged regions are an unchanged flat memory.                         *)
LEMMA FlatUnchanged ==
  ASSUME UNCHANGED <<blocks, data>>
  PROVE  keeps(mapped)
<1>1. contents' = contents
  BY DEF contents, mapped, holder
<1> QED
  BY <1>1 DEF keeps, agree

(* Images never wrap either.                                               *)
LEMMA RoomForImages ==
  ASSUME ImagesBelowTop, FlatState, NEW bin \in Programs \cup {r.data : r \in HexRecords}
  PROVE  image_size(bin) \in Nat /\ \A b \in blocks : b.size + image_size(bin) <= AddrSpace
<1>1. \A size \in HostSizes : image_size(bin) \in 0 .. AddrSpace - (size % AddrSpace)
  BY DEF ImagesBelowTop
<1>2. image_size(bin) \in Nat
  BY <1>1 DEF FlatState, FlatInv
<1>3. ASSUME NEW b \in blocks PROVE b.size + image_size(bin) <= AddrSpace
  <2>1. PICK size \in HostSizes : b.size = size % AddrSpace
    BY DEF FlatState, FlatInv, requested
  <2>2. b.size \in Nat
    BY AddrSpaceAssumption DEF FlatState, FlatInv, Placed, Params, Address
  <2>3. image_size(bin) \in 0 .. AddrSpace - b.size
    BY <1>1, <2>1
  <2> QED
    BY <1>2, <2>2, <2>3, AddrSpaceAssumption
<1> QED
  BY <1>2, <1>3

(* set_program(bin) places the program.                                    *)
LEMMA ProgramPlaced ==
  ASSUME ImagesBelowTop, FlatState, LoadsProgram
  PROVE  PlacesProgram
<1>1. PICK bin \in Programs, address \in EntryPoints : set_program_bin(bin, address)
  BY DEF LoadsProgram
<1> DEFINE n == image_size(bin)
           b == find_block(blocks, code_base, n)
<1>2. /\ UNCHANGED blocks /\ data' # data
      /\ have_code_block /\ ~is_flag_set("PC_INITIALIZED") /\ b # nullptr
      /\ data' = store(data, b, code_base, bin)
  BY <1>1 DEF LoadsProgram, set_program_bin
<1>3. reply' = [call |-> "set_program_bin", result |-> "true"]
  BY <1>1, <1>2 DEF set_program_bin, Return, verdict
<1>4. bin \in Buffer(n) /\ code_base \in Address
  BY ImagesAssumption DEF is_image, Buffer, FlatState, Typed, Layout
<1>5. n \in Nat /\ \A c \in blocks : c.size + n <= AddrSpace
  BY RoomForImages
<1> HIDE DEF n
<1>6. Places(code_base, bin)
  BY <1>2, <1>4, <1>5, FlatStore DEF FlatState, Typed, FlatInv
<1> QED
  BY <1>2, <1>3, <1>6 DEF PlacesProgram, is_flag_set

(* A data record is placed.                                                *)
LEMMA RecordPlaced ==
  ASSUME ImagesBelowTop, FlatState, LoadsRecord
  PROVE  PlacesRecord
<1> DEFINE a == (hex.offset + Record.offset) % AddrSpace
           n == image_size(Record.data)
           b == find_block(blocks, a, n)
<1>1. /\ UNCHANGED blocks /\ calling = "hex" /\ hex.rest # <<>>
      /\ LoadData /\ data' # data
  BY DEF LoadsRecord, load_record, LoadRefused, LoadControl
<1>2. b # nullptr /\ data' = store(data, b, a, Record.data) /\ calling' = "hex"
  BY <1>1 DEF LoadData, LoadContinues
<1>3. "PC_INITIALIZED" \notin initFlags
  BY <1>1 DEF FlatState, Inv, Pending
<1>4. hex \in LoaderState(HexRecords)
  BY <1>1 DEF FlatState, Typed, LoaderTyped
<1>5. Record \in HexRecords /\ hex.offset \in Nat
  BY <1>1, <1>4, AddrSpaceAssumption DEF LoaderState, Record, Address
<1>6. Record.offset \in Nat /\ Record.data \in Buffer(n)
  BY <1>5, HexAssumption DEF is_record, is_image, Buffer
<1>7. a \in Address
  BY <1>5, <1>6, AddrSpaceAssumption DEF Address
<1>8. n \in Nat /\ \A c \in blocks : c.size + n <= AddrSpace
  BY <1>5, RoomForImages
<1> HIDE DEF a, n
<1>9. Places(a, Record.data)
  BY <1>1, <1>2, <1>6, <1>7, <1>8, FlatStore DEF FlatState, Typed, FlatInv
<1> QED
  BY <1>1, <1>2, <1>3, <1>9 DEF PlacesRecord, a

(* For every layout and image below the top and every order of the set-up  *)
(* calls, memory is never taken away, added memory is zero, and only the loaders, *)
(* before the entry point is fixed, change bytes: to those of an image.    *)
THEOREM HostsKeepMemory ==
  ASSUME LayoutBelowTop, ImagesBelowTop
  PROVE  Spec => HostKeepsMemory
<1>1. FlatState /\ [Next]_vars => FlatState'
  BY FlatStep
<1>2. FlatState /\ [Next]_vars =>
        [calling # "run" /\ reply'.call # "start" /\ memory' # memory =>
           /\ mapped \subseteq mapped'
           /\ agree(contents', [a \in mapped' |-> 0], mapped' \ mapped)
           /\ keeps(mapped) \/ PlacesProgram \/ PlacesRecord]_vars
  <2> SUFFICES ASSUME FlatState, Next, calling # "run", memory' # memory
               PROVE  /\ mapped \subseteq mapped'
                      /\ agree(contents', [a \in mapped' |-> 0], mapped' \ mapped)
                      /\ keeps(mapped) \/ PlacesProgram \/ PlacesRecord
    OBVIOUS
  <2>1. ~run_step
    BY DEF run_step
  <2>2. Grows \/ LoadsProgram \/ LoadsRecord
    BY <2>1, HostSteps DEF FlatState, HostStep
  <2>3. CASE Grows
    <3>1. /\ mapped \subseteq mapped' /\ keeps(mapped)
          /\ \A a \in mapped' \ mapped : contents'[a] = 0
      BY <2>3, GrowsFlat DEF Grows, FlatState, Typed, FlatInv
    <3>2. agree(contents', [a \in mapped' |-> 0], mapped' \ mapped)
      BY <3>1 DEF agree
    <3> QED
      BY <3>1, <3>2
  <2>4. CASE LoadsProgram \/ LoadsRecord
    <3>1. mapped' = mapped
      BY <2>4, SameAddresses DEF LoadsProgram, LoadsRecord
    <3>2. PlacesProgram \/ PlacesRecord
      BY <2>4, ProgramPlaced, RecordPlaced
    <3> QED
      BY <3>1, <3>2 DEF agree
  <2> QED
    BY <2>2, <2>3, <2>4
<1> QED
  BY <1>1, <1>2, FlatInit, PTL DEF Spec, HostKeepsMemory

(* Distances do not depend on where an address wraps.                      *)
LEMMA Distance ==
  ASSUME NEW A \in Nat \ {0}, NEW x \in 0 .. A - 1, NEW d \in Nat, NEW m \in Nat, d + m < A
  PROVE  ((((x + d) % A) + m) - x) % A = d + m
<1>1. CASE x + d < A
  <2>1. (x + d) % A = x + d
    BY <1>1
  <2>2. ((x + d) + m) - x = d + m
    OBVIOUS
  <2>3. (d + m) % A = d + m
    OBVIOUS
  <2> QED
    BY <2>1, <2>2, <2>3
<1>2. CASE x + d >= A
  <2>1. (x + d) % A = x + d - A
    <3>1. x + d - A \in 0 .. A - 1
      BY <1>2
    <3> QED
      BY <3>1
  <2>2. ((x + d - A) + m) - x = (d + m) - A
    OBVIOUS
  <2>3. ((d + m) - A) % A = d + m
    OBVIOUS
  <2> QED
    BY <2>1, <2>2, <2>3
<1> QED
  BY <1>1, <1>2

(* read stores the words it is asked for, where it is asked for them.      *)
LEMMA FlatRead ==
  ASSUME MemoryTyped, roomy(blocks), Placed(blocks), NEW buffer \in Word, NEW k \in Nat,
         k * OpSize <= AddrSpace, writable(buffer, k), UNCHANGED blocks,
         data' = readInto(buffer, k)
  PROVE  /\ \A j \in 0 .. k - 1 :
              wordIn(contents', to_word(buffer + j * OpSize), OpSize)
                = to_word((j * OpSize) * (j * OpSize))
         /\ keeps({a \in mapped : (a - buffer) % AddrSpace >= k * OpSize})
<1> DEFINE at(b, i) == (b.start + i - buffer) % AddrSpace
           aligned(b, i) == (b.start + i) - (at(b, i) % OpSize)
           written(b, i) == /\ at(b, i) < k * OpSize
                            /\ find_block(blocks, aligned(b, i), OpSize) = b
           square(n) == to_word(n * n)
           cell(b, i) == IF written(b, i)
                           THEN toBytes(square(at(b, i) - (at(b, i) % OpSize)), OpSize)
                                  [at(b, i) % OpSize]
                           ELSE data[b][i]
<1>1. data' = [b \in blocks |-> [i \in 0 .. b.size - 1 |-> cell(b, i)]]
  BY DEF readInto
<1>2. AddrSpace \in Nat \ {0} /\ buffer \in 0 .. AddrSpace - 1 /\ OpSize = 4 /\ OpSize \in 0 .. OpSize
  BY AddrSpaceAssumption, AddressIsWord DEF Address, OpSize
<1>3. ASSUME NEW b \in blocks, NEW a \in extent(b)
      PROVE  /\ contents[a] = data[b][a - b.start]
             /\ contents'[a] = cell(b, a - b.start)
             /\ at(b, a - b.start) = (a - buffer) % AddrSpace
             /\ b.start + (a - b.start) = a
  <2>1. a \in Address /\ a - b.start \in 0 .. b.size - 1
    BY PlacedHolder
  <2>2. b.start \in Nat /\ a \in Nat
    BY <2>1, AddrSpaceAssumption DEF MemoryTyped, Params, Address
  <2>3. b.start + (a - b.start) = a /\ b.start + (a - b.start) - buffer = a - buffer
    BY <1>2, <2>2
  <2>4. data'[b][a - b.start] = cell(b, a - b.start)
    <3> HIDE DEF cell
    <3> QED
      BY <1>1, <2>1
  <2>5. contents'[a] = data'[b][a - b.start] /\ contents[a] = data[b][a - b.start]
    BY ContentsAt, ContentsAtNext
  <2> HIDE DEF cell
  <2> QED
    BY <2>3, <2>4, <2>5
<1>4. ASSUME NEW a \in mapped, (a - buffer) % AddrSpace >= k * OpSize
      PROVE  contents'[a] = contents[a]
  <2>1. PICK b \in blocks : a \in extent(b)
    BY DEF mapped
  <2>2. a \in Int
    BY <2>1, PlacedHolder, AddrSpaceAssumption DEF Address
  <2>3. (a - buffer) % AddrSpace \in Int /\ k * OpSize \in Int
    BY <1>2, <2>2
  <2>4. ~written(b, a - b.start)
    BY <1>3, <1>4, <2>1, <2>3
  <2> QED
    BY <1>3, <2>1, <2>4
<1>5. ASSUME NEW j \in 0 .. k - 1
      PROVE  wordIn(contents', to_word(buffer + j * OpSize), OpSize) = square(j * OpSize)
  <2> DEFINE w == to_word(buffer + j * OpSize)
             b == find_block(blocks, w, OpSize)
  <2>1. accessible(w, OpSize)
    BY DEF writable
  <2>2. w \in Address /\ w = (buffer + j * 4) % AddrSpace
    BY <1>2, ToWordType, AddressIsWord, WidthAssumption DEF to_word
  <2> HIDE DEF w
  <2>3. b \in blocks /\ \A m \in 0 .. OpSize - 1 : w + m \in extent(b)
    BY <1>2, <2>1, <2>2, RoomForWords, FoundExtent DEF accessible
  <2>4. square(j * OpSize) \in Word /\ square(j * OpSize) \in Nat
    <3>1. j * OpSize \in Int
      BY <1>2
    <3>2. (j * OpSize) * (j * OpSize) \in Int
      BY <3>1
    <3> QED
      BY <3>2, ToWordType, AddressIsWord
  <2>5. ASSUME NEW m \in 0 .. OpSize - 1
        PROVE  contents'[w + m] = toBytes(square(j * OpSize), OpSize)[m]
    <3> DEFINE i == (w + m) - b.start
    <3>1. j * 4 \in Nat /\ m \in Nat /\ j * 4 + m < AddrSpace /\ j * 4 + m < k * OpSize
      BY <1>2
    <3>2. at(b, i) = j * 4 + m
      <4>1. at(b, i) = ((w + m) - buffer) % AddrSpace
        BY <1>3, <2>3
      <4>2. (((((buffer + j * 4) % AddrSpace) + m) - buffer)) % AddrSpace = j * 4 + m
        BY <1>2, <3>1, Distance
      <4> QED
        BY <2>2, <4>1, <4>2
    <3>3. at(b, i) % OpSize = m /\ at(b, i) - (at(b, i) % OpSize) = j * OpSize
      <4>1. (j * 4 + m) % 4 = m
        BY <1>2
      <4> HIDE DEF at
      <4> QED
        BY <1>2, <3>1, <3>2, <4>1
    <3>4. aligned(b, i) = w
      <4>1. b.start + i = w + m
        BY <1>3, <2>3
      <4> HIDE DEF i, at
      <4>2. aligned(b, i) = (w + m) - m
        BY <3>3, <4>1
      <4> QED
        BY <1>2, <2>2, <4>2 DEF Address
    <3>5. written(b, i)
      <4> HIDE DEF at, i, aligned
      <4> QED
        BY <3>1, <3>2, <3>4
    <3>6. contents'[w + m] = cell(b, i)
      BY <1>3, <2>3
    <3> HIDE DEF at, i, written, square
    <3> QED
      BY <3>3, <3>5, <3>6
  <2> HIDE DEF square
  <2> DEFINE bytes == toBytes(square(j * OpSize), OpSize)
  <2>6. bytes \in Buffer(OpSize) /\ fromBytes(bytes, OpSize) = square(j * OpSize) % ByteCount ^ OpSize
    BY <1>2, <2>4, ToBytesType, FromToBytes
  <2> HIDE DEF bytes
  <2>7. [m \in 0 .. OpSize - 1 |-> contents'[w + m]] = bytes
    BY <2>5, <2>6 DEF Buffer, bytes
  <2>8. square(j * OpSize) % ByteCount ^ OpSize = square(j * OpSize)
    <3>1. ByteCount ^ OpSize = AddrSpace /\ square(j * OpSize) \in 0 .. AddrSpace - 1
      BY <2>4, WidthAssumption, AddressIsWord DEF Address
    <3> QED
      BY <1>2, <3>1
  <2> QED
    BY <2>6, <2>7, <2>8 DEF wordIn, w
<1> QED
  BY <1>4, <1>5 DEF keeps, agree

(* read stops at the first word it cannot write, or at its last.           *)
LEMMA ReadStops ==
  ASSUME NEW buffer, NEW n \in Nat
  PROVE  \E k \in 0 .. n : writable(buffer, k) /\ (k = n \/ ~writable(buffer, k + 1))
<1> SUFFICES ASSUME \A k \in 0 .. n : writable(buffer, k) => k # n /\ writable(buffer, k + 1)
             PROVE  FALSE
  OBVIOUS
<1> DEFINE S == {k \in 0 .. n : writable(buffer, k)}
<1>1. 0 \in S
  BY DEF writable
<1>2. \A k \in 0 .. n - 1 : k \in S => k + 1 \in S
  OBVIOUS
<1> HIDE DEF S
<1>3. n \in S
  BY <1>1, <1>2, BoundedInduction
<1> QED
  BY <1>3 DEF S

(* The number of words of a size.                                          *)
LEMMA ReadWordsType ==
  ASSUME NEW size \in Word
  PROVE  readWords(size) \in Nat /\ readWords(size) * OpSize <= AddrSpace
<1>1. size \in 0 .. AddrSpace - 1 /\ AddrSpace \in Nat /\ AddrSpace % 4 = 0
  BY AddressIsWord, AddrSpaceWords, AddrSpaceAssumption DEF Address, OpSize
<1> QED
  BY <1>1 DEF readWords, OpSize

(* Advancing is never taken for a refused access.                          *)
LEMMA AdvanceIsNoRefusal ==
  ASSUME reply.result = "", inc_pc
  PROVE  ~Refused
<1>1. \/ reply' = reply
      \/ reply' = [call |-> "run", result |-> "code_access_error"]
  BY DEF inc_pc, GoTo, Throw
<1>2. CASE reply' = reply
  BY <1>2 DEF Refused
<1>3. CASE reply' = [call |-> "run", result |-> "code_access_error"]
  <2>1. reply'.result = "code_access_error"
    BY <1>3
  <2> QED
    BY <2>1 DEF Refused
<1> QED
  BY <1>1, <1>2, <1>3

(* The address of a load or a store, and its width.                        *)
LEMMA AccessType ==
  ASSUME CpuTyped, NEW i \in Instructions, i.kind \in {"load", "store"}
  PROVE  /\ to_word(get_register(i.rs1) + i.imm) \in Address
         /\ width(i.op) \in 0 .. OpSize
<1>1. get_register(i.rs1) \in Nat /\ i.imm \in Nat
  BY InstructionFields, GetRegisterType, AddressIsWord
<1>2. i.op \in LoadOps \cup StoreOps
  <2>1. i.op \in OpsOf(i.kind)
    BY InstructionFields
  <2> QED
    BY <2>1 DEF OpsOf
<1> QED
  BY <1>1, <1>2, ToWordType, AddressIsWord, WidthType

(* A load instruction.                                                     *)
LEMMA LoadIsFlat ==
  ASSUME FlatState, NEW i \in Instructions, exec_load(i)
  PROVE  /\ LoadsFlat(i, to_word(get_register(i.rs1) + i.imm), width(i.op))
         /\ data' = data
<1> DEFINE a == to_word(get_register(i.rs1) + i.imm)
           n == width(i.op)
           v == extended(i.op, fromBytes(load(data, find_block(blocks, a, n), a, n), n))
<1>1. i.kind = "load" /\ data' = data
  BY DEF exec_load
<1>2. a \in Address /\ n \in 0 .. OpSize
  BY <1>1, AccessType DEF FlatState, Typed
<1>3. ~accessible(a, n) => Refused
  BY DEF exec_load, Throw, Refused
<1>4. accessible(a, n) => set_register(i.rd, v)
  BY DEF exec_load
<1> HIDE DEF a, n
<1>5. ASSUME accessible(a, n), i.rd # 0
      PROVE  registers'[i.rd] = extended(i.op, wordIn(contents, a, n))
  <2>1. v = extended(i.op, wordIn(contents, a, n))
    BY <1>2, <1>5, FlatLoad DEF accessible, FlatState, Typed, Roomy, FlatInv
  <2> HIDE DEF v
  <2>2. i.rd \in Registers /\ registers \in [Registers -> Word]
    BY InstructionFields DEF FlatState, Typed, CpuTyped
  <2>3. registers' = [registers EXCEPT ![i.rd] = v]
    BY <1>4, <1>5 DEF set_register
  <2> QED
    BY <2>1, <2>2, <2>3
<1>6. LoadsFlat(i, a, n)
  BY <1>3, <1>5 DEF LoadsFlat
<1> QED
  BY <1>1, <1>6 DEF a, n

(* A store instruction.                                                    *)
LEMMA StoreIsFlat ==
  ASSUME FlatState, calling = "run", NEW i \in Instructions, exec_store(i), UNCHANGED blocks
  PROVE  /\ StoresFlat(i, to_word(get_register(i.rs1) + i.imm), width(i.op))
         /\ Refused => data' = data
<1> DEFINE a == to_word(get_register(i.rs1) + i.imm)
           n == width(i.op)
           bytes == toBytes(get_register(i.rs2), n)
<1>1. i.kind = "store" /\ reply.result = ""
  BY DEF exec_store, FlatState, Inv, Pending
<1>2. a \in Address /\ n \in 0 .. OpSize
  BY <1>1, AccessType DEF FlatState, Typed
<1>3. ~accessible(a, n) => Refused /\ data' = data
  BY DEF exec_store, Throw, Refused
<1>4. accessible(a, n) => /\ data' = store(data, find_block(blocks, a, n), a, bytes)
                          /\ ~Refused
  BY <1>1, AdvanceIsNoRefusal DEF exec_store
<1>5. get_register(i.rs2) \in Nat
  BY InstructionFields, GetRegisterType, AddressIsWord DEF FlatState, Typed
<1> HIDE DEF a, n
<1>6. bytes \in Buffer(n) /\ fromBytes(bytes, n) = get_register(i.rs2) % ByteCount ^ n
  BY <1>2, <1>5, ToBytesType, FromToBytes
<1> HIDE DEF bytes
<1>7. ASSUME accessible(a, n)
      PROVE  /\ wordIn(contents', a, n) = fromBytes(bytes, n)
             /\ keeps(mapped \ (a .. a + n - 1))
  <2>1. MemoryTyped /\ Placed(blocks) /\ n \in Nat /\ \A b \in blocks : b.size + n <= AddrSpace
    BY <1>2, RoomForWords DEF FlatState, Typed, Roomy, FlatInv
  <2>2. Places(a, bytes) /\ wordIn(contents', a, n) = fromBytes(bytes, n)
    BY <1>2, <1>4, <1>6, <1>7, <2>1, FlatStore DEF accessible
  <2>3. a \in Nat /\ DOMAIN bytes = 0 .. n - 1
    BY <1>2, <1>6, AddrSpaceAssumption DEF Address, Buffer
  <2>4. {a + k : k \in DOMAIN bytes} \subseteq a .. a + n - 1
    BY <2>1, <2>3
  <2> QED
    BY <2>2, <2>4 DEF Places, keeps, agree
<1>8. StoresFlat(i, a, n)
  BY <1>3, <1>6, <1>7 DEF StoresFlat
<1> QED
  BY <1>3, <1>4, <1>8 DEF a, n

(* The read call.                                                          *)
LEMMA ReadIsFlat ==
  ASSUME FlatState, calling = "run", syscall_read, UNCHANGED blocks
  PROVE  ReadsFlat(registers[a1], readWords(registers[a2]))
<1> DEFINE buffer == registers[a1]
           n == readWords(registers[a2])
           k == CHOOSE j \in 0 .. n :
                  writable(buffer, j) /\ (j = n \/ ~writable(buffer, j + 1))
<1>1. buffer \in Word /\ registers[a2] \in Word /\ reply.result = ""
  BY RegistersAssumption DEF FlatState, Typed, CpuTyped, Inv, Pending
<1>2. n \in Nat /\ n * OpSize <= AddrSpace
  BY <1>1, ReadWordsType
<1>3. data' = readInto(buffer, k) /\ (k # n => Refused)
  BY DEF syscall_read, Throw, Refused
<1>4. k = n => ~Refused
  <2>1. k = n => (reply' = reply \/ inc_pc)
    BY DEF syscall_read
  <2>2. reply' = reply => ~Refused
    BY <1>1 DEF Refused
  <2> HIDE DEF k, n
  <2> QED
    BY <1>1, <2>1, <2>2, AdvanceIsNoRefusal
<1> HIDE DEF buffer, n
<1>5. k \in 0 .. n /\ writable(buffer, k)
  <2>1. \E j \in 0 .. n : writable(buffer, j) /\ (j = n \/ ~writable(buffer, j + 1))
    BY <1>2, ReadStops
  <2> QED
    BY <2>1
<1> HIDE DEF k
<1>6. k \in Nat /\ k * OpSize <= AddrSpace
  BY <1>2, <1>5, AddrSpaceAssumption DEF OpSize
<1>7. /\ \A j \in 0 .. k - 1 :
           wordIn(contents', to_word(buffer + j * OpSize), OpSize)
             = to_word((j * OpSize) * (j * OpSize))
      /\ keeps({a \in mapped : (a - buffer) % AddrSpace >= k * OpSize})
  BY <1>1, <1>3, <1>5, <1>6, FlatRead DEF FlatState, Typed, Roomy, FlatInv
<1>8. ReadsFlat(buffer, n)
  BY <1>3, <1>4, <1>5, <1>7 DEF ReadsFlat
<1> QED
  BY <1>8 DEF buffer, n

(* Every instruction.                                                      *)
LEMMA ExecIsFlat ==
  ASSUME FlatState, calling = "run", UNCHANGED blocks,
         Current \in Instructions, exec(Current)
  PROVE  Flat(Current)
<1> DEFINE i == Current
           a == to_word(get_register(i.rs1) + i.imm)
           reads == i.kind = "ecall" /\ registers[a7] = SysRead /\ SysRead \in syscalls
<1>1. i = decode[wordIn(contents, pc, OpSize)]
  <2>1. fetchable(pc) /\ pc \in Address /\ OpSize \in 0 .. OpSize
    <3>1. fetchable(pc)
      BY DEF FlatState, Inv, Pending, Started
    <3>2. pc \in Address
      BY DEF FlatState, Typed, CpuTyped
    <3> QED
      BY <3>1, <3>2 DEF OpSize
  <2>2. fromBytes(load(data, find_block(blocks, pc, OpSize), pc, OpSize), OpSize)
          = wordIn(contents, pc, OpSize)
    BY <2>1, FlatLoad DEF fetchable, FlatState, Typed, Roomy, FlatInv
  <2> QED
    BY <2>2 DEF Current
<1> HIDE DEF i
<1>2. i \in Instructions /\ exec(i)
  BY DEF i
<1>3. i.kind = "load" => exec_load(i)
  BY <1>2 DEF exec, exec_value, exec_jump, exec_branch, exec_store, exec_nothing, exec_csr,
              exec_ecall
<1>4. i.kind = "store" => exec_store(i)
  BY <1>2 DEF exec, exec_value, exec_jump, exec_branch, exec_load, exec_nothing, exec_csr,
              exec_ecall
<1>5. i.kind = "ecall" => exec_ecall(i)
  BY <1>2 DEF exec, exec_value, exec_jump, exec_branch, exec_load, exec_store, exec_nothing,
              exec_csr
<1>6. reads => syscall_read
  BY <1>5, SyscallAssumption
  DEF exec_ecall, syscall_unknown, syscall_exit, syscall_other
<1>7. i.kind = "load" => LoadsFlat(i, a, width(i.op))
  BY <1>2, <1>3, LoadIsFlat
<1>8. i.kind = "store" => StoresFlat(i, a, width(i.op)) /\ (Refused => data' = data)
  BY <1>2, <1>4, StoreIsFlat
<1>9. reads => ReadsFlat(registers[a1], readWords(registers[a2]))
  BY <1>6, ReadIsFlat
<1>10. ASSUME ~reads, i.kind = "store" => Refused PROVE keeps(mapped)
  <2>1. data' = data
    <3>1. CASE i.kind = "store"
      BY <1>8, <1>10, <3>1
    <3>2. CASE i.kind = "ecall"
      BY <1>5, <1>10, <3>2
      DEF exec_ecall, syscall_unknown, syscall_exit, syscall_other, syscall_read
    <3>3. CASE i.kind # "ecall" /\ i.kind # "store"
      <4>1. ~exec_store(i)
        BY <3>3 DEF exec_store
      <4> QED
        BY <1>2, <3>3, <4>1, OnlyStoreWrites
    <3> QED
      BY <3>1, <3>2, <3>3
  <2> QED
    BY <2>1, FlatUnchanged
<1>11. Flat(i)
  BY <1>1, <1>7, <1>8, <1>9, <1>10 DEF Flat
<1> QED
  BY <1>11 DEF i

(* For every instruction encoding, program and layout below the last       *)
(* address, and whatever the host calls in between, the program runs on    *)
(* one flat little-endian memory: every fetch, load, store and read call.  *)
THEOREM ExecutionIsFlat ==
  ASSUME LayoutBelowTop
  PROVE  Spec => FlatExecution
<1>1. FlatState /\ [Next]_vars => FlatState'
  BY FlatStep
<1>2. FlatState /\ [Next]_vars =>
        [calling = "run" /\ pc % OpSize = 0 /\ Current # NoHandler => Flat(Current)]_vars
  <2> SUFFICES ASSUME FlatState, Next, calling = "run", pc % OpSize = 0, Current # NoHandler
               PROVE  Flat(Current)
    OBVIOUS
  <2>1. run_step
    <3>1. ~start
      BY DEF start, Return
    <3> QED
      BY <3>1, OnlyStartSaysStart, LoadShape DEF FlatState
  <2>2. exec(Current) /\ UNCHANGED blocks
    BY <2>1 DEF run_step, fetch_fails
  <2>3. Current \in Instructions
    <3>1. fetchable(pc)
      BY DEF FlatState, Inv, Pending, Started
    <3> QED
      BY <3>1, CurrentType DEF FlatState, Typed, CpuTyped, Roomy
  <2> QED
    BY <2>2, <2>3, ExecIsFlat
<1> QED
  BY <1>1, <1>2, FlatInit, PTL DEF Spec, FlatExecution
============================================================================
