--------------------------- MODULE DriversProofs ---------------------------
(***************************************************************************)
(* Theorems about the architecture-test runner and the yeti tool, for      *)
(* every command line, program file, instruction set and default layout.   *)
(***************************************************************************)
EXTENDS Drivers, MachineProofs, FiniteSetTheorems

----------------------------------------------------------------------------
(* Counting the tests                                                      *)

(* The states between taking a file and judging it.                        *)
Working == {"isa", "memory", "device", "syscalls", "program", "start", "run",
            "returned", "caught", "refused", "terminated"}

(* The verdicts on the tests before this one, none yet on this one.        *)
Counts ==
  /\ host \in {"runner", "yeti"} /\ testIdx \in Nat
  /\ at \in Working \cup {"next", "exited"}
  /\ host = "runner" =>
       /\ files \in Batches /\ testIdx <= Len(files) /\ passed \subseteq 1 .. testIdx
       /\ at \in Working => testIdx >= 1 /\ testIdx \notin passed
  /\ host = "yeti" =>
       files \in {<<f>> : f \in ToolFiles} /\ (at \in Working => testIdx = 1)

(* While a machine is set up or runs, the counts stand still.              *)
LEMMA Driving ==
  ASSUME initProgram \/ init_vm \/ load_file \/ start_run
  PROVE  UNCHANGED main /\ at \in Working /\ at' \in Working
<1>1. CASE initProgram
  BY <1>1 DEF initProgram, Then, Working
<1>2. CASE init_vm
  BY <1>2 DEF init_vm, Then, Working
<1>3. CASE load_file
  BY <1>3 DEF load_file, Then, Working
<1>4. CASE start_run
  BY <1>4 DEF start_run, Then, Working
<1> QED
  BY <1>1, <1>2, <1>3, <1>4

(* A command line is a sequence of files of any length.                    *)
LEMMA BatchType ==
  ASSUME NEW b \in Batches
  PROVE  Len(b) \in Nat /\ DOMAIN b = 1 .. Len(b)
BY FilesAssumption

(* Every step keeps the counts.                                            *)
LEMMA CountsStep ==
  ASSUME Counts, [DriverNext]_driverVars
  PROVE  Counts'
<1>1. CASE initProgram \/ init_vm \/ load_file \/ start_run
  BY <1>1, Driving DEF Counts, main, Working
<1>2. CASE next_test
  <2>1. host = "runner" /\ at = "next" /\ Len(files) \in Nat
    BY <1>2, BatchType DEF next_test, Counts
  <2>2. CASE /\ testIdx < Len(files) /\ testIdx' = testIdx + 1 /\ at' = "isa"
             /\ UNCHANGED <<host, files, passed, status>>
    BY <2>1, <2>2 DEF Counts, Working
  <2>3. CASE testIdx = Len(files) /\ exit(numFails)
    BY <2>1, <2>3 DEF Counts, exit, Working
  <2> QED
    BY <1>2, <2>2, <2>3 DEF next_test
<1>3. CASE refused
  BY <1>3 DEF refused, Counts, exit, Working
<1>4. CASE verdict_of_test
  BY <1>4 DEF verdict_of_test, Counts, Working
<1>5. CASE yeti_main
  BY <1>5 DEF yeti_main, Counts, exit, main, Working
<1>6. CASE UNCHANGED driverVars
  BY <1>6 DEF driverVars, main, Counts
<1> QED
  BY <1>1, <1>2, <1>3, <1>4, <1>5, <1>6 DEF DriverNext

(* Both programs begin with no test taken.                                 *)
LEMMA CountsInit == DriverInit => Counts
<1> SUFFICES ASSUME DriverInit PROVE Counts
  OBVIOUS
<1>1. files \in Batches => Len(files) \in Nat
  BY BatchType
<1> QED
  BY <1>1 DEF DriverInit, Counts, Working

----------------------------------------------------------------------------
(* The machine under the drivers                                           *)

AlignedOrEntry == pc % OpSize = 0 \/ pc = initial_pc

(* What the calls made so far have set up.                                 *)
SetUp ==
  /\ at = "memory" => "ISA_INITIALIZED" \in initFlags
  /\ at \in {"device", "program"} \/ (host = "runner" /\ at = "syscalls") =>
       {"ISA_INITIALIZED", "HAVE_CODE_BLOCK", "HAVE_DATA_BLOCK"} \subseteq initFlags
  /\ at = "start" => initFlags = Flags
  /\ host = "runner" /\ at \in {"isa", "memory", "device", "syscalls"} => syscalls = {}

(* Where the machine is when the driver is at a call.                      *)
Phase ==
  /\ \/ calling = "client"
     \/ calling = "hex" /\ at = "program" /\ file.kind = "hex"
     \/ calling \in {"run", "read"} /\ at = "run"
  /\ at = "run" => /\ running = TRUE /\ fetchable(pc) /\ AlignedOrEntry
                   /\ calling = "run" => reply.result = ""
  /\ at = "caught" => AlignedOrEntry
  /\ TerminatedOnlyByEntry

(* The inductive invariant of both drivers.                                *)
DriverInv == Counts /\ Typed(FileRecords) /\ SetUp /\ Phase

(* The file the machine was built for is one of the given files.           *)
LEMMA FileType ==
  ASSUME Counts, at \in Working
  PROVE  file \in Files
<1>1. CASE host = "runner"
  <2>1. files \in Batches /\ testIdx \in 1 .. Len(files)
    BY <1>1, BatchType DEF Counts
  <2>2. testIdx \in DOMAIN files
    BY <2>1, BatchType
  <2> QED
    BY <2>1, <2>2 DEF file, Files, TestFileSet
<1>2. CASE host = "yeti"
  BY <1>2 DEF Counts, file, Files
<1> QED
  BY <1>1, <1>2 DEF Counts

(* The system calls of the drivers are registered ids.                     *)
LEMMA SysCallsType ==
  ASSUME NEW R, Typed(R), initSysCalls \/ init_syscalls
  PROVE  Typed(R)'
<1>1. "domain_error" \in Results /\ "true" \in Results /\ "" \in Results
  BY DEF Results
<1>2. calling' = "client" /\ LoaderTyped(R)' /\ reply'.result \in Results
  BY <1>1, ReturnType DEF Typed, initSysCalls, init_syscalls
<1>3. UNCHANGED <<memory, layout, boot, cpu>>
  BY DEF initSysCalls, init_syscalls
<1>4. syscalls' \subseteq SyscallIds
  BY ExitAssumption DEF Typed, HostTyped, initSysCalls, init_syscalls
<1>5. syscall_throw_on_error' \in BOOLEAN
  BY DEF Typed, HostTyped, initSysCalls, init_syscalls
<1>6. HostTyped'
  BY <1>2, <1>3, <1>4, <1>5 DEF Typed, HostTyped, boot, cpu
<1>7. MemoryTyped' /\ CpuTyped' /\ Layout' /\ Roomy'
  BY <1>3 DEF Typed, Layout, Roomy, MemoryTyped, CpuTyped, memory, layout, cpu
<1> QED
  BY <1>2, <1>6, <1>7 DEF Typed

(* A record for the device changes the loader only.                        *)
LEMMA LoadDeviceType ==
  ASSUME NEW R, \A r \in R : is_record(r), Typed(R), load_device
  PROVE  Typed(R)'
<1>1. /\ calling = "hex" /\ hex.rest # <<>> /\ UNCHANGED <<memory, layout, boot, cpu, calls>>
      /\ LoadContinues(hex.offset, hex.pc_value) \/ LoadEnds("false")
  BY DEF load_device, loadsDevice
<1>2. hex \in LoaderState(R)
  BY <1>1 DEF Typed, LoaderTyped
<1>3. LoaderTyped(R)' /\ calling' \in {"hex", "client"} /\ reply'.result \in Results
  <2>1. CASE LoadEnds("false")
    BY <2>1 DEF LoadEnds, LoaderTyped, Results
  <2>2. CASE LoadContinues(hex.offset, hex.pc_value)
    <3>1. hex' \in LoaderState(R)
      BY <1>1, <1>2, <2>2 DEF LoadContinues, LoaderState
    <3> QED
      BY <1>1, <2>2, <3>1 DEF LoadContinues, LoaderTyped, Typed, HostTyped
  <2> QED
    BY <1>1, <2>1, <2>2
<1>4. MemoryTyped' /\ CpuTyped' /\ Layout' /\ Roomy'
  BY <1>1 DEF Typed, Layout, Roomy, MemoryTyped, CpuTyped, memory, layout, cpu
<1>5. HostTyped'
  BY <1>1, <1>3 DEF Typed, HostTyped, boot, cpu, calls
<1> QED
  BY <1>3, <1>4, <1>5 DEF Typed

(* The runner's own steps of run end like those of basic_vm.               *)
LEMMA OverrideShape ==
  ASSUME override, running \in BOOLEAN
  PROVE  /\ calling = "run" /\ UNCHANGED <<blocks, layout, boot, calls, hex, registers, data>>
         /\ Advances \/ Throws
         /\ running' \in {running, FALSE}
         /\ (inc_pc \/ UNCHANGED pc)
<1>1. calling = "run" /\ UNCHANGED <<blocks, layout, boot, calls, hex>>
  BY DEF override
<1>2. inc_pc => Advances \/ Throws
  BY <1>1, GoToShape DEF inc_pc
<1>3. \A error \in {"unknown_instruction", "data_access_error"} :
        Throw(error) => Throws /\ UNCHANGED pc
  BY ThrowShape DEF Errors, Throws
<1>4. CASE fetch_device
  BY <1>1, <1>3, <1>4 DEF fetch_device
<1>5. CASE store_device
  BY <1>1, <1>2, <1>3, <1>5 DEF store_device
<1>6. CASE do_exit
  BY <1>1, <1>2, <1>6 DEF do_exit
<1>7. CASE debug
  BY <1>1, <1>2, <1>7 DEF debug
<1> QED
  BY <1>4, <1>5, <1>6, <1>7 DEF override

(* They keep the types.                                                    *)
LEMMA OverrideType ==
  ASSUME NEW R, Typed(R), override
  PROVE  Typed(R)'
<1>0. running \in BOOLEAN
  BY DEF Typed, HostTyped
<1>1. /\ calling = "run" /\ UNCHANGED <<blocks, layout, boot, calls, hex, registers, data>>
      /\ Advances \/ Throws
      /\ running' \in {running, FALSE}
      /\ (inc_pc \/ UNCHANGED pc)
  BY <1>0, OverrideShape
<1>2. pc' \in Address
  BY <1>1, PcType DEF Typed, CpuTyped
<1>3. MemoryTyped' /\ CpuTyped' /\ Layout' /\ Roomy'
  BY <1>1, <1>2 DEF Typed, Layout, Roomy, MemoryTyped, CpuTyped, layout
<1>4. reply'.result \in Results
  <2>1. \A error \in Errors : Throw(error) => reply'.result \in Results
    <3>1. Errors \subseteq Results
      BY DEF Errors, Results
    <3> QED
      BY <3>1, ThrowShape
  <2>2. inc_pc => reply'.result \in Results
    BY <2>1 DEF inc_pc, GoTo, Errors, Typed, HostTyped
  <2> QED
    BY <2>1, <2>2 DEF override, fetch_device, store_device, do_exit, debug, Errors
<1>5. calling' \in {"run", "client"} /\ running' \in BOOLEAN
  BY <1>0, <1>1 DEF Advances, Throws
<1>6. LoaderTyped(R)' /\ HostTyped'
  BY <1>1, <1>4, <1>5 DEF Typed, LoaderTyped, HostTyped, boot, calls
<1> QED
  BY <1>3, <1>6 DEF Typed
(* The default layout and the device region fit the machine's words.       *)
LEMMA DefaultsType ==
  /\ DefLayout.ro_size \in Nat /\ leaves_room(DefLayout.ro_size)
  /\ DefLayout.rw_size \in Nat /\ leaves_room(DefLayout.rw_size)
  /\ DeviceMemory.start \in Address
  /\ DeviceMemory.size \in Nat /\ leaves_room(DeviceMemory.size)
<1>1. /\ DefLayout.ro_size \in Nat /\ leaves_room(DefLayout.ro_size)
      /\ DefLayout.rw_size \in Nat /\ leaves_room(DefLayout.rw_size)
      /\ DefLayout.data_base \in Nat
  BY HostAssumption, RoomAssumption, AddrSpaceAssumption DEF Address
<1>2. /\ DeviceMemory.start = (DefLayout.data_base + DefLayout.rw_size) % AddrSpace
      /\ DeviceMemory.size = DefLayout.rw_size % AddrSpace
  BY DEF DeviceMemory, region
<1>3. DeviceMemory.start \in Address /\ DeviceMemory.size \in Nat
  BY <1>1, <1>2, AddrSpaceAssumption DEF Address
<1>4. DeviceMemory.size % AddrSpace = DefLayout.rw_size % AddrSpace
  BY <1>1, <1>2, AddrSpaceAssumption
<1> QED
  BY <1>1, <1>3, <1>4 DEF leaves_room

(* A machine built for the next test is typed like the first.              *)
LEMMA ConstructedType == Init' => Typed(FileRecords)'
<1>1. Init => Typed(FileRecords)
  BY TypedInit
<1> QED
  BY <1>1, PTL

(* Every step of a driver keeps the machine typed.                         *)
LEMMA DriverTypedStep ==
  ASSUME DriverInv, [DriverNext]_driverVars
  PROVE  Typed(FileRecords)'
<1>0. /\ Typed(FileRecords) /\ \A r \in FileRecords : is_record(r)
      /\ UNCHANGED vars => Typed(FileRecords)'
      /\ init_isa => Typed(FileRecords)'
      /\ init_default_memory => Typed(FileRecords)'
  BY FilesAssumption, TypedStutter, OtherCallsType, InitMemoryType, DefaultsType
  DEF DriverInv, init_default_memory
<1>1. at = "program" /\ file.kind = "hex" /\ set_program_hex(file.content) => Typed(FileRecords)'
  BY <1>0, FileType, FilesAssumption, SetProgramHexType DEF DriverInv, Working
<1>2. CASE initProgram
  <2>1. add_memory(DeviceMemory.start, DeviceMemory.size) => Typed(FileRecords)'
    BY <1>0, DefaultsType, BlockCallsType
  <2>2. initSysCalls => Typed(FileRecords)'
    BY <1>0, SysCallsType
  <2> QED
    BY <1>0, <1>1, <1>2, <2>1, <2>2 DEF initProgram
<1>3. CASE init_vm
  <2>1. init_syscalls => Typed(FileRecords)'
    BY <1>0, SysCallsType
  <2>2. at = "program" /\ file.kind = "bin" /\ set_program_bin(file.content, 0) => Typed(FileRecords)'
    BY <1>0, FileType, FilesAssumption, SetProgramBinType, AddressIsWord DEF DriverInv, Working
  <2> QED
    BY <1>0, <1>1, <1>3, <2>1, <2>2 DEF init_vm, set_program
<1>4. CASE load_file
  <2>1. load_device \/ load_record
    BY <1>4 DEF load_file
  <2> QED
    BY <1>0, <2>1, LoadDeviceType, LoadRecordType
<1>5. CASE start_run
  <2>1. CASE start \/ run
    BY <1>0, <2>1, HostCallsType
  <2>2. CASE override
    BY <1>0, <2>2, OverrideType
  <2>3. CASE at = "run" /\ plain_step
    <3>1. fetchable(pc) /\ run_step
      BY <2>3 DEF DriverInv, Phase, plain_step
    <3> QED
      BY <1>0, <3>1, RunStepType
  <2> QED
    BY <1>5, <2>1, <2>2, <2>3 DEF start_run
<1>6. CASE next_test
  <2>1. CASE construct_vm
    <3>1. Init'
      BY <2>1 DEF construct_vm, Init
    <3> QED
      BY <3>1, ConstructedType
  <2> QED
    BY <1>0, <1>6, <2>1 DEF next_test, exit
<1>7. CASE refused \/ verdict_of_test \/ yeti_main
  BY <1>0, <1>7 DEF refused, verdict_of_test, yeti_main, exit
<1>8. CASE UNCHANGED driverVars
  BY <1>0, <1>8 DEF driverVars
<1> QED
  BY <1>2, <1>3, <1>4, <1>5, <1>6, <1>7, <1>8 DEF DriverNext
(* A call that has returned leads to one of two places.                    *)
LEMMA ThenReturned ==
  ASSUME NEW to, NEW err, Then(to, err), calling' = "client"
  PROVE  at' \in {to, err} /\ (at' # err => reply'.result \in {"", "true"})
BY DEF Then

(* Each call of the set-up has been made when the next one is.             *)
LEMMA SetUpStep ==
  ASSUME DriverInv, [DriverNext]_driverVars
  PROVE  SetUp'
<1>1. SetUp /\ host \in {"runner", "yeti"} /\ initFlags \subseteq Flags
  BY DEF DriverInv, Counts, Typed, HostTyped
<1>2. UNCHANGED <<host, at, initFlags, syscalls>> => SetUp'
  BY <1>1 DEF SetUp
<1>3. at' \in {"next", "run", "returned", "caught", "refused", "terminated", "exited"} => SetUp'
  BY DEF SetUp
<1>4. ASSUME init_default_memory, NEW to, Then(to, "refused")
      PROVE  /\ at' \in {to, "refused"} /\ UNCHANGED <<host, syscalls>>
             /\ initFlags \subseteq initFlags'
             /\ at' # "refused" => BlockFlags \subseteq initFlags'
  <2>1. calling' = "client" /\ initFlags \subseteq initFlags' /\ UNCHANGED <<host, syscalls>>
    BY <1>4 DEF init_default_memory, init_memory, Return, calls, Then, main
  <2>2. reply'.result # ""
    BY <1>4 DEF init_default_memory, init_memory, Return, verdict
  <2>3. reply'.result = "true" => BlockFlags \subseteq initFlags'
    BY <1>4, InitMemoryAnswer DEF init_default_memory
  <2>4. at' \in {to, "refused"} /\ (at' # "refused" => reply'.result \in {"", "true"})
    BY <1>4, <2>1, ThenReturned
  <2> QED
    BY <2>1, <2>2, <2>3, <2>4
<1>5. ASSUME init_isa, Then("memory", "refused")
      PROVE  /\ at' \in {"memory", "refused"} /\ UNCHANGED <<host, syscalls>>
             /\ "ISA_INITIALIZED" \in initFlags'
  BY <1>5, ThenReturned DEF init_isa, Return, calls, Then, main
<1>6. ASSUME NEW content, at = "program", set_program_hex(content), Then("start", "refused")
      PROVE  at' \in {"program", "refused"} /\ UNCHANGED <<host, initFlags, syscalls>>
  <2>1. UNCHANGED <<host, initFlags, syscalls>>
    BY <1>6 DEF set_program_hex, boot, calls, Then, main
  <2>2. CASE calling' = "hex"
    BY <1>6, <2>1, <2>2 DEF Then
  <2>3. CASE Return("set_program_hex", "false")
    <3>1. calling' = "client" /\ reply'.result = "false"
      BY <2>3 DEF Return
    <3>2. reply'.result \notin {"", "true"}
      BY <3>1
    <3> QED
      BY <1>6, <2>1, <3>1, <3>2, ThenReturned
  <2> QED
    BY <1>6, <2>2, <2>3 DEF set_program_hex
<1>7. CASE initProgram
  <2>1. CASE at = "isa" /\ init_isa /\ Then("memory", "refused")
    BY <1>1, <1>5, <2>1 DEF SetUp
  <2>2. CASE at = "memory" /\ init_default_memory /\ Then("device", "refused")
    BY <1>1, <1>4, <2>2 DEF SetUp, BlockFlags
  <2>3. CASE /\ at = "device" /\ add_memory(DeviceMemory.start, DeviceMemory.size)
             /\ Then("syscalls", "refused")
    <3>1. calling' = "client" /\ UNCHANGED <<host, initFlags, syscalls>>
      BY <2>3 DEF add_memory, Return, boot, calls, Then, main
    <3>2. /\ {"ISA_INITIALIZED", "HAVE_CODE_BLOCK", "HAVE_DATA_BLOCK"} \subseteq initFlags'
          /\ syscalls' = {}
      BY <1>1, <1>7, <2>3, <3>1 DEF initProgram, SetUp
    <3>3. at' \in {"syscalls", "refused"}
      BY <2>3, <3>1, ThenReturned
    <3>4. CASE at' = "syscalls"
      BY <3>2, <3>4 DEF SetUp
    <3> QED
      BY <1>3, <3>3, <3>4
  <2>4. CASE at = "syscalls" /\ initSysCalls /\ Then("program", "terminated")
    <3>1. calling' = "client" /\ UNCHANGED <<host, initFlags>>
      BY <2>4 DEF initSysCalls, Return, boot, Then, main
    <3>2. {"ISA_INITIALIZED", "HAVE_CODE_BLOCK", "HAVE_DATA_BLOCK"} \subseteq initFlags'
      BY <1>1, <1>7, <2>4, <3>1 DEF initProgram, SetUp
    <3>3. at' \in {"program", "terminated"}
      BY <2>4, <3>1, ThenReturned
    <3>4. CASE at' = "program"
      BY <3>2, <3>4 DEF SetUp
    <3> QED
      BY <1>3, <3>3, <3>4
  <2>5. CASE at = "program" /\ set_program_hex(file.content) /\ Then("start", "refused")
    BY <1>1, <1>6, <2>5 DEF SetUp
  <2>6. CASE at' = "refused"
    BY <1>3, <2>6
  <2> QED
    BY <1>7, <2>1, <2>2, <2>3, <2>4, <2>5, <2>6 DEF initProgram
<1>8. CASE init_vm
  <2>0. host = "yeti"
    BY <1>8 DEF init_vm
  <2>1. CASE at = "syscalls" /\ init_syscalls /\ Then("isa", "refused")
    <3>1. calling' = "client" /\ host' # "runner"
      BY <2>0, <2>1 DEF init_syscalls, Return, Then, main
    <3>2. at' \in {"isa", "refused"}
      BY <2>1, <3>1, ThenReturned
    <3> QED
      BY <3>1, <3>2 DEF SetUp
  <2>2. CASE at = "isa" /\ init_isa /\ Then("memory", "refused")
    BY <1>1, <1>5, <2>0, <2>2 DEF SetUp
  <2>3. CASE at = "memory" /\ init_default_memory /\ Then("program", "refused")
    BY <1>1, <1>4, <2>0, <2>3 DEF SetUp, BlockFlags
  <2>4. CASE at = "program" /\ set_program_hex(file.content) /\ Then("start", "refused")
    BY <1>1, <1>6, <2>4 DEF SetUp
  <2>5. CASE at = "program" /\ set_program_bin(file.content, 0) /\ Then("start", "refused")
    <3>1. calling' = "client" /\ UNCHANGED host
      BY <2>5 DEF set_program_bin, Return, Then, main
    <3>2. reply'.result # ""
      BY <2>5 DEF set_program_bin, Return, verdict
    <3>3. reply'.result = "true" => initFlags' = initFlags \cup {"PC_INITIALIZED"}
      BY <2>5 DEF set_program_bin, Return, verdict, set_entry
    <3>4. at' = "start" => initFlags' = Flags
      <4>1. {"ISA_INITIALIZED", "HAVE_CODE_BLOCK", "HAVE_DATA_BLOCK"} \subseteq initFlags
        BY <1>1, <2>5 DEF SetUp
      <4>2. initFlags \cup {"PC_INITIALIZED"} = Flags
        BY <1>1, <4>1 DEF Flags
      <4>3. at' = "start" => reply'.result = "true"
        <5>1. at' \in {"start", "refused"} /\ (at' # "refused" => reply'.result \in {"", "true"})
          BY <2>5, <3>1, ThenReturned
        <5> QED
          BY <3>2, <5>1
      <4> QED
        BY <3>3, <4>2, <4>3
    <3>5. at' \in {"start", "refused"}
      BY <2>5, <3>1, ThenReturned
    <3> QED
      BY <2>0, <3>1, <3>4, <3>5 DEF SetUp
  <2> QED
    BY <1>8, <2>1, <2>2, <2>3, <2>4, <2>5 DEF init_vm, set_program
<1>9. CASE load_file
  <2>1. at = "program" /\ Then("start", "refused") /\ UNCHANGED host
    BY <1>9 DEF load_file, Then, main
  <2>2. \/ calling' = "hex" /\ UNCHANGED initFlags
        \/ calling' = "client" /\ reply'.result = "false"
        \/ calling' = "client" /\ initFlags' = initFlags \cup {"PC_INITIALIZED"}
    <3>1. CASE load_device
      BY <3>1 DEF load_device, loadsDevice, LoadContinues, LoadEnds, boot
    <3>2. CASE load_record
      BY <3>2, LoadShape DEF boot
    <3> QED
      BY <1>9, <3>1, <3>2 DEF load_file
  <2>3. CASE calling' = "hex" /\ UNCHANGED initFlags
    BY <1>1, <2>1, <2>3 DEF SetUp, Then
  <2>4. CASE calling' = "client" /\ reply'.result = "false"
    <3>1. reply'.result \notin {"", "true"}
      BY <2>4
    <3> QED
      BY <1>3, <2>1, <2>4, <3>1, ThenReturned
  <2>5. CASE calling' = "client" /\ initFlags' = initFlags \cup {"PC_INITIALIZED"}
    <3>1. {"ISA_INITIALIZED", "HAVE_CODE_BLOCK", "HAVE_DATA_BLOCK"} \subseteq initFlags
      BY <1>1, <2>1 DEF SetUp
    <3>2. initFlags' = Flags
      BY <1>1, <2>5, <3>1 DEF Flags
    <3>3. at' \in {"start", "refused"}
      BY <2>1, <2>5, ThenReturned
    <3> QED
      BY <3>2, <3>3 DEF SetUp
  <2> QED
    BY <2>2, <2>3, <2>4, <2>5
<1>10. CASE start_run
  <2>1. CASE at = "start" /\ start /\ Then("run", "terminated")
    BY <1>3, <2>1, ThenReturned DEF start, Return
  <2>2. CASE at = "run" /\ Then("returned", "caught")
    BY <1>3, <2>2 DEF Then
  <2> QED
    BY <1>10, <2>1, <2>2 DEF start_run
<1>11. CASE next_test
  BY <1>3, <1>11 DEF next_test, construct_vm, exit, SetUp
<1>12. CASE refused \/ verdict_of_test
  BY <1>3, <1>12 DEF refused, verdict_of_test, exit
<1>13. CASE yeti_main
  BY <1>3, <1>13 DEF yeti_main, exit, SetUp
<1>14. CASE UNCHANGED driverVars
  BY <1>2, <1>14 DEF driverVars, vars, main, boot, calls
<1> QED
  BY <1>7, <1>8, <1>9, <1>10, <1>11, <1>12, <1>13, <1>14 DEF DriverNext

(* No step of run leaves word alignment but for the entry point.           *)
LEMMA StepAligned ==
  ASSUME Typed(FileRecords), AlignedOrEntry, override \/ run_step
  PROVE  AlignedOrEntry'
<1>1. pc \in Address /\ initial_pc' = initial_pc
  BY DEF Typed, CpuTyped, override, run_step, boot
<1>2. UNCHANGED pc => AlignedOrEntry'
  BY <1>1 DEF AlignedOrEntry
<1>3. pc % OpSize = 0 /\ inc_pc => AlignedOrEntry'
  <2>1. ASSUME pc % OpSize = 0 PROVE ((pc + OpSize) % AddrSpace) % OpSize = 0
    BY <1>1, <2>1, IncAligned
  <2> QED
    BY <1>2, <2>1 DEF inc_pc, GoTo, Throw, AlignedOrEntry
<1>4. CASE override
  <2>1. pc % OpSize = 0
    BY <1>4 DEF override, fetch_device, fetchesDevice, store_device, storesDevice, do_exit, exits,
                debug, debugs, executing
  <2>2. inc_pc \/ UNCHANGED pc
    BY <1>4, OverrideShape DEF Typed, HostTyped
  <2> QED
    BY <1>2, <1>3, <2>1, <2>2
<1>5. CASE run_step
  <2>1. CASE fetch_fails
    BY <1>2, <2>1 DEF fetch_fails, Throw
  <2>2. CASE pc % OpSize = 0 /\ exec(Current)
    BY <1>1, <2>2, ExecAligned DEF AlignedOrEntry
  <2> QED
    BY <1>5, <2>1, <2>2 DEF run_step
<1> QED
  BY <1>4, <1>5

(* A driver that is not in run and not handling its end has no more to     *)
(* show than that no call is in progress.                                  *)
LEMMA PhaseOutside ==
  ASSUME calling' = "client", at' \notin {"run", "caught", "terminated"}
  PROVE  Phase'
BY DEF Phase, TerminatedOnlyByEntry

(* run goes on, comes back, throws or hangs; each is where Then says.      *)
LEMMA PhaseRun ==
  ASSUME DriverInv, at = "run", run \/ override \/ plain_step, Then("returned", "caught")
  PROVE  Phase'
<1>1. /\ running = TRUE /\ fetchable(pc) /\ AlignedOrEntry
      /\ calling = "run" => reply.result = ""
  BY DEF DriverInv, Phase
<1>2. CASE run
  <2>1. calling' = "run" /\ reply'.result = "" /\ at' = "run"
    BY <1>1, <1>2 DEF run, Then
  <2>2. running' = TRUE /\ pc' = pc /\ blocks' = blocks /\ initial_pc' = initial_pc
    BY <1>1, <1>2 DEF run, cpu, memory, boot
  <2>3. fetchable(pc)' /\ AlignedOrEntry'
    BY <1>1, <2>2 DEF fetchable, AlignedOrEntry
  <2> QED
    BY <2>1, <2>2, <2>3 DEF Phase, TerminatedOnlyByEntry
<1>3. CASE override \/ plain_step
  <2>0. override \/ run_step
    BY <1>3 DEF plain_step
  <2>1. /\ calling = "run" /\ blocks' = blocks
        /\ Advances \/ Throws \/ Hangs
        /\ running' \in {running, FALSE}
    BY <2>0, OverrideShape, StepShape DEF DriverInv, Typed, HostTyped
  <2>2. AlignedOrEntry'
    BY <1>1, <2>0, StepAligned DEF DriverInv
  <2>3. reply.result = "" /\ running' \in BOOLEAN
    BY <1>1, <2>1
  <2>4. CASE Advances /\ running'
    <3>1. calling' = "run" /\ at' = "run" /\ reply'.result = "" /\ fetchable(pc)' /\ running' = TRUE
      BY <2>3, <2>4 DEF Advances, Then
    <3> QED
      BY <2>2, <3>1 DEF Phase, TerminatedOnlyByEntry
  <2>5. CASE Advances /\ ~running'
    <3>1. calling' = "client" /\ at' = "returned"
      BY <2>3, <2>5 DEF Advances, Then
    <3> QED
      BY <3>1, PhaseOutside
  <2>6. CASE Throws
    <3>1. calling' = "client" /\ at' = "caught"
      BY <2>6 DEF Throws, Then
    <3> QED
      BY <2>2, <3>1 DEF Phase, TerminatedOnlyByEntry
  <2>7. CASE Hangs
    <3>1. calling' = "read" /\ at' = "run" /\ running' = TRUE /\ pc' = pc
      BY <1>1, <2>7 DEF Hangs, Then
    <3>2. fetchable(pc)'
      BY <1>1, <2>1, <3>1 DEF fetchable
    <3> QED
      BY <2>2, <3>1, <3>2 DEF Phase, TerminatedOnlyByEntry
  <2> QED
    BY <2>1, <2>4, <2>5, <2>6, <2>7
<1> QED
  BY <1>2, <1>3

(* Every call is where the driver says it is.                              *)
LEMMA PhaseStep ==
  ASSUME DriverInv, [DriverNext]_driverVars
  PROVE  Phase'
<1>0. Phase /\ SetUp
  BY DEF DriverInv
<1>1. ASSUME calling' = "client", NEW to, Then(to, "refused"),
             to \notin {"run", "caught", "terminated"}
      PROVE  Phase'
  <2>1. at' \in {to, "refused"}
    BY <1>1, ThenReturned
  <2> QED
    BY <1>1, <2>1, PhaseOutside
<1>2. ASSUME at = "program", file.kind = "hex", calling' = "hex", Then("start", "refused")
      PROVE  Phase'
  <2>1. at' = "program" /\ file' = file
    BY <1>2 DEF Then, main, file
  <2> QED
    BY <1>2, <2>1 DEF Phase, TerminatedOnlyByEntry
<1>3. ASSUME NEW call, NEW result, Return(call, result) PROVE calling' = "client"
  BY <1>3 DEF Return
<1>4. ASSUME init_isa \/ init_default_memory PROVE calling' = "client"
  BY <1>3, <1>4 DEF init_isa, init_default_memory, init_memory
<1>5. ASSUME at = "program", file.kind = "hex", set_program_hex(file.content), Then("start", "refused")
      PROVE  Phase'
  <2>1. calling' \in {"hex", "client"}
    BY <1>5 DEF set_program_hex, Return
  <2> QED
    BY <1>1, <1>2, <1>5, <2>1
<1>6. CASE initProgram
  <2>1. CASE at = "isa" /\ init_isa /\ Then("memory", "refused")
    BY <1>1, <1>4, <2>1
  <2>2. CASE at = "memory" /\ init_default_memory /\ Then("device", "refused")
    BY <1>1, <1>4, <2>2
  <2>3. CASE add_memory(DeviceMemory.start, DeviceMemory.size) /\ Then("syscalls", "refused")
    BY <1>1, <1>3, <2>3 DEF add_memory
  <2>4. CASE at = "syscalls" /\ initSysCalls /\ Then("program", "terminated")
    <3>1. syscalls = {}
      BY <1>0, <1>6, <2>4 DEF initProgram, SetUp
    <3>2. calling' = "client" /\ reply'.result = "true"
      BY <2>4, <3>1 DEF initSysCalls, Return
    <3>3. at' = "program"
      BY <2>4, <3>2 DEF Then
    <3> QED
      BY <3>2, <3>3, PhaseOutside
  <2>5. CASE /\ at = "program" /\ file.kind = "hex" /\ set_program_hex(file.content)
             /\ Then("start", "refused")
    BY <1>5, <2>5
  <2>6. CASE at = "program" /\ file.kind = "none" /\ at' = "refused" /\ UNCHANGED <<vars, main>>
    <3>1. calling = "client" /\ calling' = calling
      BY <1>0, <2>6 DEF Phase, vars
    <3> QED
      BY <2>6, <3>1, PhaseOutside
  <2> QED
    BY <1>6, <2>1, <2>2, <2>3, <2>4, <2>5, <2>6 DEF initProgram
<1>7. CASE init_vm
  <2>1. CASE at = "syscalls" /\ init_syscalls /\ Then("isa", "refused")
    BY <1>1, <1>3, <2>1 DEF init_syscalls
  <2>2. CASE at = "isa" /\ init_isa /\ Then("memory", "refused")
    BY <1>1, <1>4, <2>2
  <2>3. CASE at = "memory" /\ init_default_memory /\ Then("program", "refused")
    BY <1>1, <1>4, <2>3
  <2>4. CASE /\ at = "program" /\ file.kind = "hex" /\ set_program_hex(file.content)
             /\ Then("start", "refused")
    BY <1>5, <2>4
  <2>5. CASE set_program_bin(file.content, 0) /\ Then("start", "refused")
    BY <1>1, <1>3, <2>5 DEF set_program_bin
  <2> QED
    BY <1>7, <2>1, <2>2, <2>3, <2>4, <2>5 DEF init_vm, set_program
<1>8. CASE load_file
  <2>1. at = "program" /\ Then("start", "refused") /\ (load_device \/ load_record)
    BY <1>8 DEF load_file
  <2>2. calling = "hex" /\ calling' \in {"hex", "client"}
    BY <2>1, LoadShape DEF load_device, loadsDevice, LoadContinues, LoadEnds
  <2>3. file.kind = "hex"
    BY <1>0, <2>2 DEF Phase
  <2> QED
    BY <1>1, <1>2, <2>1, <2>2, <2>3
<1>9. CASE start_run
  <2>1. CASE at = "start" /\ start /\ Then("run", "terminated")
    <3>1. initFlags = Flags
      BY <1>0, <2>1 DEF SetUp
    <3>2. calling' = "client" /\ blocks' = blocks /\ initial_pc' = initial_pc
      BY <2>1 DEF start, Return, memory, boot
    <3>3. fetchable(initial_pc)' = fetchable(initial_pc)
      BY <3>2 DEF fetchable
    <3>4. CASE fetchable(initial_pc)
      <4>1. pc' = initial_pc /\ running' = TRUE /\ at' = "run"
        BY <2>1, <3>1, <3>2, <3>4 DEF start, Return, is_initialized, Then
      <4>2. fetchable(pc)' /\ AlignedOrEntry'
        BY <3>2, <3>4, <4>1 DEF fetchable, AlignedOrEntry
      <4> QED
        BY <3>2, <4>1, <4>2 DEF Phase, TerminatedOnlyByEntry
    <3>5. CASE ~fetchable(initial_pc)
      <4>1. at' = "terminated"
        BY <2>1, <3>2, <3>5 DEF start, Return, Then
      <4> QED
        BY <3>2, <3>3, <3>5, <4>1 DEF Phase, TerminatedOnlyByEntry
    <3> QED
      BY <3>4, <3>5
  <2>2. CASE at = "run" /\ (run \/ override \/ plain_step) /\ Then("returned", "caught")
    BY <2>2, PhaseRun
  <2> QED
    BY <1>9, <2>1, <2>2 DEF start_run
<1>10. ASSUME calling = "client", UNCHANGED vars, at' \in {"next", "syscalls", "exited"} PROVE Phase'
  BY <1>10, PhaseOutside DEF vars
<1>11. at \in {"next", "refused", "returned", "caught"} => calling = "client"
  BY <1>0 DEF Phase
<1>12. CASE next_test
  <2>1. construct_vm /\ at' = "isa" => Phase'
    BY PhaseOutside DEF construct_vm
  <2> QED
    BY <1>10, <1>11, <1>12, <2>1 DEF next_test, exit
<1>13. CASE refused
  BY <1>10, <1>11, <1>13 DEF refused, exit
<1>14. CASE verdict_of_test
  <2>1. /\ calling = "client" /\ UNCHANGED vars /\ at' \in {"next", "terminated"}
        /\ at' = "terminated" => at = "caught" /\ pc % OpSize # 0
    BY <1>11, <1>14 DEF verdict_of_test
  <2>2. CASE at' = "terminated"
    <3>1. initial_pc % OpSize # 0
      BY <1>0, <2>1, <2>2 DEF Phase, AlignedOrEntry
    <3>2. calling' = "client" /\ initial_pc' = initial_pc
      BY <2>1 DEF vars, boot
    <3> QED
      BY <2>2, <3>1, <3>2 DEF Phase, TerminatedOnlyByEntry
  <2> QED
    BY <1>10, <2>1, <2>2
<1>15. CASE yeti_main
  <2>1. CASE at = "caught" /\ at' = "terminated" /\ UNCHANGED <<vars, device, main>>
    <3>1. calling' = "client" /\ host' = "yeti"
      BY <1>11, <1>15, <2>1 DEF yeti_main, vars, main
    <3> QED
      BY <2>1, <3>1 DEF Phase, TerminatedOnlyByEntry
  <2> QED
    BY <1>10, <1>11, <1>15, <2>1 DEF yeti_main, exit
<1>16. CASE UNCHANGED driverVars
  BY <1>0, <1>16 DEF driverVars, vars, cpu, boot, memory, main, Phase, fetchable, AlignedOrEntry,
                     TerminatedOnlyByEntry, file
<1> QED
  BY <1>6, <1>7, <1>8, <1>9, <1>12, <1>13, <1>14, <1>15, <1>16 DEF DriverNext

(* The invariant holds at the start and every step of a driver keeps it.   *)
LEMMA DriverInvStep ==
  /\ DriverInit => DriverInv
  /\ DriverInv /\ [DriverNext]_driverVars => DriverInv'
<1>1. ASSUME DriverInit PROVE DriverInv
  <2>1. Counts /\ Typed(FileRecords)
    BY <1>1, CountsInit, TypedInit DEF DriverInit
  <2>2. SetUp /\ Phase
    BY <1>1 DEF DriverInit, Init, SetUp, Phase, TerminatedOnlyByEntry
  <2> QED
    BY <2>1, <2>2 DEF DriverInv
<1>2. ASSUME DriverInv, [DriverNext]_driverVars PROVE DriverInv'
  <2>1. Counts'
    BY <1>2, CountsStep DEF DriverInv
  <2>2. Typed(FileRecords)' /\ SetUp' /\ Phase'
    BY <1>2, DriverTypedStep, SetUpStep, PhaseStep
  <2> QED
    BY <2>1, <2>2 DEF DriverInv
<1> QED
  BY <1>1, <1>2

(* A test program cannot take the runner down: whatever it executes, the   *)
(* process is only terminated for a file whose entry point is misaligned   *)
(* or outside memory (start is called outside the try block, and the       *)
(* handler of the exception decodes once more).                            *)
THEOREM OnlyEntryTerminates == DriverSpec => []TerminatedOnlyByEntry
<1>1. DriverInv => TerminatedOnlyByEntry
  BY DEF DriverInv, Phase
<1> QED
  BY DriverInvStep, <1>1, PTL DEF DriverSpec

----------------------------------------------------------------------------
(* The exit status                                                         *)

(* The machine of a test is armed by its load and by nothing else: not yet *)
(* while it is set up or was refused, and from start to its verdict.       *)
Armed ==
  host = "runner" =>
    /\ at \in {"isa", "memory", "device", "syscalls", "program", "refused"}
         => "PC_INITIALIZED" \notin initFlags
    /\ at \in {"run", "returned", "caught"} \/ (at = "next" /\ testIdx # 0)
         => initFlags = Flags

(* Setting a machine up does not arm it.                                   *)
LEMMA SettingUp ==
  ASSUME init_isa \/ init_default_memory \/ initSysCalls
           \/ add_memory(DeviceMemory.start, DeviceMemory.size)
           \/ set_program_hex(file.content) \/ UNCHANGED vars,
         "PC_INITIALIZED" \notin initFlags
  PROVE  "PC_INITIALIZED" \notin initFlags'
<1>1. CASE init_isa
  BY <1>1 DEF init_isa
<1>2. CASE init_default_memory
  BY <1>2 DEF init_default_memory, init_memory
<1>3. CASE \/ initSysCalls \/ add_memory(DeviceMemory.start, DeviceMemory.size)
           \/ set_program_hex(file.content) \/ UNCHANGED vars
  BY <1>3 DEF initSysCalls, add_memory, set_program_hex, vars, boot
<1> QED
  BY <1>1, <1>2, <1>3

(* Every step of the runner keeps this.                                    *)
LEMMA ArmedStep ==
  ASSUME DriverInv, Armed, [DriverNext]_driverVars
  PROVE  Armed'
<1> SUFFICES ASSUME host' = "runner" PROVE Armed'
  BY DEF Armed
<1>0. host = "runner"
  BY DEF DriverNext, initProgram, init_vm, load_file, start_run, next_test, refused,
         verdict_of_test, yeti_main, exit, Then, main, driverVars
<1>1. CASE initProgram
  <2>1. at \in {"isa", "memory", "device", "syscalls", "program"}
    BY <1>1 DEF initProgram
  <2>2. "PC_INITIALIZED" \notin initFlags
    BY <1>0, <2>1 DEF Armed
  <2>3. "PC_INITIALIZED" \notin initFlags'
    BY <1>1, <2>2, SettingUp DEF initProgram, vars
  <2>4. at' \notin {"run", "returned", "caught", "next"}
    BY <1>1 DEF initProgram, Then
  <2> QED
    BY <2>3, <2>4 DEF Armed
<1>2. CASE load_file
  <2>1. at = "program" /\ Then("start", "refused") /\ "PC_INITIALIZED" \notin initFlags
    BY <1>0, <1>2 DEF load_file, Armed
  <2>2. \/ UNCHANGED initFlags
        \/ calling' = "client" /\ reply'.result = "true"
    <3>1. CASE load_device
      BY <3>1 DEF load_device, boot
    <3>2. CASE load_record
      BY <3>2, LoadShape DEF boot
    <3> QED
      BY <1>2, <3>1, <3>2 DEF load_file
  <2>3. CASE UNCHANGED initFlags
    BY <2>1, <2>3 DEF Armed, Then
  <2>4. CASE calling' = "client" /\ reply'.result = "true"
    BY <2>1, <2>4 DEF Armed, Then
  <2> QED
    BY <2>2, <2>3, <2>4
<1>3. CASE start_run
  <2>1. at \in {"start", "run"} /\ at' \in {"start", "run", "returned", "caught", "terminated"}
    BY <1>3 DEF start_run, Then
  <2>2. initFlags = Flags
    BY <1>0, <2>1 DEF DriverInv, SetUp, Armed
  <2>3. UNCHANGED initFlags
    BY <1>3 DEF start_run, start, run, override, plain_step, run_step, boot
  <2> QED
    BY <2>1, <2>2, <2>3 DEF Armed
<1>4. CASE next_test
  <2>1. CASE construct_vm /\ at' = "isa"
    BY <2>1 DEF construct_vm, Armed
  <2>2. CASE at' = "exited"
    BY <2>2 DEF Armed
  <2> QED
    BY <1>4, <2>1, <2>2 DEF next_test, exit
<1>5. CASE verdict_of_test
  <2>1. at \in {"returned", "caught"} /\ at' \in {"next", "terminated"} /\ UNCHANGED initFlags
    BY <1>5 DEF verdict_of_test, vars, boot
  <2> QED
    BY <1>0, <2>1 DEF Armed
<1>6. CASE refused
  BY <1>6 DEF refused, exit, Armed
<1>7. CASE UNCHANGED driverVars
  BY <1>7 DEF driverVars, vars, boot, main, Armed
<1> QED
  BY <1>0, <1>1, <1>2, <1>3, <1>4, <1>5, <1>6, <1>7 DEF DriverNext, init_vm, yeti_main

(* The tests without a pass are the rest.                                  *)
LEMMA CountingTests ==
  ASSUME NEW n \in Nat, NEW P, P \subseteq 1 .. n
  PROVE  /\ Cardinality((1 .. n) \ P) = n - Cardinality(P)
         /\ Cardinality(1 .. n) = n
<1>1. IsFiniteSet(1 .. n) /\ Cardinality(1 .. n) = n
  BY FS_Interval
<1>2. (1 .. n) \cap P = P
  OBVIOUS
<1> QED
  BY <1>1, <1>2, FS_Difference

(* The two ways out of main: after the last test with the remainder of the *)
(* failures, and at a file that is refused with 1.                         *)
LEMMA ExitStatus ==
  ASSUME DriverInv, Armed, [DriverNext]_driverVars, host' = "runner", at' = "exited", at # "exited"
  PROVE  ZeroStatus'
<1>1. /\ host = "runner"
      /\ \/ at = "next" /\ testIdx = Len(files) /\ exit(numFails)
         \/ at = "refused" /\ exit(1)
  BY DEF DriverNext, initProgram, init_vm, load_file, start_run, next_test, refused,
         verdict_of_test, yeti_main, exit, Then, main, driverVars
<1>2. /\ files \in Batches /\ testIdx \in Nat /\ passed \subseteq 1 .. testIdx /\ testIdx <= Len(files)
      /\ Len(files) \in Nat /\ DOMAIN files = 1 .. Len(files)
      /\ ExitCodes \in Nat /\ ExitCodes > 1
  BY <1>1, BatchType, ExitAssumption DEF DriverInv, Counts
<1>3. /\ files' = files /\ passed' = passed /\ testIdx' = testIdx /\ initFlags' = initFlags
  BY <1>1 DEF exit, vars, boot
<1>4. ZeroStatus' <=> /\ passed = 1 .. Len(files) => status' = 0
                      /\ status' = 0 <=> /\ testIdx = Len(files) /\ (testIdx = 0 \/ initFlags = Flags)
                                         /\ Cardinality((1 .. Len(files)) \ passed) % ExitCodes = 0
  BY <1>2, <1>3 DEF ZeroStatus, allRan, is_initialized
<1>5. CASE at = "next" /\ testIdx = Len(files) /\ exit(numFails)
  <2>1. status' = (testIdx - Cardinality(passed)) % ExitCodes
    BY <1>5 DEF exit, numFails
  <2>2. Cardinality((1 .. Len(files)) \ passed) = testIdx - Cardinality(passed)
    BY <1>2, <1>5, CountingTests
  <2>3. testIdx = 0 \/ initFlags = Flags
    BY <1>1, <1>5 DEF Armed
  <2>4. passed = 1 .. Len(files) => status' = 0
    <3> SUFFICES ASSUME passed = 1 .. Len(files) PROVE status' = 0
      OBVIOUS
    <3>1. Cardinality(passed) = testIdx
      <4>1. Cardinality(1 .. Len(files)) = Len(files)
        BY <1>2, <1>5, CountingTests
      <4> QED
        BY <1>5, <4>1, Zenon
    <3>2. testIdx - Cardinality(passed) = 0
      BY <1>2, <3>1
    <3> QED
      BY <1>2, <2>1, <3>2
  <2> QED
    BY <1>4, <1>5, <2>1, <2>2, <2>3, <2>4
<1>6. CASE at = "refused" /\ exit(1)
  <2>1. testIdx >= 1 /\ testIdx \notin passed /\ "PC_INITIALIZED" \notin initFlags
    BY <1>1, <1>6 DEF DriverInv, Counts, Working, Armed
  <2>2. status' = 1 % ExitCodes
    BY <1>6 DEF exit
  <2>3. status' # 0
    BY <1>2, <2>2
  <2>4. passed # 1 .. Len(files)
    BY <1>2, <2>1
  <2>5. initFlags # Flags /\ testIdx # 0
    BY <2>1 DEF Flags
  <2> QED
    BY <1>4, <2>3, <2>4, <2>5
<1> QED
  BY <1>1, <1>5, <1>6

(* The exit status of the runner, for command lines of any length: zero is *)
(* reported when every test passed, and otherwise only when every file was *)
(* loaded and run and the failures are a multiple of the exit statuses.    *)
THEOREM ZeroIsSuccess == DriverSpec => []ZeroStatus
<1>1. DriverInit => Armed /\ ZeroStatus
  BY DEF DriverInit, Armed, ZeroStatus
<1>2. DriverInv /\ Armed /\ ZeroStatus /\ [DriverNext]_driverVars => Armed' /\ ZeroStatus'
  <2> SUFFICES ASSUME DriverInv, Armed, ZeroStatus, [DriverNext]_driverVars PROVE ZeroStatus'
    BY ArmedStep
  <2>1. CASE host' = "runner" /\ at' = "exited" /\ at # "exited"
    BY <2>1, ExitStatus
  <2>2. CASE at = "exited"
    <3>1. UNCHANGED driverVars
      BY <2>2 DEF DriverNext, initProgram, init_vm, load_file, start_run, next_test, refused,
                  verdict_of_test, yeti_main
    <3> QED
      BY <3>1 DEF driverVars, vars, boot, main, ZeroStatus, allRan, is_initialized
  <2>3. CASE ~(host' = "runner" /\ at' = "exited")
    BY <2>3 DEF ZeroStatus
  <2> QED
    BY <2>1, <2>2, <2>3
<1> QED
  BY DriverInvStep, <1>1, <1>2, PTL DEF DriverSpec

----------------------------------------------------------------------------
(* Passing                                                                 *)

(* Of the instructions of basic_vm only the exit call stops the machine.   *)
LEMMA OnlyExitStops ==
  ASSUME NEW i, exec(i), running = TRUE, ~running'
  PROVE  i.kind = "ecall" /\ registers[a7] = SysExit
<1>1. running' # running
  OBVIOUS
<1>2. ~exec_value(i) /\ ~exec_jump(i) /\ ~exec_branch(i) /\ ~exec_load(i) /\ ~exec_store(i)
  BY <1>1 DEF exec_value, exec_jump, exec_branch, exec_load, exec_store
<1>3. ~exec_nothing(i) /\ ~exec_csr(i)
  BY <1>1 DEF exec_nothing, exec_csr
<1>4. exec_ecall(i)
  BY <1>2, <1>3 DEF exec
<1>5. i.kind = "ecall" /\ syscall_exit
  BY <1>1, <1>4 DEF exec_ecall, syscall_unknown, syscall_other, syscall_read
<1> QED
  BY <1>5 DEF syscall_exit

(* run comes back without an exception and without a report only from the  *)
(* exit call.                                                              *)
LEMMA ReturnsByExit ==
  ASSUME DriverInv, [DriverNext]_driverVars, at = "run", at' = "returned", ~set_dev'
  PROVE  calling = "run" /\ executing("ecall") /\ registers[a7] = SysExit
<1>1. (run \/ override \/ plain_step) /\ Then("returned", "caught")
  BY DEF DriverNext, initProgram, init_vm, load_file, start_run, next_test, refused,
         verdict_of_test, yeti_main, exit, driverVars
<1>2. running = TRUE
  BY DEF DriverInv, Phase
<1>3. calling' = "client" /\ reply'.result \in {"", "true"}
  BY <1>1 DEF Then
<1>4. ~run
  BY <1>2, <1>3 DEF run
<1>5. ~Throws
  BY <1>3 DEF Throws
<1>6. ~Hangs
  BY <1>3 DEF Hangs
<1>7. calling = "run" /\ (Advances \/ Throws \/ Hangs)
  BY <1>1, <1>4, OverrideShape, StepShape DEF DriverInv, Typed, HostTyped, plain_step
<1>8. ~running'
  BY <1>3, <1>5, <1>6, <1>7 DEF Advances
<1>9. CASE override
  <2>1. ~store_device
    BY <1>2, <1>8 DEF store_device
  <2>2. ~fetch_device
    BY <1>2, <1>8 DEF fetch_device
  <2>3. ASSUME debug PROVE FALSE
    <3>1. running' = (running /\ ~set_dev) /\ set_dev' = set_dev
      BY <2>3 DEF debug, device
    <3>2. ~set_dev
      BY <3>1
    <3>3. running /\ ~set_dev
      BY <1>2, <3>2, Zenon
    <3> QED
      BY <1>8, <3>1, <3>3, Zenon
  <2>4. do_exit
    BY <1>9, <2>1, <2>2, <2>3 DEF override
  <2> QED
    BY <1>7, <2>4 DEF do_exit, exits
<1>10. CASE plain_step
  <2>1. ~fetch_fails
    BY <1>2, <1>8 DEF fetch_fails
  <2>2. pc % OpSize = 0 /\ Current # NoHandler /\ exec(Current) /\ ~fetchesDevice
    BY <1>10, <2>1 DEF plain_step, run_step
  <2>3. Current.kind = "ecall" /\ registers[a7] = SysExit
    BY <1>2, <1>8, <2>2, OnlyExitStops
  <2> QED
    BY <1>7, <2>2, <2>3 DEF executing
<1> QED
  BY <1>1, <1>4, <1>9, <1>10

(* run comes back without an exception only when the program called exit,  *)
(* or reported a failure and stopped at ebreak: no test passes because     *)
(* nothing was loaded, started or executed, whatever the program.          *)
THEOREM PassesByExit == DriverSpec => PassedByExit
<1>1. DriverInv /\ [DriverNext]_driverVars =>
        [at = "run" /\ at' = "returned" /\ ~set_dev' =>
           calling = "run" /\ executing("ecall") /\ registers[a7] = SysExit]_driverVars
  BY ReturnsByExit
<1> QED
  BY DriverInvStep, <1>1, PTL DEF DriverSpec, PassedByExit

----------------------------------------------------------------------------
(* Failing                                                                 *)

(* Test k has reported, or is about to, and its verdict can only be one.   *)
Reported(k) ==
  /\ host = "runner" /\ testIdx >= k /\ k \notin passed
  /\ testIdx = k => \/ set_dev = TRUE
                    \/ at = "run" /\ calling = "run" /\ storesDevice
                    \/ at = "program" /\ loadsDevice

(* A pending record for the device is the only one the loader can take.    *)
LEMMA PendingRecord ==
  ASSUME DriverInv, at = "program", loadsDevice, DriverNext
  PROVE  set_dev' = TRUE /\ UNCHANGED main
<1>1. calling = "hex" /\ file.kind = "hex"
  BY DEF loadsDevice, DriverInv, Phase
<1>2. ~initProgram /\ ~init_vm
  BY <1>1 DEF initProgram, init_vm, set_program, set_program_hex, set_program_bin, Return, loadsDevice
<1>3. load_file
  BY <1>2 DEF DriverNext, start_run, next_test, refused, verdict_of_test, yeti_main
<1>4. load_device /\ Then("start", "refused")
  BY <1>3 DEF load_file
<1> QED
  BY <1>4 DEF load_device, device_store, Then

(* A pending store to the device is the only step the machine can take.    *)
LEMMA PendingReport ==
  ASSUME at = "run", calling = "run", storesDevice, DriverNext
  PROVE  set_dev' = TRUE /\ UNCHANGED main
<1>1. /\ pc % OpSize = 0 /\ ~fetchesDevice /\ Current.kind = "store"
      /\ ~exits /\ ~debugs
  BY DEF storesDevice, executing, exits, debugs
<1>2. (run \/ override \/ plain_step) /\ Then("returned", "caught")
  BY DEF DriverNext, initProgram, init_vm, load_file, start_run, next_test, refused,
         verdict_of_test, yeti_main, exit
<1>3. ~run /\ ~plain_step
  BY DEF run, plain_step
<1>4. store_device
  BY <1>1, <1>2, <1>3 DEF override, fetch_device, do_exit, debug
<1> QED
  BY <1>2, <1>4 DEF store_device, device_store, Then

(* No step forgets a report before the verdict.                            *)
LEMMA ReportedStep ==
  ASSUME NEW k \in Int, DriverInv, Reported(k), [DriverNext]_driverVars
  PROVE  Reported(k)'
<1>1. host = "runner" /\ testIdx \in Nat /\ testIdx >= k /\ k \notin passed
  BY DEF Reported, DriverInv, Counts
<1>2. CASE UNCHANGED driverVars
  <2>1. /\ UNCHANGED <<host, testIdx, passed, at, calling, set_dev, blocks, data, registers, pc, hex>>
    BY <1>2 DEF driverVars, vars, memory, cpu, main, device
  <2>2. storesDevice' = storesDevice
    BY <2>1 DEF storesDevice, storeAddress, executing, fetchesDevice, onDevice, Current, get_register
  <2>3. loadsDevice' = loadsDevice
    BY <2>1 DEF loadsDevice, loadAddress, Record, onDevice
  <2> QED
    BY <2>1, <2>2, <2>3 DEF Reported
<1>3. CASE testIdx = k /\ at = "run" /\ calling = "run" /\ storesDevice /\ DriverNext
  <2>1. set_dev' = TRUE /\ UNCHANGED main
    BY <1>3, PendingReport
  <2> QED
    BY <1>1, <2>1 DEF Reported, main
<1>5. CASE testIdx = k /\ at = "program" /\ loadsDevice /\ DriverNext
  <2>1. set_dev' = TRUE /\ UNCHANGED main
    BY <1>5, PendingRecord
  <2> QED
    BY <1>1, <2>1 DEF Reported, main
<1>4. CASE (testIdx = k => set_dev = TRUE) /\ DriverNext
  <2>1. CASE initProgram \/ init_vm \/ load_file \/ start_run
    <3>1. UNCHANGED main
      BY <2>1, Driving
    <3>2. set_dev = TRUE => set_dev' = TRUE
      BY <2>1 DEF initProgram, init_vm, load_file, load_device, start_run, override, plain_step,
                  fetch_device, store_device, do_exit, debug, device_store, device
    <3> QED
      BY <1>1, <1>4, <3>1, <3>2 DEF Reported, main
  <2>2. CASE next_test
    <3>1. host' = host /\ passed' = passed
      BY <2>2 DEF next_test, exit
    <3>2. testIdx' = testIdx + 1 \/ (testIdx' = testIdx /\ UNCHANGED device)
      BY <2>2 DEF next_test, exit
    <3> QED
      BY <1>1, <1>4, <3>1, <3>2 DEF Reported, device
  <2>3. CASE refused
    BY <1>1, <1>4, <2>3 DEF refused, exit, Reported, device
  <2>4. CASE verdict_of_test
    <3>1. /\ UNCHANGED <<host, testIdx, set_dev>>
          /\ passed' = passed \/ passed' = passed \cup {j \in {testIdx} : ~set_dev}
      BY <2>4 DEF verdict_of_test, device
    <3>2. k \notin passed'
      BY <1>1, <1>4, <3>1
    <3> QED
      BY <1>1, <1>4, <3>1, <3>2 DEF Reported
  <2>5. CASE yeti_main
    BY <1>1, <2>5 DEF yeti_main
  <2> QED
    BY <1>4, <2>1, <2>2, <2>3, <2>4, <2>5 DEF DriverNext
<1> QED
  BY <1>2, <1>3, <1>4, <1>5 DEF Reported

(* A test that is about to report has not passed.                          *)
LEMMA AboutToReport ==
  ASSUME NEW k, DriverInv, host = "runner", testIdx = k, reporting
  PROVE  Reported(k)
<1>1. \/ at = "run" /\ calling = "run" /\ storesDevice
      \/ at = "program" /\ loadsDevice
  BY DEF DriverInv, Phase, reporting, loadsDevice
<1>2. k \notin passed /\ testIdx >= k
  BY <1>1 DEF DriverInv, Counts, Working
<1> QED
  BY <1>1, <1>2 DEF Reported

(* One test, in the form the temporal prover needs.                        *)
LEMMA ReportSticks ==
  ASSUME NEW k \in Tests
  PROVE  DriverSpec =>
           [](host = "runner" /\ testIdx = k /\ reporting => [](k \notin passed))
<1>1. k \in Int
  BY DEF Tests
<1>2. DriverInv /\ host = "runner" /\ testIdx = k /\ reporting => Reported(k)
  BY AboutToReport
<1>3. DriverInv /\ Reported(k) /\ [DriverNext]_driverVars => Reported(k)'
  BY <1>1, ReportedStep
<1>4. Reported(k) => k \notin passed
  BY DEF Reported
<1> QED
  BY DriverInvStep, <1>2, <1>3, <1>4, PTL DEF DriverSpec

(* A program that has stored to the device, whatever the size, the place   *)
(* and the value, never passes, however it goes on, nor does a file that   *)
(* is loaded there: device_store notes the store before it is found        *)
(* possible, and nothing clears the note until the next machine is built.  *)
THEOREM ReportsStick == DriverSpec => AssertionSticks
<1>1. \A k \in Tests :
        DriverSpec =>
          [](host = "runner" /\ testIdx = k /\ reporting => [](k \notin passed))
  BY ReportSticks
<1> QED
  BY <1>1 DEF AssertionSticks
=============================================================================
