------------------------------ MODULE Drivers ------------------------------
(***************************************************************************)
(* The two programs of the repository that host a basic_vm: the runner of  *)
(* the architecture tests (tests/arch-tests/yeti_runner.cxx) and the yeti  *)
(* tool (tools/yeti_main.cxx, options v and V).                            *)
(*                                                                         *)
(* Each is a fixed sequence of calls of Machine; at names the next one, or *)
(* how the last one ended.  The runner builds a machine per test, with a   *)
(* device region the program reports failed assertions to, its own exit    *)
(* call and its own reaction to ebreak.  An exception nobody catches ends  *)
(* the process (at = "terminated").                                        *)
(***************************************************************************)
EXTENDS MachineProperties, FiniteSetsExt

CONSTANTS
  Batches,    \* command lines of the runner, sequences of files
  ToolFiles,  \* program files given to the yeti tool
  ExitCodes   \* exit statuses a process can report, 256 in POSIX

(* A file as the loaders of vm_utility see it: .hex text that parses to a  *)
(* sequence of records, a .bin image, or "none", which cannot be read.     *)
FileKinds == {"hex", "bin", "none"}
TestFileSet == UNION {{b[i] : i \in DOMAIN b} : b \in Batches}
Files == TestFileSet \cup ToolFiles
FileRecords == UNION {{f.content[i] : i \in DOMAIN f.content} : f \in {g \in Files : g.kind = "hex"}}
ASSUME FilesAssumption ==
  /\ Batches \subseteq Seq(TestFileSet)
  /\ \A f \in TestFileSet : f.kind \in {"hex", "none"}
  /\ \A f \in Files : f.kind \in FileKinds
  /\ \A f \in Files : f.kind = "hex" => f.content \in Seq(FileRecords)
  /\ \A f \in Files : f.kind = "bin" => is_image(f.content)
  /\ \A r \in FileRecords : is_record(r)
ASSUME ExitAssumption == ExitCodes \in Nat /\ ExitCodes > 1 /\ SysExit \in SyscallIds

DevWords == 4  \* dev_mem.size()
DeviceMemory == region((DefLayout.data_base + DefLayout.rw_size) % AddrSpace, DefLayout.rw_size)

VARIABLES
  host,     \* "runner" or "yeti"
  files,    \* argv
  testIdx,  \* the file the machine was built for
  at,
  passed,   \* the tests that did not add to numFails
  status,   \* what main returned, once at = "exited"
  set_dev, dev_mem

device == <<set_dev, dev_mem>>
main == <<host, files, testIdx, passed, status>>
driverVars == <<vars, device, main, at>>

file == files[testIdx]

DriverInit ==
  /\ Init
  /\ \/ host = "runner" /\ files \in Batches
     \/ host = "yeti" /\ files \in {<<f>> : f \in ToolFiles}
  /\ testIdx = 0 /\ at = "next" /\ passed = {} /\ status = 0
  /\ set_dev = FALSE /\ dev_mem = [i \in 0 .. DevWords - 1 |-> 0]

(* The call in progress goes on, or ends at to, or fails into err.         *)
Then(to, err) ==
  /\ at' = IF calling' # "client" THEN at
           ELSE IF reply'.result \in {"", "true"} THEN to ELSE err
  /\ UNCHANGED main

----------------------------------------------------------------------------
(* Setting the machine up.  Once a call has failed, && skips the rest.     *)

(* A new Runner: the members of basic_vm and its own as at the start.      *)
construct_vm ==
  /\ blocks' = {} /\ data' = allocate(<<>>, {})
  /\ initFlags' = {} /\ initial_pc' = 0
  /\ ro_size' = DefLayout.ro_size /\ rw_size' = DefLayout.rw_size
  /\ code_base' = DefLayout.code_base /\ data_base' = DefLayout.data_base
  /\ registers' = [r \in Registers |-> 0] /\ pc' = 0 /\ running' = FALSE
  /\ syscalls' = {} /\ syscall_throw_on_error' = TRUE
  /\ calling' = "client" /\ hex' = NoHex /\ reply' = [call |-> "", result |-> ""]

(* Mutant: the device of the last test is kept.                            *)
DeviceKept == UNCHANGED device

construct_device == set_dev' = FALSE /\ dev_mem' = [i \in 0 .. DevWords - 1 |-> 0]

initSysCalls ==
  /\ Return("initSysCalls", IF SysExit \in syscalls THEN "domain_error" ELSE "true")
  /\ syscalls' = syscalls \cup {SysExit} /\ syscall_throw_on_error' = FALSE
  /\ UNCHANGED <<memory, layout, boot, cpu>>

init_syscalls ==
  /\ Return("init_syscalls", "")
  /\ syscalls' = SyscallIds
  /\ UNCHANGED <<memory, layout, boot, cpu, syscall_throw_on_error>>

init_default_memory == init_memory(DefLayout.ro_size, DefLayout.rw_size)

initProgram ==
  /\ host = "runner"
  /\ \/ at = "isa" /\ init_isa /\ Then("memory", "refused")
     \/ at = "memory" /\ init_default_memory /\ Then("device", "refused")
     \/ at = "device" /\ add_memory(DeviceMemory.start, DeviceMemory.size)
        /\ Then("syscalls", "refused")
     \/ at = "syscalls" /\ initSysCalls /\ Then("program", "terminated")
     \/ at = "program" /\ file.kind = "hex" /\ set_program_hex(file.content)
        /\ Then("start", "refused")
     \/ at = "program" /\ file.kind = "none" /\ at' = "refused" /\ UNCHANGED <<vars, main>>
  /\ UNCHANGED device

(* load_helper::set_program, given a file that is not empty.               *)
set_program ==
  \/ file.kind = "hex" /\ set_program_hex(file.content)
  \/ file.kind = "bin" /\ set_program_bin(file.content, 0)

init_vm ==
  /\ host = "yeti"
  /\ \/ at = "syscalls" /\ init_syscalls /\ Then("isa", "refused")
     \/ at = "isa" /\ init_isa /\ Then("memory", "refused")
     \/ at = "memory" /\ init_default_memory /\ Then("program", "refused")
     \/ at = "program" /\ set_program /\ Then("start", "refused")
  /\ UNCHANGED device

----------------------------------------------------------------------------
(* DeviceMemory.  Its bytes in data stay 0, which is what its load gives.  *)

onDevice(address, size) ==
  host = "runner" /\ find_block(blocks, address, size) = DeviceMemory

device_accepts(address, size) ==
  size = OpSize /\ (address - DeviceMemory.start) \div OpSize < DevWords

assert_set(address, value) ==
  dev_mem' = [dev_mem EXCEPT ![(address - DeviceMemory.start) \div OpSize] = value]

(* Mutant: reporting the value 0 is not reporting.                         *)
DeviceZeroSilent(address, value, size) ==
  /\ set_dev' = (set_dev \/ value # 0)
  /\ IF device_accepts(address, size) THEN assert_set(address, value) ELSE UNCHANGED dev_mem

(* The store is noted before it is found possible.                         *)
device_store(address, value, size) ==
  /\ set_dev' = TRUE
  /\ IF device_accepts(address, size) THEN assert_set(address, value) ELSE UNCHANGED dev_mem

loadAddress == (hex.offset + Record.offset) % AddrSpace
loadsDevice ==
  /\ calling = "hex" /\ hex.rest # <<>> /\ Record.valid /\ Record.type = "data"
  /\ image_size(Record.data) # 0 /\ onDevice(loadAddress, image_size(Record.data))

load_device ==
  LET size == image_size(Record.data) IN
  /\ loadsDevice
  /\ device_store(loadAddress, IF size = OpSize THEN fromBytes(Record.data, OpSize) ELSE 0, size)
  /\ IF device_accepts(loadAddress, size)
       THEN LoadContinues(hex.offset, hex.pc_value)
       ELSE LoadEnds("false")
  /\ UNCHANGED <<memory, layout, boot, cpu, calls>>

(* Mutant: the answer of set_program is dropped.                           *)
LoadIgnored ==
  /\ at = "program"
  /\ load_device \/ (~loadsDevice /\ load_record /\ UNCHANGED device)
  /\ Then("start", "start")

(* The loop of set_program(hex_file).                                      *)
load_file ==
  /\ at = "program"
  /\ load_device \/ (~loadsDevice /\ load_record /\ UNCHANGED device)
  /\ Then("start", "refused")

----------------------------------------------------------------------------
(* What the runner overrides in a step of run.                             *)

(* get_ro of the device gives no pointer to decode.                        *)
fetchesDevice == pc % OpSize = 0 /\ onDevice(pc, OpSize)
fetch_device ==
  /\ fetchesDevice
  /\ Throw("unknown_instruction")
  /\ UNCHANGED <<registers, data, running, device>>

executing(kind) ==
  /\ pc % OpSize = 0 /\ ~fetchesDevice
  /\ Current # NoHandler /\ Current.kind = kind

storeAddress == to_word(get_register(Current.rs1) + Current.imm)
storesDevice ==
  /\ executing("store")
  /\ storeAddress % width(Current.op) = 0 /\ onDevice(storeAddress, width(Current.op))
store_device ==
  LET size == width(Current.op) IN
  /\ storesDevice
  /\ device_store(storeAddress, get_register(Current.rs2), size)
  /\ UNCHANGED <<registers, data, running>>
  /\ IF device_accepts(storeAddress, size) THEN inc_pc ELSE Throw("data_access_error")

exits == host = "runner" /\ executing("ecall") /\ registers[a7] = SysExit
do_exit ==
  /\ exits
  /\ running' = FALSE
  /\ UNCHANGED <<registers, data, device>>
  /\ inc_pc

debugs == host = "runner" /\ executing("ebreak")
debug ==
  /\ debugs
  /\ running' = (running /\ ~set_dev)
  /\ UNCHANGED <<registers, data, device>>
  /\ inc_pc

override ==
  /\ calling = "run"
  /\ fetch_device \/ store_device \/ do_exit \/ debug
  /\ UNCHANGED <<blocks, layout, boot, calls, hex>>

plain_step ==
  /\ ~(fetchesDevice \/ storesDevice \/ exits \/ debugs)
  /\ run_step /\ UNCHANGED device

(* start is outside the try block, run inside it.                          *)
start_run ==
  \/ at = "start" /\ start /\ UNCHANGED device /\ Then("run", "terminated")
  \/ at = "run" /\ run /\ UNCHANGED device /\ Then("returned", "caught")
  \/ at = "run" /\ (override \/ plain_step) /\ Then("returned", "caught")

----------------------------------------------------------------------------
(* main                                                                    *)

exit(code) ==
  /\ at' = "exited" /\ status' = code % ExitCodes
  /\ UNCHANGED <<vars, device, host, files, testIdx, passed>>

numFails == testIdx - Cardinality(passed)

next_test ==
  /\ host = "runner" /\ at = "next"
  /\ \/ /\ testIdx < Len(files)
        /\ construct_vm /\ construct_device
        /\ testIdx' = testIdx + 1 /\ at' = "isa"
        /\ UNCHANGED <<host, files, passed, status>>
     \/ testIdx = Len(files) /\ exit(numFails)

(* Mutant: the batch ends early with what it has counted so far.           *)
RefusedNotFailed == host = "runner" /\ at = "refused" /\ exit(testIdx - 1 - Cardinality(passed))

refused == host = "runner" /\ at = "refused" /\ exit(1)

(* dump_state decodes the current instruction once more, in the handler of *)
(* the exception: with a misaligned pc it throws out of exec.              *)
verdict_of_test ==
  /\ host = "runner"
  /\ \/ at = "returned" /\ passed' = passed \cup {k \in {testIdx} : ~set_dev} /\ at' = "next"
     \/ at = "caught" /\ UNCHANGED passed /\ at' = IF pc % OpSize = 0 THEN "next" ELSE "terminated"
  /\ UNCHANGED <<vars, device, host, files, testIdx, status>>

is_empty(f) == f.kind = "none" \/ f.content = <<>>

(* The yeti tool: run_vm reports a refused program and returns, so main    *)
(* succeeds; an exception of run is thrown on.                             *)
yeti_main ==
  /\ host = "yeti"
  /\ \/ /\ at = "next"
        /\ IF is_empty(files[1]) THEN exit(1)
           ELSE /\ testIdx' = 1 /\ at' = "syscalls"
                /\ UNCHANGED <<vars, device, host, files, passed, status>>
     \/ at \in {"refused", "returned"} /\ exit(0)
     \/ at = "caught" /\ at' = "terminated" /\ UNCHANGED <<vars, device, main>>

DriverNext ==
  \/ initProgram \/ init_vm \/ load_file \/ start_run
  \/ next_test \/ refused \/ verdict_of_test \/ yeti_main

(* Both programs are one thread, which goes on as long as it can.          *)
DriverSpec == DriverInit /\ [][DriverNext]_driverVars /\ WF_driverVars(DriverNext)

----------------------------------------------------------------------------
(* run comes back without an exception only when the program called exit,  *)
(* or reported a failure and stopped at ebreak: no test passes because     *)
(* nothing was loaded, started or executed.                                *)
PassedByExit ==
  [][at = "run" /\ at' = "returned" /\ ~set_dev' =>
       calling = "run" /\ executing("ecall") /\ registers[a7] = SysExit]_driverVars

(* A program that has stored to the device, whatever the size, the place   *)
(* and the value, never passes, however it goes on; nor does a file whose  *)
(* own records reach the device while it is loaded.                        *)
Tests == 1 .. Max({Len(b) : b \in Batches})
reporting == loadsDevice \/ (calling = "run" /\ storesDevice)
AssertionSticks ==
  \A k \in Tests :
    [](host = "runner" /\ testIdx = k /\ reporting => [](k \notin passed))

(* The verdict on a file does not depend on the tests before it.           *)
TestsIsolated ==
  host = "runner" =>
    \A i, j \in 1 .. testIdx :
      (j < testIdx \/ at \in {"next", "exited"}) /\ files[i] = files[j] /\ i \in passed => j \in passed

(* Only a file with a bad entry point takes the other tests of the batch   *)
(* down with it; whatever else its program does wrong is one failure.      *)
TerminatedOnlyByEntry ==
  host = "runner" /\ at = "terminated" => initial_pc % OpSize # 0 \/ ~fetchable(initial_pc)

(* What the build system learns from the exit status, for command lines of *)
(* any length.  main returns the number of failures and the system keeps   *)
(* its remainder by ExitCodes: success is reported when every test passed, *)
(* and otherwise only when all files were loaded and run and the number of *)
(* failures is a multiple of ExitCodes.  A file that cannot be loaded, the *)
(* last one or not, is never reported as success.                          *)
allRan == testIdx = Len(files) /\ (testIdx = 0 \/ is_initialized)
ZeroStatus ==
  host = "runner" /\ at = "exited" =>
    /\ passed = DOMAIN files => status = 0
    /\ status = 0 <=> allRan /\ Cardinality(DOMAIN files \ passed) % ExitCodes = 0

(* Both programs end, unless the program they run loops for ever.          *)
DriverEnds == <>(at \in {"exited", "terminated"}) \/ []<>LoopsBack
============================================================================
