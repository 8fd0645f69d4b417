# A TLA+ verification of yeti-vm

yeti-vm is a RISC-V (RV32IM) virtual machine written in C++: a library
(`src/src/yeti-vm`), a command line tool (`src/tools`), a runner for the RISC-V
architecture tests and unit tests (`src/tests`).
This directory models it in TLA+, checks the model with TLC on small instances,
and proves its central properties with TLAPS for every instance.

The machine is a single-threaded library. Nothing in it runs concurrently and
nothing is persisted; what makes it hard is different. A *host* program may make
its calls in any order and repeat them. Any instruction may throw an exception
through `run`, and nothing is rolled back. Addresses and sizes are 32-bit and
wrap. Loaders fail in the middle of a file, and the file may be damaged. Dispatch
depends on the whole set of handlers registered before. The programs that host
the machine must draw the right verdict from all of this.

## 1. The system and its parts

| Part | Source | State | Operations |
|---|---|---|---|
| memory regions, `memory_management_unit` | `vm_memory.hxx/.cxx` | a map from start address to region; each region's bytes | `add_block`, `find_block`; a region's `load`, `store`, `get_ro`, `get_rw` |
| `basic_vm` | `vm_basic.hxx/.cxx` | the unit, the layout (two bases, two sizes), four `InitFlag` bits, `initial_pc`, the registers and pc, `running`, the system call registry and its throw switch | `set_ro_size` ... `init_memory`, `add_memory`, `init_isa`, `init_pc`, two `set_program`, `start`, `run`, `halt`; for instructions: registers, memory, `jump_abs`, `inc_pc`, `syscall` |
| instruction handlers | `vm_handlers_rv32i.hxx/.cxx`, `vm_handlers_rv32m.hxx/.cxx` | none | `exec` of each instruction |
| `HandlerRegistry` | `vm_handler.hxx/.cxx` | handlers by packed id; the groups that read funct3, the pairs that read funct7 | `register_handler`, `find_handler` |
| system calls | `vm_syscall.hxx/.cxx`, `tools/yeti_main.cxx` | registered ids | `open`, `close`, `read`, `put_char`, `put_int`, `exit` |
| hex records | `vm_utility.hxx/.cxx` | the lines left, the records parsed | `parse_hex`, `from_hex`, checksum, `hex_record` |
| opcode decoder, encoder | `vm_opcode.hxx/.cxx`, `vm_bit_tools.hxx` | none | fields and immediates of the six formats |
| CSR instructions | `vm_handlers_rv32i.hxx` | the CSRs of a machine that has them | `csrrw` ... `csrrci` through `control_get`, `control_set` |
| architecture-test runner | `tests/arch-tests/yeti_runner.cxx` | one `basic_vm` per test with a device region, the failures so far | `initProgram`, `exec`, `debug`, `do_exit`, the batch loop of `main` |
| tools | `tools` | one `basic_vm` | `yeti` (`load_helper`, `run_vm`), `view_hex`, `make_dummy` |

How they interact. The host builds a `basic_vm` and configures it. `init_isa`
fills the registry. `set_program` looks up a region per record and stores into
it. `start` clears the registers, sets pc to the entry point and decides
`running`. `run` repeats `run_step` while `running`: fetch the word at pc through
the unit, look up its handler, call `exec`. The handler calls back into
`basic_vm` for registers, memory, jumps and system calls; a system call of the
tool calls back into `halt`, `set_register` and `write_memory`. Every callback
that refuses does so by throwing, through the handler, `run_step` and `run`, to
the host, who may call `run` again. The runner and the `yeti` tool are such hosts:
each makes a fixed sequence of these calls; the runner also overrides `debug` and
adds a region whose stores are the test's failed assertions.

What must be right:

* the unit: no address belongs to two regions; a transfer touches exactly the
  addresses it names, or nothing;
* `basic_vm`: a running machine is completely configured and can always fetch
  (the region of pc is dereferenced without a test); the answers of the set-up
  calls are true; a failed load can be repeated; a fault leaves a known state;
  `run` comes back;
* handlers: the results are those of arithmetic on 32-bit integers, at every
  boundary; no store leaves its word;
* registry, decoder, encoder: each word runs the handler meant for it, no handler
  hides another, and the handler reads what was assembled;
* CSR instructions: an exchange uses old values only, a refused one loses
  nothing it would need again, no access is made that is not needed;
* hex text: an intact file is read as it was meant, an error is noticed;
* runner and tool: a test that reported a failure fails, a test passes only by
  calling `exit`, tests do not influence each other, the exit status is true, the
  process ends.

`PROJECT.json` lists the hazards at their source lines, with the properties that
would catch each.

## 2. The modules

| Module | Models |
|---|---|
| `MemoryBlock` | `memory_block::params` arithmetic modulo the address space, lookup, byte copies; operators only |
| `Mmu` | the unit as a state machine: `add_block`, `Load`, `Store` |
| `FlatMemory` | abstract: one byte per address, mappings that do not collide |
| `MmuRefinement` | the mapping from `Mmu` to `FlatMemory`, with the assumption it needs |
| `MmuProofs` | theorems about `Mmu` |
| `Alu` | `calculate` and `compare` of every integer handler, on `XLEN`-bit words |
| `AluProofs` | what the operators of `Alu` return; induction over a set of numbers |
| `IntegerUnit`, `IntegerProofs` | any integer instruction on any operands, against mathematical integers; the theorems |
| `Machine` | `basic_vm`, the control of every handler, the system calls, both loaders |
| `VmLifecycle` | abstract: configured, started, running, inside `run` |
| `MachineProperties` | what a host may rely on; the refinement mapping to `VmLifecycle` |
| `MachineProofs` | theorems about `Machine` |
| `HandlerRegistry` | `register_handler`, `find_handler` and the keys of the registry |
| `Opcode` | `Decoder` and `Encoder` bit by bit on 32-bit words; operators only |
| `Rv32Isa` | `init_isa`: both registration lists in source order, over the registry; words assembled by the `Encoder`, dispatched and taken apart |
| `IsaProofs` | theorems about `HandlerRegistry`, `Opcode` and `Rv32Isa` |
| `Csr`, `CsrProofs` | the six CSR instructions on a machine with CSRs, and their theorems |
| `HexText`, `HexTextProofs` | `parse_hex`, line by line, on text that may have been damaged; the theorems |
| `Drivers`, `DriversProofs` | the runner and the `yeti` tool, composed with `Machine`; the theorems |
| `MC*` | the instances TLC checks |

### Correspondence

*Regions.* A region is the record `[start, size]` (`memory_block::params`).
`blocks` is the key set of the unit's `std::map`, `data` each region's buffer as
a function on `0 .. size-1`. Every sum the C++ computes on `address_type` or
`size_type` is taken modulo `AddrSpace`. `find_block` returns the first region in
map order that holds the range. `get_ro` and `get_rw` return the address that
`load` and `store` use; `Machine`'s fetch is written with `load`. Passing a
`size_t` size to `generic_memory` narrows it (`region` in `Machine`). `reply` holds the last call with its
arguments and its result, in `Mmu` and in `FlatMemory` alike, so that the
refinement ties each answer to the question asked.

*basic_vm.* Each public set-up call is one action that sets `reply` to what the
call returned or threw. `calling` says which loop is in progress: `"client"` (the
host decides), `"run"` (one `run_step` per step), `"hex"` (one record of
`set_program(hex_file)` per step) or `"read"` (see system calls). `registers` is the general register file and
`pc` its last element in the code. An exception is `Throw`: `calling` returns to
the host, everything done before stays. The order inside an instruction is the
order of the code: a jump writes the link register, then `jump_abs` may throw;
every other instruction takes effect, then `inc_pc` may throw. `decode`, a
constant, stands for the decoder and the registry lookup: the theorems hold for
every such function.

*Bytes and words.* A word is always four bytes; a byte has `ByteCount` values,
256 in the program and 4 in the instances, so that a word has 256 values.
`fromBytes` and `toBytes` are the little-endian copies of the code.

*Undefined behaviour.* `sll`, `srl` and `sra` shift by the whole register. From
the word width up this is undefined in C++; `Alu` allows both outcomes of real
hosts, the count taken modulo the width and every bit shifted out.

*System calls.* `exit` and `read` have an effect on the machine and are modelled;
the others print and return 0, and are one action. `read` stores the word i*i for
i = 0, 4, 8, ... and stops at the first store that is refused. Its 32-bit counter
wraps before it passes a size above 2^32 - 4: if no store is refused either, the
loop never ends, which is the state `calling = "read"`, without a successor in
`run`. Only an address space that is mapped everywhere can lead there.

*Registry.* A handler is `[group, funcA, funcB]` with `NoFuncA = 16`,
`NoFuncB = 256` for the fields it leaves open. `handlers` is the set of values of
the code's map, whose keys are `idOf`. `found` records the last lookup. A lookup
is forgotten at the next registration, because the code never keeps one.

*Words.* In `Opcode` a 32-bit word is the set of the positions of its one bits, so
`|`, `&` and the shifts are set operations, and the real layout of the formats can
be used without enumerating words. `Rv32Isa` assembles an instruction with the
`Encoder` (`fetch`), looks its fields up in the registry and keeps the instruction
until `retire`, so that dispatch and operands can be compared with what was meant.
`Register5`, `Func3`, `ImmI` ... are what a caller must pass: the `Encoder` checks
nothing.

*CSRs.* `Readable` and `Writable` are the CSRs whose access does not throw. An
instruction is one step, in the order of the code: `control_get`, write the
destination register, read the source register, `control_set`. `basic_vm`'s own
machine has none (`Readable = Writable = {}`), which `Machine` contains as the kind
`"csr"`.

*Hex text.* A character is a digit, a colon or something else. `source` is what a
writer of the file meant and what happened to each line since: something before or
after the record, one character replaced, the last ones lost. `rest` and `result`
are the lines left and the records parsed. A data byte that `parse_hex_record` reads
past its vector is any byte (`beyond`). `IsLine` says which lines the format and such
damage allow; the data of a record with an address are the bytes that encode it
(`encodesExtend`, `encodesStart`), which `get_extend` and `get_start` have to decode.

*Drivers.* `at` is the next call of `main`, or how the last one ended: `refused`
(it answered false), `caught` (`run` threw), `returned`, `terminated` (an exception
nobody catches), `exited`. `Then` advances it when the call in progress is over. A
step of `run` is `Machine`'s `run_step` unless the runner overrides what the
instruction does: a store to the device (`store_device`), a fetch from it
(`fetch_device`), `exit` (`do_exit`), `ebreak` (`debug`). `construct_vm` is the new
`Runner` of each turn of the batch loop.

## 3. The runs

| Run | Instance | Shows |
|---|---|---|
| `mmu` | 5 addresses, every region of at most 3 bytes clear of the top, buffers of 0, 1, 2 bytes of 2 values | regions stay disjoint in every order of `add_block`; the unit implements `FlatMemory` |
| `integer` | `XLEN = 4`: every instruction on all 256 pairs of operands | quotient and remainder fit together, the halves make the exact product, `srai`/`sra` divide rounding down, comparisons and branches agree |
| `exec` | 19 programs of at most 4 words in 16 bytes of code and 16 of data, entered at 0 or at the misaligned 2; 3 hex files; 24 instructions covering every kind; 3 system calls registered or not | `FetchSafe`, `PcAligned`, `FaultPrecise`, `StoreContained`, with the host restarting and re-running in any order; `FlatExecution`: fetches, loads, stores and `read` see one flat little-endian memory; `RunReturns`: `run` and the hex loader come back unless the program jumps back, also when unknown system calls are ignored |
| `setup` | two bases and two sizes with regions that touch or coincide, entry points good, misaligned and unmapped, images that fit and do not, 7 hex files | `FetchSafe`, `FailedStartStops`, `InitMemoryVerdict`, `HexLoadArms`, `HostKeepsMemory` (which bytes a set-up call may change), and the life cycle refinement, over every order of the set-up calls |
| `isa` | the real lists and the real word layout: every group and one unused, every funct3, funct7 in 0, 1, 32, 64, immediates of one bit, of the sign, of all bits | dispatch is sound and complete, each word runs the one handler meant for it, which reads back what was assembled (`OperandsExact`), also after a repeated `init_isa` |
| `csr` | 3 registers of 2 bits, a CSR that can be read, one that can be written, one that can be both; every instruction in every state | an exchange uses old values unless rd = rs1, a refused instruction keeps its source, unless rd = rs1 on a CSR that can only be read, no unneeded access is made |
| `hex` | 12 records of every type and length, intact with text around them, or with any character replaced by any other, in files of up to three lines | intact files are read as they were meant, in order, one replaced character is harmless or detected |
| `drivers` | 16 test files; the runner on all command lines of up to two of them and of three of four of them, the tool on all and on five more | verdicts, exit status (also three failures where a process has three statuses), what ends the process, and that it ends |

Four further runs are expected to end in a violation; section 6 explains them.

Why the bounds are enough. In `mmu` several regions fit, so a new region can come
below, above, between and over existing ones, touch them from either side and
end one short of the top; a buffer of 2 can straddle an end. Four-bit words
contain every special case of the handlers (zero, one, minus one, the least
number, counts below, at and above the width) and no handler looks at the width
except through `XLEN`. In `exec` one code block of four words has a first, a
middle and a last word, which is where the next address is missing; the data
block has four words, so `read` can end inside or beyond it. The words of the
programs make every kind of fault happen. `isa` needs no bound on handlers:
the registration lists are the real ones, and funct7 takes every value a handler
uses and one none uses; a wrong offset or length of an immediate's piece shows on
the bit it moves. `csr` has a destination, a source and x0, so that every pair may
coincide. In `hex` digits have base 4, so that a byte has 16 values: counts from 0
to 5 leave room for a damaged count that is smaller, larger and much larger; only
the first or second line is damaged, because lines do not influence each other
except by ending the file. In `drivers` three tests are needed to show what leaks
from one to another (a file, one that reports, the first again); the device has
five words and `dev_mem` four, so that a store can miss; the files make each call
of the sequence fail in turn.

Bounds have names: `Programs`, `HexFiles`, `Bases`, `MemSizes`, `EntryPoints` in
`Machine`; `Handlers`, `Codes`, `Instrs` in `Rv32Isa`; `Files` in `HexText`;
`Batches`, `ToolFiles` in `Drivers`. `ExitCodes`, the number of statuses a process can
report, is 256 in reality and 3 in the run, so that a batch of three failures wraps.

Each property of a passing run has a mutant in `PROJECT.json`: the operator named
`as` is a plausible error of the code (commented `Mutant:` in the module) with
which TLC finds the property violated.

### Fairness

`Machine` states weak fairness of `run_step` and of `load_record`. Both are bodies
of loops that the one thread executes without waiting for anything; once the host is
inside `run` or `set_program`, the next turn happens. The host owes no call, so no
set-up action, `start`, `run` or `halt` is fair. `RunReturns` names its two
exceptions: the program takes control back to itself or to an earlier address
(`LoopsBack`), or `read` never ends. What it excludes is an instruction, a system
call or a record that neither advances nor throws.

In `Drivers` the host is part of the model: `main` is one thread that goes on as
long as it can, hence weak fairness of the whole next-state relation. `DriverEnds`
has the same exception, a program that jumps back again and again.

Deadlock is checked in every passing run but two, whose programs end: `parse_hex`
returns (`hex`), `main` returns or is terminated (`drivers`).

## 4. What is proved

All proofs are checked by TLAPS with SMT, Zenon and, for the temporal steps, LS4.

**`MmuProofs`**, under the module's assumptions (`AddrSpace` positive, `0` a byte,
`nullptr` not a region) and `NoWrapAssumption` (no region reaches the top of the
address space; region size plus buffer size does not wrap):

* `TypeCorrect`: `Spec => []TypeOK`; in particular no load reads outside a buffer.
* `SafeBlocks`: `Spec => []BlocksDisjoint`.
* `MmuImplementsFlatMemory`: `Spec => FlatSpec`.

The inductive invariant is `TypeOK`, `BlocksDisjoint` and "no region is empty".
None is inductive alone: `store` keeps the shape of buffers only if `find_block`
found a region that holds the range, and the first match is *the* match only on
disjoint regions. An empty region would have no address to stand for it in the
flat memory, yet `is_overlap` and the map's keys would still refuse its start, so
the refinement needs the third part. It rests on two facts about the code's
arithmetic: `accepts` is exactly "does not collide" (`AcceptsIsMappable`) and
`find_block` succeeds exactly when one mapping holds the range
(`FoundIsAccessible`).

**`MachineProofs`**, for every layout, program, hex file, decoding and order of
host calls; `NoWrapAssumption` is not needed here, regions may overlap except for the
last two:

* `FetchIsSafe`: a running machine can fetch the word at pc.
* `FailedStartIsStopped`: a `start` that throws leaves the machine stopped.
* `FaultIsPrecise`: a throwing instruction leaves pc and, with three named
  exceptions, everything else.
* `InitMemoryIsTruthful`, `HexLoadArmsLast`: the answers of `init_memory` and of
  the hex loader.
* `MachineImplementsLifecycle`: `Spec => LifecycleSpec`.
* `TypesHold`: every register, pc, memory byte, flag and answer keeps its type; a
  word stored or loaded stays inside its region's buffer.
* `PcStaysAligned`: a running machine is word-aligned unless the host chose a
  misaligned entry point.
* `StoresAreContained`: an instruction changes bytes of one aligned word of one
  region.
* `ExecutionIsFlat`: `LayoutBelowTop` implies `Spec => FlatExecution`. Every fetch,
  load, store and `read` call acts on one flat little-endian memory, in which no
  region, offset or first match is visible; nothing else a program does changes it.
* `HostsKeepMemory`: `LayoutBelowTop` and `ImagesBelowTop` imply
  `Spec => HostKeepsMemory`. No set-up call takes memory away, what is added is zero and
  hides nothing, and only the loaders change bytes, before the entry point is fixed,
  to those of the image they report as loaded. `start` is left out: its comment
  promises what the code does not do (section 6).

`FetchSafe` is not inductive. Nothing forbids `start` with a bad entry point
while an earlier start has left `running` set: the call then throws with pc = 0
and `running` still true. The strengthening is `running => Started`: a running
machine has all four flags, its entry point *and* its pc are fetchable. With all
flags set the entry point can no longer move, and regions are only added, so a
second start cannot throw. `Pending` adds what holds inside the two loops
(`run` is entered running and stays so, also inside a `read` that never ends; a hex
load is not armed yet). Every instruction then `Advances`, `Throws` or `Hangs`. That `find_block` finds a
region whenever one holds the range needs the least start address of a set of
regions, which comes from the well-foundedness of `<` on the naturals.

`TypesHold`, `PcStaysAligned` and `StoresAreContained` need more of the state. `Typed(records)` is `TypeOK` made inductive:
`MemoryTyped` (one buffer per region, of its size), `CpuTyped`, `HostTyped`,
`LoaderTyped(records)` (what is left of a hex file is made of its records; the
parameter lets `Drivers` use the same lemmas for its files) and `Roomy`, no region
within a word of the whole address space. `Roomy` comes from `RoomAssumption` about
the sizes the host passes. It cannot be dropped: `in_range` adds the size of the
access to the offset modulo 2^32, so that in a region of 2^32 - 1 bytes a word at
the last address is found to fit (section 6). `HolderHolds` is the consequence the
proofs use, a region that `find_block` returns has every byte of the access.
`PcStaysAligned` adds to `Inv` that pc is aligned or the entry point, and uses that
four divides `AddrSpace`, so that wrapping keeps alignment. `StoresAreContained`
follows from the alignment test of `write_memory`: an access of at most four bytes
at an address divisible by its width stays within one word.

The last two are about `contents`, a function from the addresses some region holds to
bytes, defined from the regions and their buffers. That an address has one byte needs
disjoint regions, and `add_block` guarantees those only for regions that end below the
last address. This is the hypothesis `LayoutBelowTop` on the bases and sizes the host
uses (the run `mmu_top` shows what happens without it); `ImagesBelowTop` asks that no
image is so long that `in_range` wraps on it. Both are hypotheses of the theorems and
not assumptions of the module, and `MCMachine` has TLC evaluate them on the instances of
`exec` and `setup`. The inductive invariant `FlatInv` says that the layout the machine
keeps and the sizes of its regions are ones the host asked for (`requested`: a call may
change the layout long before the region is added) and that the regions are `Placed`:
not empty, disjoint, below the top. `FlatStep` preserves it; `AcceptedPlaced` is the
step for a new region. `GrowsFlat` then says what an added region does to `contents`,
`FlatLoad` and `FlatStore` what an access does: the bytes that `find_block`, `offset`
and the copy name are the ones at the address (`FoundExtent`, `ContentsAt`).
`FromToBytes` is the round trip of the byte order, digit by digit (`NextDigit`).
`FlatRead` is the loop of the `read` call, by induction on the words written so far:
those hold their values, the rest of memory is as it was, and a failed call has written
a prefix (`ReadStops`). Since the addresses of the loop wrap, `Distance` shows that a
later word does not meet an earlier one.
`SyscallAssumption` (`read` and `exit` are different calls, 63 and 10 in the code) says
which handler an `ecall` reaches.

**`AluProofs`** and **`IntegerProofs`**, for every word width `XLEN` and all
operands:

* `ResultsAreWords`: every result is a word.
* `OrderIsConsistent`, `HalvesMakeTheProduct`, `DivisionIsExact`,
  `ShiftsRoundDown`: the four properties of the run `integer`, at 32 bits as at 4.

The inductive invariant `Computed` ties the result to `calculate` of the operands
kept; each property is then a theorem of arithmetic. The provers have no axioms for
powers, so `PowerAssumption` states the two equations of `2 ^ i` up to the width;
TLC evaluates it for each instance. `word(P)` adds up the powers of the bits that
have `P`, by a recursive function. That the function satisfies its recursion, and
what holds along it, is proved by induction over the *set* of numbers for which it
holds (`SetInduction`, from the well-foundedness of the naturals): an induction rule
whose parameter is a set, not an operator, is within reach of the provers.
`TruncatedDivision` and `DivisionUnique` give quotient and remainder toward zero,
with the least number over minus one as a case of its own. `HalvesJoin` shows that
the high half, computed in 64 bits, and the low half, computed in 32, belong to one
product for all sign combinations. `SumOfBits` says a word is the sum of its bits;
`FilledWord` and `ShiftIsDivision` identify the shifted word, filled up with
the sign, with the floor of the quotient by the power of two.

**`DriversProofs`**, for every command line, file, default layout and decoding,
under `FilesAssumption` (a file is made of records and bytes) and `ExitAssumption`
(`exit` is a system call, a process has more than one status):

* `ZeroIsSuccess`: for a command line of any length, the runner's status is 0 if every
  test passed, and otherwise exactly when all files were loaded and run and the number
  of failures is a multiple of `ExitCodes`.
* `OnlyEntryTerminates`: only a bad entry point ends the process by an exception.
* `PassesByExit`: a test passes only in the step that ends its `run` by `exit`.
* `ReportsStick`: a test that stored a failed assertion, or whose file has a record on
  the device, never passes.

`Counts` says how many files were taken and that none is judged before it ran. The
rest needs the machine under the driver, and the whole `DriverInv`: `Typed(FileRecords)` carried over from `MachineProofs`, `SetUp` (which
flags each call of `main` has earned, so that the next cannot throw) and `Phase`
(which loop of the machine belongs to which call; inside `run` pc is fetchable and
aligned, so that neither the fetch nor `dump_state` in the exception handler can
throw). For the exit status `Armed` adds that only a successful load arms the machine of
a test: the file that stopped the batch is then told from one that ran and failed.
`Reported(k)` is the invariant of one test: once test `k` reported, it is not
among the passed and its machine remembers the report until the test is judged.

**`IsaProofs`**, first for every set of handlers and words within the field widths:

* `DispatchIsSound`, `DispatchIsComplete`.

The inductive invariant adds `KeysExact`: `func_a` and `func_b` hold exactly the
keys of the registered handlers. Without it a lookup could read a field no
registered handler uses. The proofs rest on packed ids being injective.

Then for every set of instructions within the field widths (all registers, all
immediates of the six formats, on the real 32-bit layout):

* `OperandsExactThm`: `IsaSpec => []OperandsExact`, the `Decoder` inverts the
  `Encoder`.

A word is a union of shifted fields. `FieldBits` and `LoweredBits` say which bits a
shifted field and a moved piece have, `FieldFound` that a field of the word is read
back when no other field has a bit in its place, `SignRestored` that sign extension
gives back a sign-extended value. `RoundTripR` to `RoundTripJ` apply them to each
format, and `AssembledRead` puts the formats together.

* `IsaDispatch`: the registry theorems hold under `IsaSpec`, in every state of the
  two lists.
* `IsaIsExact`: `IsaSpec => []IsaExact`, with every funct7 and every immediate.
* `IsaLoadsOnce`: `IsaSpec => IsaOnce`.

The inductive invariant `IsaInv` is the registry's, `Fetched` (the word being
executed was looked up in the registry as it is) and `Loading`: the registry is
empty, or complete, or holds exactly what the first `init_isa` has worked off. It
needs the real lists. `BaseLists` joins the ten pieces of `register_rv32i_set` and
shows that no handler is listed twice, `TwoLists` that RV32M adds no handler RV32I
has, so no registration of the first call is refused and every one of a later call
is. `IsaUniform` shows the 54 handlers uniform, and `SameMeaning` that a word names
the same handlers as its instruction although four of the formats have no funct7
and two no funct3. `IsaAssumption` says that the registry is used with these
handlers and words.

**`CsrProofs`**, for every set of registers, CSRs, access rights and word width:

* `ExchangeThm`: `Spec => ExchangeUnlessAliased`.
* `RetryThm`: `Spec => RetryUnlessAliased`, for every refused instruction.
* `OneWayThm`: `Spec => OneWayUsable`.

They are action properties over the inductive type invariant `TypeInv` (`Typing`).
The crux of the first two is `SourceKept`: writing the destination does not move the
source unless they are one register. `SourceLost` is the other case: refused after the
read, such an instruction has the CSR's value for its source.

**`HexTextProofs`**, for every base of the digits, every record, every damage `IsLine`
allows and every file of such lines:

* `IntactFilesAreRead`: `Spec => []ReadsIntactFiles`.
* `OneErrorIsDetected`: `Spec => []OneErrorDetected`.

The argument goes from bytes to lines to files. `OneDifference` says that changing one
byte by `d` changes the sum by `d`; it is an induction over the bytes, with the claim
given as a set of numbers (`BoundedInduction`, from the well-founded order of the
naturals), and `PartialDefined` shows that the recursion of `partial` has a solution.
`ChecksumsAgree` reduces `is_valid`'s comparison to all bytes summing to 0 modulo
`ByteCount`, which two bytes at one place cannot both achieve (`SmallDifference`).
`LineBytes` finds the record behind the first colon and shows that `from_hex` gives
its bytes but for the one with the replaced character, so `LineRead`: a record that
is intact or found valid is the one that was meant, also when the damaged character
was in the count. `AddressesDecoded` is the decoding of the two kinds of address.
`ParseInvariant` carries this over the lines: what is left to read are the last lines
(`Reading`), each record came from a line already read and is right if it has to be
(`ReadSoFar`), the records are in the order of the lines (`InOrder`), and in an intact file no line with a record was passed over up to the
first end-of-file record (`NoneSkipped`). `FilesAssumption`, which TLC evaluates on
the files of the run, is `IsLine` for all their lines.

## 5. What is only model-checked

* `RunReturns`, `DriverEnds`: liveness under fairness is out of the prover's reach.
* `TestsIsolated`: that two runs of one file in a batch end alike is not true for
  every decoding. A register shift by the word width or more is undefined, the model
  allows both outcomes, and two runs of the same file may take different ones. It
  holds for files without such a shift, as those of the run.

## 6. Where the code disagrees with its comments and tests

Each of the first four is a run that ends in a violation.

* `mmu_top`: a region that ends exactly at the top of the address space has end
  address 0 in `is_overlap`, and `add_block` accepts it over existing regions
  (`BlocksDisjoint` fails once `NoWrapAssumption` is dropped). The host controls
  the layout; the default layout is far from the top.
* `register_shift`: `sll`, `srl` and `sra` do not mask the count; the unit tests
  compute their expectation with the low five bits.
* `csr_swap`: `csrrw` with rd = rs1 writes the CSR's own old value back, since it
  writes the destination before it reads the source; the comment says "atomic read
  and write". `csrrs` and `csrrc` use the CSR as their own mask in that case.
  `ExchangeUnlessAliased` is what remains true. On a CSR that can be read and not
  written the same instructions are refused after they have overwritten their operand;
  `RetryUnlessAliased` names this as its exception.
* `hex_format`: the length test of `parse_hex` counts one character per announced
  byte. A record that lost its end is parsed, with bytes read past the vector and a
  data byte taken for the checksum, and may be found valid.

Remarks without a run, all visible in the model:

* `start` is documented to "clear memory/registers" (`vm_basic.hxx:120`) and clears
  registers only: a program started again finds what its last run stored. The model
  does what the code does, and `HostKeepsMemory` makes no claim about `start`.
* `is_initialized` is documented as "check that program can be started"
  (`vm_basic.hxx:173`) and does not look at the entry point.
* `set_program(bin)` fixes the entry point before it has found room for the image:
  after a refused image every later load is refused as "program loaded".
* `in_range` (`vm_memory.cxx:102`) wraps: a region of 2^32 - 1 bytes from address 0
  accepts a word at 2^32 - 4, whose last byte it does not have. `RoomAssumption`
  keeps the hosts modelled away from such sizes; no program of the repository uses
  one.
* Stores may write the block that comments call read-only (`vm_basic.hxx:162`); one
  program of `exec` does it.
* "ignore garbage at eol" (`vm_utility.cxx:72`) holds for one trailing character; of
  two or more, the last pair is taken for the checksum. The record is then found
  invalid, or by chance valid.
* A damaged colon makes its line one without a record, which is skipped silently;
  `OneErrorDetected` is therefore about the characters after it.
* The `yeti` tool returns success when the program could not be loaded.
* In the runner a bad entry point ends the whole batch, because `start` is outside
  the `try` block; so would a misaligned pc, because `dump_state` decodes again in
  the exception handler, but `TerminatedOnlyByEntry` shows that no program gets
  there. A file that cannot be loaded ends the batch with status 1. The number of
  failures is the exit status, of which the system keeps eight bits: 256 failures are
  reported as none. `ZeroStatus` says exactly when.

## 7. What is not modelled, and the plan

Left out for good: debug output, `dump_state` but for the exception it may throw,
disassembly, register names and messages of exceptions (formatting, no state depends
on it); `op_size`, which nothing calls; reading files and parsing options in the
tools, `view_hex` and `make_dummy` (input and output); a host that bypasses the
protocol and drives `MachineInterface` itself (`set_pc`, `run_step`, `write_memory`
from outside); regions of a class the host defines, other than the runner's.

Nothing here is persisted, no message is sent and nothing times out: there is no
crash, loss or retry to model beyond a host that calls again, and text that was
damaged before it was read.

Planned: the composition of `Machine` with `Rv32Isa` in place of the constant
`decode`.
