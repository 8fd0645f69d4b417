------------------------- MODULE MachineProperties -------------------------
(* What the host of basic_vm may rely on.                                  *)
EXTENDS Machine

(* An instruction has thrown out of run in this step.                      *)
Faulted == calling = "run" /\ calling' = "client" /\ reply'.result # ""

(* run_step dereferences the region find_block returns for pc without a    *)
(* test (get_current): the region exists whenever the machine is running,  *)
(* also after an exception, when the host may call run again.              *)
FetchSafe == running => fetchable(pc)

(* Only the host can make a running machine misaligned, by the entry point *)
(* it chose: no jump, branch or fall-through leaves word alignment.        *)
PcAligned == running => pc % OpSize = 0 \/ pc = initial_pc

(* start clears the registers before set_pc may throw, and does not        *)
(* touch running when it does: yet a machine whose start threw is stopped, *)
(* because an entry point that was good once stays good.                   *)
FailedStartStops ==
  [][reply'.call = "start" /\ reply'.result # "" => ~running']_vars

(* The instruction did its work and only the next address is bad.          *)
NextMissing ==
  /\ reply'.result = "code_access_error"
  /\ ~fetchable((pc + OpSize) % AddrSpace)

(* A fault is precise (the instruction has changed nothing) except in      *)
(* three places: the next address is bad; a jump wrote its link register   *)
(* first; read stored some words before the one it could not store.        *)
Precise(i) ==
  \/ UNCHANGED <<registers, data, running>>
  \/ NextMissing
  \/ i.kind \in {"jal", "jalr"} /\ UNCHANGED <<data, running>>
  \/ i.kind = "ecall" /\ registers[a7] = SysRead /\ UNCHANGED <<registers, running>>

(* An instruction that throws out of run leaves pc on itself and, but for  *)
(* the three exceptions, has had no effect: the host may repair the cause  *)
(* and call run again.                                                     *)
FaultPrecise == [][Faulted => pc' = pc /\ Precise(Current)]_vars

(* What a plain instruction stores stays within one aligned word of one    *)
(* region: the alignment and range tests of write_memory.                  *)
StoreContained ==
  [][calling = "run" /\ data' # data /\ Current.kind # "ecall" =>
       \E b \in blocks, w \in Address :
         \A c \in blocks, i \in Address :
           i < c.size /\ data'[c][i] # data[c][i] => c = b /\ (b.start + i) \div OpSize = w]_vars

(* init_memory's answer: true exactly when this call added both blocks,    *)
(* although it tries the second block after the first was refused.         *)
BlockFlags == {"HAVE_CODE_BLOCK", "HAVE_DATA_BLOCK"}
InitMemoryVerdict ==
  [][reply'.call = "init_memory" =>
       (reply'.result = "true"
          <=> BlockFlags \cap initFlags = {} /\ BlockFlags \subseteq initFlags')]_vars

(* A hex file arms the machine (fixes its entry point) exactly when the    *)
(* load succeeds: after a refused record the load can be tried again.      *)
HexLoadArms ==
  [][calling = "hex" =>
       ("PC_INITIALIZED" \in initFlags' <=> reply'.result = "true")]_vars

(* The next instruction takes control back to itself or to an earlier      *)
(* address: the program, not the machine, makes run go on.                 *)
Jumps(i) ==
  CASE i.kind = "jal" -> {to_word(pc + i.imm)}
    [] i.kind = "jalr" -> {d - (d % 2) : d \in {to_word(get_register(i.rs1) + i.imm)}}
    [] i.kind = "branch" ->
         {d \in {to_word(pc + i.imm)} : compare(i.op, get_register(i.rs1), get_register(i.rs2))}
    [] OTHER -> {}
LoopsBack ==
  /\ calling = "run" /\ pc % OpSize = 0 /\ Current # NoHandler
  /\ pc + OpSize = AddrSpace \/ \E dest \in Jumps(Current) : dest <= pc

(* run and the hex loader come back to the host unless the program itself  *)
(* jumps back for ever or has every word of the address space filled by    *)
(* read: there is no other instruction, system call or record that neither *)
(* advances nor fails.                                                     *)
RunReturns == (calling # "client") ~> (calling \in {"client", "read"} \/ LoopsBack)

----------------------------------------------------------------------------
(* The memory as one flat array of bytes, without regions.                 *)

extent(b) == b.start .. b.start + b.size - 1
mapped == UNION {extent(b) : b \in blocks}
holder(a) == CHOOSE b \in blocks : contains(b, a)
contents == [a \in mapped |-> data[holder(a)][offset(holder(a), a)]]

(* The little-endian word of size bytes at an address of a flat memory.    *)
wordIn(flat, address, size) == fromBytes([k \in 0 .. size - 1 |-> flat[address + k]], size)
agree(f, g, addresses) == \A a \in addresses : f[a] = g[a]
keeps(addresses) == agree(contents', contents, addresses)

(* The host places every region below the last address.  MCMmuTop shows    *)
(* what add_block accepts when it does not.                                *)
HostBases == Bases \cup {DefLayout.code_base, DefLayout.data_base}
HostSizes == MemSizes \cup {DefLayout.ro_size, DefLayout.rw_size}
LayoutBelowTop ==
  \A base \in HostBases, size \in HostSizes : base + (size % AddrSpace) < AddrSpace

(* And no image is so large that in_range wraps.                           *)
ImagesBelowTop ==
  \A bin \in Programs \cup {r.data : r \in HexRecords}, size \in HostSizes :
    image_size(bin) \in 0 .. AddrSpace - (size % AddrSpace)

Refused == reply'.result = "data_access_error"

(* What a load or a store of n bytes at address a owes the flat memory.    *)
LoadsFlat(i, a, n) ==
  ~Refused /\ i.rd # 0 => registers'[i.rd] = extended(i.op, wordIn(contents, a, n))
StoresFlat(i, a, n) ==
  ~Refused => /\ wordIn(contents', a, n) = get_register(i.rs2) % ByteCount ^ n
              /\ keeps(mapped \ (a .. a + n - 1))

(* And the read call: of the n words it should write, all, or a prefix     *)
(* when it fails.  Word j holds the square of its offset.                  *)
ReadsFlat(buffer, n) ==
  \E k \in 0 .. n :
    /\ Refused <=> k # n
    /\ \A j \in 0 .. k - 1 :
         wordIn(contents', to_word(buffer + j * OpSize), OpSize) = to_word((j * OpSize) * (j * OpSize))
    /\ keeps({a \in mapped : (a - buffer) % AddrSpace >= k * OpSize})

Flat(i) ==
  LET a == to_word(get_register(i.rs1) + i.imm)
      reads == i.kind = "ecall" /\ registers[a7] = SysRead /\ SysRead \in syscalls
  IN
  /\ i = decode[wordIn(contents, pc, OpSize)]
  /\ i.kind = "load" => LoadsFlat(i, a, width(i.op))
  /\ i.kind = "store" => StoresFlat(i, a, width(i.op))
  /\ reads => ReadsFlat(registers[a1], readWords(registers[a2]))
  /\ ~reads /\ (i.kind = "store" => Refused) => keeps(mapped)

(* Regions, offsets, first matches and byte order are invisible to the     *)
(* program: it is fetched from, loads from and stores to one flat          *)
(* little-endian memory, and nothing but a store or read changes it.       *)
FlatExecution ==
  [][calling = "run" /\ pc % OpSize = 0 /\ Current # NoHandler => Flat(Current)]_vars

(* An image has come to its address whole, and nothing else has changed.   *)
Places(a, bin) ==
  LET range == {a + k : k \in DOMAIN bin} IN
  /\ range \subseteq mapped
  /\ \A k \in DOMAIN bin : contents'[a + k] = bin[k]
  /\ keeps(mapped \ range)

(* The two loaders: they work until an entry point is fixed.               *)
PlacesProgram ==
  /\ "PC_INITIALIZED" \notin initFlags
  /\ reply' = [call |-> "set_program_bin", result |-> "true"]
  /\ \E bin \in Programs : Places(code_base, bin)
PlacesRecord ==
  /\ "PC_INITIALIZED" \notin initFlags
  /\ calling = "hex" /\ calling' = "hex"
  /\ Places((hex.offset + Record.offset) % AddrSpace, Record.data)

(* Setting up never takes memory away.  A region the host adds is all zero *)
(* and hides no older one; only a loader changes bytes, those of the image *)
(* it reports as loaded, and no longer once an entry point is fixed.       *)
(* start is left out: its comment says that it clears memory, the code     *)
(* does not touch it, and a host can rely on neither.                      *)
HostKeepsMemory ==
  [][calling # "run" /\ reply'.call # "start" /\ memory' # memory =>
       /\ mapped \subseteq mapped'
       /\ agree(contents', [a \in mapped' |-> 0], mapped' \ mapped)
       /\ keeps(mapped) \/ PlacesProgram \/ PlacesRecord]_vars

----------------------------------------------------------------------------
Lifecycle ==
  INSTANCE VmLifecycle WITH ready <- is_initialized, inRun <- calling = "run" \/ calling = "read"

(* basic_vm keeps to the life cycle of VmLifecycle.                        *)
LifecycleSpec == Lifecycle!Spec

============================================================================
