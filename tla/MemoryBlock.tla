---------------------------- MODULE MemoryBlock ----------------------------
(***************************************************************************)
(* The memory regions of yeti-vm (vm_memory.hxx, vm_memory.cxx) as         *)
(* operators: the range arithmetic of memory_block::params, the lookup of  *)
(* memory_management_unit over a set of regions, and the byte copies of    *)
(* generic_memory.  The regions themselves are state of the modules that   *)
(* extend this one.                                                        *)
(*                                                                         *)
(* address_type and size_type are both uint32_t, so every sum the code     *)
(* computes is taken modulo AddrSpace (2^32 in the program).  A buffer of  *)
(* n bytes is a function on 0 .. n-1.                                      *)
(***************************************************************************)
EXTENDS Integers

CONSTANTS
  AddrSpace,  \* number of addresses, 2^32 in the program
  Byte,       \* the values of a uint8_t
  nullptr     \* what find_block returns when no region matches

Address == 0 .. AddrSpace - 1

(* memory_block::params; std::map orders and identifies regions by start.  *)
Params == [start : Address, size : Address]

ASSUME AddrSpaceAssumption == AddrSpace \in Nat \ {0}
ASSUME ByteAssumption == 0 \in Byte
ASSUME NullptrAssumption == nullptr \notin Params

----------------------------------------------------------------------------
(* memory_block::params                                                    *)

offset(p, address) == (address - p.start) % AddrSpace

(* in_range(address): is this one address inside the region?               *)
contains(p, address) ==
  /\ address >= p.start
  /\ address - p.start < p.size

(* Mutant: the last byte of a region is out of reach.                      *)
InRangeShort(p, address, size) ==
  /\ contains(p, address)
  /\ (offset(p, address) + size) % AddrSpace < p.size

(* in_range(address, size): the end offset is computed in 32 bits.         *)
in_range(p, address, size) ==
  /\ contains(p, address)
  /\ (offset(p, address) + size) % AddrSpace <= p.size

(* Mutant: only the first address of the new range is tested.              *)
OverlapAtStart(p, address, size) == contains(p, address)

(* is_overlap: a range that starts below the region is compared by its end *)
(* address, computed in 32 bits and inclusive of the region's first byte.  *)
is_overlap(p, address, size) ==
  IF address < p.start
    THEN (address + size) % AddrSpace >= p.start
    ELSE contains(p, address)

----------------------------------------------------------------------------
(* memory_management_unit, over the set bs of registered regions           *)

(* add_block refuses an empty region, one that some registered region      *)
(* reports as overlapping, and (try_emplace) a start that is already taken.*)
accepts(bs, p) ==
  /\ p.size # 0
  /\ \A b \in bs : ~is_overlap(b, p.start, p.size)
  /\ \A b \in bs : b.start # p.start

holders(bs, address, size) == {b \in bs : in_range(b, address, size)}

(* The first match in the map's iteration order, which is by start address.*)
find_block(bs, address, size) ==
  IF holders(bs, address, size) = {}
    THEN nullptr
    ELSE CHOOSE b \in holders(bs, address, size) :
           \A c \in holders(bs, address, size) : b.start <= c.start

----------------------------------------------------------------------------
(* generic_memory: d maps each region to its bytes, indexed by offset      *)

(* Mutant: a buffer of one byte too many.                                  *)
ZeroedLong(p) == [i \in 0 .. p.size |-> 0]
zeroed(p) == [i \in 0 .. p.size - 1 |-> 0]

(* Mutant: adding a region clears the older ones.                          *)
AllocateAfresh(d, bs) == [b \in bs |-> zeroed(b)]

(* The buffers of the regions bs, where d has the older regions' buffers.  *)
allocate(d, bs) == [b \in bs |-> IF b \in DOMAIN d THEN d[b] ELSE zeroed(b)]

load(d, b, address, size) ==
  [i \in 0 .. size - 1 |-> d[b][offset(b, address) + i]]

(* Mutant: the offset of the address is forgotten.                         *)
StoreAtStart(d, b, address, source) ==
  [d EXCEPT ![b] = [i \in 0 .. b.size - 1 |-> IF i \in DOMAIN source THEN source[i] ELSE d[b][i]]]

store(d, b, address, source) ==
  [d EXCEPT ![b] =
     [i \in 0 .. b.size - 1 |->
        IF i - offset(b, address) \in DOMAIN source
          THEN source[i - offset(b, address)]
          ELSE d[b][i]]]
============================================================================
