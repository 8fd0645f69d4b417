--------------------------- MODULE MmuRefinement ---------------------------
(***************************************************************************)
(* The unit of Mmu implements FlatMemory as long as no region reaches the  *)
(* top of the address space and no access can make in_range's sum wrap.    *)
(* The default layout of basic_vm (4 MiB of code at 0, 4 MiB of data       *)
(* above it) is within both limits; the callers of set_ro_base,            *)
(* init_memory and add_memory are trusted to be.  MCMmuTop shows what      *)
(* happens when they are not.                                              *)
(***************************************************************************)
EXTENDS Mmu

ASSUME NoWrapAssumption ==
  /\ \A p \in Requests : p.start + p.size < AddrSpace
  /\ \A p \in Requests, n \in Sizes : p.size + n <= AddrSpace

ASSUME UnmappedAssumption == nullptr \notin Address \cup Byte

owned(bs, address) == \E b \in bs : contains(b, address)
owner(bs, address) == CHOOSE b \in bs : contains(b, address)

regionOf ==
  [a \in Address |-> IF owned(blocks, a) THEN owner(blocks, a).start ELSE nullptr]
contents ==
  [a \in Address |->
     IF owned(blocks, a)
       THEN data[owner(blocks, a)][offset(owner(blocks, a), a)]
       ELSE nullptr]

Flat == INSTANCE FlatMemory WITH
          region <- regionOf, flat <- contents, Unmapped <- nullptr

(* The unit behaves as one flat memory: add_block accepts exactly what     *)
(* does not collide, find_block finds the region of every address, and     *)
(* the offsets of load and store reach the bytes written for that address. *)
FlatSpec == Flat!Spec
============================================================================
