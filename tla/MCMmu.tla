------------------------------- MODULE MCMmu -------------------------------
(* A small address space for Mmu, every region that keeps clear of its top *)
(* and buffers of the sizes the program transfers.                         *)
EXTENDS MmuRefinement

MCByte == {0, 1}
MCSizes == {0, 1, 2}
MCRequests == {p \in [start : Address, size : 0 .. 3] : p.start + p.size < AddrSpace}

============================================================================
