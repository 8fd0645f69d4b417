------------------------------ MODULE MCMmuTop ------------------------------
(* Mmu with regions that may end exactly at the top of the address space,  *)
(* where the end address that is_overlap computes wraps to 0.              *)
EXTENDS Mmu

MCByte == {0}
MCSizes == {1}
MCRequests == {p \in [start : Address, size : 1 .. 2] : p.start + p.size <= AddrSpace}
=============================================================================
