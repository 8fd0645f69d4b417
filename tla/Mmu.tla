-------------------------------- MODULE Mmu --------------------------------
(***************************************************************************)
(* memory_management_unit as a state machine: clients add regions, and     *)
(* read and write buffers through find_block followed by the region's own  *)
(* load or store (the path of basic_vm::read_memory and write_memory and   *)
(* of both program loaders).                                               *)
(*                                                                         *)
(* reply is the last call with its arguments and what it returned; for a   *)
(* load that is a buffer.                                                  *)
(***************************************************************************)
EXTENDS MemoryBlock

CONSTANTS
  Requests,  \* the regions clients may ask for, a subset of Params
  Sizes      \* the buffer sizes clients read and write

ASSUME RequestsAssumption == Requests \subseteq Params
ASSUME SizesAssumption == Sizes \subseteq Address

VARIABLES
  blocks,  \* the keys of memory_management_unit::memory
  data,    \* generic_memory::data of every region
  reply    \* the last call and its result

vars == <<blocks, data, reply>>

NoBuffer == [i \in {} |-> 0]
Buffers == UNION {[0 .. n - 1 -> Byte] : n \in Sizes \cup {0}}

TypeOK ==
  /\ blocks \subseteq Requests
  /\ DOMAIN data = blocks
  /\ \A b \in blocks : data[b] \in [0 .. b.size - 1 -> Byte]
  /\ reply.ok \in BOOLEAN /\ reply.buffer \in Buffers

Init ==
  /\ blocks = {}
  /\ data = [b \in {} |-> zeroed(b)]
  /\ reply = [call |-> <<>>, ok |-> TRUE, buffer |-> NoBuffer]

Answer(call, ok) == reply' = [call |-> call, ok |-> ok, buffer |-> NoBuffer]

add_block(p) ==
  \/ /\ accepts(blocks, p)
     /\ blocks' = blocks \cup {p}
     /\ data' = allocate(data, blocks')
     /\ Answer(<<"add_block", p>>, TRUE)
  \/ /\ ~accepts(blocks, p)
     /\ Answer(<<"add_block", p>>, FALSE)
     /\ UNCHANGED <<blocks, data>>

Load(address, size) ==
  LET b == find_block(blocks, address, size) IN
  /\ \/ /\ b # nullptr
        /\ reply' = [call |-> <<"load", address, size>>, ok |-> TRUE,
                     buffer |-> load(data, b, address, size)]
     \/ /\ b = nullptr
        /\ Answer(<<"load", address, size>>, FALSE)
  /\ UNCHANGED <<blocks, data>>

Store(address, size, source) ==
  LET b == find_block(blocks, address, size) IN
  \/ /\ b # nullptr
     /\ data' = store(data, b, address, source)
     /\ Answer(<<"store", address, source>>, TRUE)
     /\ UNCHANGED blocks
  \/ /\ b = nullptr
     /\ Answer(<<"store", address, source>>, FALSE)
     /\ UNCHANGED <<blocks, data>>

Next ==
  \/ \E p \in Requests : add_block(p)
  \/ \E address \in Address, size \in Sizes :
       \/ Load(address, size)
       \/ \E source \in [0 .. size - 1 -> Byte] : Store(address, size, source)

Spec == Init /\ [][Next]_vars

----------------------------------------------------------------------------
disjoint(bs) ==
  \A b, c \in bs :
    (\E address \in Address : contains(b, address) /\ contains(c, address))
      => b = c

(* No address belongs to two regions: what add_block's overlap test is     *)
(* for, and what lets find_block ignore every match but the first.         *)
BlocksDisjoint == disjoint(blocks)
============================================================================
