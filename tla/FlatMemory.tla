----------------------------- MODULE FlatMemory -----------------------------
(***************************************************************************)
(* What memory_management_unit promises its clients, without regions,      *)
(* offsets or lookup: each address is unmapped or belongs to the mapping   *)
(* that starts at region[a], and holds one byte.  A buffer is transferred  *)
(* whole, and only inside one mapping.                                     *)
(*                                                                         *)
(* A mapping may be placed right above another one but not right below it: *)
(* memory_block::params::is_overlap treats the two ends differently.       *)
(***************************************************************************)
EXTENDS Integers

CONSTANTS
  AddrSpace,  \* number of addresses
  Byte,       \* the values a mapped address may hold
  Requests,   \* the mappings clients ask for, records with start and size
  Sizes,      \* the buffer sizes clients read and write
  Unmapped    \* the region, and the content, of an address without memory

Address == 0 .. AddrSpace - 1

VARIABLES
  region,  \* for every address the start of its mapping, or Unmapped
  flat,    \* for every address its byte, or Unmapped
  reply    \* the last call with its arguments, and its result

vars == <<region, flat, reply>>

NoBuffer == [i \in {} |-> 0]

Init ==
  /\ region = [a \in Address |-> Unmapped]
  /\ flat = [a \in Address |-> Unmapped]
  /\ reply = [call |-> <<>>, ok |-> TRUE, buffer |-> NoBuffer]

Extent(p) == p.start .. p.start + p.size - 1

Mappable(p) ==
  /\ p.size # 0
  /\ \A a \in Extent(p) : region[a] = Unmapped
  /\ region[p.start + p.size] # p.start + p.size

Answer(call, ok) == reply' = [call |-> call, ok |-> ok, buffer |-> NoBuffer]

Map(p) ==
  /\ Answer(<<"add_block", p>>, Mappable(p))
  /\ IF Mappable(p)
       THEN /\ region' = [a \in Address |-> IF a \in Extent(p) THEN p.start ELSE region[a]]
            /\ flat' = [a \in Address |-> IF a \in Extent(p) THEN 0 ELSE flat[a]]
       ELSE UNCHANGED <<region, flat>>

Accessible(address, size) ==
  /\ region[address] # Unmapped
  /\ \A i \in 0 .. size - 1 :
       address + i \in Address /\ region[address + i] = region[address]

Read(address, size) ==
  /\ IF Accessible(address, size)
       THEN reply' = [call |-> <<"load", address, size>>, ok |-> TRUE,
                      buffer |-> [i \in 0 .. size - 1 |-> flat[address + i]]]
       ELSE Answer(<<"load", address, size>>, FALSE)
  /\ UNCHANGED <<region, flat>>

Write(address, size, source) ==
  /\ Answer(<<"store", address, source>>, Accessible(address, size))
  /\ flat' = IF Accessible(address, size)
               THEN [a \in Address |->
                       IF a - address \in 0 .. size - 1 THEN source[a - address] ELSE flat[a]]
               ELSE flat
  /\ UNCHANGED region

Next ==
  \/ \E p \in Requests : Map(p)
  \/ \E address \in Address, size \in Sizes :
       \/ Read(address, size)
       \/ \E source \in [0 .. size - 1 -> Byte] : Write(address, size, source)

Spec == Init /\ [][Next]_vars
=============================================================================
