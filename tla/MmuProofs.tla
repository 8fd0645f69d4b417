----------------------------- MODULE MmuProofs -----------------------------
(***************************************************************************)
(* Theorems about memory_management_unit for every address space and every *)
(* family of regions within NoWrapAssumption.                              *)
(***************************************************************************)
EXTENDS MmuRefinement, TLAPS

(* A sum that stays below AddrSpace does not wrap.                         *)
LEMMA SmallMod ==
  ASSUME NEW x \in Address
  PROVE  x % AddrSpace = x
BY AddrSpaceAssumption DEF Address

(* Inside a region the 32-bit offset is the plain difference.              *)
LEMMA OffsetInside ==
  ASSUME NEW p \in Params, NEW a \in Address, contains(p, a)
  PROVE  offset(p, a) = a - p.start /\ offset(p, a) \in 0 .. p.size - 1
<1>1. a - p.start \in Address
  BY AddrSpaceAssumption DEF Address, Params, contains
<1>2. (a - p.start) % AddrSpace = a - p.start
  BY <1>1, SmallMod
<1> QED
  BY <1>1, <1>2 DEF offset, contains, Params, Address

(* For the buffer sizes of the clients in_range is the unbounded test.     *)
LEMMA InRangePlain ==
  ASSUME NEW p \in Requests, NEW a \in Address, NEW n \in Sizes
  PROVE  in_range(p, a, n) <=> contains(p, a) /\ a - p.start + n <= p.size
<1>1. p \in Params /\ n \in Address /\ p.size + n <= AddrSpace
  BY RequestsAssumption, SizesAssumption, NoWrapAssumption
<1>2. ASSUME contains(p, a)
      PROVE  in_range(p, a, n) <=> a - p.start + n <= p.size
  <2>1. offset(p, a) = a - p.start /\ offset(p, a) \in 0 .. p.size - 1
    BY <1>1, <1>2, OffsetInside
  <2>2. offset(p, a) + n \in Address
    BY <1>1, <2>1, AddrSpaceAssumption DEF Params, Address
  <2>3. (offset(p, a) + n) % AddrSpace = offset(p, a) + n
    BY <2>2, SmallMod
  <2> QED
    BY <1>2, <2>1, <2>3 DEF in_range
<1> QED
  BY <1>2 DEF in_range

(* A region that add_block accepts shares no address with a registered one.*)
LEMMA AcceptedIsDisjoint ==
  ASSUME NEW p \in Requests, NEW b \in Requests, NEW a \in Address,
         ~is_overlap(b, p.start, p.size)
  PROVE  ~(contains(p, a) /\ contains(b, a))
<1>1. p \in Params /\ b \in Params /\ p.start + p.size < AddrSpace
  BY RequestsAssumption, NoWrapAssumption
<1>2. p.start + p.size \in Address
  BY <1>1, AddrSpaceAssumption DEF Params, Address
<1>3. (p.start + p.size) % AddrSpace = p.start + p.size
  BY <1>2, SmallMod
<1> QED
  BY <1>1, <1>3, AddrSpaceAssumption DEF is_overlap, contains, Params, Address

----------------------------------------------------------------------------
(* Lookup in a set of disjoint regions.                                    *)

(* In disjoint regions the region that contains an address is its owner.   *)
LEMMA UniqueOwner ==
  ASSUME NEW bs \in SUBSET Requests, disjoint(bs),
         NEW a \in Address, NEW b \in bs, contains(b, a)
  PROVE  owned(bs, a) /\ owner(bs, a) = b
BY DEF disjoint, owned, owner

(* The owner of an owned address contains it.                              *)
LEMMA OwnerHolds ==
  ASSUME NEW bs, NEW a, owned(bs, a)
  PROVE  owner(bs, a) \in bs /\ contains(owner(bs, a), a)
BY DEF owned, owner

(* Two disjoint regions never start at the same address.                   *)
LEMMA SameStart ==
  ASSUME NEW bs \in SUBSET Requests, disjoint(bs),
         NEW b \in bs, NEW c \in bs, b.size # 0, c.size # 0, b.start = c.start
  PROVE  b = c
<1>1. b \in Params /\ c \in Params
  BY RequestsAssumption
<1>2. contains(b, b.start) /\ contains(c, b.start)
  BY <1>1 DEF contains, Params, Address
<1> QED
  BY <1>1, <1>2 DEF disjoint, Params

(* find_block returns the one region that holds the range, if there is one.*)
LEMMA FindBlock ==
  ASSUME NEW bs \in SUBSET Requests, disjoint(bs), NEW a \in Address, NEW n \in Sizes
  PROVE  LET f == find_block(bs, a, n) IN
         /\ f # nullptr => f \in bs /\ in_range(f, a, n)
         /\ f = nullptr => \A b \in bs : ~in_range(b, a, n)
<1> DEFINE H == holders(bs, a, n)
<1>1. \A b, c \in H : b = c
  BY DEF holders, in_range, disjoint
<1>2. CASE H = {}
  BY <1>2 DEF find_block, holders
<1>3. CASE H # {}
  <2>1. PICK b \in H : TRUE
    BY <1>3
  <2>2. b \in Params /\ b \in bs /\ in_range(b, a, n)
    BY <2>1, RequestsAssumption DEF holders
  <2>3. \A c \in H : b.start <= c.start
    BY <1>1, <2>1, <2>2 DEF Params, Address
  <2>4. find_block(bs, a, n) \in H
    <3>1. \E x \in H : \A c \in H : x.start <= c.start
      BY <2>1, <2>3
    <3> QED
      BY <1>3, <3>1 DEF find_block
  <2>5. find_block(bs, a, n) = b
    BY <1>1, <2>1, <2>4
  <2> QED
    BY <2>2, <2>5, NullptrAssumption
<1> QED
  BY <1>2, <1>3

----------------------------------------------------------------------------
ReplyType == reply.ok \in BOOLEAN /\ reply.buffer \in Buffers

(* The inductive invariant.  find_block is only right on disjoint regions, *)
(* and the buffers of store keep the shape of data only when find_block is *)
(* right, so type correctness and disjointness are proved together.        *)
Inv ==
  /\ TypeOK
  /\ BlocksDisjoint
  /\ \A b \in blocks : b.size # 0

(* load returns a whole buffer of bytes.                                   *)
LEMMA LoadType ==
  ASSUME TypeOK, NEW a \in Address, NEW n \in Sizes, NEW b \in blocks, in_range(b, a, n)
  PROVE  load(data, b, a, n) \in [0 .. n - 1 -> Byte]
<1>1. b \in Requests /\ b \in Params /\ n \in Address /\ data[b] \in [0 .. b.size - 1 -> Byte]
  BY RequestsAssumption, SizesAssumption DEF TypeOK
<1>2. contains(b, a) /\ a - b.start + n <= b.size
  BY <1>1, InRangePlain
<1>3. offset(b, a) = a - b.start /\ offset(b, a) \in 0 .. b.size - 1
  BY <1>1, <1>2, OffsetInside
<1>4. ASSUME NEW i \in 0 .. n - 1
      PROVE  offset(b, a) + i \in 0 .. b.size - 1
  BY <1>1, <1>2, <1>3 DEF Params, Address
<1> QED
  BY <1>1, <1>4 DEF load

(* store keeps the size of every buffer.                                   *)
LEMMA StoreType ==
  ASSUME TypeOK, NEW a \in Address, NEW n \in Sizes, NEW b \in blocks,
         NEW source \in [0 .. n - 1 -> Byte]
  PROVE  LET d == store(data, b, a, source) IN
         /\ DOMAIN d = blocks
         /\ \A c \in blocks : d[c] \in [0 .. c.size - 1 -> Byte]
<1> DEFINE bytes == [i \in 0 .. b.size - 1 |->
                       IF i - offset(b, a) \in DOMAIN source
                         THEN source[i - offset(b, a)] ELSE data[b][i]]
<1>1. bytes \in [0 .. b.size - 1 -> Byte]
  BY DEF TypeOK
<1> HIDE DEF bytes
<1>2. store(data, b, a, source) = [data EXCEPT ![b] = bytes]
  BY DEF store, bytes
<1> QED
  BY <1>1, <1>2 DEF TypeOK

(* Every step keeps the invariant.                                         *)
LEMMA InvStep ==
  ASSUME Inv, [Next]_vars
  PROVE  Inv'
<1> USE DEF Inv
<1>1. blocks \in SUBSET Requests /\ disjoint(blocks)
  BY DEF TypeOK, BlocksDisjoint
<1>2. NoBuffer \in [0 .. 0 - 1 -> Byte]
  <2>1. 0 .. 0 - 1 = {}
    OBVIOUS
  <2> QED
    BY <2>1 DEF NoBuffer
<1>3. ASSUME NEW call, NEW ok \in BOOLEAN, Answer(call, ok)
      PROVE  ReplyType'
  BY <1>2, <1>3 DEF Answer, ReplyType, Buffers
<1>4. ASSUME NEW p \in Requests, add_block(p)
      PROVE  Inv'
  <2>1. CASE accepts(blocks, p) /\ blocks' = blocks \cup {p} /\ data' = allocate(data, blocks')
    <3>1. \A b \in blocks, a \in Address : ~(contains(p, a) /\ contains(b, a))
      BY <1>1, <2>1, AcceptedIsDisjoint DEF accepts
    <3>2. disjoint(blocks')
      BY <1>1, <2>1, <3>1 DEF disjoint
    <3>3. /\ blocks' \subseteq Requests
          /\ DOMAIN data' = blocks'
          /\ \A b \in blocks' : data'[b] \in [0 .. b.size - 1 -> Byte]
      BY <2>1, ByteAssumption DEF TypeOK, allocate, zeroed
    <3>4. ReplyType'
      BY <1>3, <1>4 DEF add_block
    <3> QED
      BY <2>1, <3>2, <3>3, <3>4 DEF ReplyType, TypeOK, BlocksDisjoint, accepts
  <2>2. CASE UNCHANGED <<blocks, data>>
    <3>1. ReplyType'
      BY <1>3, <1>4 DEF add_block
    <3> QED
      BY <2>2, <3>1 DEF ReplyType, TypeOK, BlocksDisjoint
  <2> QED
    BY <1>4, <2>1, <2>2 DEF add_block
<1>5. ASSUME NEW a \in Address, NEW n \in Sizes, Load(a, n)
      PROVE  Inv'
  <2> DEFINE b == find_block(blocks, a, n)
  <2>1. ReplyType'
    <3>1. CASE b # nullptr
      <4>1. b \in blocks /\ in_range(b, a, n)
        BY <1>1, <3>1, FindBlock
      <4>2. load(data, b, a, n) \in [0 .. n - 1 -> Byte]
        BY <4>1, LoadType
      <4>3. reply' = [call |-> <<"load", a, n>>, ok |-> TRUE, buffer |-> load(data, b, a, n)]
        BY <1>5, <3>1 DEF Load
      <4> QED
        BY <4>2, <4>3 DEF ReplyType, Buffers
    <3>2. CASE b = nullptr
      BY <1>3, <1>5, <3>2 DEF Load
    <3> QED
      BY <3>1, <3>2
  <2> QED
    BY <1>5, <2>1 DEF Load, ReplyType, TypeOK, BlocksDisjoint
<1>6. ASSUME NEW a \in Address, NEW n \in Sizes, NEW source \in [0 .. n - 1 -> Byte],
             Store(a, n, source)
      PROVE  Inv'
  <2> DEFINE b == find_block(blocks, a, n)
  <2>1. ReplyType' /\ blocks' = blocks
    BY <1>3, <1>6 DEF Store
  <2>2. DOMAIN data' = blocks /\ \A c \in blocks : data'[c] \in [0 .. c.size - 1 -> Byte]
    <3>1. CASE b # nullptr
      <4>1. b \in blocks
        BY <1>1, <3>1, FindBlock
      <4>2. data' = store(data, b, a, source)
        BY <1>6, <3>1 DEF Store
      <4> QED
        BY <4>1, <4>2, StoreType
    <3>2. CASE b = nullptr
      BY <1>6, <3>2 DEF Store, TypeOK
    <3> QED
      BY <3>1, <3>2
  <2> QED
    BY <2>1, <2>2 DEF ReplyType, TypeOK, BlocksDisjoint
<1>7. CASE UNCHANGED vars
  BY <1>7 DEF vars, TypeOK, BlocksDisjoint
<1> QED
  BY <1>4, <1>5, <1>6, <1>7 DEF Next

(* The empty unit satisfies the invariant.                                 *)
LEMMA InvInit == Init => Inv
<1> SUFFICES ASSUME Init PROVE Inv
  OBVIOUS
<1>1. NoBuffer \in [0 .. 0 - 1 -> Byte]
  <2>1. 0 .. 0 - 1 = {}
    OBVIOUS
  <2> QED
    BY <2>1 DEF NoBuffer
<1>2. ReplyType
  BY <1>1 DEF Init, ReplyType, Buffers
<1> QED
  BY <1>2 DEF Init, Inv, ReplyType, TypeOK, BlocksDisjoint, disjoint

(* Every region keeps a buffer of its own size and every answer of load is *)
(* a whole buffer of bytes: no load reads outside its region.              *)
THEOREM TypeCorrect == Spec => []TypeOK
<1>1. Inv /\ [Next]_vars => Inv'
  BY InvStep
<1>2. Inv => TypeOK
  BY DEF Inv
<1> QED
  BY InvInit, <1>1, <1>2, PTL DEF Spec

(* No address belongs to two regions, whatever is added in whatever order. *)
THEOREM SafeBlocks == Spec => []BlocksDisjoint
<1>1. Inv /\ [Next]_vars => Inv'
  BY InvStep
<1>2. Inv => BlocksDisjoint
  BY DEF Inv
<1> QED
  BY InvInit, <1>1, <1>2, PTL DEF Spec

----------------------------------------------------------------------------
(* Mmu implements FlatMemory.                                              *)

(* The overlap test of add_block refuses exactly the colliding mappings.   *)
LEMMA AcceptsIsMappable ==
  ASSUME Inv, NEW p \in Requests
  PROVE  accepts(blocks, p) <=> Flat!Mappable(p)
<1>1. blocks \in SUBSET Requests /\ disjoint(blocks) /\ \A b \in blocks : b.size # 0 /\ b \in Params
  BY RequestsAssumption DEF Inv, TypeOK, BlocksDisjoint
<1>2. p \in Params /\ p.start + p.size < AddrSpace
  BY RequestsAssumption, NoWrapAssumption
<1>3. p.start + p.size \in Address /\ Flat!Extent(p) \subseteq Address
  BY <1>2, AddrSpaceAssumption DEF Params, Address, Flat!Extent
<1>4. (p.start + p.size) % AddrSpace = p.start + p.size
  BY <1>3, SmallMod
<1>5. \A a \in Address : regionOf[a] = nullptr <=> ~owned(blocks, a)
  BY <1>1, OwnerHolds, UnmappedAssumption DEF regionOf, Params
<1>6. ASSUME NEW b \in blocks
      PROVE  b.start \in Address /\ contains(b, b.start) /\ regionOf[b.start] = b.start
  <2>1. b.start \in Address /\ contains(b, b.start)
    BY <1>1 DEF contains, Params, Address
  <2>2. owned(blocks, b.start) /\ owner(blocks, b.start) = b
    BY <1>1, <2>1, UniqueOwner
  <2> QED
    BY <2>1, <2>2 DEF regionOf
<1>7. ASSUME accepts(blocks, p)
      PROVE  Flat!Mappable(p)
  <2>1. ASSUME NEW a \in Flat!Extent(p)
        PROVE  regionOf[a] = nullptr
    <3>1. a \in Address /\ contains(p, a)
      BY <1>2, <1>3 DEF Flat!Extent, contains, Params, Address
    <3>2. \A b \in blocks : ~contains(b, a)
      BY <1>1, <1>7, <3>1, AcceptedIsDisjoint DEF accepts
    <3> QED
      BY <1>5, <3>1, <3>2 DEF owned
  <2>2. ASSUME regionOf[p.start + p.size] = p.start + p.size
        PROVE  FALSE
    <3> DEFINE c == owner(blocks, p.start + p.size)
    <3>1. c \in blocks /\ c.start = p.start + p.size
      BY <1>3, <2>2, OwnerHolds, UnmappedAssumption DEF regionOf
    <3>2. is_overlap(c, p.start, p.size)
      BY <1>1, <1>2, <1>4, <1>7, <3>1 DEF is_overlap, accepts, Params, Address
    <3> QED
      BY <1>7, <3>1, <3>2 DEF accepts
  <2> QED
    BY <1>7, <2>1, <2>2 DEF Flat!Mappable, accepts
<1>8. ASSUME Flat!Mappable(p)
      PROVE  accepts(blocks, p)
  <2>1. p.size # 0 /\ p.start \in Address /\ p.start \in Flat!Extent(p)
    BY <1>2, <1>8 DEF Flat!Mappable, Flat!Extent, Params, Address
  <2>2. ASSUME NEW b \in blocks
        PROVE  ~is_overlap(b, p.start, p.size) /\ b.start # p.start
    <3>1. b.start \notin Flat!Extent(p) /\ b.start # p.start + p.size
      BY <1>6, <1>8, UnmappedAssumption DEF Flat!Mappable
    <3>2. ~contains(b, p.start)
      BY <1>5, <1>8, <2>1 DEF owned, Flat!Mappable
    <3> QED
      BY <1>1, <1>2, <1>4, <2>1, <3>1, <3>2 DEF is_overlap, Flat!Extent, Params, Address
  <2> QED
    BY <2>1, <2>2 DEF accepts
<1> QED
  BY <1>7, <1>8

(* find_block finds a region exactly when one mapping holds the range.     *)
LEMMA FoundIsAccessible ==
  ASSUME Inv, NEW a \in Address, NEW n \in Sizes
  PROVE  find_block(blocks, a, n) # nullptr <=> Flat!Accessible(a, n)
<1> DEFINE f == find_block(blocks, a, n)
<1>1. blocks \in SUBSET Requests /\ disjoint(blocks) /\ \A b \in blocks : b.size # 0 /\ b \in Params
  BY RequestsAssumption DEF Inv, TypeOK, BlocksDisjoint
<1>2. n \in Nat
  BY SizesAssumption DEF Address
<1>3. ASSUME f # nullptr
      PROVE  Flat!Accessible(a, n)
  <2>1. f \in blocks /\ in_range(f, a, n)
    BY <1>1, <1>3, FindBlock
  <2>2. f \in Params /\ contains(f, a) /\ a - f.start + n <= f.size /\ f.start + f.size < AddrSpace
    BY <1>1, <2>1, InRangePlain, NoWrapAssumption
  <2>3. regionOf[a] = f.start
    BY <1>1, <2>1, <2>2, UniqueOwner DEF regionOf
  <2>4. ASSUME NEW i \in 0 .. n - 1
        PROVE  a + i \in Address /\ regionOf[a + i] = f.start
    <3>1. a + i \in Address /\ contains(f, a + i)
      BY <1>2, <2>2, AddrSpaceAssumption DEF contains, Params, Address
    <3> QED
      BY <1>1, <2>1, <3>1, UniqueOwner DEF regionOf
  <2> QED
    BY <2>2, <2>3, <2>4, UnmappedAssumption DEF Flat!Accessible, Flat!Address, Address, Params
<1>4. ASSUME Flat!Accessible(a, n)
      PROVE  f # nullptr
  <2> DEFINE b == owner(blocks, a)
  <2>1. b \in blocks /\ contains(b, a) /\ regionOf[a] = b.start
    BY <1>4, OwnerHolds DEF Flat!Accessible, regionOf
  <2>2. b \in Params /\ b \in Requests /\ b.size # 0
    BY <1>1, <2>1
  <2>3. a - b.start + n <= b.size
    <3>1. CASE n = 0
      BY <2>1, <2>2, <3>1 DEF contains, Params, Address
    <3>2. CASE n # 0
      <4> DEFINE l == a + (n - 1)
      <4>1. l \in Address /\ regionOf[l] = b.start
        BY <1>2, <1>4, <2>1, <3>2 DEF Flat!Accessible, Flat!Address, Address
      <4>2. owned(blocks, l) /\ owner(blocks, l).start = b.start
        BY <4>1, <2>2, UnmappedAssumption DEF regionOf, Params
      <4>3. owner(blocks, l) = b
        BY <1>1, <2>1, <4>2, OwnerHolds, SameStart
      <4>4. contains(b, l)
        BY <4>2, <4>3, OwnerHolds
      <4> QED
        BY <1>2, <2>2, <4>4 DEF contains, Params, Address
    <3> QED
      BY <3>1, <3>2
  <2>4. in_range(b, a, n)
    BY <2>1, <2>2, <2>3, InRangePlain
  <2> QED
    BY <1>1, <2>1, <2>4, FindBlock
<1> QED
  BY <1>3, <1>4

(* Where the byte of an address in region b lives.                         *)
LEMMA ContentsInside ==
  ASSUME Inv, NEW b \in blocks, NEW a \in Address, contains(b, a)
  PROVE  contents[a] = data[b][a - b.start]
<1>1. owned(blocks, a) /\ owner(blocks, a) = b
  BY UniqueOwner DEF Inv, TypeOK, BlocksDisjoint
<1>2. offset(b, a) = a - b.start
  BY OffsetInside, RequestsAssumption DEF Inv, TypeOK
<1> QED
  BY <1>1, <1>2 DEF contents

(* add_block maps or refuses, as the flat memory does.                     *)
LEMMA AddRefines ==
  ASSUME Inv, NEW p \in Requests, add_block(p)
  PROVE  Flat!Map(p)
<1>1. CASE ~accepts(blocks, p)
  <2>1. UNCHANGED <<blocks, data>> /\ Answer(<<"add_block", p>>, FALSE)
    BY <1>1 DEF add_block
  <2>2. UNCHANGED <<regionOf, contents>>
    BY <2>1 DEF regionOf, contents
  <2>3. Flat!Mappable(p) = FALSE
    BY <1>1, AcceptsIsMappable DEF Flat!Mappable
  <2> QED
    BY <2>1, <2>2, <2>3 DEF Flat!Map, Answer, Flat!Answer, NoBuffer, Flat!NoBuffer
<1>2. CASE accepts(blocks, p)
  <2>1. /\ blocks' = blocks \cup {p} /\ data' = allocate(data, blocks')
        /\ Answer(<<"add_block", p>>, TRUE)
    BY <1>2 DEF add_block
  <2>2. /\ blocks' \in SUBSET Requests /\ disjoint(blocks')
        /\ blocks \in SUBSET Requests /\ disjoint(blocks)
        /\ p \in blocks' /\ p \notin blocks /\ DOMAIN data = blocks
    <3>1. Inv'
      BY InvStep DEF Next
    <3>2. p \notin blocks
      BY <1>2 DEF accepts
    <3> QED
      BY <2>1, <3>1, <3>2 DEF Inv, TypeOK, BlocksDisjoint
  <2>3. p \in Params /\ p.start + p.size < AddrSpace
    BY RequestsAssumption, NoWrapAssumption
  <2>4. \A a \in Address : a \in Flat!Extent(p) <=> contains(p, a)
    BY <2>3 DEF Flat!Extent, contains, Params, Address
  <2>5. ASSUME NEW a \in Address
        PROVE  /\ regionOf'[a] = IF a \in Flat!Extent(p) THEN p.start ELSE regionOf[a]
               /\ contents'[a] = IF a \in Flat!Extent(p) THEN 0 ELSE contents[a]
    <3>1. CASE a \in Flat!Extent(p)
      <4>1. contains(p, a)
        BY <2>4, <3>1
      <4>2. owned(blocks', a) /\ owner(blocks', a) = p
        BY <2>2, <4>1, UniqueOwner
      <4>3. offset(p, a) \in 0 .. p.size - 1
        BY <2>3, <4>1, OffsetInside
      <4>4. data'[p][offset(p, a)] = 0
        BY <2>1, <2>2, <4>3 DEF allocate, zeroed
      <4> QED
        BY <3>1, <4>2, <4>4 DEF regionOf, contents
    <3>2. CASE a \notin Flat!Extent(p) /\ ~owned(blocks, a)
      <4>1. ~owned(blocks', a)
        BY <2>1, <2>4, <3>2 DEF owned
      <4> QED
        BY <3>2, <4>1 DEF regionOf, contents
    <3>3. CASE a \notin Flat!Extent(p) /\ owned(blocks, a)
      <4> DEFINE b == owner(blocks, a)
      <4>1. b \in blocks /\ b \in blocks' /\ contains(b, a) /\ b # p
        BY <2>1, <2>2, <3>3, OwnerHolds
      <4>2. owned(blocks', a) /\ owner(blocks', a) = b
        BY <2>2, <4>1, UniqueOwner
      <4>3. data'[b] = data[b]
        BY <2>1, <2>2, <4>1 DEF allocate
      <4> QED
        BY <3>3, <4>2, <4>3 DEF regionOf, contents
    <3> QED
      BY <3>1, <3>2, <3>3
  <2>6. /\ regionOf' = [a \in Address |-> IF a \in Flat!Extent(p) THEN p.start ELSE regionOf[a]]
        /\ contents' = [a \in Address |-> IF a \in Flat!Extent(p) THEN 0 ELSE contents[a]]
    BY <2>5 DEF regionOf, contents
  <2>7. Flat!Mappable(p) = TRUE
    BY <1>2, AcceptsIsMappable DEF Flat!Mappable
  <2> QED
    BY <2>1, <2>6, <2>7
    DEF Flat!Map, Flat!Address, Address, Answer, Flat!Answer, NoBuffer, Flat!NoBuffer
<1> QED
  BY <1>1, <1>2

(* load reads the bytes of the addresses it names.                         *)
LEMMA LoadRefines ==
  ASSUME Inv, NEW a \in Address, NEW n \in Sizes, Load(a, n)
  PROVE  Flat!Read(a, n)
<1> DEFINE f == find_block(blocks, a, n)
<1>1. UNCHANGED <<regionOf, contents>>
  BY DEF Load, regionOf, contents
<1>2. CASE f = nullptr
  BY <1>1, <1>2, FoundIsAccessible
  DEF Load, Answer, Flat!Answer, NoBuffer, Flat!NoBuffer, Flat!Read
<1>3. CASE f # nullptr
  <2>1. f \in blocks /\ in_range(f, a, n) /\ f \in Requests /\ f \in Params /\ n \in Nat
    BY <1>3, FindBlock, RequestsAssumption, SizesAssumption
    DEF Inv, TypeOK, BlocksDisjoint, Address
  <2>2. contains(f, a) /\ a - f.start + n <= f.size /\ f.start + f.size < AddrSpace
    BY <2>1, InRangePlain, NoWrapAssumption
  <2>3. ASSUME NEW i \in 0 .. n - 1
        PROVE  data[f][offset(f, a) + i] = contents[a + i]
    <3> DEFINE x == a + i
    <3>1. x \in Address /\ contains(f, x) /\ x - f.start = a - f.start + i
      BY <2>1, <2>2, AddrSpaceAssumption DEF contains, Params, Address
    <3>2. offset(f, a) = a - f.start
      BY <2>1, <2>2, OffsetInside
    <3> HIDE DEF x
    <3>3. contents[x] = data[f][x - f.start]
      BY <2>1, <3>1, ContentsInside
    <3> QED
      BY <3>1, <3>2, <3>3 DEF x
  <2>4. load(data, f, a, n) = [i \in 0 .. n - 1 |-> contents[a + i]]
    BY <2>3 DEF load
  <2>5. reply' = [call |-> <<"load", a, n>>, ok |-> TRUE, buffer |-> load(data, f, a, n)]
    BY <1>3 DEF Load
  <2> QED
    BY <1>1, <1>3, <2>4, <2>5, FoundIsAccessible DEF Flat!Read
<1> QED
  BY <1>2, <1>3

(* store changes the bytes of the addresses it names, and no other.        *)
LEMMA StoreRefines ==
  ASSUME Inv, NEW a \in Address, NEW n \in Sizes,
         NEW source \in [0 .. n - 1 -> Byte], Store(a, n, source)
  PROVE  Flat!Write(a, n, source)
<1> DEFINE f == find_block(blocks, a, n)
<1>1. UNCHANGED blocks /\ UNCHANGED regionOf
  BY DEF Store, regionOf
<1>2. CASE f = nullptr
  <2>1. UNCHANGED contents
    BY <1>2 DEF Store, contents
  <2>2. Flat!Accessible(a, n) = FALSE
    BY <1>2, FoundIsAccessible DEF Flat!Accessible
  <2>3. Answer(<<"store", a, source>>, FALSE)
    BY <1>2 DEF Store
  <2> QED
    BY <1>1, <2>1, <2>2, <2>3
    DEF Answer, Flat!Answer, NoBuffer, Flat!NoBuffer, Flat!Write
<1>3. CASE f # nullptr
  <2>1. f \in blocks /\ in_range(f, a, n) /\ f \in Requests /\ f \in Params /\ n \in Nat
    BY <1>3, FindBlock, RequestsAssumption, SizesAssumption
    DEF Inv, TypeOK, BlocksDisjoint, Address
  <2>2. contains(f, a) /\ a - f.start + n <= f.size /\ offset(f, a) = a - f.start
    BY <2>1, InRangePlain, OffsetInside
  <2>3. data' = store(data, f, a, source) /\ Answer(<<"store", a, source>>, TRUE)
    BY <1>3 DEF Store
  <2>4. /\ \A c \in blocks : c # f => data'[c] = data[c]
        /\ \A i \in 0 .. f.size - 1 :
             data'[f][i] = IF i - (a - f.start) \in 0 .. n - 1
                             THEN source[i - (a - f.start)] ELSE data[f][i]
    <3>1. f \in DOMAIN data /\ DOMAIN data = blocks
      BY <2>1 DEF Inv, TypeOK
    <3> QED
      BY <2>2, <2>3, <3>1 DEF store
  <2>5. ASSUME NEW x \in Address
        PROVE  contents'[x] = IF x - a \in 0 .. n - 1 THEN source[x - a] ELSE contents[x]
    <3>1. CASE contains(f, x)
      <4>1. offset(f, x) = x - f.start /\ x - f.start \in 0 .. f.size - 1
        BY <2>1, <3>1, OffsetInside
      <4>2. owned(blocks, x) /\ owner(blocks, x) = f
        BY <2>1, <3>1, UniqueOwner DEF Inv, TypeOK, BlocksDisjoint
      <4>3. contents'[x] = data'[f][x - f.start] /\ contents[x] = data[f][x - f.start]
        BY <1>1, <4>1, <4>2 DEF contents
      <4>4. x - f.start - (a - f.start) = x - a
        BY <2>1 DEF Params, Address
      <4> QED
        BY <2>4, <4>1, <4>3, <4>4
    <3>2. CASE ~contains(f, x)
      <4>1. x - a \notin 0 .. n - 1
        BY <2>1, <2>2, <3>2 DEF contains, Params, Address
      <4>2. contents'[x] = contents[x]
        <5>1. CASE owned(blocks, x)
          <6>1. owner(blocks, x) \in blocks /\ owner(blocks, x) # f
            BY <3>2, <5>1, OwnerHolds
          <6> QED
            BY <1>1, <2>4, <6>1 DEF contents
        <5>2. CASE ~owned(blocks, x)
          BY <1>1, <5>2 DEF contents
        <5> QED
          BY <5>1, <5>2
      <4> QED
        BY <4>1, <4>2
    <3> QED
      BY <3>1, <3>2
  <2>6. contents' = [x \in Address |-> IF x - a \in 0 .. n - 1 THEN source[x - a] ELSE contents[x]]
    BY <2>5 DEF contents
  <2>7. Flat!Accessible(a, n) = TRUE
    BY <1>3, FoundIsAccessible DEF Flat!Accessible
  <2> QED
    BY <1>1, <2>3, <2>6, <2>7
    DEF Flat!Write, Flat!Address, Address, Answer, Flat!Answer, NoBuffer, Flat!NoBuffer
<1> QED
  BY <1>2, <1>3

(* memory_management_unit behaves as one flat memory: add_block accepts    *)
(* exactly the mappings that do not collide, and load and store transfer   *)
(* exactly the bytes of the addresses they name.                           *)
THEOREM MmuImplementsFlatMemory == Spec => FlatSpec
<1>1. Init => Flat!Init
  BY DEF Init, Flat!Init, regionOf, contents, owned, Flat!Address, Address,
         NoBuffer, Flat!NoBuffer
<1>2. Inv /\ [Next]_vars => [Flat!Next]_Flat!vars
  <2> SUFFICES ASSUME Inv, [Next]_vars PROVE [Flat!Next]_Flat!vars
    OBVIOUS
  <2>1. CASE UNCHANGED vars
    BY <2>1 DEF vars, Flat!vars, regionOf, contents
  <2>2. CASE Next
    BY <2>2, AddRefines, LoadRefines, StoreRefines DEF Next, Flat!Next, Flat!Address, Address
  <2> QED
    BY <2>1, <2>2
<1>3. Inv /\ [Next]_vars => Inv'
  BY InvStep
<1> QED
  BY InvInit, <1>1, <1>2, <1>3, PTL DEF Spec, FlatSpec, Flat!Spec
============================================================================
