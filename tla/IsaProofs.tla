----------------------------- MODULE IsaProofs -----------------------------
(***************************************************************************)
(* Dispatch is right for every set of handlers and every instruction word. *)
(*                                                                         *)
(* Decoder inverts Encoder for every register, function code and           *)
(* immediate.  Each proof first says which bits the assembled word has,    *)
(* then reads every field off it position by position.                     *)
(*                                                                         *)
(* init_isa fills the registry with every handler of its two lists, and    *)
(* each word then runs the one handler meant for its instruction.          *)
(***************************************************************************)
EXTENDS Rv32Isa, TLAPS

----------------------------------------------------------------------------
(* The registry                                                            *)

(* The two key sets say exactly which fields the registered handlers read. *)
KeysExact ==
  /\ func_a = {h.group : h \in {g \in handlers : g.funcA # NoFuncA}}
  /\ func_b = {func_b_key(h.group, h.funcA) : h \in {g \in handlers : g.funcB # NoFuncB}}

(* The inductive invariant.  A lookup is complete only as long as func_a   *)
(* and func_b agree with the handlers, which every registration must keep. *)
Inv ==
  /\ handlers \subseteq Handlers
  /\ KeysExact
  /\ found = nullptr \/ found \in [code : Codes, handler : Handlers \cup {nullptr}]
  /\ DispatchSound
  /\ DispatchComplete

(* What find_handler looks for.                                            *)
funcAOf(code) == IF code.group \in func_a THEN code.func3 ELSE NoFuncA
funcBOf(code) ==
  IF func_b_key(code.group, code.func3) \in func_b THEN code.func7 ELSE NoFuncB

(* InstructionId::id packs the three fields without loss.                  *)
LEMMA IdInjective ==
  ASSUME NEW h \in HandlerType,
         NEW group \in 0 .. 127, NEW funcA \in 0 .. NoFuncA, NEW funcB \in 0 .. NoFuncB,
         idOf(h) = id(group, funcA, funcB)
  PROVE  h.group = group /\ h.funcA = funcA /\ h.funcB = funcB
<1>1. PICK g \in 0 .. 127, a \in 0 .. NoFuncA, b \in 0 .. NoFuncB :
        g = h.group /\ a = h.funcA /\ b = h.funcB
  BY DEF HandlerType
<1>2. id(g, a, b) = id(group, funcA, funcB)
  BY <1>1 DEF idOf
<1>3. g = group /\ a = funcA /\ b = funcB
  BY <1>2 DEF id, NoFuncA, NoFuncB
<1> QED
  BY <1>1, <1>3

(* So does the key that func_b stores and find_handler looks up.           *)
LEMMA KeyInjective ==
  ASSUME NEW h \in HandlerType, NEW group \in 0 .. 127, NEW func \in 0 .. 7,
         func_b_key(h.group, h.funcA) = func_b_key(group, func)
  PROVE  h.group = group /\ h.funcA = func
<1>1. PICK g \in 0 .. 127, a \in 0 .. NoFuncA : g = h.group /\ a = h.funcA
  BY DEF HandlerType
<1>2. func_b_key(g, a) = func_b_key(group, func)
  BY <1>1
<1>3. g = group /\ a = func
  BY <1>2 DEF func_b_key, NoFuncA
<1> QED
  BY <1>1, <1>3

(* The handler found under an id has the fields of that id.                *)
LEMMA FoundMatches ==
  ASSUME handlers \subseteq Handlers, NEW code \in Codes, find_handler(code) # nullptr
  PROVE  /\ find_handler(code) \in handlers
         /\ find_handler(code).group = code.group
         /\ find_handler(code).funcA = funcAOf(code)
         /\ find_handler(code).funcB = funcBOf(code)
<1> DEFINE f == find_handler(code)
<1>1. f \in handlers /\ idOf(f) = id(code.group, funcAOf(code), funcBOf(code))
  BY DEF find_handler, funcAOf, funcBOf
<1>2. f \in HandlerType /\ code \in CodeType
  BY <1>1, HandlersAssumption, CodesAssumption
<1>3. /\ f.group \in 0 .. 127 /\ f.funcA \in 0 .. NoFuncA /\ f.funcB \in 0 .. NoFuncB
      /\ code.group \in 0 .. 127 /\ code.func3 \in 0 .. 7 /\ code.func7 \in 0 .. 127
  BY <1>2 DEF HandlerType, CodeType
<1>4. funcAOf(code) \in 0 .. NoFuncA /\ funcBOf(code) \in 0 .. NoFuncB
  BY <1>3 DEF funcAOf, funcBOf, NoFuncA, NoFuncB
<1> HIDE DEF f
<1>5. f.group = code.group /\ f.funcA = funcAOf(code) /\ f.funcB = funcBOf(code)
  BY <1>1, <1>2, <1>3, <1>4, IdInjective
<1> QED
  BY <1>1, <1>5 DEF f

(* A uniform registry reads the fields that a handler meant for the word   *)
(* names.                                                                  *)
LEMMA UniformFields ==
  ASSUME handlers \subseteq Handlers, KeysExact, uniform(handlers),
         NEW code \in Codes, NEW h \in handlers, meant(h, code)
  PROVE  h.funcA = funcAOf(code) /\ h.funcB = funcBOf(code)
<1>1. \A g \in handlers : g \in HandlerType
  BY HandlersAssumption
<1>2. code.group \in 0 .. 127 /\ code.func3 \in 0 .. 7 /\ code.func7 \in 0 .. 127
  BY CodesAssumption DEF CodeType
<1>3. code.func3 \in 0 .. NoFuncA /\ code.func3 # NoFuncA
  BY <1>2 DEF NoFuncA
<1>4. h.group = code.group /\ h.funcA \in {NoFuncA, code.func3} /\ h.funcB \in {NoFuncB, code.func7}
  BY DEF meant
<1>5. h.funcA = funcAOf(code)
  <2>1. CASE code.group \in func_a
    <3>1. PICK g \in handlers : g.funcA # NoFuncA /\ g.group = code.group
      BY <2>1 DEF KeysExact
    <3> QED
      BY <1>4, <2>1, <3>1 DEF uniform, funcAOf
  <2>2. CASE code.group \notin func_a
    BY <1>4, <2>2 DEF KeysExact, funcAOf
  <2> QED
    BY <2>1, <2>2
<1>6. h.funcB = funcBOf(code)
  <2>1. CASE func_b_key(code.group, code.func3) \in func_b
    <3>1. PICK g \in handlers :
            g.funcB # NoFuncB /\ func_b_key(code.group, code.func3) = func_b_key(g.group, g.funcA)
      BY <2>1 DEF KeysExact
    <3>2. g.group = code.group /\ g.funcA = code.func3
      BY <1>1, <1>2, <3>1, KeyInjective
    <3>3. h.funcA = code.func3
      BY <1>3, <1>4, <3>2 DEF uniform
    <3> QED
      BY <1>4, <2>1, <3>1, <3>2, <3>3 DEF uniform, funcBOf
  <2>2. CASE func_b_key(code.group, code.func3) \notin func_b
    <3>1. h.funcB = NoFuncB
      <4> SUFFICES ASSUME h.funcB # NoFuncB PROVE FALSE
        OBVIOUS
      <4>1. h.funcA = code.func3
        BY <1>4 DEF uniform
      <4> QED
        BY <1>4, <2>2, <4>1 DEF KeysExact
    <3> QED
      BY <2>2, <3>1 DEF funcBOf
  <2> QED
    BY <2>1, <2>2
<1> QED
  BY <1>5, <1>6

(* In a uniform registry find_handler returns the handler the word is      *)
(* meant for: the key sets make it read exactly the fields that handler    *)
(* uses.                                                                   *)
LEMMA FindsTheOne ==
  ASSUME handlers \subseteq Handlers, KeysExact, uniform(handlers),
         NEW code \in Codes, NEW h \in handlers, meant(h, code)
  PROVE  find_handler(code) = h
<1> DEFINE f == find_handler(code)
<1>1. h.group = code.group /\ h.funcA = funcAOf(code) /\ h.funcB = funcBOf(code)
  BY UniformFields DEF meant
<1>2. f # nullptr
  <2>1. idOf(h) = id(code.group, funcAOf(code), funcBOf(code))
    BY <1>1 DEF idOf
  <2>2. {x \in handlers : idOf(x) = id(code.group, funcAOf(code), funcBOf(code))} # {}
    BY <2>1
  <2>3. f \in handlers
    BY <2>2 DEF find_handler, funcAOf, funcBOf
  <2> QED
    BY <2>3, NullptrAssumption
<1>3. /\ f \in handlers /\ f.group = code.group
      /\ f.funcA = funcAOf(code) /\ f.funcB = funcBOf(code)
  BY <1>2, FoundMatches
<1>4. f \in HandlerType /\ h \in HandlerType
  BY <1>3, HandlersAssumption
<1> HIDE DEF f
<1>5. f = h
  BY <1>1, <1>3, <1>4 DEF HandlerType
<1> QED
  BY <1>5 DEF f

----------------------------------------------------------------------------
(* The empty registry satisfies the invariant.                             *)
LEMMA InvInit == Init => Inv
BY DEF Init, Inv, KeysExact, DispatchSound, DispatchComplete

(* register_handler keeps the key sets exact.                              *)
LEMMA RegisterKeeps ==
  ASSUME Inv, NEW h \in Handlers, Register(h)
  PROVE  Inv'
<1>1. found' = nullptr
  BY DEF Register
<1>2. DispatchSound' /\ DispatchComplete'
  BY <1>1 DEF DispatchSound, DispatchComplete
<1>3. CASE accepted(h)
  <2>1. /\ handlers' = handlers \cup {h}
        /\ func_a' = IF h.funcA # NoFuncA THEN func_a \cup {h.group} ELSE func_a
        /\ func_b' = IF h.funcB # NoFuncB
                       THEN func_b \cup {func_b_key(h.group, h.funcA)} ELSE func_b
    BY <1>3 DEF Register, register_handler
  <2>2. func_a' = {x.group : x \in {g \in handlers' : g.funcA # NoFuncA}}
    BY <2>1 DEF Inv, KeysExact
  <2>3. func_b' = {func_b_key(x.group, x.funcA) : x \in {g \in handlers' : g.funcB # NoFuncB}}
    BY <2>1 DEF Inv, KeysExact
  <2> QED
    BY <1>1, <1>2, <2>1, <2>2, <2>3 DEF Inv, KeysExact
<1>4. CASE ~accepted(h)
  BY <1>1, <1>2, <1>4 DEF Register, register_handler, registry, Inv, KeysExact
<1> QED
  BY <1>3, <1>4

(* With exact key sets find_handler is sound, and complete when uniform.   *)
LEMMA LookupKeeps ==
  ASSUME Inv, NEW code \in Codes, Lookup(code)
  PROVE  Inv'
<1> DEFINE f == find_handler(code)
<1>1. UNCHANGED <<handlers, func_a, func_b>> /\ handlers \subseteq Handlers /\ KeysExact
  BY DEF Lookup, registry, Inv
<1>2. found' = [code |-> code, handler |-> f]
  BY DEF Lookup
<1>3. f # nullptr => f \in handlers /\ meant(f, code)
  <2> SUFFICES ASSUME f # nullptr PROVE f \in handlers /\ meant(f, code)
    OBVIOUS
  <2>1. /\ f \in handlers /\ f.group = code.group
        /\ f.funcA = funcAOf(code) /\ f.funcB = funcBOf(code)
    BY <1>1, FoundMatches
  <2> QED
    BY <2>1 DEF meant, funcAOf, funcBOf
<1>4. uniform(handlers) => \A h \in handlers : meant(h, code) => f = h
  BY <1>1, FindsTheOne
<1> HIDE DEF f
<1>5. found' \in [code : Codes, handler : Handlers \cup {nullptr}]
  BY <1>1, <1>2, <1>3
<1>6. found'.code = code /\ found'.handler = f
  BY <1>2
<1>7. DispatchSound'
  BY <1>1, <1>3, <1>6 DEF DispatchSound
<1>8. DispatchComplete'
  BY <1>1, <1>4, <1>6 DEF DispatchComplete
<1> QED
  BY <1>1, <1>5, <1>7, <1>8 DEF Inv, KeysExact

(* Every step keeps the invariant.                                         *)
LEMMA InvStep ==
  ASSUME Inv, [Next]_vars
  PROVE  Inv'
<1>1. CASE UNCHANGED vars
  BY <1>1 DEF vars, Inv, KeysExact, DispatchSound, DispatchComplete
<1>2. CASE Next
  BY <1>2, RegisterKeeps, LookupKeeps DEF Next
<1> QED
  BY <1>1, <1>2

(* Whatever handlers were registered, find_handler never answers with one  *)
(* that is meant for other instruction words.                              *)
THEOREM DispatchIsSound == Spec => []DispatchSound
<1>1. Inv /\ [Next]_vars => Inv'
  BY InvStep
<1>2. Inv => DispatchSound
  BY DEF Inv
<1> QED
  BY InvInit, <1>1, <1>2, PTL DEF Spec

(* As long as the handlers of a group agree on the fields they read, every *)
(* registered handler is reached by exactly the words it is meant for.     *)
THEOREM DispatchIsComplete == Spec => []DispatchComplete
<1>1. Inv /\ [Next]_vars => Inv'
  BY InvStep
<1>2. Inv => DispatchComplete
  BY DEF Inv
<1> QED
  BY InvInit, <1>1, <1>2, PTL DEF Spec

----------------------------------------------------------------------------
(* Words and their fields                                                  *)

(* Words with the same bits are equal.                                     *)
LEMMA SameBits ==
  ASSUME NEW v \in Words, NEW w \in Words, \A i \in Bits : i \in v <=> i \in w
  PROVE  v = w
BY DEF Words

(* get_bits moves a field to the bottom.                                   *)
LEMMA FieldBits ==
  ASSUME NEW w, NEW start \in Int, NEW length \in Int
  PROVE  /\ get_bits(w, start, length) \in Words
         /\ \A i \in Bits : i \in get_bits(w, start, length) <=> i < length /\ i + start \in w
BY DEF get_bits, shr, make_mask, Bits, Words

(* shift_bits to 0 does the same.                                          *)
LEMMA LoweredBits ==
  ASSUME NEW w \in Words, NEW start \in Int, NEW length \in Int
  PROVE  /\ shift_bits(w, start, 0, length) \in Words
         /\ \A i \in Bits : i \in shift_bits(w, start, 0, length) <=> i < length /\ i + start \in w
BY DEF shift_bits, shl, shr, make_mask, Bits, Words

(* A field that lies at start in the word is what get_bits returns.        *)
LEMMA FieldFound ==
  ASSUME NEW w, NEW start \in Int, NEW length \in 0 .. 32, NEW x \in SUBSET (0 .. length - 1),
         \A i \in 0 .. length - 1 : i + start \in w <=> i \in x
  PROVE  get_bits(w, start, length) = x
<1>1. x \in Words
  BY DEF Words, Bits
<1>2. \A i \in Bits : i \in get_bits(w, start, length) <=> i \in x
  BY FieldBits DEF Bits
<1> QED BY <1>1, <1>2, FieldBits, SameBits

(* Sign extension restores an immediate from its low bits.                 *)
LEMMA SignRestored ==
  ASSUME NEW length \in 1 .. 32, NEW imm \in Signed(length), NEW u \in Words,
         \A i \in Bits : i \in u <=> i < length /\ i \in imm
  PROVE  extend_sign(u, length - 1) = imm
<1>1. extend_sign(u, length - 1) \in Words /\ imm \in Words
  BY DEF extend_sign, Words, Signed
<1>2. \A i \in Bits : i \in extend_sign(u, length - 1) <=> i \in imm
  BY length - 1 \in Bits DEF extend_sign, Signed, Bits
<1> QED BY <1>1, <1>2, SameBits

----------------------------------------------------------------------------
(* R: both function codes and the three registers come back, and the shift *)
(* count of shift_imm is the rs2 field.                                    *)
LEMMA RoundTripR ==
  ASSUME NEW group \in Group, NEW rd \in Register5, NEW rs1 \in Register5, NEW rs2 \in Register5,
         NEW fa \in Func3, NEW fb \in Func7, NEW w, w = r_type(group, rd, rs1, rs2, fa, fb)
  PROVE  /\ get_code(w) = group /\ get_func3(w) = fa /\ get_func7(w) = fb
         /\ get_rd(w) = rd /\ get_rs1(w) = rs1 /\ get_rs2(w) = rs2
         /\ decode_i_u(w) \cap make_mask(0, 5) = rs2
<1>1. w \in Words /\ \A i \in Int : i \in w <=>
         /\ i \in Bits
         /\ i \in group \/ i - 7 \in rd \/ i - 12 \in fa \/ i - 15 \in rs1 \/ i - 20 \in rs2 \/ i - 25 \in fb
  BY DEF r_type, encode_group, encode_rd, encode_f3, encode_rs1, encode_rs2, encode_f7, shl, Words, Group, Bits
<1>2. /\ group \in SUBSET (0 .. 6) /\ rd \in SUBSET (0 .. 4) /\ rs1 \in SUBSET (0 .. 4)
      /\ rs2 \in SUBSET (0 .. 4) /\ fa \in SUBSET (0 .. 2) /\ fb \in SUBSET (0 .. 6)
  BY DEF Group, Register5, Func3, Func7
<1>3. \A i \in 0 .. 6 : i + 0 \in w <=> i \in group
  BY <1>1, <1>2 DEF Bits
<1>4. \A i \in 0 .. 4 : i + 7 \in w <=> i \in rd
  BY <1>1, <1>2 DEF Bits
<1>5. \A i \in 0 .. 2 : i + 12 \in w <=> i \in fa
  BY <1>1, <1>2 DEF Bits
<1>6. \A i \in 0 .. 4 : i + 15 \in w <=> i \in rs1
  BY <1>1, <1>2 DEF Bits
<1>7. \A i \in 0 .. 4 : i + 20 \in w <=> i \in rs2
  BY <1>1, <1>2 DEF Bits
<1>8. \A i \in 0 .. 6 : i + 25 \in w <=> i \in fb
  BY <1>1, <1>2 DEF Bits
<1>9. get_code(w) = group
  BY <1>2, <1>3, FieldFound DEF get_code
<1>10. get_rd(w) = rd
  BY <1>2, <1>4, FieldFound DEF get_rd
<1>11. get_func3(w) = fa
  BY <1>2, <1>5, FieldFound DEF get_func3
<1>12. get_rs1(w) = rs1
  BY <1>2, <1>6, FieldFound DEF get_rs1
<1>13. get_rs2(w) = rs2
  BY <1>2, <1>7, FieldFound DEF get_rs2
<1>14. get_func7(w) = fb
  BY <1>2, <1>8, FieldFound DEF get_func7
<1>15. decode_i_u(w) \cap make_mask(0, 5) = rs2
  <2>1. /\ decode_i_u(w) \in Words
        /\ \A i \in Bits : i \in decode_i_u(w) <=> i < 12 /\ i + 20 \in w
    BY <1>1, LoweredBits DEF decode_i_u
  <2>2. ASSUME NEW i \in Bits
        PROVE  i \in decode_i_u(w) \cap make_mask(0, 5) <=> i \in rs2
    BY <1>2, <1>7, <2>1 DEF make_mask, Bits
  <2>3. rs2 \in Words /\ decode_i_u(w) \cap make_mask(0, 5) \in Words
    BY <1>2, <2>1 DEF Words, Bits
  <2> QED BY <2>2, <2>3, SameBits
<1> QED BY <1>9, <1>10, <1>11, <1>12, <1>13, <1>14, <1>15

(* I: the immediate is sign-extended from bit 11.                          *)
LEMMA RoundTripI ==
  ASSUME NEW group \in Group, NEW rd \in Register5, NEW rs1 \in Register5, NEW imm \in ImmI,
         NEW fa \in Func3, NEW w, w = i_type(group, rd, rs1, imm, fa)
  PROVE  /\ get_code(w) = group /\ get_func3(w) = fa
         /\ get_rd(w) = rd /\ get_rs1(w) = rs1 /\ decode_i(w) = imm
<1>1. w \in Words /\ \A i \in Int : i \in w <=>
         /\ i \in Bits
         /\ i \in group \/ i - 7 \in rd \/ i - 12 \in fa \/ i - 15 \in rs1 \/ i - 20 \in imm
  BY DEF i_type, encode_group, encode_rd, encode_f3, encode_rs1, encode_i, shl, Words, Group, Bits
<1>2. /\ group \in SUBSET (0 .. 6) /\ rd \in SUBSET (0 .. 4) /\ rs1 \in SUBSET (0 .. 4)
      /\ fa \in SUBSET (0 .. 2) /\ imm \in SUBSET (0 .. 31) /\ imm \in Signed(12)
  BY DEF Group, Register5, Func3, ImmI, Signed, Words, Bits
<1>3. \A i \in 0 .. 6 : i + 0 \in w <=> i \in group
  BY <1>1, <1>2 DEF Bits
<1>4. \A i \in 0 .. 4 : i + 7 \in w <=> i \in rd
  BY <1>1, <1>2 DEF Bits
<1>5. \A i \in 0 .. 2 : i + 12 \in w <=> i \in fa
  BY <1>1, <1>2 DEF Bits
<1>6. \A i \in 0 .. 4 : i + 15 \in w <=> i \in rs1
  BY <1>1, <1>2 DEF Bits
<1>7. \A i \in 0 .. 11 : i + 20 \in w <=> i \in imm
  BY <1>1, <1>2 DEF Bits
<1>8. get_code(w) = group
  BY <1>2, <1>3, FieldFound DEF get_code
<1>9. get_rd(w) = rd
  BY <1>2, <1>4, FieldFound DEF get_rd
<1>10. get_func3(w) = fa
  BY <1>2, <1>5, FieldFound DEF get_func3
<1>11. get_rs1(w) = rs1
  BY <1>2, <1>6, FieldFound DEF get_rs1
<1>12. decode_i(w) = imm
  <2>1. /\ decode_i_u(w) \in Words
        /\ \A i \in Bits : i \in decode_i_u(w) <=> i < 12 /\ i + 20 \in w
    BY <1>1, LoweredBits DEF decode_i_u
  <2>2. \A i \in Bits : i \in decode_i_u(w) <=> i < 12 /\ i \in imm
    BY <1>7, <2>1 DEF Bits
  <2> QED BY <1>2, <2>1, <2>2, SignRestored DEF decode_i
<1> QED BY <1>8, <1>9, <1>10, <1>11, <1>12

(* S: the immediate is in two pieces around the registers.                 *)
LEMMA RoundTripS ==
  ASSUME NEW group \in Group, NEW rs1 \in Register5, NEW rs2 \in Register5, NEW imm \in ImmS,
         NEW fa \in Func3, NEW w, w = s_type(group, rs1, rs2, imm, fa)
  PROVE  /\ get_code(w) = group /\ get_func3(w) = fa
         /\ get_rs1(w) = rs1 /\ get_rs2(w) = rs2 /\ decode_s(w) = imm
<1>1. /\ group \in SUBSET (0 .. 6) /\ rs1 \in SUBSET (0 .. 4) /\ rs2 \in SUBSET (0 .. 4)
      /\ fa \in SUBSET (0 .. 2) /\ imm \in Words /\ imm \in Signed(12)
  BY DEF Group, Register5, Func3, ImmS, Signed
<1>2. \A i \in Bits : i \in encode_s(imm) <=>
         (7 <= i /\ i <= 11 /\ i - 7 \in imm) \/ (25 <= i /\ i - 20 \in imm)
  BY <1>1 DEF encode_s, get_range, shl, shr, make_mask, Words, Bits
<1>3. w \in Words /\ \A i \in Bits : i \in w <=>
         i \in group \/ i - 12 \in fa \/ i - 15 \in rs1 \/ i - 20 \in rs2 \/ i \in encode_s(imm)
  BY DEF s_type, encode_s, encode_group, encode_f3, encode_rs1, encode_rs2, shl, Words, Bits
<1>4. \A i \in 0 .. 6 : i + 0 \in w <=> i \in group
  BY <1>1, <1>2, <1>3 DEF Bits
<1>5. \A i \in 0 .. 2 : i + 12 \in w <=> i \in fa
  BY <1>1, <1>2, <1>3 DEF Bits
<1>6. \A i \in 0 .. 4 : i + 15 \in w <=> i \in rs1
  BY <1>1, <1>2, <1>3 DEF Bits
<1>7. \A i \in 0 .. 4 : i + 20 \in w <=> i \in rs2
  BY <1>1, <1>2, <1>3 DEF Bits
<1>8. get_code(w) = group
  BY <1>1, <1>4, FieldFound DEF get_code
<1>9. get_func3(w) = fa
  BY <1>1, <1>5, FieldFound DEF get_func3
<1>10. get_rs1(w) = rs1
  BY <1>1, <1>6, FieldFound DEF get_rs1
<1>11. get_rs2(w) = rs2
  BY <1>1, <1>7, FieldFound DEF get_rs2
<1>12. decode_s(w) = imm
  <2>1. /\ decode_s_u(w) \in Words
        /\ \A i \in Bits : i \in decode_s_u(w) <=>
              (i < 5 /\ i + 7 \in w) \/ (5 <= i /\ i < 12 /\ i + 20 \in w)
    BY <1>3 DEF decode_s_u, shift_bits, shl, shr, make_mask, Words, Bits
  <2>2. ASSUME NEW i \in Bits
        PROVE  i \in decode_s_u(w) <=> i < 12 /\ i \in imm
    <3>1. /\ i < 5 => (i + 7 \in w <=> i \in imm)
          /\ 5 <= i /\ i < 12 => (i + 20 \in w <=> i \in imm)
      BY <1>1, <1>2, <1>3 DEF Bits
    <3> QED BY <2>1, <3>1 DEF Bits
  <2> QED BY <1>1, <2>1, <2>2, SignRestored DEF decode_s
<1> QED BY <1>8, <1>9, <1>10, <1>11, <1>12

(* B: the immediate is even and in four pieces, bit 11 at the bottom.      *)
LEMMA RoundTripB ==
  ASSUME NEW group \in Group, NEW rs1 \in Register5, NEW rs2 \in Register5, NEW imm \in ImmB,
         NEW fa \in Func3, NEW w, w = b_type(group, rs1, rs2, imm, fa)
  PROVE  /\ get_code(w) = group /\ get_func3(w) = fa
         /\ get_rs1(w) = rs1 /\ get_rs2(w) = rs2 /\ decode_b(w) = imm
<1>1. /\ group \in SUBSET (0 .. 6) /\ rs1 \in SUBSET (0 .. 4) /\ rs2 \in SUBSET (0 .. 4)
      /\ fa \in SUBSET (0 .. 2) /\ imm \in Words /\ imm \in Signed(13) /\ 0 \notin imm
  BY DEF Group, Register5, Func3, ImmB, Even, Signed
<1>2. \A i \in Bits : i \in encode_b(imm) <=>
         \/ i = 7 /\ 11 \in imm
         \/ 8 <= i /\ i <= 11 /\ i - 7 \in imm
         \/ 25 <= i /\ i <= 30 /\ i - 20 \in imm
         \/ i = 31 /\ 12 \in imm
  BY <1>1 DEF encode_b, get_range, shl, shr, make_mask, Words, Bits
<1>3. w \in Words /\ \A i \in Bits : i \in w <=>
         i \in group \/ i - 12 \in fa \/ i - 15 \in rs1 \/ i - 20 \in rs2 \/ i \in encode_b(imm)
  BY DEF b_type, encode_b, encode_group, encode_f3, encode_rs1, encode_rs2, shl, Words, Bits
<1>4. \A i \in 0 .. 6 : i + 0 \in w <=> i \in group
  BY <1>1, <1>2, <1>3 DEF Bits
<1>5. \A i \in 0 .. 2 : i + 12 \in w <=> i \in fa
  BY <1>1, <1>2, <1>3 DEF Bits
<1>6. \A i \in 0 .. 4 : i + 15 \in w <=> i \in rs1
  BY <1>1, <1>2, <1>3 DEF Bits
<1>7. \A i \in 0 .. 4 : i + 20 \in w <=> i \in rs2
  BY <1>1, <1>2, <1>3 DEF Bits
<1>8. get_code(w) = group
  BY <1>1, <1>4, FieldFound DEF get_code
<1>9. get_func3(w) = fa
  BY <1>1, <1>5, FieldFound DEF get_func3
<1>10. get_rs1(w) = rs1
  BY <1>1, <1>6, FieldFound DEF get_rs1
<1>11. get_rs2(w) = rs2
  BY <1>1, <1>7, FieldFound DEF get_rs2
<1>12. decode_b(w) = imm
  <2>1. /\ decode_b_u(w) \in Words
        /\ \A i \in Bits : i \in decode_b_u(w) <=>
              \/ i = 12 /\ 31 \in w
              \/ 1 <= i /\ i <= 4 /\ i + 7 \in w
              \/ 5 <= i /\ i <= 10 /\ i + 20 \in w
              \/ i = 11 /\ 7 \in w
    BY <1>3 DEF decode_b_u, shift_bits, shl, shr, make_mask, Words, Bits
  <2>2. ASSUME NEW i \in Bits
        PROVE  i \in decode_b_u(w) <=> i < 13 /\ i \in imm
    <3>1. /\ i = 12 => (31 \in w <=> i \in imm)
          /\ 1 <= i /\ i <= 4 => (i + 7 \in w <=> i \in imm)
          /\ 5 <= i /\ i <= 10 => (i + 20 \in w <=> i \in imm)
          /\ i = 11 => (7 \in w <=> i \in imm)
      BY <1>1, <1>2, <1>3 DEF Bits
    <3> QED BY <1>1, <2>1, <3>1 DEF Bits
  <2> QED BY <1>1, <2>1, <2>2, SignRestored DEF decode_b
<1> QED BY <1>8, <1>9, <1>10, <1>11, <1>12

(* U: the immediate is the upper part of the word itself.                  *)
LEMMA RoundTripU ==
  ASSUME NEW group \in Group, NEW rd \in Register5, NEW imm \in ImmU,
         NEW w, w = u_type(group, rd, imm)
  PROVE  get_code(w) = group /\ get_rd(w) = rd /\ decode_u(w) = imm
<1>1. group \in SUBSET (0 .. 6) /\ rd \in SUBSET (0 .. 4) /\ imm \in SUBSET (12 .. 31)
  BY DEF Group, Register5, ImmU
<1>2. w \in Words /\ \A i \in Bits : i \in w <=> i \in group \/ i - 7 \in rd \/ i \in imm
  <2>1. imm \in Words
    BY <1>1 DEF Words, Bits
  <2>2. w = shl(group, 0) \cup shl(rd, 7) \cup imm
    BY DEF u_type, encode_u, encode_group, encode_rd
  <2>3. w \in Words
    BY <2>1, <2>2 DEF shl, Words
  <2>4. \A i \in Bits : i \in w <=> i \in group \/ i - 7 \in rd \/ i \in imm
    BY <2>2 DEF shl, Bits
  <2> QED BY <2>3, <2>4
<1>3. \A i \in 0 .. 6 : i + 0 \in w <=> i \in group
  BY <1>1, <1>2 DEF Bits
<1>4. \A i \in 0 .. 4 : i + 7 \in w <=> i \in rd
  BY <1>1, <1>2 DEF Bits
<1>5. get_code(w) = group
  BY <1>1, <1>3, FieldFound DEF get_code
<1>6. get_rd(w) = rd
  BY <1>1, <1>4, FieldFound DEF get_rd
<1>7. decode_u(w) = imm
  <2>1. \A i \in Bits : i \in decode_u(w) <=> i \in imm
    BY <1>1, <1>2 DEF decode_u, make_mask, Bits
  <2>2. decode_u(w) \in Words /\ imm \in Words
    BY <1>1, <1>2 DEF decode_u, Words, Bits
  <2> QED BY <2>1, <2>2, SameBits
<1> QED BY <1>5, <1>6, <1>7

(* J: the immediate is even, in four pieces, its middle at the bottom.     *)
LEMMA RoundTripJ ==
  ASSUME NEW group \in Group, NEW rd \in Register5, NEW imm \in ImmJ,
         NEW w, w = j_type(group, rd, imm)
  PROVE  get_code(w) = group /\ get_rd(w) = rd /\ decode_j(w) = imm
<1>1. /\ group \in SUBSET (0 .. 6) /\ rd \in SUBSET (0 .. 4)
      /\ imm \in Words /\ imm \in Signed(21) /\ 0 \notin imm
  BY DEF Group, Register5, ImmJ, Even, Signed
<1>2. \A i \in Bits : i \in encode_j(imm) <=>
         \/ 12 <= i /\ i <= 19 /\ i \in imm
         \/ i = 20 /\ 11 \in imm
         \/ 21 <= i /\ i <= 30 /\ i - 20 \in imm
         \/ i = 31 /\ 20 \in imm
  BY <1>1 DEF encode_j, get_range, shl, shr, make_mask, Words, Bits
<1>3. w \in Words /\ \A i \in Bits : i \in w <=>
         i \in group \/ i - 7 \in rd \/ i \in encode_j(imm)
  BY DEF j_type, encode_j, encode_group, encode_rd, shl, Words, Bits
<1>4. \A i \in 0 .. 6 : i + 0 \in w <=> i \in group
  BY <1>1, <1>2, <1>3 DEF Bits
<1>5. \A i \in 0 .. 4 : i + 7 \in w <=> i \in rd
  BY <1>1, <1>2, <1>3 DEF Bits
<1>6. get_code(w) = group
  BY <1>1, <1>4, FieldFound DEF get_code
<1>7. get_rd(w) = rd
  BY <1>1, <1>5, FieldFound DEF get_rd
<1>8. decode_j(w) = imm
  <2>1. /\ decode_j_u(w) \in Words
        /\ \A i \in Bits : i \in decode_j_u(w) <=>
              \/ i = 20 /\ 31 \in w
              \/ 12 <= i /\ i <= 19 /\ i \in w
              \/ i = 11 /\ 20 \in w
              \/ 1 <= i /\ i <= 10 /\ i + 20 \in w
    BY <1>3 DEF decode_j_u, shift_bits, shl, shr, make_mask, Words, Bits
  <2>2. ASSUME NEW i \in Bits
        PROVE  i \in decode_j_u(w) <=> i < 21 /\ i \in imm
    <3>1. /\ i = 20 => (31 \in w <=> i \in imm)
          /\ 12 <= i /\ i <= 19 => (i \in w <=> i \in imm)
          /\ i = 11 => (20 \in w <=> i \in imm)
          /\ 1 <= i /\ i <= 10 => (i + 20 \in w <=> i \in imm)
      BY <1>1, <1>2, <1>3 DEF Bits
    <3> QED BY <1>1, <2>1, <3>1 DEF Bits
  <2> QED BY <1>1, <2>1, <2>2, SignRestored DEF decode_j
<1> QED BY <1>6, <1>7, <1>8

----------------------------------------------------------------------------
(* Every instruction is read back from its word.                           *)
LEMMA AssembledRead ==
  ASSUME NEW i, IsInstr(i)
  PROVE  operandsRead(format(i.group, i.func3), assemble(i), i)
<1> DEFINE group == bitsOf(i.group, 7)
           fa == bitsOf(i.func3, 3)
           fb == bitsOf(i.func7, 7)
           f == format(i.group, i.func3)
           w == assemble(i)
<1>1. group \in Group /\ fa \in Func3 /\ fb \in Func7
  BY DEF bitsOf, Group, Func3, Func7
<1>2. i.rd \in Register5 /\ i.rs1 \in Register5 /\ i.rs2 \in Register5 /\ i.imm \in Immediates(f)
  BY DEF IsInstr
<1>3. f \in {"R", "I", "S", "B", "U", "J"}
  BY DEF format
<1>4. /\ f = "R" => w = r_type(group, i.rd, i.rs1, i.rs2, fa, fb)
      /\ f = "I" => w = i_type(group, i.rd, i.rs1, i.imm, fa) /\ i.imm \in ImmI
      /\ f = "S" => w = s_type(group, i.rs1, i.rs2, i.imm, fa) /\ i.imm \in ImmS
      /\ f = "B" => w = b_type(group, i.rs1, i.rs2, i.imm, fa) /\ i.imm \in ImmB
      /\ f = "U" => w = u_type(group, i.rd, i.imm) /\ i.imm \in ImmU
      /\ f = "J" => w = j_type(group, i.rd, i.imm) /\ i.imm \in ImmJ
  <2> HIDE DEF f
  <2> QED BY <1>2, <1>3 DEF assemble, Immediates, f
<1> HIDE DEF group, fa, fb, f, w
<1>5. CASE f = "R"
  BY <1>1, <1>2, <1>4, <1>5, RoundTripR DEF operandsRead, f, w
<1>6. CASE f = "I"
  BY <1>1, <1>2, <1>4, <1>6, RoundTripI DEF operandsRead, f, w
<1>7. CASE f = "S"
  BY <1>1, <1>2, <1>4, <1>7, RoundTripS DEF operandsRead, f, w
<1>8. CASE f = "B"
  BY <1>1, <1>2, <1>4, <1>8, RoundTripB DEF operandsRead, f, w
<1>9. CASE f = "U"
  BY <1>1, <1>2, <1>4, <1>9, RoundTripU DEF operandsRead, f, w
<1>10. CASE f = "J"
  BY <1>1, <1>2, <1>4, <1>10, RoundTripJ DEF operandsRead, f, w
<1> QED BY <1>3, <1>5, <1>6, <1>7, <1>8, <1>9, <1>10 DEF f, w

(* Whatever is fetched, in whatever state of the registry, the Decoder     *)
(* returns the registers and the immediate given to the Encoder.           *)
THEOREM OperandsExactThm == IsaSpec => []OperandsExact
<1> DEFINE Known == instr \in Instrs \cup {nullptr}
<1>1. IsaInit => Known
  BY DEF IsaInit
<1>2. Known /\ [IsaNext]_isaVars => Known'
  BY DEF IsaNext, init_isa, register_next, fetch, retire, isaVars
<1>3. Known => OperandsExact
  BY AssembledRead, InstrsAssumption DEF OperandsExact
<1> QED BY <1>1, <1>2, <1>3, PTL DEF IsaSpec

----------------------------------------------------------------------------
(* Fields as numbers                                                       *)

(* A field of at most seven bits is read back as the number it encodes.    *)
LEMMA NumberOfBits ==
  /\ \A n \in 0 .. 127 : number(bitsOf(n, 7)) = n
  /\ \A n \in 0 .. 7 : number(bitsOf(n, 3)) = n
<1>1. \A n, k \in Nat : \A i \in 0 .. 6 :
        i \in bitsOf(n, k) <=> i < k /\ (n \div 2 ^ i) % 2 = 1
  BY DEF bitsOf
<1>2. ASSUME NEW n \in 0 .. 127 PROVE number(bitsOf(n, 7)) = n
  <2> DEFINE b(i) == IF i \in bitsOf(n, 7) THEN 2 ^ i ELSE 0
  <2>1. /\ b(0) = n % 2 /\ b(1) = 2 * ((n \div 2) % 2) /\ b(2) = 4 * ((n \div 4) % 2)
        /\ b(3) = 8 * ((n \div 8) % 2) /\ b(4) = 16 * ((n \div 16) % 2)
        /\ b(5) = 32 * ((n \div 32) % 2) /\ b(6) = 64 * ((n \div 64) % 2)
    BY <1>1
  <2>2. number(bitsOf(n, 7)) = b(0) + b(1) + b(2) + b(3) + b(4) + b(5) + b(6)
    BY DEF number
  <2> HIDE DEF b
  <2>3. n % 2 = n - 2 * (n \div 2)
    OBVIOUS
  <2>4. (n \div 2) % 2 = (n \div 2) - 2 * (n \div 4)
    OBVIOUS
  <2>5. (n \div 4) % 2 = (n \div 4) - 2 * (n \div 8)
    OBVIOUS
  <2>6. (n \div 8) % 2 = (n \div 8) - 2 * (n \div 16)
    OBVIOUS
  <2>7. (n \div 16) % 2 = (n \div 16) - 2 * (n \div 32)
    OBVIOUS
  <2>8. (n \div 32) % 2 = (n \div 32) - 2 * (n \div 64)
    OBVIOUS
  <2>9. (n \div 64) % 2 = n \div 64
    OBVIOUS
  <2> QED
    BY <2>1, <2>2, <2>3, <2>4, <2>5, <2>6, <2>7, <2>8, <2>9
<1>3. ASSUME NEW n \in 0 .. 7 PROVE number(bitsOf(n, 3)) = n
  <2> DEFINE b(i) == IF i \in bitsOf(n, 3) THEN 2 ^ i ELSE 0
  <2>1. /\ b(0) = n % 2 /\ b(1) = 2 * ((n \div 2) % 2) /\ b(2) = 4 * ((n \div 4) % 2)
        /\ b(3) = 0 /\ b(4) = 0 /\ b(5) = 0 /\ b(6) = 0
    BY <1>1
  <2>2. number(bitsOf(n, 3)) = b(0) + b(1) + b(2) + b(3) + b(4) + b(5) + b(6)
    BY DEF number
  <2> HIDE DEF b
  <2> QED
    BY <2>1, <2>2
<1> QED
  BY <1>2, <1>3

(* The fields dispatch looks at are those of the instruction, as far as    *)
(* its format has them.                                                    *)
LEMMA FieldsRead ==
  ASSUME NEW i, IsInstr(i), NEW f, f = format(i.group, i.func3)
  PROVE  /\ fields(assemble(i)).group = i.group
         /\ f \in {"R", "I", "S", "B"} => fields(assemble(i)).func3 = i.func3
         /\ f = "R" => fields(assemble(i)).func7 = i.func7
<1> DEFINE group == bitsOf(i.group, 7)
           fa == bitsOf(i.func3, 3)
           fb == bitsOf(i.func7, 7)
           w == assemble(i)
<1>1. group \in Group /\ fa \in Func3 /\ fb \in Func7
  BY DEF bitsOf, Group, Func3, Func7
<1>2. /\ number(group) = i.group /\ number(fa) = i.func3 /\ number(fb) = i.func7
      /\ i.rd \in Register5 /\ i.rs1 \in Register5 /\ i.rs2 \in Register5 /\ i.imm \in Immediates(f)
  BY NumberOfBits DEF IsInstr
<1>3. f \in {"R", "I", "S", "B", "U", "J"}
  BY DEF format
<1>4. /\ f = "R" => w = r_type(group, i.rd, i.rs1, i.rs2, fa, fb)
      /\ f = "I" => w = i_type(group, i.rd, i.rs1, i.imm, fa) /\ i.imm \in ImmI
      /\ f = "S" => w = s_type(group, i.rs1, i.rs2, i.imm, fa) /\ i.imm \in ImmS
      /\ f = "B" => w = b_type(group, i.rs1, i.rs2, i.imm, fa) /\ i.imm \in ImmB
      /\ f = "U" => w = u_type(group, i.rd, i.imm) /\ i.imm \in ImmU
      /\ f = "J" => w = j_type(group, i.rd, i.imm) /\ i.imm \in ImmJ
  BY <1>2, <1>3 DEF assemble, Immediates
<1> HIDE DEF group, fa, fb, w
<1>5. /\ get_code(w) = group
      /\ f \in {"R", "I", "S", "B"} => get_func3(w) = fa
      /\ f = "R" => get_func7(w) = fb
  <2>1. CASE f = "R"
    BY <1>1, <1>2, <1>4, <2>1, RoundTripR
  <2>2. CASE f = "I"
    BY <1>1, <1>2, <1>4, <2>2, RoundTripI
  <2>3. CASE f = "S"
    BY <1>1, <1>2, <1>4, <2>3, RoundTripS
  <2>4. CASE f = "B"
    BY <1>1, <1>2, <1>4, <2>4, RoundTripB
  <2>5. CASE f = "U"
    BY <1>1, <1>2, <1>4, <2>5, RoundTripU
  <2>6. CASE f = "J"
    BY <1>1, <1>2, <1>4, <2>6, RoundTripJ
  <2> QED
    BY <1>3, <2>1, <2>2, <2>3, <2>4, <2>5, <2>6
<1> QED
  BY <1>2, <1>5 DEF fields, w

----------------------------------------------------------------------------
(* The registration lists                                                  *)

Elements(s) == {s[i] : i \in DOMAIN s}
Distinct(s) == \A i, j \in DOMAIN s : s[i] = s[j] => i = j

(* s lists the handlers E, each once.                                      *)
Lists(s, E) == s \in Seq(HandlerType) /\ Distinct(s) /\ Elements(s) = E

(* One list after another that shares no handler with it.                  *)
LEMMA Joined ==
  ASSUME NEW s, NEW t, NEW E, NEW F, Lists(s, E), Lists(t, F), E \cap F = {}
  PROVE  Lists(s \o t, E \cup F)
<1> DEFINE st == s \o t
<1>1. /\ s \in Seq(HandlerType) /\ t \in Seq(HandlerType) /\ st \in Seq(HandlerType)
      /\ Len(s) \in Nat /\ Len(t) \in Nat /\ Len(st) = Len(s) + Len(t)
      /\ DOMAIN s = 1 .. Len(s) /\ DOMAIN t = 1 .. Len(t) /\ DOMAIN st = 1 .. Len(st)
  BY DEF Lists
<1>2. /\ \A i \in 1 .. Len(s) : st[i] = s[i] /\ s[i] \in E
      /\ \A i \in 1 .. Len(t) : st[Len(s) + i] = t[i] /\ t[i] \in F
  BY <1>1 DEF Lists, Elements
<1>3. \A i \in 1 .. Len(st) : \/ i \in 1 .. Len(s)
                              \/ \E k \in 1 .. Len(t) : i = Len(s) + k
  <2> SUFFICES ASSUME NEW i \in 1 .. Len(st), i \notin 1 .. Len(s)
               PROVE  \E k \in 1 .. Len(t) : i = Len(s) + k
    OBVIOUS
  <2>1. i - Len(s) \in 1 .. Len(t) /\ i = Len(s) + (i - Len(s))
    BY <1>1
  <2> QED
    BY <2>1
<1>4. /\ \A i, j \in 1 .. Len(s) : s[i] = s[j] => i = j
      /\ \A i, j \in 1 .. Len(t) : t[i] = t[j] => i = j
      /\ E = {s[i] : i \in 1 .. Len(s)} /\ F = {t[i] : i \in 1 .. Len(t)}
  BY <1>1 DEF Lists, Distinct, Elements
<1> HIDE DEF st
<1>5. \A i \in 1 .. Len(s) : i \in 1 .. Len(st)
  BY <1>1
<1>6. \A i \in 1 .. Len(t) : Len(s) + i \in 1 .. Len(st)
  BY <1>1
<1>7. \A i, j \in 1 .. Len(st) : st[i] = st[j] => i = j
  <2> SUFFICES ASSUME NEW i \in 1 .. Len(st), NEW j \in 1 .. Len(st), st[i] = st[j]
               PROVE  i = j
    OBVIOUS
  <2>1. CASE i \in 1 .. Len(s) /\ j \in 1 .. Len(s)
    BY <1>2, <1>4, <2>1
  <2>2. CASE i \in 1 .. Len(s) /\ j \notin 1 .. Len(s)
    BY <1>2, <1>3, <2>2
  <2>3. CASE i \notin 1 .. Len(s) /\ j \in 1 .. Len(s)
    BY <1>2, <1>3, <2>3
  <2>4. CASE i \notin 1 .. Len(s) /\ j \notin 1 .. Len(s)
    <3>1. PICK k \in 1 .. Len(t), l \in 1 .. Len(t) : i = Len(s) + k /\ j = Len(s) + l
      BY <1>3, <2>4
    <3>2. t[k] = t[l]
      BY <1>2, <3>1
    <3> QED
      BY <1>4, <3>1, <3>2
  <2> QED
    BY <2>1, <2>2, <2>3, <2>4
<1>8. {st[i] : i \in 1 .. Len(st)} = E \cup F
  <2>1. \A i \in 1 .. Len(st) : st[i] \in E \cup F
    BY <1>2, <1>3
  <2>2. \A x \in E \cup F : \E i \in 1 .. Len(st) : x = st[i]
    BY <1>2, <1>4, <1>5, <1>6
  <2> QED
    BY <2>1, <2>2
<1> QED
  BY <1>1, <1>7, <1>8 DEF Lists, Distinct, Elements, st

(* The handlers of a group that differ in funct3 only.                     *)
Func3Handlers(g, funcs) == {handler(g, a, NoFuncB) : a \in funcs}
LEMMA Func3Lists ==
  ASSUME NEW g \in 0 .. 127, NEW funcs \in Seq(0 .. 7), Distinct(funcs)
  PROVE  Lists(byFunc3(g, funcs), Func3Handlers(g, Elements(funcs)))
<1> DEFINE s == byFunc3(g, funcs)
<1>1. Len(funcs) \in Nat /\ DOMAIN funcs = 1 .. Len(funcs) /\ \A i \in 1 .. Len(funcs) : funcs[i] \in 0 .. 7
  OBVIOUS
<1>2. DOMAIN s = 1 .. Len(funcs) /\ \A i \in 1 .. Len(funcs) : s[i] = handler(g, funcs[i], NoFuncB)
  BY <1>1 DEF byFunc3
<1>3. \A a \in 0 .. 7 : handler(g, a, NoFuncB) \in HandlerType /\ handler(g, a, NoFuncB).funcA = a
  BY DEF handler, HandlerType, NoFuncA, NoFuncB
<1>4. s \in [1 .. Len(funcs) -> HandlerType]
  BY <1>1, <1>3 DEF byFunc3
<1>5. s \in Seq(HandlerType)
  BY <1>1, <1>4
<1> HIDE DEF s
<1>6. Distinct(s)
  BY <1>1, <1>2, <1>3 DEF Distinct
<1>7. Elements(s) = Func3Handlers(g, Elements(funcs))
  BY <1>1, <1>2 DEF Elements, Func3Handlers
<1> QED
  BY <1>5, <1>6, <1>7 DEF Lists, s

(* The handlers of a group that differ in funct3 or in the variant.        *)
VariantHandlers(g, pairs) == {handler(g, p[1], p[2] * 2 ^ 5) : p \in pairs}
LEMMA VariantLists ==
  ASSUME NEW g \in 0 .. 127, NEW pairs \in Seq((0 .. 7) \X (0 .. 1)), Distinct(pairs)
  PROVE  Lists(byVariant(g, pairs), VariantHandlers(g, Elements(pairs)))
<1> DEFINE s == byVariant(g, pairs)
           P == (0 .. 7) \X (0 .. 1)
           made(p) == handler(g, p[1], p[2] * 2 ^ 5)
<1>1. Len(pairs) \in Nat /\ DOMAIN pairs = 1 .. Len(pairs) /\ \A i \in 1 .. Len(pairs) : pairs[i] \in P
  OBVIOUS
<1>2. DOMAIN s = 1 .. Len(pairs) /\ \A i \in 1 .. Len(pairs) : s[i] = made(pairs[i])
  BY <1>1 DEF byVariant
<1>3. \A p \in P : made(p) \in HandlerType /\ made(p).funcA = p[1] /\ made(p).funcB = p[2] * 32
  BY DEF handler, HandlerType, NoFuncA, NoFuncB
<1>4. \A p, q \in P : made(p) = made(q) => p = q
  <2> HIDE DEF made
  <2> SUFFICES ASSUME NEW p \in P, NEW q \in P, made(p) = made(q) PROVE p = q
    OBVIOUS
  <2>1. p[1] = q[1] /\ p[2] * 32 = q[2] * 32 /\ p[2] \in 0 .. 1 /\ q[2] \in 0 .. 1
    BY <1>3
  <2>2. p[2] = q[2]
    BY <2>1
  <2> QED
    BY <2>1, <2>2
<1>5. s \in [1 .. Len(pairs) -> HandlerType]
  BY <1>1, <1>3 DEF byVariant
<1>6. s \in Seq(HandlerType)
  BY <1>1, <1>5
<1>7. VariantHandlers(g, Elements(pairs)) = {made(p) : p \in Elements(pairs)}
  BY DEF VariantHandlers
<1> HIDE DEF s, P, made
<1>8. Distinct(s)
  BY <1>1, <1>2, <1>4 DEF Distinct
<1>9. Elements(s) = VariantHandlers(g, Elements(pairs))
  BY <1>1, <1>2, <1>7 DEF Elements
<1> QED
  BY <1>6, <1>8, <1>9 DEF Lists, s

(* The numbers of the opcode groups.                                       *)
LEMMA GroupCodes ==
  /\ LOAD = 3 /\ STORE = 35 /\ BRANCH = 99 /\ JALR = 103 /\ MISC_MEM = 15 /\ JAL = 111
  /\ OP_IMM = 19 /\ OP = 51 /\ SYSTEM = 115 /\ AUIPC = 23 /\ LUI = 55
BY DEF LOAD, STORE, BRANCH, JALR, MISC_MEM, JAL, OP_IMM, OP, SYSTEM, AUIPC, LUI, make_opcode

(* The handlers of register_rv32i_set and of register_rv32m_set.           *)
ShiftImms == VariantHandlers(OP_IMM, {<<1, 0>>, <<5, 0>>, <<5, 1>>})
RegisterOps ==
  VariantHandlers(OP, {<<0, 0>>, <<0, 1>>, <<1, 0>>, <<2, 0>>, <<3, 0>>, <<4, 0>>,
                       <<5, 0>>, <<5, 1>>, <<6, 0>>, <<7, 0>>})
Plain == {plain(LUI), plain(AUIPC), plain(JAL)}
BaseHandlers ==
         Func3Handlers(BRANCH, {0, 1, 4, 5, 6, 7})
    \cup Func3Handlers(LOAD, {0, 1, 2, 4, 5})
    \cup Func3Handlers(STORE, {0, 1, 2})
    \cup Func3Handlers(OP_IMM, {0, 2, 3, 4, 6, 7})
    \cup ShiftImms
    \cup RegisterOps
    \cup Func3Handlers(MISC_MEM, {0, 1})
    \cup Func3Handlers(SYSTEM, {0, 1, 2, 3, 5, 6, 7})
    \cup Plain
    \cup Func3Handlers(JALR, {0})
MulHandlers == {handler(OP, a, 1) : a \in 0 .. 7}

(* Handlers of one group.                                                  *)
LEMMA InGroup ==
  /\ \A g, F : \A h \in Func3Handlers(g, F) : h.group = g /\ h.funcA \in F /\ h.funcB = NoFuncB
  /\ \A g, F : \A h \in VariantHandlers(g, F) :
       \E p \in F : h.group = g /\ h.funcA = p[1] /\ h.funcB = p[2] * 2 ^ 5
BY DEF Func3Handlers, VariantHandlers, handler

(* register_rv32i_set names each of its handlers once.                     *)
LEMMA BaseLists == Lists(rv32i_set, BaseHandlers)
<1> DEFINE ibr == <<0, 1, 4, 5, 6, 7>>
           ild == <<0, 1, 2, 4, 5>>
           ist == <<0, 1, 2>>
           iim == <<0, 2, 3, 4, 6, 7>>
           ish == <<<<1, 0>>, <<5, 0>>, <<5, 1>>>>
           iop == <<<<0, 0>>, <<0, 1>>, <<1, 0>>, <<2, 0>>, <<3, 0>>, <<4, 0>>,
                    <<5, 0>>, <<5, 1>>, <<6, 0>>, <<7, 0>>>>
           ime == <<0, 1>>
           isy == <<0, 1, 2, 3, 5, 6, 7>>
           ipl == <<plain(LUI), plain(AUIPC), plain(JAL)>>
           ijr == <<0>>
<1>1. /\ Lists(byFunc3(BRANCH, ibr), Func3Handlers(BRANCH, {0, 1, 4, 5, 6, 7}))
      /\ Lists(byFunc3(LOAD, ild), Func3Handlers(LOAD, {0, 1, 2, 4, 5}))
      /\ Lists(byFunc3(STORE, ist), Func3Handlers(STORE, {0, 1, 2}))
      /\ Lists(byFunc3(OP_IMM, iim), Func3Handlers(OP_IMM, {0, 2, 3, 4, 6, 7}))
      /\ Lists(byFunc3(MISC_MEM, ime), Func3Handlers(MISC_MEM, {0, 1}))
      /\ Lists(byFunc3(SYSTEM, isy), Func3Handlers(SYSTEM, {0, 1, 2, 3, 5, 6, 7}))
      /\ Lists(byFunc3(JALR, ijr), Func3Handlers(JALR, {0}))
  <2>1. ibr \in Seq(0 .. 7) /\ Distinct(ibr) /\ Elements(ibr) = {0, 1, 4, 5, 6, 7}
    BY DEF Distinct, Elements
  <2>2. ild \in Seq(0 .. 7) /\ Distinct(ild) /\ Elements(ild) = {0, 1, 2, 4, 5}
    BY DEF Distinct, Elements
  <2>3. ist \in Seq(0 .. 7) /\ Distinct(ist) /\ Elements(ist) = {0, 1, 2}
    BY DEF Distinct, Elements
  <2>4. iim \in Seq(0 .. 7) /\ Distinct(iim) /\ Elements(iim) = {0, 2, 3, 4, 6, 7}
    BY DEF Distinct, Elements
  <2>5. ime \in Seq(0 .. 7) /\ Distinct(ime) /\ Elements(ime) = {0, 1}
    BY DEF Distinct, Elements
  <2>6. isy \in Seq(0 .. 7) /\ Distinct(isy) /\ Elements(isy) = {0, 1, 2, 3, 5, 6, 7}
    BY DEF Distinct, Elements
  <2>7. ijr \in Seq(0 .. 7) /\ Distinct(ijr) /\ Elements(ijr) = {0}
    BY DEF Distinct, Elements
  <2>8. {BRANCH, LOAD, STORE, OP_IMM, MISC_MEM, SYSTEM, JALR} \subseteq 0 .. 127
    BY GroupCodes
  <2> HIDE DEF ibr, ild, ist, iim, ime, isy, ijr
  <2>9. Lists(byFunc3(BRANCH, ibr), Func3Handlers(BRANCH, {0, 1, 4, 5, 6, 7}))
    BY <2>1, <2>8, Func3Lists
  <2>10. Lists(byFunc3(LOAD, ild), Func3Handlers(LOAD, {0, 1, 2, 4, 5}))
    BY <2>2, <2>8, Func3Lists
  <2>11. Lists(byFunc3(STORE, ist), Func3Handlers(STORE, {0, 1, 2}))
    BY <2>3, <2>8, Func3Lists
  <2>12. Lists(byFunc3(OP_IMM, iim), Func3Handlers(OP_IMM, {0, 2, 3, 4, 6, 7}))
    BY <2>4, <2>8, Func3Lists
  <2>13. Lists(byFunc3(MISC_MEM, ime), Func3Handlers(MISC_MEM, {0, 1}))
    BY <2>5, <2>8, Func3Lists
  <2>14. Lists(byFunc3(SYSTEM, isy), Func3Handlers(SYSTEM, {0, 1, 2, 3, 5, 6, 7}))
    BY <2>6, <2>8, Func3Lists
  <2>15. Lists(byFunc3(JALR, ijr), Func3Handlers(JALR, {0}))
    BY <2>7, <2>8, Func3Lists
  <2> QED
    BY <2>9, <2>10, <2>11, <2>12, <2>13, <2>14, <2>15
<1>2. Lists(byVariant(OP_IMM, ish), ShiftImms)
  <2>1. ish \in Seq((0 .. 7) \X (0 .. 1))
    OBVIOUS
  <2>2. Distinct(ish)
    BY DEF Distinct
  <2>3. Elements(ish) = {<<1, 0>>, <<5, 0>>, <<5, 1>>}
    BY DEF Elements
  <2> HIDE DEF ish
  <2>4. OP_IMM \in 0 .. 127
    BY GroupCodes
  <2>5. Lists(byVariant(OP_IMM, ish), VariantHandlers(OP_IMM, Elements(ish)))
    BY <2>1, <2>2, <2>4, VariantLists
  <2> QED
    BY <2>3, <2>5 DEF ShiftImms
<1>3. Lists(byVariant(OP, iop), RegisterOps)
  <2>1. iop \in Seq((0 .. 7) \X (0 .. 1))
    OBVIOUS
  <2>2. Distinct(iop)
    BY DEF Distinct
  <2>3. Elements(iop) = {<<0, 0>>, <<0, 1>>, <<1, 0>>, <<2, 0>>, <<3, 0>>, <<4, 0>>,
                         <<5, 0>>, <<5, 1>>, <<6, 0>>, <<7, 0>>}
    BY DEF Elements
  <2> HIDE DEF iop
  <2>4. OP \in 0 .. 127
    BY GroupCodes
  <2>5. Lists(byVariant(OP, iop), VariantHandlers(OP, Elements(iop)))
    BY <2>1, <2>2, <2>4, VariantLists
  <2> QED
    BY <2>3, <2>5 DEF RegisterOps
<1>4. Lists(ipl, Plain)
  <2>1. \A g \in 0 .. 127 : plain(g) \in HandlerType /\ plain(g).group = g
    BY DEF plain, handler, HandlerType, NoFuncA, NoFuncB
  <2>2. ipl \in Seq(HandlerType)
    BY <2>1, GroupCodes
  <2>3. plain(LUI) # plain(AUIPC) /\ plain(LUI) # plain(JAL) /\ plain(AUIPC) # plain(JAL)
    BY <2>1, GroupCodes
  <2>4. Distinct(ipl) /\ Elements(ipl) = Plain
    BY <2>3 DEF Distinct, Elements, Plain
  <2> QED
    BY <2>2, <2>4 DEF Lists
<1> DEFINE e1 == Func3Handlers(BRANCH, {0, 1, 4, 5, 6, 7})
           e2 == e1 \cup Func3Handlers(LOAD, {0, 1, 2, 4, 5})
           e3 == e2 \cup Func3Handlers(STORE, {0, 1, 2})
           e4 == e3 \cup Func3Handlers(OP_IMM, {0, 2, 3, 4, 6, 7})
           e5 == e4 \cup ShiftImms
           e6 == e5 \cup RegisterOps
           e7 == e6 \cup Func3Handlers(MISC_MEM, {0, 1})
           e8 == e7 \cup Func3Handlers(SYSTEM, {0, 1, 2, 3, 5, 6, 7})
           e9 == e8 \cup Plain
           e10 == e9 \cup Func3Handlers(JALR, {0})
           s1 == byFunc3(BRANCH, ibr)
           s2 == s1 \o byFunc3(LOAD, ild)
           s3 == s2 \o byFunc3(STORE, ist)
           s4 == s3 \o byFunc3(OP_IMM, iim)
           s5 == s4 \o byVariant(OP_IMM, ish)
           s6 == s5 \o byVariant(OP, iop)
           s7 == s6 \o byFunc3(MISC_MEM, ime)
           s8 == s7 \o byFunc3(SYSTEM, isy)
           s9 == s8 \o ipl
           s10 == s9 \o byFunc3(JALR, ijr)
<1>5. rv32i_set = s10 /\ BaseHandlers = e10
  BY DEF rv32i_set, BaseHandlers
<1>6. /\ \A h \in ShiftImms : h.group = OP_IMM /\ h.funcA \in {1, 5}
      /\ \A h \in RegisterOps : h.group = OP
      /\ \A h \in Plain : h.group \in {LUI, AUIPC, JAL}
  <2>1. \A h \in ShiftImms : h.group = OP_IMM /\ h.funcA \in {1, 5}
    BY InGroup DEF ShiftImms
  <2>2. \A h \in RegisterOps : h.group = OP
    BY InGroup DEF RegisterOps
  <2>3. \A h \in Plain : h.group \in {LUI, AUIPC, JAL}
    BY DEF Plain, plain, handler
  <2> QED
    BY <2>1, <2>2, <2>3
<1> HIDE DEF ibr, ild, ist, iim, ish, iop, ime, isy, ipl, ijr
<1>7. /\ \A h \in e1 : h.group = BRANCH
      /\ \A h \in e2 : h.group \in {BRANCH, LOAD}
      /\ \A h \in e3 : h.group \in {BRANCH, LOAD, STORE}
      /\ \A h \in e4 : h.group \in {BRANCH, LOAD, STORE} \/ (h.group = OP_IMM /\ h.funcA \notin {1, 5})
      /\ \A h \in e5 : h.group \in {BRANCH, LOAD, STORE, OP_IMM}
      /\ \A h \in e6 : h.group \in {BRANCH, LOAD, STORE, OP_IMM, OP}
      /\ \A h \in e7 : h.group \in {BRANCH, LOAD, STORE, OP_IMM, OP, MISC_MEM}
      /\ \A h \in e8 : h.group \in {BRANCH, LOAD, STORE, OP_IMM, OP, MISC_MEM, SYSTEM}
      /\ \A h \in e9 : h.group \in {BRANCH, LOAD, STORE, OP_IMM, OP, MISC_MEM, SYSTEM, LUI, AUIPC, JAL}
  <2> HIDE DEF e1, e2, e3, e4, e5, e6, e7, e8, e9
  <2>1. \A h \in e1 : h.group = BRANCH
    BY InGroup DEF e1
  <2>2. \A h \in e2 : h.group \in {BRANCH, LOAD}
    BY <2>1, InGroup DEF e2
  <2>3. \A h \in e3 : h.group \in {BRANCH, LOAD, STORE}
    BY <2>2, InGroup DEF e3
  <2>4. \A h \in e4 : h.group \in {BRANCH, LOAD, STORE} \/ (h.group = OP_IMM /\ h.funcA \notin {1, 5})
    BY <2>3, InGroup DEF e4
  <2>5. \A h \in e5 : h.group \in {BRANCH, LOAD, STORE, OP_IMM}
    BY <1>6, <2>4 DEF e5
  <2>6. \A h \in e6 : h.group \in {BRANCH, LOAD, STORE, OP_IMM, OP}
    BY <1>6, <2>5 DEF e6
  <2>7. \A h \in e7 : h.group \in {BRANCH, LOAD, STORE, OP_IMM, OP, MISC_MEM}
    BY <2>6, InGroup DEF e7
  <2>8. \A h \in e8 : h.group \in {BRANCH, LOAD, STORE, OP_IMM, OP, MISC_MEM, SYSTEM}
    BY <2>7, InGroup DEF e8
  <2>9. \A h \in e9 : h.group \in {BRANCH, LOAD, STORE, OP_IMM, OP, MISC_MEM, SYSTEM, LUI, AUIPC, JAL}
    BY <1>6, <2>8 DEF e9
  <2> QED
    BY <2>1, <2>2, <2>3, <2>4, <2>5, <2>6, <2>7, <2>8, <2>9
<1>8. Lists(s2, e2)
  <2> HIDE DEF e1, s1
  <2>1. e1 \cap Func3Handlers(LOAD, {0, 1, 2, 4, 5}) = {}
    BY <1>7, InGroup, GroupCodes
  <2> QED
    BY <1>1, <2>1, Joined DEF e1, s1
<1>9. Lists(s3, e3)
  <2> HIDE DEF e2, s2
  <2>1. e2 \cap Func3Handlers(STORE, {0, 1, 2}) = {}
    BY <1>7, InGroup, GroupCodes
  <2> QED
    BY <1>1, <1>8, <2>1, Joined
<1>10. Lists(s4, e4)
  <2> HIDE DEF e3, s3
  <2>1. e3 \cap Func3Handlers(OP_IMM, {0, 2, 3, 4, 6, 7}) = {}
    BY <1>7, InGroup, GroupCodes
  <2> QED
    BY <1>1, <1>9, <2>1, Joined
<1>11. Lists(s5, e5)
  <2> HIDE DEF e4, s4
  <2>1. e4 \cap ShiftImms = {}
    BY <1>6, <1>7, GroupCodes
  <2> QED
    BY <1>2, <1>10, <2>1, Joined
<1>12. Lists(s6, e6)
  <2> HIDE DEF e5, s5
  <2>1. e5 \cap RegisterOps = {}
    BY <1>6, <1>7, GroupCodes
  <2> QED
    BY <1>3, <1>11, <2>1, Joined
<1>13. Lists(s7, e7)
  <2> HIDE DEF e6, s6
  <2>1. e6 \cap Func3Handlers(MISC_MEM, {0, 1}) = {}
    BY <1>7, InGroup, GroupCodes
  <2> QED
    BY <1>1, <1>12, <2>1, Joined
<1>14. Lists(s8, e8)
  <2> HIDE DEF e7, s7
  <2>1. e7 \cap Func3Handlers(SYSTEM, {0, 1, 2, 3, 5, 6, 7}) = {}
    BY <1>7, InGroup, GroupCodes
  <2> QED
    BY <1>1, <1>13, <2>1, Joined
<1>15. Lists(s9, e9)
  <2> HIDE DEF e8, s8
  <2>1. e8 \cap Plain = {}
    BY <1>6, <1>7, GroupCodes
  <2> QED
    BY <1>4, <1>14, <2>1, Joined
<1>16. Lists(s10, e10)
  <2> HIDE DEF e9, s9
  <2>1. e9 \cap Func3Handlers(JALR, {0}) = {}
    BY <1>7, InGroup, GroupCodes
  <2> QED
    BY <1>1, <1>15, <2>1, Joined
<1> QED
  BY <1>5, <1>16

(* So does register_rv32m_set.                                             *)
LEMMA MulLists == Lists(rv32m_set, MulHandlers)
<1>1. \A a \in 0 .. 7 : handler(OP, a, 1) \in HandlerType /\ handler(OP, a, 1).funcA = a
  BY GroupCodes DEF handler, HandlerType, NoFuncA, NoFuncB
<1>2. DOMAIN rv32m_set = 1 .. 8 /\ \A i \in 1 .. 8 : rv32m_set[i] = handler(OP, i - 1, 1)
  BY DEF rv32m_set
<1>3. rv32m_set \in Seq(HandlerType)
  <2>1. rv32m_set \in [1 .. 8 -> HandlerType]
    BY <1>1 DEF rv32m_set
  <2>2. \A n \in Nat : \A s \in [1 .. n -> HandlerType] : s \in Seq(HandlerType)
    OBVIOUS
  <2> QED
    BY <2>1, <2>2
<1>4. Distinct(rv32m_set)
  BY <1>1, <1>2 DEF Distinct
<1>5. Elements(rv32m_set) = MulHandlers
  <2>1. \A a \in 0 .. 7 : a + 1 \in 1 .. 8 /\ (a + 1) - 1 = a
    OBVIOUS
  <2>2. \A h \in MulHandlers : \E i \in 1 .. 8 : h = rv32m_set[i]
    BY <1>2, <2>1 DEF MulHandlers
  <2>3. \A i \in 1 .. 8 : i - 1 \in 0 .. 7
    OBVIOUS
  <2>4. \A i \in 1 .. 8 : rv32m_set[i] \in MulHandlers
    BY <1>2, <2>3 DEF MulHandlers
  <2> QED
    BY <1>2, <2>2, <2>4 DEF Elements
<1> QED
  BY <1>3, <1>4, <1>5 DEF Lists

(* Which fields the handlers read.                                         *)
Shaped(h, variants) ==
  /\ h \in HandlerType
  /\ \/ h.group \in {LUI, AUIPC, JAL} /\ h.funcA = NoFuncA /\ h.funcB = NoFuncB
     \/ h.group \in {BRANCH, LOAD, STORE, MISC_MEM, SYSTEM, JALR} /\ h.funcA \in 0 .. 7 /\ h.funcB = NoFuncB
     \/ h.group = OP_IMM /\ h.funcA \in (0 .. 7) \ {1, 5} /\ h.funcB = NoFuncB
     \/ h.group = OP_IMM /\ h.funcA \in {1, 5} /\ h.funcB \in {0, 32}
     \/ h.group = OP /\ h.funcA \in 0 .. 7 /\ h.funcB \in variants

(* The handlers of the two lists have these shapes.                        *)
LEMMA HandlerShapes ==
  /\ \A h \in BaseHandlers : Shaped(h, {0, 32})
  /\ \A h \in MulHandlers : Shaped(h, {1}) /\ h.group = OP
<1>1. \A h \in BaseHandlers : h \in HandlerType
  <2>1. rv32i_set \in Seq(HandlerType) /\ BaseHandlers = Elements(rv32i_set)
    BY BaseLists DEF Lists
  <2> QED
    BY <2>1 DEF Elements
<1>2. \A h \in MulHandlers : h \in HandlerType
  <2>1. rv32m_set \in Seq(HandlerType) /\ MulHandlers = Elements(rv32m_set)
    BY MulLists DEF Lists
  <2> QED
    BY <2>1 DEF Elements
<1>3. \A h \in ShiftImms : h.group = OP_IMM /\ h.funcA \in {1, 5} /\ h.funcB \in {0, 32}
  BY InGroup DEF ShiftImms
<1>4. \A h \in RegisterOps : h.group = OP /\ h.funcA \in 0 .. 7 /\ h.funcB \in {0, 32}
  <2> DEFINE P == {<<0, 0>>, <<0, 1>>, <<1, 0>>, <<2, 0>>, <<3, 0>>, <<4, 0>>,
                   <<5, 0>>, <<5, 1>>, <<6, 0>>, <<7, 0>>}
  <2>1. \A p \in P : p[1] \in 0 .. 7 /\ p[2] * 2 ^ 5 \in {0, 32}
    OBVIOUS
  <2> HIDE DEF P
  <2> QED
    BY <2>1, InGroup DEF RegisterOps, P
<1>5. \A h \in Plain : h.group \in {LUI, AUIPC, JAL} /\ h.funcA = NoFuncA /\ h.funcB = NoFuncB
  BY DEF Plain, plain, handler
<1>6. \A h \in MulHandlers : h.group = OP /\ h.funcA \in 0 .. 7 /\ h.funcB = 1
  BY DEF MulHandlers, handler
<1>7. ASSUME NEW h \in BaseHandlers PROVE Shaped(h, {0, 32})
  <2>1. CASE \/ h \in Func3Handlers(BRANCH, {0, 1, 4, 5, 6, 7})
             \/ h \in Func3Handlers(LOAD, {0, 1, 2, 4, 5})
             \/ h \in Func3Handlers(STORE, {0, 1, 2})
             \/ h \in Func3Handlers(MISC_MEM, {0, 1})
             \/ h \in Func3Handlers(SYSTEM, {0, 1, 2, 3, 5, 6, 7})
             \/ h \in Func3Handlers(JALR, {0})
    <3>1. /\ h.group \in {BRANCH, LOAD, STORE, MISC_MEM, SYSTEM, JALR} /\ h.funcB = NoFuncB
          /\ h.funcA \in {0, 1, 2, 3, 4, 5, 6, 7}
      BY <2>1, InGroup
    <3> QED
      BY <1>1, <3>1 DEF Shaped
  <2>2. CASE h \in Func3Handlers(OP_IMM, {0, 2, 3, 4, 6, 7})
    <3>1. h.group = OP_IMM /\ h.funcB = NoFuncB /\ h.funcA \in {0, 2, 3, 4, 6, 7}
      BY <2>2, InGroup
    <3> QED
      BY <1>1, <3>1 DEF Shaped
  <2>3. CASE h \in ShiftImms \/ h \in RegisterOps \/ h \in Plain
    BY <1>1, <1>3, <1>4, <1>5, <2>3 DEF Shaped
  <2> QED
    BY <2>1, <2>2, <2>3 DEF BaseHandlers
<1> QED
  BY <1>2, <1>6, <1>7 DEF Shaped

(* init_isa's handlers are those of the two lists, which share none.       *)
LEMMA TwoLists == IsaHandlers = BaseHandlers \cup MulHandlers /\ BaseHandlers \cap MulHandlers = {}
<1>1. IsaHandlers = BaseHandlers \cup MulHandlers
  BY BaseLists, MulLists DEF IsaHandlers, Lists, Elements
<1>2. BaseHandlers \cap MulHandlers = {}
  <2>1. \A h : Shaped(h, {0, 32}) /\ Shaped(h, {1}) => h.group # OP
    BY GroupCodes DEF Shaped
  <2> QED
    BY <2>1, HandlerShapes
<1> QED
  BY <1>1, <1>2

(* RV32I and RV32M together are uniform: none of their handlers hides      *)
(* another.                                                                *)
LEMMA IsaUniform == uniform(IsaHandlers) /\ \A h \in IsaHandlers : Shaped(h, {0, 1, 32})
<1>1. \A h \in IsaHandlers : Shaped(h, {0, 1, 32})
  BY HandlerShapes, TwoLists DEF Shaped
<1>2. ASSUME NEW h \in IsaHandlers, NEW g \in IsaHandlers, h.group = g.group
      PROVE  /\ (h.funcA = NoFuncA) = (g.funcA = NoFuncA)
             /\ h.funcA = g.funcA => (h.funcB = NoFuncB) = (g.funcB = NoFuncB)
             /\ h.funcA = NoFuncA => h.funcB = NoFuncB
  <2>1. Shaped(h, {0, 1, 32}) /\ Shaped(g, {0, 1, 32})
    BY <1>1
  <2> QED
    BY <1>2, <2>1, GroupCodes DEF Shaped, NoFuncA, NoFuncB
<1>3. uniform(IsaHandlers)
  BY <1>2 DEF uniform
<1> QED
  BY <1>1, <1>3

(* The word of an instruction names the same handlers as the instruction:  *)
(* a format without funct3 or funct7 is only used where no handler reads   *)
(* them.                                                                   *)
LEMMA SameMeaning ==
  ASSUME NEW i, IsInstr(i), NEW h \in IsaHandlers
  PROVE  meant(h, i) <=> meant(h, fields(assemble(i)))
<1> DEFINE c == fields(assemble(i))
           f == format(i.group, i.func3)
<1>1. /\ c.group = i.group
      /\ f \in {"R", "I", "S", "B"} => c.func3 = i.func3
      /\ f = "R" => c.func7 = i.func7
  BY FieldsRead
<1>2. Shaped(h, {0, 1, 32})
  BY IsaUniform
<1>3. /\ i.group \in {BRANCH, LOAD, STORE, MISC_MEM, SYSTEM, JALR, OP_IMM, OP} => f \in {"R", "I", "S", "B"}
      /\ i.group = OP_IMM /\ i.func3 \in {1, 5} => f = "R"
      /\ i.group = OP => f = "R"
  BY GroupCodes DEF format
<1> HIDE DEF c, f
<1>4. CASE h.group # i.group
  BY <1>1, <1>4 DEF meant, c
<1>5. CASE h.group = i.group /\ h.funcA = NoFuncA /\ h.funcB = NoFuncB
  BY <1>1, <1>5 DEF meant, c
<1>6. CASE h.group = i.group /\ c.func3 = i.func3 /\ h.funcB = NoFuncB
  BY <1>1, <1>6 DEF meant, c
<1>7. CASE h.group = OP_IMM /\ i.group = OP_IMM /\ h.funcA \in {1, 5} /\ h.funcB \in {0, 32}
  <2>1. c.func3 = i.func3
    BY <1>1, <1>3, <1>7
  <2>2. h.funcA # NoFuncA
    BY <1>7 DEF NoFuncA
  <2>3. i.func3 = h.funcA => c.func7 = i.func7
    BY <1>1, <1>3, <1>7
  <2> QED
    BY <1>1, <2>1, <2>2, <2>3 DEF meant, c
<1>8. CASE h.group = OP /\ i.group = OP
  BY <1>1, <1>3, <1>8 DEF meant, c
<1> QED
  BY <1>1, <1>2, <1>3, <1>4, <1>5, <1>6, <1>7, <1>8 DEF Shaped

----------------------------------------------------------------------------
(* The lists being worked off                                              *)

Left == Elements(todo[1]) \cup Elements(todo[2])

(* Either init_isa was never called, or every handler is registered (and   *)
(* what is left of a repeated call will be refused), or the first call is  *)
(* under way and has registered what it has worked off.                    *)
Loading ==
  /\ DOMAIN todo = {1, 2} /\ todo = <<todo[1], todo[2]>>
  /\ Lists(todo[1], Elements(todo[1])) /\ Lists(todo[2], Elements(todo[2]))
  /\ Elements(todo[1]) \cap Elements(todo[2]) = {} /\ Left \subseteq IsaHandlers
  /\ \/ handlers = {} /\ Idle
     \/ handlers = IsaHandlers
     \/ handlers = IsaHandlers \ Left
  /\ DOMAIN isa_ok = {1, 2}

(* The word being executed was looked up in the registry as it is.         *)
Fetched ==
  /\ instr \in Instrs \cup {nullptr}
  /\ instr # nullptr =>
       Idle /\ found = [code |-> fields(assemble(instr)),
                        handler |-> find_handler(fields(assemble(instr)))]

(* The inductive invariant of the instruction set over the registry's.     *)
IsaInv == Inv /\ Loading /\ Fetched

(* The first handler of a list leaves the list without it.                 *)
LEMMA HeadTail ==
  ASSUME NEW s, Lists(s, Elements(s)), s # <<>>
  PROVE  /\ Head(s) \in Elements(s) /\ Head(s) \in HandlerType
         /\ Lists(Tail(s), Elements(s) \ {Head(s)})
         /\ Elements(Tail(s)) = Elements(s) \ {Head(s)}
<1> DEFINE t == Tail(s)
<1>1. /\ s \in Seq(HandlerType) /\ Len(s) \in Nat \ {0} /\ t \in Seq(HandlerType)
      /\ Len(t) = Len(s) - 1 /\ DOMAIN s = 1 .. Len(s) /\ DOMAIN t = 1 .. Len(t)
      /\ Head(s) = s[1] /\ \A i \in 1 .. Len(t) : t[i] = s[i + 1]
  BY DEF Lists
<1>2. \A i, j \in 1 .. Len(s) : s[i] = s[j] => i = j
  BY <1>1 DEF Lists, Distinct
<1> HIDE DEF t
<1>3. 1 \in 1 .. Len(s) /\ \A i \in 1 .. Len(t) : i + 1 \in 1 .. Len(s) /\ i + 1 # 1
  BY <1>1
<1>4. \A i \in 1 .. Len(s) : i # 1 => i - 1 \in 1 .. Len(t) /\ (i - 1) + 1 = i
  BY <1>1
<1>5. Distinct(t)
  BY <1>1, <1>2, <1>3 DEF Distinct
<1>6. Elements(t) = Elements(s) \ {Head(s)}
  <2>1. \A i \in 1 .. Len(t) : t[i] \in Elements(s) /\ t[i] # Head(s)
    BY <1>1, <1>2, <1>3 DEF Elements
  <2>2. ASSUME NEW x \in Elements(s), x # Head(s) PROVE \E i \in 1 .. Len(t) : x = t[i]
    <3>1. PICK i \in 1 .. Len(s) : x = s[i]
      BY <1>1 DEF Elements
    <3>2. i # 1
      BY <1>1, <2>2, <3>1
    <3> QED
      BY <1>1, <1>4, <3>1, <3>2
  <2>3. Elements(t) = {t[i] : i \in 1 .. Len(t)}
    BY <1>1 DEF Elements
  <2> QED
    BY <2>1, <2>2, <2>3
<1>7. Head(s) \in Elements(s) /\ Head(s) \in HandlerType
  BY <1>1, <1>3 DEF Elements
<1> QED
  BY <1>1, <1>5, <1>6, <1>7 DEF Lists, t

(* A handler is refused exactly when it is registered already.             *)
LEMMA AcceptedIsNew ==
  ASSUME handlers \subseteq HandlerType, NEW h \in HandlerType
  PROVE  accepted(h) <=> h \notin handlers
<1>1. h \in handlers => ~accepted(h)
  BY DEF accepted
<1>2. ASSUME NEW g \in handlers, idOf(g) = idOf(h) PROVE g = h
  <2>1. h.group \in 0 .. 127 /\ h.funcA \in 0 .. NoFuncA /\ h.funcB \in 0 .. NoFuncB /\ g \in HandlerType
    BY DEF HandlerType
  <2>2. idOf(g) = id(h.group, h.funcA, h.funcB)
    BY <1>2 DEF idOf
  <2>3. g.group = h.group /\ g.funcA = h.funcA /\ g.funcB = h.funcB
    BY <2>1, <2>2, IdInjective
  <2> QED
    BY <2>1, <2>3 DEF HandlerType
<1> QED
  BY <1>1, <1>2 DEF accepted

(* No handler of the instruction set is nullptr.                           *)
LEMMA IsaTyped == IsaHandlers \subseteq HandlerType /\ IsaHandlers \subseteq Handlers /\ IsaHandlers # {}
<1>1. IsaHandlers \subseteq HandlerType
  BY IsaUniform DEF Shaped
<1>2. plain(LUI) \in IsaHandlers
  BY TwoLists DEF BaseHandlers, Plain
<1> QED
  BY <1>1, <1>2, IsaAssumption

(* The step that registers the first handler left: before every handler is *)
(* registered none is refused, afterwards each is.                         *)
LEMMA RegisterLoads ==
  ASSUME IsaInv, register_next
  PROVE  /\ IsaInv'
         /\ handlers = IsaHandlers => UNCHANGED registry /\ \E k \in {1, 2} : ~isa_ok'[k]
<1> DEFINE k == IF todo[1] # <<>> THEN 1 ELSE 2
           o == 3 - k
           h == Head(todo[k])
<1>1. /\ ~Idle /\ Register(h) /\ UNCHANGED instr
      /\ todo' = [todo EXCEPT ![k] = IF accepted(h) THEN Tail(@) ELSE <<>>]
      /\ isa_ok' = [isa_ok EXCEPT ![k] = accepted(h)]
  BY DEF register_next
<1>2. k \in {1, 2} /\ o \in {1, 2} /\ k # o /\ todo[k] # <<>>
  BY <1>1 DEF IsaInv, Loading, Idle
<1>3. {todo[1], todo[2]} = {todo[k], todo[o]} /\ Left = Elements(todo[k]) \cup Elements(todo[o])
  BY <1>2 DEF Left
<1> HIDE DEF k, o, h
<1>4. /\ Lists(todo[k], Elements(todo[k])) /\ Lists(todo[o], Elements(todo[o]))
      /\ Elements(todo[k]) \cap Elements(todo[o]) = {} /\ Left \subseteq IsaHandlers
      /\ DOMAIN todo = {1, 2} /\ DOMAIN isa_ok = {1, 2}
  BY <1>2, <1>3 DEF IsaInv, Loading
<1>5. /\ h \in Elements(todo[k]) /\ h \in HandlerType
      /\ Lists(Tail(todo[k]), Elements(todo[k]) \ {h})
      /\ Elements(Tail(todo[k])) = Elements(todo[k]) \ {h}
  BY <1>2, <1>4, HeadTail DEF h
<1>6. h \in IsaHandlers /\ h \in Handlers
  BY <1>3, <1>4, <1>5, IsaTyped
<1>7. handlers \subseteq HandlerType
  BY HandlersAssumption DEF IsaInv, Inv
<1>8. accepted(h) <=> h \notin handlers
  BY <1>5, <1>7, AcceptedIsNew
<1>9. Inv'
  BY <1>1, <1>6, RegisterKeeps DEF IsaInv
<1>10. Fetched'
  BY <1>1 DEF IsaInv, Fetched
<1>11. /\ DOMAIN todo' = {1, 2} /\ todo'[o] = todo[o]
       /\ todo'[k] = IF accepted(h) THEN Tail(todo[k]) ELSE <<>>
       /\ DOMAIN isa_ok' = {1, 2} /\ isa_ok'[k] = accepted(h)
  BY <1>1, <1>2, <1>4
<1>12. todo' = <<todo'[1], todo'[2]>>
  BY <1>1, <1>2 DEF IsaInv, Loading
<1>13. Left' = Elements(todo'[k]) \cup Elements(todo'[o])
  BY <1>2 DEF Left, k, o
<1>14. Lists(<<>>, {}) /\ Elements(<<>>) = {}
  BY DEF Lists, Distinct, Elements
<1>15. CASE handlers = IsaHandlers
  <2>1. ~accepted(h) /\ UNCHANGED registry
    BY <1>1, <1>6, <1>8, <1>15 DEF Register, register_handler
  <2>2. todo'[k] = <<>> /\ isa_ok'[k] = FALSE
    BY <1>11, <2>1
  <2>3. /\ Lists(todo'[k], Elements(todo'[k])) /\ Lists(todo'[o], Elements(todo'[o]))
        /\ Elements(todo'[k]) \cap Elements(todo'[o]) = {} /\ Left' \subseteq IsaHandlers
    BY <1>3, <1>4, <1>11, <1>13, <1>14, <2>2
  <2>4. handlers' = IsaHandlers
    BY <1>15, <2>1 DEF registry
  <2>5. Loading'
    <3>1. /\ Lists(todo'[1], Elements(todo'[1])) /\ Lists(todo'[2], Elements(todo'[2]))
          /\ Elements(todo'[1]) \cap Elements(todo'[2]) = {}
      BY <1>2, <2>3
    <3> QED
      BY <1>11, <1>12, <2>3, <2>4, <3>1 DEF Loading
  <2> QED
    BY <1>2, <1>9, <1>10, <2>1, <2>2, <2>5 DEF IsaInv
<1>16. CASE handlers # IsaHandlers
  <2>1. handlers = IsaHandlers \ Left
    BY <1>1, <1>16 DEF IsaInv, Loading
  <2>2. accepted(h) /\ handlers' = handlers \cup {h}
    BY <1>1, <1>3, <1>5, <1>8, <2>1 DEF Register, register_handler
  <2>3. todo'[k] = Tail(todo[k])
    BY <1>11, <2>2
  <2>4. /\ Lists(todo'[k], Elements(todo'[k])) /\ Lists(todo'[o], Elements(todo'[o]))
        /\ Elements(todo'[k]) \cap Elements(todo'[o]) = {} /\ Left' = Left \ {h}
    BY <1>3, <1>4, <1>5, <1>11, <1>13, <2>3
  <2>5. handlers' = IsaHandlers \ Left'
    BY <1>6, <2>1, <2>2, <2>4
  <2>6. Loading'
    <3>1. /\ Lists(todo'[1], Elements(todo'[1])) /\ Lists(todo'[2], Elements(todo'[2]))
          /\ Elements(todo'[1]) \cap Elements(todo'[2]) = {} /\ Left' \subseteq IsaHandlers
      BY <1>2, <1>4, <2>4
    <3> QED
      BY <1>11, <1>12, <2>5, <3>1 DEF Loading
  <2> QED
    BY <1>9, <1>10, <1>16, <2>6 DEF IsaInv
<1> QED
  BY <1>15, <1>16

(* With nothing left to do the registry is empty or complete.              *)
LEMMA IdleRegistry ==
  ASSUME Loading, Idle
  PROVE  handlers = {} \/ handlers = IsaHandlers
<1>1. todo[1] = <<>> /\ todo[2] = <<>>
  BY DEF Idle
<1>2. Left = {}
  BY <1>1 DEF Left, Elements
<1> QED
  BY <1>2 DEF Loading

(* Every step keeps the invariant.                                         *)
LEMMA IsaInvStep ==
  ASSUME IsaInv, [IsaNext]_isaVars
  PROVE  IsaInv'
<1>1. CASE init_isa
  <2>1. UNCHANGED <<vars, instr>> /\ instr = nullptr /\ Idle
        /\ todo' = <<rv32i_set, rv32m_set>> /\ isa_ok' = <<TRUE, TRUE>>
    BY <1>1 DEF init_isa
  <2>2. Inv' /\ Fetched'
    BY <2>1 DEF IsaInv, Inv, Fetched, vars, KeysExact, DispatchSound, DispatchComplete
  <2>3. Elements(rv32i_set) = BaseHandlers /\ Elements(rv32m_set) = MulHandlers
    BY BaseLists, MulLists DEF Lists
  <2>4. Left' = IsaHandlers
    BY <2>1, <2>3, TwoLists DEF Left
  <2>5. handlers' = {} \/ handlers' = IsaHandlers
    BY <2>1, IdleRegistry DEF IsaInv, vars
  <2>6. handlers' = IsaHandlers \/ handlers' = IsaHandlers \ Left'
    BY <2>4, <2>5
  <2>7. /\ todo'[1] = rv32i_set /\ todo'[2] = rv32m_set /\ DOMAIN todo' = {1, 2}
        /\ todo' = <<todo'[1], todo'[2]>> /\ DOMAIN isa_ok' = {1, 2}
    BY <2>1
  <2>8. Loading'
    BY <2>3, <2>4, <2>6, <2>7, BaseLists, MulLists, TwoLists DEF Loading
  <2> QED
    BY <2>2, <2>8 DEF IsaInv
<1>2. CASE register_next
  BY <1>2, RegisterLoads
<1>3. CASE \E i \in Instrs : fetch(i)
  <2>1. PICK i \in Instrs : fetch(i)
    BY <1>3
  <2>2. fields(assemble(i)) \in Codes
    BY IsaAssumption
  <2>3. Lookup(fields(assemble(i))) /\ instr' = i /\ Idle /\ UNCHANGED <<todo, isa_ok>>
    BY <2>1 DEF fetch
  <2>4. Inv'
    BY <2>2, <2>3, LookupKeeps DEF IsaInv
  <2>5. UNCHANGED <<handlers, func_a, func_b, todo, isa_ok>>
    BY <2>3 DEF Lookup, registry
  <2>6. Loading'
    BY <2>5 DEF IsaInv, Loading, Left, Idle
  <2>7. Fetched'
    BY <2>3, <2>5 DEF Fetched, Lookup, Idle, find_handler
  <2> QED
    BY <2>4, <2>6, <2>7 DEF IsaInv
<1>4. CASE retire
  <2>1. instr' = nullptr /\ found' = nullptr /\ UNCHANGED <<handlers, func_a, func_b, todo, isa_ok>>
    BY <1>4 DEF retire, registry
  <2>2. Inv'
    BY <2>1 DEF IsaInv, Inv, KeysExact, DispatchSound, DispatchComplete
  <2>3. Loading' /\ Fetched'
    BY <2>1 DEF IsaInv, Loading, Left, Idle, Fetched
  <2> QED
    BY <2>2, <2>3 DEF IsaInv
<1>5. CASE UNCHANGED isaVars
  <2>1. UNCHANGED <<handlers, func_a, func_b, found, todo, isa_ok, instr>>
    BY <1>5 DEF isaVars, vars
  <2>2. Inv'
    BY <2>1 DEF IsaInv, Inv, KeysExact, DispatchSound, DispatchComplete
  <2>3. Loading' /\ Fetched'
    BY <2>1 DEF IsaInv, Loading, Left, Idle, Fetched, find_handler
  <2> QED
    BY <2>2, <2>3 DEF IsaInv
<1> QED
  BY <1>1, <1>2, <1>3, <1>4, <1>5 DEF IsaNext

(* Before init_isa nothing is registered, listed or fetched.               *)
LEMMA IsaInvInit == IsaInit => IsaInv
<1> SUFFICES ASSUME IsaInit PROVE IsaInv
  OBVIOUS
<1>1. Inv
  BY InvInit DEF IsaInit
<1>2. /\ handlers = {} /\ todo = <<<<>>, <<>>>> /\ isa_ok = <<FALSE, FALSE>> /\ instr = nullptr
  BY DEF IsaInit, Init
<1>3. Lists(<<>>, {}) /\ Elements(<<>>) = {}
  BY DEF Lists, Distinct, Elements
<1>4. Loading
  <2>1. todo[1] = <<>> /\ todo[2] = <<>> /\ DOMAIN todo = {1, 2} /\ todo = <<todo[1], todo[2]>> /\ DOMAIN isa_ok = {1, 2}
    BY <1>2
  <2>2. Left = {}
    BY <1>3, <2>1 DEF Left
  <2> QED
    BY <1>2, <1>3, <2>1, <2>2 DEF Loading, Idle
<1> QED
  BY <1>1, <1>2, <1>4 DEF IsaInv, Fetched

(* While init_isa fills the registry and instructions are executed,        *)
(* find_handler dispatches soundly and completely.                         *)
THEOREM IsaDispatch == IsaSpec => [](DispatchSound /\ DispatchComplete)
<1>1. IsaInv /\ [IsaNext]_isaVars => IsaInv'
  BY IsaInvStep
<1>2. IsaInv => DispatchSound /\ DispatchComplete
  BY DEF IsaInv, Inv
<1> QED
  BY IsaInvInit, <1>1, <1>2, PTL DEF IsaSpec

(* For every instruction within the field widths: after init_isa its word  *)
(* runs the one handler of RV32IM meant for it, or none if there is none.  *)
THEOREM IsaIsExact == IsaSpec => []IsaExact
<1>1. IsaInv /\ [IsaNext]_isaVars => IsaInv'
  BY IsaInvStep
<1>2. ASSUME IsaInv PROVE IsaExact
  <2> SUFFICES ASSUME instr # nullptr, handlers # {}
               PROVE  LET candidates == {h \in IsaHandlers : meant(h, instr)} IN
                      IF candidates = {} THEN found.handler = nullptr
                                         ELSE candidates = {found.handler}
    BY DEF IsaExact
  <2> DEFINE c == fields(assemble(instr))
             f == find_handler(c)
             candidates == {h \in IsaHandlers : meant(h, instr)}
  <2>1. instr \in Instrs /\ Idle /\ found.handler = f
    BY <1>2 DEF IsaInv, Fetched
  <2>2. IsInstr(instr) /\ c \in Codes
    BY <2>1, InstrsAssumption, IsaAssumption
  <2>3. handlers = IsaHandlers
    BY <1>2, <2>1, IdleRegistry DEF IsaInv
  <2>4. \A h \in IsaHandlers : meant(h, instr) <=> meant(h, c)
    BY <2>2, SameMeaning
  <2>5. uniform(handlers) /\ handlers \subseteq Handlers /\ KeysExact
    BY <1>2, <2>3, IsaUniform DEF IsaInv, Inv
  <2>6. \A h \in handlers : meant(h, c) => f = h
    BY <2>2, <2>5, FindsTheOne
  <2>7. f # nullptr => f \in handlers /\ meant(f, c)
    <3> SUFFICES ASSUME f # nullptr PROVE f \in handlers /\ meant(f, c)
      OBVIOUS
    <3>1. f \in handlers /\ f.group = c.group /\ f.funcA = funcAOf(c) /\ f.funcB = funcBOf(c)
      BY <2>2, <2>5, FoundMatches
    <3> QED
      BY <3>1 DEF meant, funcAOf, funcBOf
  <2> HIDE DEF c, f
  <2>8. CASE candidates = {}
    BY <2>1, <2>3, <2>4, <2>7, <2>8
  <2>9. CASE candidates # {}
    <3>1. PICK h \in IsaHandlers : meant(h, instr)
      BY <2>9
    <3>2. f = h
      BY <2>3, <2>4, <2>6, <3>1
    <3>3. \A g \in candidates : g = f
      BY <2>3, <2>4, <2>6
    <3> QED
      BY <2>1, <2>9, <3>1, <3>2, <3>3
  <2> QED
    BY <2>8, <2>9
<1> QED
  BY IsaInvInit, <1>1, <1>2, PTL DEF IsaSpec

(* A repeated init_isa never changes a filled registry and is refused.     *)
THEOREM IsaLoadsOnce == IsaSpec => IsaOnce
<1>1. IsaInv /\ [IsaNext]_isaVars => IsaInv'
  BY IsaInvStep
<1> DEFINE A == handlers = IsaHandlers =>
                  /\ UNCHANGED registry
                  /\ todo # todo' /\ ~Idle => \E k \in {1, 2} : ~isa_ok'[k]
<1>2. ASSUME IsaInv, [IsaNext]_isaVars PROVE A
  <2> SUFFICES ASSUME handlers = IsaHandlers
               PROVE  /\ UNCHANGED registry
                      /\ todo # todo' /\ ~Idle => \E k \in {1, 2} : ~isa_ok'[k]
    OBVIOUS
  <2>1. CASE init_isa
    BY <2>1 DEF init_isa, vars, registry
  <2>2. CASE register_next
    BY <1>2, <2>2, RegisterLoads
  <2>3. CASE \E i \in Instrs : fetch(i)
    BY <2>3 DEF fetch, Lookup
  <2>4. CASE retire
    BY <2>4 DEF retire
  <2>5. CASE UNCHANGED isaVars
    BY <2>5 DEF isaVars, vars, registry
  <2> QED
    BY <1>2, <2>1, <2>2, <2>3, <2>4, <2>5 DEF IsaNext
<1>3. IsaInv /\ [IsaNext]_isaVars => [A]_isaVars
  BY <1>2
<1> HIDE DEF A
<1>4. IsaSpec => [][A]_isaVars
  BY IsaInvInit, <1>1, <1>3, PTL DEF IsaSpec
<1> QED
  BY <1>4 DEF IsaOnce, A
=============================================================================
