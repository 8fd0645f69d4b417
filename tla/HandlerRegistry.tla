-------------------------- MODULE HandlerRegistry --------------------------
(***************************************************************************)
(* HandlerRegistry (vm_handler.hxx, vm_handler.cxx): instruction handlers  *)
(* keyed by a packed id of opcode group, funct3 and funct7.  A handler may *)
(* leave the last two open (NoFuncA, NoFuncB); func_a and func_b remember  *)
(* which groups and group/funct3 pairs look at them.                       *)
(***************************************************************************)
EXTENDS Integers

CONSTANTS
  Handlers,  \* the handlers that may be registered
  Codes,     \* the decoded instruction words that may be looked up
  nullptr    \* no handler, no lookup

NoFuncA == 2 ^ 4
NoFuncB == 2 ^ 8

HandlerType == [group : 0 .. 127, funcA : 0 .. NoFuncA, funcB : 0 .. NoFuncB]
CodeType == [group : 0 .. 127, func3 : 0 .. 7, func7 : 0 .. 127]

ASSUME HandlersAssumption == Handlers \subseteq HandlerType
ASSUME CodesAssumption == Codes \subseteq CodeType
ASSUME NullptrAssumption == nullptr \notin Handlers /\ nullptr \notin [code : Codes, handler : Handlers \cup {nullptr}]

VARIABLES
  handlers,  \* the values of handlers; their ids are distinct
  func_a,    \* groups with a funct3
  func_b,    \* group/funct3 keys with a funct7
  found      \* the last lookup and its result, nullptr before the first

registry == <<handlers, func_a, func_b>>
vars == <<handlers, func_a, func_b, found>>

(* Mutant: funct7 is shifted into the place of funct3.                     *)
IdCollides(group, funcA, funcB) == group + funcA * 2 ^ 8 + funcB * 2 ^ 8

(* InstructionId::id.  The fields do not overlap, so the bitwise or is a   *)
(* sum.                                                                    *)
id(group, funcA, funcB) == group + funcA * 2 ^ 8 + funcB * 2 ^ 16
idOf(h) == id(h.group, h.funcA, h.funcB)
func_b_key(group, func) == group + func * 2 ^ 8

Init == handlers = {} /\ func_a = {} /\ func_b = {} /\ found = nullptr

(* Mutant: a second handler with the same id replaces the first.           *)
Replacing(h) == TRUE
accepted(h) == \A g \in handlers : idOf(g) # idOf(h)

(* Mutant: a handler with funct7 is not entered in func_a.                 *)
RegisterFuncBOnly(h) ==
  IF accepted(h)
    THEN /\ handlers' = handlers \cup {h}
         /\ func_a' = IF h.funcA # NoFuncA /\ h.funcB = NoFuncB
                        THEN func_a \cup {h.group} ELSE func_a
         /\ func_b' = IF h.funcB # NoFuncB
                        THEN func_b \cup {func_b_key(h.group, h.funcA)} ELSE func_b
    ELSE UNCHANGED registry

register_handler(h) ==
  IF accepted(h)
    THEN /\ handlers' = handlers \cup {h}
         /\ func_a' = IF h.funcA # NoFuncA THEN func_a \cup {h.group} ELSE func_a
         /\ func_b' = IF h.funcB # NoFuncB
                        THEN func_b \cup {func_b_key(h.group, h.funcA)} ELSE func_b
    ELSE UNCHANGED registry

find_handler(code) ==
  LET funcA == IF code.group \in func_a THEN code.func3 ELSE NoFuncA
      funcB == IF func_b_key(code.group, code.func3) \in func_b THEN code.func7 ELSE NoFuncB
      matches == {h \in handlers : idOf(h) = id(code.group, funcA, funcB)}
  IN  IF matches = {} THEN nullptr ELSE CHOOSE h \in matches : TRUE

Register(h) == register_handler(h) /\ found' = nullptr

Lookup(code) ==
  /\ found' = [code |-> code, handler |-> find_handler(code)]
  /\ UNCHANGED registry

Next == (\E h \in Handlers : Register(h)) \/ (\E code \in Codes : Lookup(code))

Spec == Init /\ [][Next]_vars

----------------------------------------------------------------------------
(* The words a handler is meant for.                                       *)
meant(h, code) ==
  /\ h.group = code.group
  /\ h.funcA \in {NoFuncA, code.func3}
  /\ h.funcB \in {NoFuncB, code.func7}

(* The handlers of a group agree on reading funct3, those of a pair on     *)
(* reading funct7, and a handler without funct3 has no funct7.             *)
uniform(hs) ==
  /\ \A h, g \in hs : h.group = g.group => (h.funcA = NoFuncA) = (g.funcA = NoFuncA)
  /\ \A h, g \in hs : h.group = g.group /\ h.funcA = g.funcA
                        => (h.funcB = NoFuncB) = (g.funcB = NoFuncB)
  /\ \A h \in hs : h.funcA = NoFuncA => h.funcB = NoFuncB

(* find_handler never dispatches a word to a handler of other words,       *)
(* whatever was registered: the packed ids and the two key sets of         *)
(* register_handler and find_handler fit together.                         *)
DispatchSound ==
  found # nullptr /\ found.handler # nullptr =>
    found.handler \in handlers /\ meant(found.handler, found.code)

(* With uniform handlers no registration hides another: a word that some   *)
(* registered handler is meant for finds it.                               *)
DispatchComplete ==
  found # nullptr /\ uniform(handlers) =>
    \A h \in handlers : meant(h, found.code) => found.handler = h
============================================================================
