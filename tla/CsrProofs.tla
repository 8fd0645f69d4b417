----------------------------- MODULE CsrProofs -----------------------------
EXTENDS Csr, TLAPS

(* The two register files are functions on their numbers.                  *)
TypeInv ==
  /\ registers \in [Regs -> SUBSET WordBits]
  /\ control \in [Ids -> SUBSET WordBits]
  /\ instr \in Instr \cup {none}

(* Every operand is a word.                                                *)
LEMMA SourceType ==
  ASSUME NEW r \in [Regs -> SUBSET WordBits], NEW i \in Instr
  PROVE  source(r, i) \in SUBSET WordBits
BY DEF source, number, Instr

(* Writing the destination keeps the register file a function.             *)
LEMMA LinkedType ==
  ASSUME TypeInv, NEW i \in Instr
  PROVE  linked(i) \in [Regs -> SUBSET WordBits]
BY DEF linked, TypeInv, Instr

(* A computed CSR value is a word.                                         *)
LEMMA NewValueType ==
  ASSUME NEW i \in Instr, NEW v \in SUBSET WordBits, NEW o \in SUBSET WordBits
  PROVE  new_value(i, v, o) \in SUBSET WordBits
BY DEF new_value, Instr, Ops

(* exec keeps the types.                                                   *)
LEMMA ExecType ==
  ASSUME TypeInv, NEW i \in Instr, exec(i)
  PROVE  TypeInv'
<1>1. CASE refused_read(i)
  BY <1>1 DEF refused_read, exec, TypeInv
<1>2. CASE refused_write(i)
  BY <1>2, LinkedType DEF refused_write, exec, TypeInv
<1>3. CASE finished(i)
  <2>1. registers' \in [Regs -> SUBSET WordBits]
    BY <1>3, LinkedType DEF finished
  <2>2. control' \in [Ids -> SUBSET WordBits]
    <3>1. i.csr_id \in Ids /\ control[i.csr_id] \in SUBSET WordBits
      BY DEF Instr, TypeInv
    <3>2. new_value(i, control[i.csr_id], source(linked(i), i)) \in SUBSET WordBits
      BY <3>1, LinkedType, SourceType, NewValueType
    <3> QED BY <1>3, <3>1, <3>2 DEF finished, TypeInv
  <2> QED BY <2>1, <2>2 DEF exec, TypeInv
<1> QED BY <1>1, <1>2, <1>3 DEF exec

(* The type invariant.                                                     *)
THEOREM Typing == Spec => []TypeInv
<1>1. Init => TypeInv
  BY DEF Init, TypeInv
<1>2. TypeInv /\ [Next]_vars => TypeInv'
  <2> SUFFICES ASSUME TypeInv, [Next]_vars PROVE TypeInv'
    OBVIOUS
  <2>1. CASE \E i \in Instr : exec(i)
    BY <2>1, ExecType
  <2>2. CASE retire
    BY <2>2 DEF retire, TypeInv
  <2>3. CASE UNCHANGED vars
    BY <2>3 DEF vars, TypeInv
  <2> QED BY <2>1, <2>2, <2>3 DEF Next
<1> QED BY <1>1, <1>2, PTL DEF Spec

(* A source that is not the destination is the same before and after the   *)
(* destination is written.                                                 *)
LEMMA SourceKept ==
  ASSUME TypeInv, NEW i \in Instr, ~aliased(i)
  PROVE  source(linked(i), i) = source(registers, i)
BY DEF source, linked, aliased, TypeInv, Instr

(* A step that starts an instruction is exec of that instruction.          *)
LEMMA ExecutingIsExec ==
  ASSUME TypeInv, [Next]_vars, executing
  PROVE  instr' \in Instr /\ exec(instr')
BY DEF executing, Next, exec, retire, vars

(* A completed instruction whose source is not its destination exchanges   *)
(* old values, for every set of registers, CSRs and permissions.           *)
THEOREM ExchangeThm == Spec => ExchangeUnlessAliased
<1>1. TypeInv /\ [Next]_vars => (executing /\ result' = "" /\ ~aliased(instr') => Exchanged(instr'))
  <2> SUFFICES ASSUME TypeInv, [Next]_vars, executing, result' = "", ~aliased(instr')
               PROVE  Exchanged(instr')
    OBVIOUS
  <2> DEFINE i == instr'
  <2>1. i \in Instr /\ exec(i)
    BY ExecutingIsExec
  <2> HIDE DEF i
  <2>2. finished(i)
    BY <2>1 DEF exec, refused_read, refused_write
  <2>3. registers' = linked(i) /\ source(linked(i), i) = source(registers, i)
    BY <2>1, <2>2, SourceKept DEF finished, i
  <2>4. /\ i.dst_id # 0 => registers'[i.dst_id] = control[i.csr_id]
        /\ \A r \in Regs : r # i.dst_id \/ r = 0 => registers'[r] = registers[r]
    <3>1. i.dst_id # 0 => reads(i)
      BY DEF reads
    <3> QED BY <2>1, <2>3, <3>1 DEF linked, TypeInv, Instr
  <2>5. control' = IF writes(i)
          THEN [control EXCEPT ![i.csr_id] = new_value(i, control[i.csr_id], source(registers, i))]
          ELSE control
    BY <2>2, <2>3 DEF finished
  <2>6. i.csr_id \in Ids /\ i.op \in Ops /\ DOMAIN control = Ids
    BY <2>1 DEF Instr, TypeInv
  <2>7. /\ i.op \in {"csrrw", "csrrwi"} => control'[i.csr_id] = source(registers, i)
        /\ i.op \notin {"csrrw", "csrrwi"} /\ i.src_id = 0 => control'[i.csr_id] = control[i.csr_id]
        /\ i.op \in {"csrrs", "csrrsi"} /\ i.src_id # 0 =>
             control'[i.csr_id] = control[i.csr_id] \cup source(registers, i)
        /\ i.op \in {"csrrc", "csrrci"} /\ i.src_id # 0 =>
             control'[i.csr_id] = control[i.csr_id] \ source(registers, i)
        /\ \A id \in Ids : id # i.csr_id => control'[id] = control[id]
    BY <2>5, <2>6 DEF writes, replaces, new_value, Ops
  <2> QED BY <2>4, <2>7 DEF Exchanged, i
<1> QED BY <1>1, Typing, PTL DEF Spec, ExchangeUnlessAliased

(* An instruction that is its own source and is refused the write has read *)
(* the CSR into that source.                                               *)
LEMMA SourceLost ==
  ASSUME TypeInv, NEW i \in Instr, aliased(i), reads(i)
  PROVE  source(linked(i), i) = control[i.csr_id]
BY DEF source, linked, aliased, TypeInv, Instr

(* Every refused instruction, aliased ones included, has left the CSRs as  *)
(* they were, and its operand unless it was its own source on a CSR that   *)
(* can only be read.                                                       *)
THEOREM RetryThm == Spec => RetryUnlessAliased
<1> DEFINE Left(i) ==
      /\ control' = control
      /\ \/ source(registers', i) = source(registers, i)
         \/ /\ aliased(i) /\ i.csr_id \in Readable \ Writable
            /\ source(registers', i) = control[i.csr_id]
<1>1. TypeInv /\ [Next]_vars => (executing /\ result' # "" => Left(instr'))
  <2> SUFFICES ASSUME TypeInv, [Next]_vars, executing, result' # ""
               PROVE  Left(instr')
    OBVIOUS
  <2> DEFINE i == instr'
  <2>1. i \in Instr /\ exec(i)
    BY ExecutingIsExec
  <2>2. SUFFICES Left(i)
    OBVIOUS
  <2> HIDE DEF i
  <2>3. \/ refused_read(i)
        \/ /\ refused_write(i) /\ i.csr_id \notin Writable
           /\ reads(i) => i.csr_id \in Readable
    BY <2>1 DEF exec, finished
  <2>4. CASE refused_read(i)
    BY <2>4 DEF refused_read
  <2>5. CASE /\ refused_write(i) /\ i.csr_id \notin Writable
             /\ reads(i) => i.csr_id \in Readable
    <3>1. CASE ~aliased(i)
      BY <2>1, <2>5, <3>1, SourceKept DEF refused_write
    <3>2. CASE aliased(i)
      <4>1. reads(i)
        BY <3>2 DEF aliased, reads
      <4> QED BY <2>1, <2>5, <3>2, <4>1, SourceLost DEF refused_write
    <3> QED BY <3>1, <3>2
  <2> QED BY <2>3, <2>4, <2>5
<1> QED BY <1>1, Typing, PTL DEF Spec, RetryUnlessAliased

(* csrrw with x0 completes on a CSR that can only be written, csrrs and    *)
(* csrrc with x0 on one that can only be read.                             *)
THEOREM OneWayThm == Spec => OneWayUsable
<1> DEFINE Completes ==
      /\ instr'.csr_id \in Writable /\ instr'.op \in {"csrrw", "csrrwi"} /\ instr'.dst_id = 0
           => result' = ""
      /\ instr'.csr_id \in Readable /\ instr'.op \notin {"csrrw", "csrrwi"} /\ instr'.src_id = 0
           => result' = ""
<1>1. TypeInv /\ [Next]_vars => (executing => Completes)
  <2> SUFFICES ASSUME TypeInv, [Next]_vars, executing
               PROVE  Completes
    OBVIOUS
  <2>1. exec(instr')
    BY ExecutingIsExec
  <2> QED BY <2>1 DEF exec, finished, reads, writes, replaces
<1> QED BY <1>1, Typing, PTL DEF Spec, OneWayUsable
============================================================================
