---------------------------- MODULE VmLifecycle ----------------------------
(***************************************************************************)
(* The life of a machine as its host sees it, without memory, registers or *)
(* instructions: it is configured once and for all, started only when      *)
(* ready, and executes only inside run, only while running.                *)
(***************************************************************************)
VARIABLES
  ready,    \* every part is configured: start may set running
  running,  \* is_running
  inRun     \* the host is inside run

vars == <<ready, running, inRun>>

Init == ~ready /\ ~running /\ ~inRun

Configure == ~inRun /\ ready' \in {ready, TRUE} /\ UNCHANGED <<running, inRun>>

Start == ~inRun /\ running' = ready /\ UNCHANGED <<ready, inRun>>

Stop == ~inRun /\ running' = FALSE /\ UNCHANGED <<ready, inRun>>

Run == ~inRun /\ inRun' = running /\ UNCHANGED <<ready, running>>

(* One instruction: run goes on, returns because the program halted, or is *)
(* left by an exception, with the machine halted or still running.         *)
Step ==
  /\ inRun /\ running
  /\ running' \in BOOLEAN /\ inRun' \in BOOLEAN
  /\ inRun' => running'
  /\ UNCHANGED ready

Next == Configure \/ Start \/ Stop \/ Run \/ Step

Spec == Init /\ [][Next]_vars
============================================================================
