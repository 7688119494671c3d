------------------------------- MODULE Latch -------------------------------
(***************************************************************************)
(* What the ControlBlocks of a thread are to it: a flag that is put up for *)
(* every wait, that goes down once, and that the wait sleeps on.  Module   *)
(* Transaction uses a ControlBlock in this form.                           *)
(***************************************************************************)
VARIABLES
  phase,    \* what the thread does: out, armed or waiting
  blocked   \* the flag; down when the thread has no ControlBlock

vars == <<phase, blocked>>

Init == phase = "out" /\ blocked = FALSE

(* A new ControlBlock; its wait begins at once if there is nothing to      *)
(* register with.                                                          *)
New == phase = "out" /\ phase' \in {"armed", "waiting"} /\ blocked' = TRUE

(* The thread finds that it need not wait.                                 *)
Discard == phase = "armed" /\ phase' = "out" /\ blocked' = FALSE

Wait == phase = "armed" /\ phase' = "waiting" /\ UNCHANGED blocked

Return ==
  /\ phase \in {"armed", "waiting"} /\ blocked = FALSE
  /\ phase' = "out"
  /\ UNCHANGED blocked

SetChanged == blocked' = FALSE /\ UNCHANGED phase

Next == New \/ Discard \/ Wait \/ Return \/ SetChanged

(* A thread that sleeps on a flag that is down is woken.                   *)
Spec == Init /\ [][Next]_vars /\ WF_vars(phase = "waiting" /\ Return)
=============================================================================
