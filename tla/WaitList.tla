------------------------------ MODULE WaitList ------------------------------
(***************************************************************************)
(* What the waiting list of a TVar promises to the threads that register   *)
(* with it, and the form in which module Transaction uses it: a thread     *)
(* stays registered until the list is taken, and whoever takes the list    *)
(* informs every thread in it that still waits.                            *)
(***************************************************************************)
CONSTANTS
  Waiter,
  Waker

VARIABLES
  inside,     \* the threads between registration and drop of the ControlBlock
  waiting,    \* the threads registered
  waking      \* waking[k]: the threads k has taken and not yet informed

vars == <<inside, waiting, waking>>

Init ==
  /\ inside = {}
  /\ waiting = {}
  /\ waking = [k \in Waker |-> {}]

Register(w) ==
  /\ w \notin inside
  /\ inside' = inside \cup {w}
  /\ waiting' = waiting \cup {w}
  /\ UNCHANGED waking

(* The thread stops waiting, for this variable and for all the others.     *)
Leave(w) ==
  /\ inside' = inside \ {w}
  /\ waiting' = waiting \ {w}
  /\ waking' = [k \in Waker |-> waking[k] \ {w}]

Take(k) ==
  /\ waking[k] = {}
  /\ waking' = [waking EXCEPT ![k] = waiting]
  /\ waiting' = {}
  /\ UNCHANGED inside

Inform(k, w) ==
  /\ w \in waking[k]
  /\ waking' = [waking EXCEPT ![k] = @ \ {w}]
  /\ UNCHANGED <<inside, waiting>>

(* The list of another variable is taken.                                  *)
TakeElsewhere(k, S) ==
  /\ waking[k] = {}
  /\ waking' = [waking EXCEPT ![k] = S]
  /\ UNCHANGED <<inside, waiting>>

Next ==
  \/ \E w \in Waiter : Register(w) \/ Leave(w)
  \/ \E k \in Waker : \/ Take(k)
                      \/ \E w \in Waiter : Inform(k, w)
                      \/ \E S \in SUBSET Waiter : TakeElsewhere(k, S)

Spec == Init /\ [][Next]_vars
=============================================================================
