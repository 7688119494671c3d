---------------------------- MODULE ControlBlock ----------------------------
(***************************************************************************)
(* One thread that waits, on one ControlBlock after the other, and the     *)
(* threads that inform it: stm-core/src/transaction/control_block.rs.      *)
(*                                                                         *)
(* Thread::unpark makes a token available to the thread and Thread::park   *)
(* consumes it.  The token belongs to the thread and not to the            *)
(* ControlBlock, and a waker that has upgraded its weak reference keeps a  *)
(* ControlBlock alive after the thread is done with it, so that a token    *)
(* may arrive in a later wait than the one it was meant for.               *)
(***************************************************************************)
EXTENDS Naturals

CONSTANTS
  Waker,
  Rounds    \* bound on the number of ControlBlocks the thread makes

ASSUME RoundsAssumption == Rounds \in Nat

Ctrl == 1..Rounds

VARIABLES
  round,     \* the latest ControlBlock of the thread
  pc,        \* the thread: out, armed, load or park
  blocked,   \* blocked[c]: the AtomicBool of c
  token,     \* the thread's park token
  wakerPc,   \* each waker: idle, swap or unpark
  held       \* held[w]: the ControlBlock that the waker holds, or 0

vars == <<round, pc, blocked, token, wakerPc, held>>

Init ==
  /\ round = 0
  /\ pc = "out"
  /\ blocked = [c \in Ctrl |-> TRUE]
  /\ token = FALSE
  /\ wakerPc = [w \in Waker |-> "idle"]
  /\ held = [w \in Waker |-> 0]

-----------------------------------------------------------------------------
(* wait_for_change makes a ControlBlock ...                                *)
New ==
  /\ pc = "out" /\ round < Rounds
  /\ round' = round + 1
  /\ pc' = "armed"
  /\ UNCHANGED <<blocked, token, wakerPc, held>>

(* ... and drops it again without waiting when a variable has changed.     *)
Discard ==
  /\ pc = "armed" /\ pc' = "out"
  /\ UNCHANGED <<round, blocked, token, wakerPc, held>>

(* ControlBlock::wait: the condition of its loop.                          *)
Load ==
  /\ pc \in {"armed", "load"}
  /\ pc' = IF blocked[round] THEN "park" ELSE "out"
  /\ UNCHANGED <<round, blocked, token, wakerPc, held>>

(* Bug: an if in place of the while.                                       *)
ParkOnce ==
  /\ pc = "park" /\ token
  /\ pc' = "out" /\ token' = FALSE
  /\ UNCHANGED <<round, blocked, wakerPc, held>>

Park ==
  /\ pc = "park" /\ token
  /\ pc' = "load" /\ token' = FALSE
  /\ UNCHANGED <<round, blocked, wakerPc, held>>

(* park may return without a token, and anybody with the thread's handle   *)
(* may unpark it.                                                          *)
ParkSpuriously ==
  /\ pc = "park" /\ pc' = "load"
  /\ UNCHANGED <<round, blocked, token, wakerPc, held>>

-----------------------------------------------------------------------------
(* The thread or some waker owns a strong reference.                       *)
Alive(c) == (pc # "out" /\ c = round) \/ \E u \in Waker : held[u] = c

(* wake_all upgrades its weak reference.                                   *)
Upgrade(w) ==
  /\ wakerPc[w] = "idle"
  /\ \E c \in Ctrl : Alive(c) /\ held' = [held EXCEPT ![w] = c]
  /\ wakerPc' = [wakerPc EXCEPT ![w] = "swap"]
  /\ UNCHANGED <<round, pc, blocked, token>>

(* Bug: the flag goes down and nobody is unparked.                         *)
SwapSilently(w) ==
  /\ wakerPc[w] = "swap"
  /\ blocked' = [blocked EXCEPT ![held[w]] = FALSE]
  /\ wakerPc' = [wakerPc EXCEPT ![w] = "idle"]
  /\ held' = [held EXCEPT ![w] = 0]
  /\ UNCHANGED <<round, pc, token>>

(* Bug: the reference of a waker that has nobody to wake is leaked.        *)
SwapLeaks(w) ==
  /\ wakerPc[w] = "swap"
  /\ blocked' = [blocked EXCEPT ![held[w]] = FALSE]
  /\ wakerPc' = [wakerPc EXCEPT ![w] = IF blocked[held[w]] THEN "unpark" ELSE "idle"]
  /\ UNCHANGED <<round, pc, token, held>>

(* Bug: load and store in place of swap, or no test at all.                *)
StoreAndUnpark(w) ==
  /\ wakerPc[w] = "swap"
  /\ blocked' = [blocked EXCEPT ![held[w]] = FALSE]
  /\ wakerPc' = [wakerPc EXCEPT ![w] = "unpark"]
  /\ UNCHANGED <<round, pc, token, held>>

(* ControlBlock::set_changed: the swap ...                                 *)
Swap(w) ==
  /\ wakerPc[w] = "swap"
  /\ blocked' = [blocked EXCEPT ![held[w]] = FALSE]
  /\ IF blocked[held[w]]
     THEN wakerPc' = [wakerPc EXCEPT ![w] = "unpark"] /\ UNCHANGED held
     ELSE wakerPc' = [wakerPc EXCEPT ![w] = "idle"] /\ held' = [held EXCEPT ![w] = 0]
  /\ UNCHANGED <<round, pc, token>>

(* ... and the unpark, by the waker that found the flag up.                *)
Unpark(w) ==
  /\ wakerPc[w] = "unpark"
  /\ token' = TRUE
  /\ wakerPc' = [wakerPc EXCEPT ![w] = "idle"]
  /\ held' = [held EXCEPT ![w] = 0]
  /\ UNCHANGED <<round, pc, blocked>>

-----------------------------------------------------------------------------
WakerStep(w) == Swap(w) \/ Unpark(w)

Next ==
  \/ New \/ Discard \/ Load \/ Park \/ ParkSpuriously
  \/ \E w \in Waker : Upgrade(w) \/ WakerStep(w)

Spec == Init /\ [][Next]_vars

(* Threads are scheduled.  Nothing forces park to return spuriously.       *)
FairSpec ==
  Spec /\ WF_vars(Load) /\ WF_vars(Park) /\ \A w \in Waker : WF_vars(WakerStep(w))

-----------------------------------------------------------------------------
TypeOK ==
  /\ round \in 0..Rounds
  /\ pc \in {"out", "armed", "load", "park"}
  /\ pc # "out" => round # 0
  /\ blocked \in [Ctrl -> BOOLEAN]
  /\ token \in BOOLEAN
  /\ wakerPc \in [Waker -> {"idle", "swap", "unpark"}]
  /\ held \in [Waker -> 0..Rounds]
  /\ \A w \in Waker : held[w] = 0 <=> wakerPc[w] = "idle"

(* The flag is down and the thread is asleep without a token: the waker    *)
(* between its swap and its unpark will provide one (wait and              *)
(* set_changed).                                                           *)
NoMissedUnpark ==
  pc = "park" /\ ~blocked[round] /\ ~token
    => \E w \in Waker : wakerPc[w] = "unpark" /\ held[w] = round

(* "Only wakeup once": of all the variables that change at the same time,  *)
(* one unparks the thread (the swap of set_changed).                       *)
WakesOnce ==
  \A u, w \in Waker :
    wakerPc[u] = "unpark" /\ wakerPc[w] = "unpark" /\ held[u] = held[w] => u = w

(* The phase of the latch.                                                 *)
phase == IF pc \in {"load", "park"} THEN "waiting" ELSE pc

(* The flag that the thread sleeps on, as long as it has one.              *)
flag == pc # "out" /\ blocked[round]

Abstract == INSTANCE Latch WITH blocked <- flag

(* Whatever tokens are left over from earlier waits, from other wakers or  *)
(* from user code, wait returns only after set_changed of its own          *)
(* ControlBlock, and returns when that has been called.                    *)
ImplementsLatch == Abstract!Spec
=============================================================================
