------------------------- MODULE ControlBlockProofs -------------------------
(***************************************************************************)
(* Proofs about module ControlBlock: whoever takes the flag down unparks   *)
(* the thread, nobody else does, and the code implements the latch.        *)
(***************************************************************************)
EXTENDS ControlBlock, TLAPS

(* What the invariants rest on: a waker that is about to unpark has taken  *)
(* down the flag, and there are no references to a ControlBlock that has   *)
(* not been made.                                                          *)
FlagIsDown == \A w \in Waker : wakerPc[w] = "unpark" => ~blocked[held[w]]

HeldIsMade == \A w \in Waker : held[w] <= round

(* A ControlBlock is made with its flag up.                                *)
MadeUp == \A c \in Ctrl : c > round => blocked[c]

IInv ==
  /\ TypeOK
  /\ NoMissedUnpark
  /\ WakesOnce
  /\ FlagIsDown
  /\ HeldIsMade
  /\ MadeUp

LEMMA InitInv == Init => IInv
<1> SUFFICES ASSUME Init PROVE IInv
  OBVIOUS
<1>1. \A w \in Waker : held[w] = 0 /\ wakerPc[w] = "idle"
  BY DEF Init
<1>2. 0 \in 0..Rounds
  BY RoundsAssumption
<1>3. TypeOK
  <2>1. round \in 0..Rounds /\ held \in [Waker -> 0..Rounds]
    BY <1>2 DEF Init
  <2>2. blocked \in [Ctrl -> BOOLEAN] /\ token \in BOOLEAN
    BY DEF Init
  <2>3. wakerPc \in [Waker -> {"idle", "swap", "unpark"}]
    BY DEF Init
  <2>4. pc = "out"
    BY DEF Init
  <2> QED BY <1>1, <2>1, <2>2, <2>3, <2>4 DEF TypeOK
<1>4. NoMissedUnpark /\ WakesOnce /\ FlagIsDown /\ MadeUp
  BY DEF Init, NoMissedUnpark, WakesOnce, FlagIsDown, MadeUp
<1>5. HeldIsMade
  <2>1. round = 0 /\ 0 <= 0
    BY DEF Init
  <2> QED BY <1>1, <2>1 DEF HeldIsMade
<1> QED BY <1>3, <1>4, <1>5 DEF IInv

(* What is held is a ControlBlock.                                         *)
LEMMA HeldIsCtrl ==
  ASSUME TypeOK, HeldIsMade, NEW w \in Waker, wakerPc[w] # "idle"
  PROVE  held[w] \in Ctrl /\ held[w] \in 1..round
BY RoundsAssumption DEF TypeOK, HeldIsMade, Ctrl

LEMMA StepInv == IInv /\ [Next]_vars => IInv'
<1> SUFFICES ASSUME IInv, [Next]_vars PROVE IInv'
  OBVIOUS
<1> USE RoundsAssumption
<1> USE DEF IInv
<1>0. CASE UNCHANGED vars
  BY <1>0 DEF vars, TypeOK, NoMissedUnpark, WakesOnce, FlagIsDown, HeldIsMade, MadeUp
<1>1. CASE New
  BY <1>1 DEF New, TypeOK, Ctrl, NoMissedUnpark, WakesOnce, FlagIsDown, HeldIsMade, MadeUp
<1>2. CASE Discard
  BY <1>2 DEF Discard, TypeOK, NoMissedUnpark, WakesOnce, FlagIsDown, HeldIsMade, MadeUp
<1>3. CASE Load
  BY <1>3 DEF Load, TypeOK, NoMissedUnpark, WakesOnce, FlagIsDown, HeldIsMade, MadeUp
<1>4. CASE Park
  BY <1>4 DEF Park, TypeOK, NoMissedUnpark, WakesOnce, FlagIsDown, HeldIsMade, MadeUp
<1>5. CASE ParkSpuriously
  BY <1>5
  DEF ParkSpuriously, TypeOK, NoMissedUnpark, WakesOnce, FlagIsDown, HeldIsMade, MadeUp
<1>6. ASSUME NEW w \in Waker, Upgrade(w) PROVE IInv'
  <2>1. PICK c \in Ctrl : Alive(c) /\ held' = [held EXCEPT ![w] = c]
    BY <1>6 DEF Upgrade
  <2>2. c \in 1..Rounds /\ c <= round
    BY <2>1 DEF Alive, Ctrl, TypeOK, HeldIsMade
  <2>3. TypeOK'
    BY <1>6, <2>1, <2>2 DEF Upgrade, TypeOK
  <2>4. NoMissedUnpark'
    BY <1>6, <2>1 DEF Upgrade, TypeOK, NoMissedUnpark
  <2>5. WakesOnce' /\ FlagIsDown' /\ HeldIsMade' /\ MadeUp'
    BY <1>6, <2>1, <2>2 DEF Upgrade, TypeOK, WakesOnce, FlagIsDown, HeldIsMade, MadeUp
  <2> QED BY <2>3, <2>4, <2>5
<1>7. ASSUME NEW w \in Waker, Swap(w) PROVE IInv'
  <2>1. wakerPc[w] = "swap" /\ held[w] \in Ctrl
    BY <1>7, HeldIsCtrl DEF Swap
  <2>2. TypeOK'
    BY <1>7, <2>1 DEF Swap, TypeOK, Ctrl
  <2>3. FlagIsDown' /\ HeldIsMade'
    BY <1>7, <2>1, HeldIsCtrl DEF Swap, TypeOK, FlagIsDown, HeldIsMade
  <2>4. WakesOnce'
    BY <1>7, <2>1 DEF Swap, TypeOK, WakesOnce, FlagIsDown
  <2>5. NoMissedUnpark'
    <3>1. CASE blocked[held[w]]
      BY <1>7, <2>1, <3>1 DEF Swap, TypeOK, Ctrl, NoMissedUnpark
    <3>2. CASE ~blocked[held[w]]
      BY <1>7, <2>1, <3>2 DEF Swap, TypeOK, Ctrl, NoMissedUnpark
    <3> QED BY <3>1, <3>2
  <2>6. MadeUp'
    BY <1>7, <2>1, HeldIsCtrl DEF Swap, TypeOK, MadeUp, Ctrl
  <2> QED BY <2>2, <2>3, <2>4, <2>5, <2>6
<1>8. ASSUME NEW w \in Waker, Unpark(w) PROVE IInv'
  <2>1. TypeOK' /\ NoMissedUnpark'
    BY <1>8 DEF Unpark, TypeOK, NoMissedUnpark
  <2>2. WakesOnce' /\ FlagIsDown' /\ HeldIsMade' /\ MadeUp'
    BY <1>8 DEF Unpark, TypeOK, WakesOnce, FlagIsDown, HeldIsMade, MadeUp
  <2> QED BY <2>1, <2>2
<1> QED
  BY <1>0, <1>1, <1>2, <1>3, <1>4, <1>5, <1>6, <1>7, <1>8 DEF Next, WakerStep

LEMMA Invariant == Spec => []IInv
BY InitInv, StepInv, PTL DEF Spec

-----------------------------------------------------------------------------
(* The types; in particular a waker holds a reference exactly from its     *)
(* upgrade to the end of set_changed.                                      *)
THEOREM TypeCorrect == Spec => []TypeOK
<1>1. IInv => TypeOK
  BY DEF IInv
<1> QED BY Invariant, <1>1, PTL

(* A thread that is about to sleep on a flag that is down has a token, or  *)
(* the waker that took it down will provide one (wait, set_changed).       *)
THEOREM NeverMissed == Spec => []NoMissedUnpark
<1>1. IInv => NoMissedUnpark
  BY DEF IInv
<1> QED BY Invariant, <1>1, PTL

(* "Only wakeup once": the swap of set_changed elects one waker for each   *)
(* ControlBlock.                                                           *)
THEOREM WokenOnce == Spec => []WakesOnce
<1>1. IInv => WakesOnce
  BY DEF IInv
<1> QED BY Invariant, <1>1, PTL

-----------------------------------------------------------------------------
LEMMA LatchInit == Init => Abstract!Init
BY DEF Init, Abstract!Init, phase, flag

LEMMA LatchStep == IInv /\ [Next]_vars => [Abstract!Next]_(Abstract!vars)
<1> SUFFICES ASSUME IInv, [Next]_vars PROVE [Abstract!Next]_(Abstract!vars)
  OBVIOUS
<1> USE DEF Abstract!Next, Abstract!vars, phase, flag
<1>0. CASE UNCHANGED vars
  BY <1>0 DEF vars
<1>1. CASE New
  <2>1. round + 1 \in Ctrl /\ round + 1 > round
    BY <1>1, RoundsAssumption DEF New, Ctrl, IInv, TypeOK
  <2>2. blocked[round + 1] = TRUE
    BY <2>1 DEF IInv, TypeOK, MadeUp
  <2>3. flag' = TRUE
    BY <1>1, <2>2 DEF New
  <2> QED BY <1>1, <2>3 DEF New, Abstract!New
<1>2. CASE Discard
  BY <1>2 DEF Discard, Abstract!Discard
<1>3. CASE Load
  <2>1. CASE pc = "armed" /\ blocked[round]
    BY <1>3, <2>1 DEF Load, Abstract!Wait
  <2>2. CASE pc = "load" /\ blocked[round]
    BY <1>3, <2>2 DEF Load
  <2>3. CASE ~blocked[round]
    BY <1>3, <2>3 DEF Load, Abstract!Return
  <2> QED BY <1>3, <2>1, <2>2, <2>3 DEF Load
<1>4. CASE Park
  BY <1>4 DEF Park
<1>5. CASE ParkSpuriously
  BY <1>5 DEF ParkSpuriously
<1>6. ASSUME NEW w \in Waker, Upgrade(w) PROVE UNCHANGED Abstract!vars
  BY <1>6 DEF Upgrade
<1>7. ASSUME NEW w \in Waker, Swap(w)
      PROVE  Abstract!SetChanged \/ UNCHANGED Abstract!vars
  <2>1. /\ UNCHANGED <<round, pc>> /\ blocked \in [Ctrl -> BOOLEAN]
        /\ blocked' = [blocked EXCEPT ![held[w]] = FALSE]
    BY <1>7 DEF Swap, IInv, TypeOK
  <2>2. pc # "out" => round \in Ctrl
    BY RoundsAssumption DEF IInv, TypeOK, Ctrl
  <2>3. CASE pc # "out" /\ held[w] = round
    BY <2>1, <2>2, <2>3 DEF Abstract!SetChanged
  <2>4. CASE ~(pc # "out" /\ held[w] = round)
    BY <2>1, <2>2, <2>4
  <2> QED BY <2>3, <2>4
<1>8. ASSUME NEW w \in Waker, Unpark(w) PROVE UNCHANGED Abstract!vars
  BY <1>8 DEF Unpark
<1> QED
  BY <1>0, <1>1, <1>2, <1>3, <1>4, <1>5, <1>6, <1>7, <1>8 DEF Next, WakerStep

(* ControlBlock::wait returns only when set_changed has been called on the *)
(* same ControlBlock, whichever tokens arrive: the safety part of          *)
(* ImplementsLatch.                                                        *)
THEOREM BehavesAsLatch == Spec => Abstract!Init /\ [][Abstract!Next]_(Abstract!vars)
BY LatchInit, LatchStep, Invariant, PTL DEF Spec
=============================================================================
