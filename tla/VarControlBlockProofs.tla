----------------------- MODULE VarControlBlockProofs -----------------------
(***************************************************************************)
(* Proofs about module VarControlBlock: the list of weak references, with  *)
(* its lazy upgrades and its cleanup, implements WaitList.                 *)
(***************************************************************************)
EXTENDS VarControlBlock, FiniteSetTheorems, TLAPS

-----------------------------------------------------------------------------
(* Types, and that no two waiters share a ControlBlock.                    *)
OwnedOnce ==
  \A u, w \in Waiter : owned[u] = owned[w] /\ owned[u] # None => u = w

IInv == TypeOK /\ OwnedOnce

LEMMA InitInv == Init => IInv
BY DEF Init, IInv, TypeOK, OwnedOnce

(* What the memory of a new ControlBlock is not.                           *)
LEMMA NewIsFresh ==
  ASSUME TypeOK, NEW c \in Ctrl \ Referred
  PROVE  /\ c # None /\ c \notin list
         /\ \A u \in Waiter : owned[u] # c /\ temp[u] # c
         /\ \A k \in Waker : c \notin taken[k] /\ held[k] # c
<1>1. c # None
  BY ConstantsAssumption
<1>2. c \notin list
  BY DEF Referred
<1>3. (\A u \in Waiter : owned[u] # c /\ temp[u] # c) /\ (\A k \in Waker : held[k] # c)
  BY DEF Referred, Alive
<1>4. \A k \in Waker : c \notin taken[k]
  BY DEF Referred
<1> QED BY <1>1, <1>2, <1>3, <1>4

LEMMA StepInv == IInv /\ [Next]_vars => IInv'
<1> SUFFICES ASSUME IInv, [Next]_vars PROVE IInv'
  OBVIOUS
<1> USE ConstantsAssumption DEF IInv, waiters, wakers
<1>0. CASE UNCHANGED vars
  BY <1>0 DEF vars, TypeOK, OwnedOnce
<1>10. ASSUME NEW w \in Waiter, Wait(w) PROVE IInv'
  <2>1. owned[w] \in Ctrl
    BY <1>10 DEF Wait, Goto, TypeOK
  <2> QED BY <1>10, <2>1 DEF Wait, Goto, TypeOK, OwnedOnce
<1>1. ASSUME NEW w \in Waiter, New(w) PROVE IInv'
  <2>1. PICK c \in Ctrl \ Referred : owned' = [owned EXCEPT ![w] = c]
    BY <1>1 DEF New
  <2>2. c # None /\ \A u \in Waiter : owned[u] # c
    BY NewIsFresh
  <2>3. TypeOK'
    BY <1>1, <2>1, <2>2 DEF New, Goto, TypeOK
  <2>4. OwnedOnce'
    BY <2>1, <2>2 DEF TypeOK, OwnedOnce
  <2> QED BY <2>3, <2>4
<1>2. ASSUME NEW w \in Waiter, SetDead(w) PROVE IInv'
  BY <1>2 DEF SetDead, Goto, TypeOK, OwnedOnce
<1>3. ASSUME NEW w \in Waiter, ResetDead(w) PROVE IInv'
  BY <1>3 DEF ResetDead, Goto, TypeOK, OwnedOnce
<1>4. ASSUME NEW w \in Waiter, NEW c \in Ctrl, Retain(w, c) \/ RetainElsewhere(w, c)
      PROVE  IInv'
  <2>1. CASE Retain(w, c)
    BY <2>1 DEF Retain, TypeOK, OwnedOnce
  <2>2. CASE RetainElsewhere(w, c)
    <3>1. pc[w] # "out" /\ pc' \in {pc, [pc EXCEPT ![w] = "left"]}
      BY <2>2 DEF RetainElsewhere, Goto, TypeOK
    <3>2. temp' \in [Waiter -> Ctrl \cup {None}]
      BY <2>2 DEF RetainElsewhere, TypeOK
    <3> QED BY <2>2, <3>1, <3>2 DEF RetainElsewhere, TypeOK, OwnedOnce
  <2> QED BY <1>4, <2>1, <2>2
<1>11. ASSUME NEW w \in Waiter, Retained(w) \/ DropUpgraded(w) PROVE IInv'
  BY <1>11 DEF Retained, DropUpgraded, Goto, TypeOK, OwnedOnce
<1>5. ASSUME NEW w \in Waiter, Drop(w) PROVE IInv'
  BY <1>5 DEF Drop, Goto, TypeOK, OwnedOnce
<1>6. ASSUME NEW k \in Waker, Take(k) PROVE IInv'
  BY <1>6 DEF Take, TypeOK, OwnedOnce
<1>7. ASSUME NEW k \in Waker, NEW c \in Ctrl, Upgrade(k, c) PROVE IInv'
  BY <1>7 DEF Upgrade, TypeOK, OwnedOnce
<1>8. ASSUME NEW k \in Waker, SetChanged(k) PROVE IInv'
  BY <1>8 DEF SetChanged, TypeOK, OwnedOnce
<1>9. ASSUME NEW k \in Waker, NEW c \in Ctrl, UpgradeElsewhere(k, c) PROVE IInv'
  BY <1>9 DEF UpgradeElsewhere, TypeOK, OwnedOnce
<1> QED
  BY <1>0, <1>1, <1>2, <1>3, <1>4, <1>5, <1>6, <1>7, <1>8, <1>9, <1>10, <1>11 DEF Next

LEMMA Invariant == Spec => []IInv
BY InitInv, StepInv, PTL DEF Spec

(* The types, and that a waiter owns a ControlBlock exactly while it is    *)
(* between its creation and its drop (wait_for_change).                    *)
THEOREM TypeCorrect == Spec => []TypeOK
<1>1. IInv => TypeOK
  BY DEF IInv
<1> QED BY Invariant, <1>1, PTL

-----------------------------------------------------------------------------
(* The refinement.  A thread stands in the list through the ControlBlock   *)
(* it owns, so what happens to other references is stuttering.             *)
Inside == {w \in Waiter : pc[w] \notin {"out", "made", "left"}}

Informing == [k \in Waker |-> Of(taken[k] \cup {held[k]})]

LEMMA WaitListInit == Init => Abstract!Init
BY DEF Init, Abstract!Init, Of

LEMMA WaitListStep == IInv /\ [Next]_vars => [Abstract!Next]_(Abstract!vars)
<1> SUFFICES ASSUME IInv, [Next]_vars PROVE [Abstract!Next]_(Abstract!vars)
  OBVIOUS
<1> USE ConstantsAssumption DEF waiters, wakers
<1>T. TypeOK /\ OwnedOnce
  BY DEF IInv
<1>N. /\ Abstract!Next <=>
           \/ \E w \in Waiter : Abstract!Register(w) \/ Abstract!Leave(w)
           \/ \E k \in Waker : \/ Abstract!Take(k)
                               \/ \E w \in Waiter : Abstract!Inform(k, w)
                               \/ \E S \in SUBSET Waiter : Abstract!TakeElsewhere(k, S)
      /\ Abstract!vars = <<Inside, Of(list), Informing>>
  BY DEF Abstract!Next, Abstract!vars, Inside, Informing
<1>0. CASE UNCHANGED vars
  <2>1. UNCHANGED <<Inside, Of(list), Informing>>
    BY <1>0 DEF vars, Inside, Of, Informing
  <2> QED BY <1>N, <2>1 DEF Abstract!vars, Inside, Informing
<1>1. ASSUME NEW w \in Waiter, Wait(w) PROVE Abstract!Register(w)
  <2>1. w \notin Inside /\ Inside' = Inside \cup {w}
    BY <1>1, <1>T DEF Wait, Goto, TypeOK, Inside
  <2>2. owned[w] # None /\ owned' = owned
    BY <1>1, <1>T DEF Wait, Goto, TypeOK
  <2>3. Of(list)' = Of(list) \cup {w}
    BY <1>1, <2>2, <1>T DEF Wait, Of, OwnedOnce
  <2>4. Informing' = Informing
    BY <1>1 DEF Wait, Of, Informing
  <2> QED BY <2>1, <2>3, <2>4 DEF Abstract!Register, Inside, Informing
<1> DEFINE Same == Inside' = Inside /\ Of(list)' = Of(list) /\ Informing' = Informing
<1>11. ASSUME NEW w \in Waiter, New(w) PROVE Same
  <2>1. PICK c \in Ctrl \ Referred : owned' = [owned EXCEPT ![w] = c]
    BY <1>11 DEF New
  <2>2. /\ c # None /\ c \notin list
        /\ \A k \in Waker : c \notin taken[k] /\ held[k] # c
    BY <1>T, NewIsFresh
  <2>3. owned[w] = None
    BY <1>11, <1>T DEF New, Goto, TypeOK
  <2>4. Inside' = Inside
    BY <1>11, <1>T DEF New, Goto, TypeOK, Inside
  <2>5. Of(list)' = Of(list)
    BY <1>11, <2>1, <2>2, <2>3, <1>T DEF New, Of, TypeOK
  <2>6. Informing' = Informing
    <3>1. ASSUME NEW k \in Waker
          PROVE  Of(taken[k] \cup {held[k]})' = Of(taken[k] \cup {held[k]})
      BY <1>11, <2>1, <2>2, <2>3, <1>T DEF New, Of, TypeOK
    <3> QED BY <3>1 DEF Informing
  <2> QED BY <2>4, <2>5, <2>6
<1>2. ASSUME NEW w \in Waiter, SetDead(w) PROVE Same
  BY <1>2, <1>T DEF SetDead, Goto, TypeOK, Inside, Of, Informing
<1>3. ASSUME NEW w \in Waiter, ResetDead(w) PROVE Same
  BY <1>3, <1>T DEF ResetDead, Goto, TypeOK, Inside, Of, Informing
<1>4. ASSUME NEW w \in Waiter, NEW c \in Ctrl, Retain(w, c) PROVE Same
  <2>1. Inside' = Inside /\ Informing' = Informing
    BY <1>4 DEF Retain, Inside, Of, Informing
  <2>2. Of(list)' = Of(list)
    BY <1>4 DEF Retain, Of, Alive
  <2> QED BY <2>1, <2>2
<1>12. ASSUME NEW w \in Waiter, NEW c \in Ctrl, RetainElsewhere(w, c) PROVE Same
  BY <1>12, <1>T DEF RetainElsewhere, Goto, TypeOK, Inside, Of, Informing
<1>13. ASSUME NEW w \in Waiter, Retained(w) \/ DropUpgraded(w) PROVE Same
  BY <1>13, <1>T DEF Retained, DropUpgraded, Goto, TypeOK, Inside, Of, Informing
<1>5. ASSUME NEW w \in Waiter, Drop(w) PROVE Abstract!Leave(w)
  <2>1. Inside' = Inside \ {w}
    BY <1>5, <1>T DEF Drop, Goto, TypeOK, Inside
  <2>2. Of(list)' = Of(list) \ {w}
    BY <1>5, <1>T DEF Drop, Of, TypeOK
  <2>3. Informing' = [k \in Waker |-> Informing[k] \ {w}]
    <3>1. ASSUME NEW k \in Waker
          PROVE  Of(taken[k] \cup {held[k]})' = Of(taken[k] \cup {held[k]}) \ {w}
      BY <1>5, <1>T DEF Drop, Of, TypeOK
    <3> QED BY <3>1 DEF Informing
  <2> QED BY <2>1, <2>2, <2>3 DEF Abstract!Leave, Inside, Informing
<1>6. ASSUME NEW k \in Waker, Take(k) PROVE Abstract!Take(k)
  <2>1. Informing[k] = {} /\ Informing'[k] = Of(list)
    BY <1>6, <1>T DEF Take, TypeOK, Informing, Of
  <2>2. ASSUME NEW j \in Waker, j # k PROVE Informing'[j] = Informing[j]
    BY <1>6, <2>2, <1>T DEF Take, TypeOK, Informing, Of
  <2>3. Informing' = [Informing EXCEPT ![k] = Of(list)]
    BY <2>1, <2>2 DEF Informing
  <2>4. Of(list)' = {} /\ Inside' = Inside
    BY <1>6 DEF Take, Of, Inside
  <2> QED BY <2>1, <2>3, <2>4 DEF Abstract!Take, Inside, Informing
<1>7. ASSUME NEW k \in Waker, NEW c \in Ctrl, Upgrade(k, c) PROVE Same
  <2>1. Inside' = Inside /\ Of(list)' = Of(list)
    BY <1>7 DEF Upgrade, Inside, Of
  <2>2. Informing' = Informing
    <3>1. ASSUME NEW j \in Waker, j # k
          PROVE  Of(taken[j] \cup {held[j]})' = Of(taken[j] \cup {held[j]})
      BY <1>7, <3>1, <1>T DEF Upgrade, TypeOK, Of
    <3>2. Of(taken[k] \cup {held[k]})' = Of(taken[k] \cup {held[k]})
      <4>1. CASE Alive(c)
        BY <1>7, <4>1, <1>T DEF Upgrade, TypeOK, Of
      <4>2. CASE ~Alive(c)
        BY <1>7, <4>2, <1>T DEF Upgrade, TypeOK, Of, Alive
      <4> QED BY <4>1, <4>2
    <3> QED BY <3>1, <3>2 DEF Informing
  <2> QED BY <2>1, <2>2
<1>8. ASSUME NEW k \in Waker, SetChanged(k)
      PROVE  Same \/ \E w \in Waiter : Abstract!Inform(k, w)
  <2>1. Inside' = Inside /\ Of(list)' = Of(list)
    BY <1>8 DEF SetChanged, Inside, Of
  <2>2. ASSUME NEW j \in Waker, j # k PROVE Informing'[j] = Informing[j]
    BY <1>8, <2>2, <1>T DEF SetChanged, TypeOK, Informing, Of
  <2>3. CASE \E w \in Waiter : owned[w] = held[k] /\ held[k] \notin taken[k]
    <3>1. PICK w \in Waiter : owned[w] = held[k] /\ held[k] \notin taken[k]
      BY <2>3
    <3>2. w \in Informing[k] /\ Informing'[k] = Informing[k] \ {w}
      BY <1>8, <3>1, <1>T DEF SetChanged, TypeOK, OwnedOnce, Informing, Of
    <3>3. Informing' = [Informing EXCEPT ![k] = @ \ {w}]
      BY <2>2, <3>2 DEF Informing
    <3> QED BY <2>1, <3>2, <3>3 DEF Abstract!Inform, Inside, Informing
  <2>4. CASE ~\E w \in Waiter : owned[w] = held[k] /\ held[k] \notin taken[k]
    <3>1. Informing'[k] = Informing[k]
      BY <1>8, <2>4, <1>T DEF SetChanged, TypeOK, Informing, Of
    <3>2. Informing' = Informing
      BY <2>2, <3>1 DEF Informing
    <3> QED BY <2>1, <3>2
  <2> QED BY <2>3, <2>4
<1>9. ASSUME NEW k \in Waker, NEW c \in Ctrl, UpgradeElsewhere(k, c)
      PROVE  Same \/ \E S \in SUBSET Waiter : Abstract!TakeElsewhere(k, S)
  <2>1. Inside' = Inside /\ Of(list)' = Of(list)
    BY <1>9 DEF UpgradeElsewhere, Inside, Of
  <2>2. ASSUME NEW j \in Waker, j # k PROVE Informing'[j] = Informing[j]
    BY <1>9, <2>2, <1>T DEF UpgradeElsewhere, TypeOK, Informing, Of
  <2>3. Informing[k] = {}
    BY <1>9 DEF UpgradeElsewhere, Informing, Of
  <2>4. CASE \E w \in Waiter : owned[w] = c
    <3>1. PICK w \in Waiter : owned[w] = c
      BY <2>4
    <3>2. Informing'[k] = {w} /\ {w} \in SUBSET Waiter
      BY <1>9, <3>1, <1>T DEF UpgradeElsewhere, TypeOK, OwnedOnce, Informing, Of
    <3>3. Informing' = [Informing EXCEPT ![k] = {w}]
      BY <2>2, <3>2 DEF Informing
    <3> QED BY <2>1, <2>3, <3>2, <3>3 DEF Abstract!TakeElsewhere, Inside, Informing
  <2>5. CASE ~\E w \in Waiter : owned[w] = c
    <3>1. Informing'[k] = {}
      BY <1>9, <2>5, <1>T DEF UpgradeElsewhere, TypeOK, Informing, Of
    <3>2. Informing' = Informing
      BY <2>2, <2>3, <3>1 DEF Informing
    <3> QED BY <2>1, <3>2
  <2> QED BY <2>4, <2>5
<1>10. Same => UNCHANGED Abstract!vars
  BY DEF Abstract!vars, Inside, Informing
<1> QED
  BY <1>0, <1>1, <1>2, <1>3, <1>4, <1>5, <1>6, <1>7, <1>8, <1>9, <1>10, <1>11,
     <1>12, <1>13, <1>N
  DEF Next

(* A thread that waits stays in the list until it is taken, and whoever    *)
(* takes the list informs every thread in it that has not gone, however    *)
(* the cleanup races with registrations, wake-ups and drops.               *)
THEOREM ListKeepsWaiters == Spec => ImplementsWaitList
BY WaitListInit, WaitListStep, Invariant, PTL DEF Spec, ImplementsWaitList, Abstract!Spec

-----------------------------------------------------------------------------
(* The length of the list.  The counter of set_dead accounts for the       *)
(* references that were pushed since the last cleanup, but for those of    *)
(* waiters that have yet to count theirs, and a cleanup leaves what could  *)
(* be upgraded when it began: what waiters own or have upgraded in another *)
(* cleanup, and what wakers have upgraded.                                 *)
In(place) == {w \in Waiter : pc[w] = place}

(* Once the threshold is passed, whoever counts goes on to clean up.       *)
DeadBounded == dead <= Threshold + Cardinality(In("clean"))

ListCounted ==
  mutex = None =>
    Cardinality(list) + 1 <= dead + Cardinality(In("in"))
                               + 2 * Cardinality(Waiter) + Cardinality(Waker)

(* What a cleanup keeps, or may yet keep.                                  *)
Kept == {c \in list : c \notin unvisited \/ Alive(c)}

KeptFew ==
  mutex # None => Cardinality(Kept) + 1 <= 2 * Cardinality(Waiter) + Cardinality(Waker)

(* Only the waiter that is about to retain holds the mutex between steps.  *)
MutexHeld == \A w \in Waiter : pc[w] = "retain" <=> mutex = w

CountInv ==
  /\ MutexHeld /\ IsFiniteSet(list)
  /\ DeadBounded /\ ListCounted /\ KeptFew /\ ListBounded

LEMMA DisjointSum ==
  ASSUME NEW S, NEW T, IsFiniteSet(S), IsFiniteSet(T), S \cap T = {}
  PROVE  /\ IsFiniteSet(S \cup T)
         /\ Cardinality(S) \in Nat /\ Cardinality(T) \in Nat
         /\ Cardinality(S \cup T) = Cardinality(S) + Cardinality(T)
<1>1. Cardinality(S) \in Nat /\ Cardinality(T) \in Nat
  BY FS_CardinalityType
<1>2. Cardinality(S \cap T) = 0
  BY FS_EmptySet
<1>3. /\ IsFiniteSet(S \cup T)
      /\ Cardinality(S \cup T) = Cardinality(S) + Cardinality(T) - Cardinality(S \cap T)
  BY FS_Union
<1> QED BY <1>1, <1>2, <1>3

LEMMA Counts ==
  /\ Cardinality(Waiter) \in Nat /\ Cardinality(Waker) \in Nat
  /\ \A p : Cardinality(In(p)) \in Nat /\ IsFiniteSet(In(p))
  /\ Cardinality(In("in")) + Cardinality(In("clean")) <= Cardinality(Waiter)
<1>1. Cardinality(Waiter) \in Nat /\ Cardinality(Waker) \in Nat
  BY FiniteAssumption, FS_CardinalityType
<1>2. ASSUME NEW p PROVE Cardinality(In(p)) \in Nat /\ IsFiniteSet(In(p))
  <2>1. In(p) \in SUBSET Waiter
    BY DEF In
  <2> QED BY <2>1, FiniteAssumption, FS_Subset, FS_CardinalityType
<1>3. Cardinality(In("in")) + Cardinality(In("clean")) <= Cardinality(Waiter)
  <2>1. In("in") \cap In("clean") = {} /\ In("in") \cup In("clean") \in SUBSET Waiter
    BY DEF In
  <2>2. Cardinality(In("in") \cup In("clean"))
          = Cardinality(In("in")) + Cardinality(In("clean"))
    BY <1>2, <2>1, DisjointSum
  <2> QED BY <2>1, <2>2, FiniteAssumption, FS_Subset
<1> QED BY <1>1, <1>2, <1>3

LEMMA UnionBound ==
  ASSUME NEW S, NEW T, IsFiniteSet(S), IsFiniteSet(T)
  PROVE  IsFiniteSet(S \cup T) /\ Cardinality(S \cup T) <= Cardinality(S) + Cardinality(T)
<1>1. /\ IsFiniteSet(S \cup T)
      /\ Cardinality(S \cup T) = Cardinality(S) + Cardinality(T) - Cardinality(S \cap T)
  BY FS_Union
<1>2. Cardinality(S) \in Nat /\ Cardinality(T) \in Nat /\ Cardinality(S \cap T) \in Nat
  BY FS_Intersection, FS_CardinalityType
<1> QED BY <1>1, <1>2

(* Each owner owns one ControlBlock.                                       *)
LEMMA OwnedFew ==
  ASSUME NEW S, IsFiniteSet(S), NEW f, NEW L, \A c \in L : \E x \in S : f[x] = c
  PROVE  IsFiniteSet(L) /\ Cardinality(L) <= Cardinality(S)
<1> DEFINE g == [c \in L |-> CHOOSE x \in S : f[x] = c]
<1>1. \A c \in L : g[c] \in S /\ f[g[c]] = c
  OBVIOUS
<1>2. g \in Injection(L, S)
  <2>1. g \in [L -> S]
    BY <1>1
  <2>2. \A a, b \in L : g[a] = g[b] => a = b
    BY <1>1
  <2> QED BY <2>1, <2>2 DEF Injection, IsInjective
<1> QED BY <1>2, FS_Injection

(* A cleanup finds no more references alive than this, as the waiter that  *)
(* begins it has dropped what it had upgraded before.                      *)
LEMMA AliveFew ==
  ASSUME NEW w \in Waiter, temp[w] = None, TypeOK
  PROVE  Cardinality({c \in list : Alive(c)}) + 1
           <= 2 * Cardinality(Waiter) + Cardinality(Waker)
<1> DEFINE byOwner == {c \in list : \E u \in Waiter : owned[u] = c}
           byRetain == {c \in list : \E u \in Waiter \ {w} : temp[u] = c}
           byWaker == {c \in list : \E k \in Waker : held[k] = c}
<1>1. IsFiniteSet(byOwner) /\ Cardinality(byOwner) <= Cardinality(Waiter)
  BY FiniteAssumption, OwnedFew
<1>2. IsFiniteSet(byRetain) /\ Cardinality(byRetain) <= Cardinality(Waiter) - 1
  <2>1. /\ IsFiniteSet(Waiter \ {w})
        /\ Cardinality(Waiter \ {w}) = Cardinality(Waiter) - 1
    BY FiniteAssumption, FS_RemoveElement
  <2>2. \A c \in byRetain : \E u \in Waiter \ {w} : temp[u] = c
    OBVIOUS
  <2> QED BY <2>1, <2>2, OwnedFew
<1>3. IsFiniteSet(byWaker) /\ Cardinality(byWaker) <= Cardinality(Waker)
  BY FiniteAssumption, OwnedFew
<1> DEFINE all == (byOwner \cup byRetain) \cup byWaker
<1>4. {c \in list : Alive(c)} = all
  BY ConstantsAssumption DEF Alive, TypeOK
<1> HIDE DEF byOwner, byRetain, byWaker
<1>5. /\ IsFiniteSet(byOwner \cup byRetain)
      /\ Cardinality(byOwner \cup byRetain) <= Cardinality(byOwner) + Cardinality(byRetain)
  BY <1>1, <1>2, UnionBound
<1>6. Cardinality(all) <= Cardinality(byOwner \cup byRetain) + Cardinality(byWaker)
  BY <1>3, <1>5, UnionBound
<1>7. /\ Cardinality(byOwner) \in Nat /\ Cardinality(byRetain) \in Nat
      /\ Cardinality(byWaker) \in Nat /\ Cardinality(byOwner \cup byRetain) \in Nat
      /\ Cardinality(all) \in Nat
  BY <1>1, <1>2, <1>3, <1>5, FS_Union, FS_CardinalityType
<1>8. Cardinality(Waiter) \in Nat /\ Cardinality(Waker) \in Nat
  BY Counts
<1>9. Cardinality(all) + 1 <= 2 * Cardinality(Waiter) + Cardinality(Waker)
  <2> HIDE DEF all
  <2> QED BY <1>1, <1>2, <1>3, <1>5, <1>6, <1>7, <1>8
<1> QED BY <1>4, <1>9

(* What is dead stays dead as long as a reference to it is in the list, so *)
(* a cleanup keeps nothing that was dead when it began.                    *)
LEMMA DeadForGood ==
  ASSUME TypeOK, [Next]_vars, NEW b \in list, Alive(b)' PROVE Alive(b)
<1> USE ConstantsAssumption DEF waiters, wakers, Alive, TypeOK
<1>0. CASE UNCHANGED vars
  BY <1>0 DEF vars
<1>1. ASSUME NEW w \in Waiter, New(w) PROVE Alive(b)
  <2>1. PICK c \in Ctrl \ Referred : owned' = [owned EXCEPT ![w] = c]
    BY <1>1 DEF New
  <2>2. c # b
    BY NewIsFresh
  <2> QED BY <1>1, <2>1, <2>2 DEF New
<1>2. ASSUME NEW w \in Waiter,
             \/ Wait(w) \/ SetDead(w) \/ ResetDead(w) \/ Retained(w) \/ DropUpgraded(w)
             \/ Drop(w)
      PROVE  Alive(b)
  BY <1>2 DEF Wait, SetDead, ResetDead, Retained, DropUpgraded, Drop
<1>3. ASSUME NEW w \in Waiter, NEW c \in Ctrl, Retain(w, c) \/ RetainElsewhere(w, c)
      PROVE  Alive(b)
  BY <1>3 DEF Retain, RetainElsewhere
<1>4. ASSUME NEW k \in Waker, Take(k) \/ SetChanged(k) PROVE Alive(b)
  BY <1>4 DEF Take, SetChanged
<1>5. ASSUME NEW k \in Waker, NEW c \in Ctrl, Upgrade(k, c) \/ UpgradeElsewhere(k, c)
      PROVE  Alive(b)
  BY <1>5 DEF Upgrade, UpgradeElsewhere
<1> QED BY <1>0, <1>1, <1>2, <1>3, <1>4, <1>5 DEF Next

LEMMA CountStep == IInv /\ CountInv /\ [Next]_vars => CountInv'
<1> SUFFICES ASSUME IInv, CountInv, [Next]_vars PROVE CountInv'
  OBVIOUS
<1>T. TypeOK /\ TypeOK'
  BY StepInv DEF IInv
<1>N. /\ dead \in Nat /\ dead' \in Nat /\ Threshold \in Nat
      /\ Cardinality(list) \in Nat
      /\ Cardinality(In("in")) \in Nat /\ Cardinality(In("clean")) \in Nat
      /\ Cardinality(Waiter) \in Nat /\ Cardinality(Waker) \in Nat
      /\ Cardinality(In("in")) + Cardinality(In("clean")) <= Cardinality(Waiter)
  BY <1>T, ConstantsAssumption, Counts, FS_CardinalityType DEF TypeOK, CountInv
<1> USE DEF CountInv, waiters, wakers
<1>K. ASSUME UNCHANGED mutex, list' \subseteq list, list' \ unvisited' \subseteq Kept
      PROVE  KeptFew'
  <2>1. Kept' \in SUBSET Kept
    BY <1>K, <1>T, DeadForGood DEF Kept
  <2>2. IsFiniteSet(Kept)
    BY FS_Subset DEF Kept
  <2>3. Cardinality(Kept') <= Cardinality(Kept) /\ IsFiniteSet(Kept')
    BY <2>1, <2>2, FS_Subset
  <2>4. Cardinality(Kept') \in Nat /\ Cardinality(Kept) \in Nat
    BY <2>2, <2>3, FS_CardinalityType
  <2> QED BY <1>K, <1>N, <2>3, <2>4 DEF KeptFew
<1>0. CASE UNCHANGED <<list, mutex, unvisited, dead, pc>>
  <2>1. KeptFew'
    BY <1>0, <1>K DEF Kept
  <2> QED BY <1>0, <2>1 DEF MutexHeld, DeadBounded, ListCounted, ListBounded, In
<1>1. ASSUME NEW w \in Waiter, Wait(w) PROVE CountInv'
  <2>1. PICK c : list' = list \cup {c}
    BY <1>1 DEF Wait
  <2>2. /\ In("in")' = In("in") \cup {w} /\ w \notin In("in")
        /\ In("clean")' = In("clean")
    BY <1>1, <1>T DEF Wait, Goto, TypeOK, In
  <2>3. /\ Cardinality(In("in")') = Cardinality(In("in")) + 1
        /\ IsFiniteSet(list') /\ Cardinality(list') \in Nat
        /\ Cardinality(list') <= Cardinality(list) + 1
    <3>1. Cardinality(In("in")') = Cardinality(In("in")) + 1
      BY <2>2, Counts, FS_AddElement
    <3>2. /\ IsFiniteSet(list')
          /\ Cardinality(list') = IF c \in list THEN Cardinality(list) ELSE Cardinality(list) + 1
      BY <2>1, FS_AddElement
    <3> QED BY <3>1, <3>2, FS_CardinalityType, <1>N
  <2>4. Cardinality(In("in")') + Cardinality(In("clean")') <= Cardinality(Waiter)
    <3>1. In("in")' \cap In("clean")' = {} /\ In("in")' \cup In("clean")' \in SUBSET Waiter
      BY DEF In
    <3>2. IsFiniteSet(In("in")') /\ IsFiniteSet(In("clean")')
      BY <2>2, Counts, FS_AddElement
    <3>3. Cardinality(In("in")' \cup In("clean")')
            = Cardinality(In("in")') + Cardinality(In("clean")')
      BY <3>1, <3>2, DisjointSum
    <3> QED BY <3>1, <3>3, FS_Subset, FiniteAssumption
  <2>5. MutexHeld' /\ mutex = None /\ mutex' = None
    BY <1>1, <1>T, ConstantsAssumption DEF Wait, Goto, TypeOK, MutexHeld
  <2>6. DeadBounded' /\ ListCounted'
    BY <1>1, <2>2, <2>3, <2>5, <1>N DEF Wait, DeadBounded, ListCounted
  <2>7. ListBounded'
    BY <1>1, <1>T, <1>N, <2>2, <2>3, <2>4, <2>5, <2>6, ConstantsAssumption
    DEF Wait, DeadBounded, ListCounted, ListBounded, TypeOK
  <2> QED BY <2>3, <2>5, <2>6, <2>7 DEF KeptFew
<1>9. ASSUME NEW w \in Waiter, New(w) PROVE CountInv'
  <2>1. In("in")' = In("in") /\ In("clean")' = In("clean")
    BY <1>9, <1>T DEF New, Goto, TypeOK, In
  <2>2. MutexHeld' /\ mutex' = mutex /\ dead' = dead /\ list' = list
    BY <1>9, <1>T, ConstantsAssumption DEF New, Goto, TypeOK, MutexHeld
  <2>3. KeptFew'
    BY <1>9, <1>K DEF New, Kept
  <2> QED BY <2>1, <2>2, <2>3 DEF DeadBounded, ListCounted, ListBounded
<1>2. ASSUME NEW w \in Waiter, SetDead(w) PROVE CountInv'
  <2>1. In("in")' = In("in") \ {w} /\ w \in In("in")
    BY <1>2, <1>T DEF SetDead, Goto, TypeOK, In
  <2>2. Cardinality(In("in")') = Cardinality(In("in")) - 1
    BY <2>1, Counts, FS_RemoveElement
  <2>3. MutexHeld' /\ list' = list /\ mutex' = mutex /\ dead' = dead + 1
    BY <1>2, <1>T, ConstantsAssumption DEF SetDead, Goto, TypeOK, MutexHeld
  <2>4. DeadBounded'
    <3>1. CASE dead >= Threshold
      <4>1. In("clean")' = In("clean") \cup {w} /\ w \notin In("clean")
        BY <1>2, <1>T, <3>1 DEF SetDead, Goto, TypeOK, In
      <4>2. Cardinality(In("clean")') = Cardinality(In("clean")) + 1
        BY <4>1, Counts, FS_AddElement
      <4> QED BY <2>3, <4>2, <1>N DEF DeadBounded
    <3>2. CASE ~(dead >= Threshold)
      <4>1. In("clean")' = In("clean")
        BY <1>2, <1>T, <3>2 DEF SetDead, Goto, TypeOK, In
      <4> QED BY <2>3, <3>2, <4>1, <1>N DEF DeadBounded
    <3> QED BY <3>1, <3>2
  <2>5. KeptFew'
    BY <1>2, <1>K DEF SetDead, Kept
  <2> QED BY <2>2, <2>3, <2>4, <2>5, <1>N DEF ListCounted, ListBounded
<1>3. ASSUME NEW w \in Waiter, ResetDead(w) PROVE CountInv'
  <2>1. /\ mutex' = w /\ w # None /\ dead' = 0 /\ list' = list
    BY <1>3, ConstantsAssumption DEF ResetDead
  <2>2. MutexHeld'
    BY <1>3, <1>T, ConstantsAssumption DEF ResetDead, Goto, TypeOK, MutexHeld
  <2>3. Cardinality(In("clean")') \in Nat
    <3>1. In("clean")' = In("clean") \ {w}
      BY <1>3, <1>T DEF ResetDead, Goto, TypeOK, In
    <3> QED BY <3>1, Counts, FS_RemoveElement, FS_CardinalityType
  <2>4. KeptFew'
    <3>1. Kept' = {d \in list : Alive(d)}
      BY <1>3 DEF ResetDead, Kept, Alive
    <3>2. temp[w] = None
      BY <1>3 DEF ResetDead, Goto
    <3> QED BY <1>T, <3>1, <3>2, AliveFew DEF KeptFew
  <2> QED BY <2>1, <2>2, <2>3, <2>4, <1>N DEF DeadBounded, ListCounted, ListBounded
<1>4. ASSUME NEW w \in Waiter, NEW c \in Ctrl, Retain(w, c) PROVE CountInv'
  <2>1. list' \in SUBSET list /\ UNCHANGED <<mutex, dead, pc>>
    BY <1>4 DEF Retain
  <2>2. /\ IsFiniteSet(list') /\ Cardinality(list') <= Cardinality(list)
        /\ Cardinality(list') \in Nat
    BY <2>1, FS_Subset, FS_CardinalityType
  <2>3. KeptFew'
    BY <1>4, <1>K DEF Retain, Kept
  <2>4. mutex = w /\ mutex # None
    BY <1>4, ConstantsAssumption DEF Retain, MutexHeld
  <2> QED
    BY <1>N, <2>1, <2>2, <2>3, <2>4
    DEF MutexHeld, DeadBounded, ListCounted, ListBounded, In
<1>10. ASSUME NEW w \in Waiter, Retained(w) PROVE CountInv'
  <2>1. In("in")' = In("in") /\ In("clean")' = In("clean")
    BY <1>10, <1>T DEF Retained, Goto, TypeOK, In
  <2>2. MutexHeld' /\ mutex' = None /\ dead' = dead /\ list' = list
    BY <1>10, <1>T, ConstantsAssumption DEF Retained, Goto, TypeOK, MutexHeld
  <2>3. mutex # None /\ Kept = list
    BY <1>10, ConstantsAssumption DEF Retained, Goto, MutexHeld, Kept
  <2>4. ListCounted' /\ KeptFew'
    BY <1>N, <2>1, <2>2, <2>3 DEF KeptFew, ListCounted
  <2> QED BY <2>1, <2>2, <2>4 DEF DeadBounded, ListBounded
<1>11. ASSUME NEW w \in Waiter, NEW c \in Ctrl, RetainElsewhere(w, c) PROVE CountInv'
  <2>1. In("in")' = In("in") /\ In("clean")' = In("clean")
    BY <1>11, <1>T DEF RetainElsewhere, Goto, TypeOK, In
  <2>2. MutexHeld' /\ UNCHANGED <<list, mutex, unvisited, dead>>
    BY <1>11, <1>T, ConstantsAssumption DEF RetainElsewhere, Goto, TypeOK, MutexHeld
  <2>3. KeptFew'
    BY <2>2, <1>K DEF Kept
  <2> QED BY <2>1, <2>2, <2>3 DEF DeadBounded, ListCounted, ListBounded
<1>12. ASSUME NEW w \in Waiter, DropUpgraded(w) PROVE CountInv'
  BY <1>12, <1>0 DEF DropUpgraded
<1>5. ASSUME NEW w \in Waiter, Drop(w) PROVE CountInv'
  <2>1. In("in")' = In("in") /\ In("clean")' = In("clean")
    BY <1>5, <1>T DEF Drop, Goto, TypeOK, In
  <2>2. MutexHeld' /\ mutex' = mutex /\ dead' = dead /\ list' = list
    BY <1>5, <1>T, ConstantsAssumption DEF Drop, Goto, TypeOK, MutexHeld
  <2>3. KeptFew'
    BY <1>5, <1>K DEF Drop, Kept
  <2> QED BY <2>1, <2>2, <2>3 DEF DeadBounded, ListCounted, ListBounded
<1>6. ASSUME NEW k \in Waker, Take(k) PROVE CountInv'
  <2>1. IsFiniteSet(list') /\ Cardinality(list') = 0
    BY <1>6, FS_EmptySet DEF Take
  <2>2. In("in")' = In("in") /\ In("clean")' = In("clean") /\ MutexHeld'
    BY <1>6 DEF Take, In, MutexHeld
  <2> QED BY <1>6, <2>1, <2>2, <1>N DEF Take, DeadBounded, ListCounted, KeptFew, ListBounded
<1>7. ASSUME NEW k \in Waker, NEW c \in Ctrl,
             Upgrade(k, c) \/ UpgradeElsewhere(k, c)
      PROVE  CountInv'
  BY <1>7, <1>0 DEF Upgrade, UpgradeElsewhere
<1>8. ASSUME NEW k \in Waker, SetChanged(k) PROVE CountInv'
  BY <1>8, <1>0 DEF SetChanged
<1> QED
  BY <1>0, <1>1, <1>2, <1>3, <1>4, <1>5, <1>6, <1>7, <1>8, <1>9, <1>10,
     <1>11, <1>12
  DEF Next, vars

(* "This prevents masses of old StmControlBlock to pile up": however often *)
(* threads wait for the variable and however the increments, the reset and *)
(* the cleanups of set_dead interleave, the list stays as short as         *)
(* ListBounded says, with any number of threads and any threshold.         *)
THEOREM ListStaysShort == Spec => []ListBounded
<1>1. Init => CountInv
  <2> SUFFICES ASSUME Init PROVE CountInv
    OBVIOUS
  <2>1. IsFiniteSet(list) /\ Cardinality(list) = 0 /\ dead = 0
    BY FS_EmptySet DEF Init
  <2>2. MutexHeld
    BY ConstantsAssumption DEF Init, MutexHeld
  <2>3. Cardinality(Waiter) \in Nat /\ Cardinality(Waiter) # 0
    BY FiniteAssumption, ConstantsAssumption, FS_EmptySet, FS_CardinalityType
  <2>4. /\ Cardinality(In("in")) \in Nat /\ Cardinality(In("clean")) \in Nat
        /\ Cardinality(Waker) \in Nat
    BY Counts
  <2>5. DeadBounded /\ KeptFew
    BY <2>1, <2>4, ConstantsAssumption DEF Init, DeadBounded, KeptFew
  <2>6. ListCounted
    BY <2>1, <2>3, <2>4 DEF ListCounted
  <2>7. ListBounded
    BY <2>1, <2>3, <2>4, ConstantsAssumption DEF ListBounded
  <2> QED BY <2>1, <2>2, <2>5, <2>6, <2>7 DEF CountInv
<1>2. IInv /\ CountInv /\ [Next]_vars => CountInv'
  BY CountStep
<1>3. CountInv => ListBounded
  BY DEF CountInv
<1> QED BY <1>1, <1>2, <1>3, Invariant, PTL DEF Spec
=============================================================================
