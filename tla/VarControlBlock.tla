-------------------------- MODULE VarControlBlock --------------------------
(***************************************************************************)
(* The waiting list of one variable: VarControlBlock::wait, wake_all and   *)
(* set_dead of stm-core/src/tvar.rs, with the part of wait_for_change that *)
(* calls them.  The value and its lock are in module Transaction.          *)
(*                                                                         *)
(* The list holds weak references.  Each ControlBlock is pushed once, so   *)
(* the list is a set; the memory of a dead one stays allocated while a     *)
(* weak reference to it exists, so a ControlBlock is new when nothing      *)
(* refers to it.                                                           *)
(***************************************************************************)
EXTENDS Naturals, FiniteSets

CONSTANTS
  Waiter,      \* threads that wait for a change of the variable
  Waker,       \* threads that change it
  Ctrl,        \* where a ControlBlock may be allocated
  None,
  Threshold    \* the 64 of set_dead

ASSUME ConstantsAssumption ==
  /\ None \notin Ctrl \cup Waiter /\ Waiter # {}
  /\ Ctrl \subseteq Nat
  /\ Threshold \in Nat

ASSUME FiniteAssumption == IsFiniteSet(Waiter) /\ IsFiniteSet(Waker)

VARIABLES
  list,       \* waiting_threads
  mutex,      \* the waiter that holds the mutex of the list over several steps
  unvisited,  \* the part of the list that its retain has yet to visit
  dead,       \* dead_threads
  pc,         \* each waiter: out, made, in, clean, retain, drop, or left if it
              \* gives up waiting without having registered here
  owned,      \* owned[w]: the ControlBlock of a waiter
  temp,       \* temp[w]: the ControlBlock that a retain of w has upgraded
  taken,      \* taken[k]: the part of its list that wake_all has yet to visit
  held        \* held[k]: the ControlBlock that wake_all has upgraded

waiters == <<pc, owned, temp>>
wakers == <<taken, held>>
vars == <<list, mutex, unvisited, dead, waiters, wakers>>

Init ==
  /\ list = {}
  /\ mutex = None
  /\ unvisited = {}
  /\ dead = 0
  /\ pc = [w \in Waiter |-> "out"]
  /\ owned = [w \in Waiter |-> None]
  /\ temp = [w \in Waiter |-> None]
  /\ taken = [k \in Waker |-> {}]
  /\ held = [k \in Waker |-> None]

Alive(c) ==
  \/ \E w \in Waiter : owned[w] = c \/ temp[w] = c
  \/ \E k \in Waker : held[k] = c

Referred ==
  {c \in Ctrl : c \in list \/ Alive(c) \/ \E k \in Waker : c \in taken[k]}

(* An upgraded reference is dropped before its holder goes on.             *)
Goto(w, from, to) ==
  /\ pc[w] = from /\ temp[w] = None
  /\ pc' = [pc EXCEPT ![w] = to]

-----------------------------------------------------------------------------
(* wait_for_change makes a ControlBlock, and may register it with other    *)
(* variables first.                                                        *)
New(w) ==
  /\ Goto(w, "out", "made")
  /\ LET free == Ctrl \ Referred
     IN  \E c \in free : (\A b \in free : c <= b) /\ owned' = [owned EXCEPT ![w] = c]
  /\ UNCHANGED <<list, mutex, unvisited, dead, temp, wakers>>

(* VarControlBlock::wait.                                                  *)
Wait(w) ==
  /\ Goto(w, "made", "in") /\ mutex = None
  /\ list' = list \cup {owned[w]}
  /\ UNCHANGED <<mutex, unvisited, dead, owned, temp, wakers>>

(* Bug: nothing is cleaned up as long as nobody changes the variable.      *)
CountDead(w) ==
  /\ Goto(w, "in", "drop")
  /\ dead' = dead + 1
  /\ UNCHANGED <<list, mutex, unvisited, owned, temp, wakers>>

(* wait_for_change is done, woken or not: the counter of set_dead.         *)
SetDead(w) ==
  /\ Goto(w, "in", IF dead >= Threshold THEN "clean" ELSE "drop")
  /\ dead' = dead + 1
  /\ UNCHANGED <<list, mutex, unvisited, owned, temp, wakers>>

(* The cleanup of set_dead: the list is locked, the counter reset, ...     *)
ResetDead(w) ==
  /\ Goto(w, "clean", "retain") /\ mutex = None
  /\ mutex' = w
  /\ unvisited' = list
  /\ dead' = 0
  /\ UNCHANGED <<list, owned, temp, wakers>>

(* Bug: the cleanup drops every weak reference.                            *)
RetainNone(w, c) ==
  /\ pc[w] = "retain" /\ temp[w] = None /\ c \in unvisited
  /\ unvisited' = unvisited \ {c}
  /\ list' = list \ {c}
  /\ UNCHANGED <<mutex, dead, waiters, wakers>>

(* ... and of one reference after the other, those that can no longer be   *)
(* upgraded are removed.                                                   *)
Retain(w, c) ==
  /\ pc[w] = "retain" /\ temp[w] = None /\ c \in unvisited
  /\ unvisited' = unvisited \ {c}
  /\ \/ Alive(c) /\ temp' = [temp EXCEPT ![w] = c] /\ list' = list
     \/ ~Alive(c) /\ temp' = temp /\ list' = list \ {c}
  /\ UNCHANGED <<mutex, dead, pc, owned, wakers>>

Retained(w) ==
  /\ Goto(w, "retain", "drop") /\ unvisited = {}
  /\ mutex' = None
  /\ UNCHANGED <<list, unvisited, dead, owned, temp, wakers>>

(* A retain in set_dead of another variable that the waiter has registered *)
(* with upgrades a reference.  If it has not registered here, it no longer *)
(* will: all the registrations come first.                                 *)
RetainElsewhere(w, c) ==
  /\ Alive(c)
  /\ \/ Goto(w, "made", "left") \/ Goto(w, "left", "left")
     \/ Goto(w, "in", "in") \/ Goto(w, "drop", "drop")
  /\ temp' = [temp EXCEPT ![w] = c]
  /\ UNCHANGED <<list, mutex, unvisited, dead, owned, wakers>>

(* The reference that is_some was asked of is dropped, here or elsewhere.  *)
DropUpgraded(w) ==
  /\ temp[w] # None
  /\ temp' = [temp EXCEPT ![w] = None]
  /\ UNCHANGED <<list, mutex, unvisited, dead, pc, owned, wakers>>

(* Bug: the ControlBlock is leaked.                                        *)
DropLeaks(w) ==
  /\ Goto(w, "drop", "out")
  /\ UNCHANGED <<list, mutex, unvisited, dead, owned, temp, wakers>>

(* The end of wait_for_change drops the ControlBlock, which has not been   *)
(* registered here if another variable was found changed before.           *)
Drop(w) ==
  /\ Goto(w, "drop", "out") \/ Goto(w, "made", "out") \/ Goto(w, "left", "out")
  /\ owned' = [owned EXCEPT ![w] = None]
  /\ UNCHANGED <<list, mutex, unvisited, dead, temp, wakers>>

-----------------------------------------------------------------------------
(* VarControlBlock::wake_all takes the list, ...                           *)
Take(k) ==
  /\ taken[k] = {} /\ held[k] = None /\ mutex = None
  /\ taken' = [taken EXCEPT ![k] = list]
  /\ list' = {}
  /\ UNCHANGED <<mutex, unvisited, dead, waiters, held>>

(* ... upgrades one weak reference after the other, lazily, ...            *)
Upgrade(k, c) ==
  /\ c \in taken[k] /\ held[k] = None
  /\ taken' = [taken EXCEPT ![k] = @ \ {c}]
  /\ held' = [held EXCEPT ![k] = IF Alive(c) THEN c ELSE None]
  /\ UNCHANGED <<list, mutex, unvisited, dead, waiters>>

(* ... and calls set_changed on it (module ControlBlock), then drops it.   *)
SetChanged(k) ==
  /\ held[k] # None
  /\ held' = [held EXCEPT ![k] = None]
  /\ UNCHANGED <<list, mutex, unvisited, dead, waiters, taken>>

(* wake_all of another variable with which the waiter has registered.      *)
UpgradeElsewhere(k, c) ==
  /\ taken[k] = {} /\ held[k] = None /\ Alive(c)
  /\ held' = [held EXCEPT ![k] = c]
  /\ UNCHANGED <<list, mutex, unvisited, dead, waiters, taken>>

-----------------------------------------------------------------------------
Next ==
  \/ \E w \in Waiter : \/ New(w) \/ Wait(w) \/ SetDead(w) \/ ResetDead(w)
                       \/ Retained(w) \/ DropUpgraded(w) \/ Drop(w)
                       \/ \E c \in Ctrl : Retain(w, c) \/ RetainElsewhere(w, c)
  \/ \E k \in Waker : \/ Take(k) \/ SetChanged(k)
                      \/ \E c \in Ctrl : Upgrade(k, c) \/ UpgradeElsewhere(k, c)

Spec == Init /\ [][Next]_vars

-----------------------------------------------------------------------------
TypeOK ==
  /\ list \subseteq Ctrl
  /\ mutex \in Waiter \cup {None}
  /\ unvisited \subseteq Ctrl
  /\ dead \in Nat
  /\ pc \in [Waiter -> {"out", "made", "in", "clean", "retain", "drop", "left"}]
  /\ owned \in [Waiter -> Ctrl \cup {None}]
  /\ temp \in [Waiter -> Ctrl \cup {None}]
  /\ taken \in [Waker -> SUBSET Ctrl]
  /\ held \in [Waker -> Ctrl \cup {None}]
  /\ \A w \in Waiter : owned[w] = None <=> pc[w] = "out"

(* "This prevents masses of old StmControlBlock to pile up when a variable *)
(* is often read but rarely written": the counter is not kept under the    *)
(* mutex, loses what was counted before a reset, and counts ControlBlocks  *)
(* that are still alive when the list is cleaned, be it because a cleanup  *)
(* of another list has just upgraded them.  The list exceeds the threshold *)
(* by three references for each waiter and one for each waker, less one,   *)
(* and by no more.                                                         *)
ListBounded ==
  Cardinality(list) + 1 <= Threshold + 3 * Cardinality(Waiter) + Cardinality(Waker)

(* A waiter that is inside and registered.                                 *)
Of(S) == {w \in Waiter : owned[w] # None /\ owned[w] \in S}

Abstract == INSTANCE WaitList WITH
  inside <- {w \in Waiter : pc[w] \notin {"out", "made", "left"}},
  waiting <- Of(list),
  waking <- [k \in Waker |-> Of(taken[k] \cup {held[k]})]

(* However the cleanup races with registrations, wake-ups and drops, a     *)
(* thread that waits is in the list or about to be informed.               *)
ImplementsWaitList == Abstract!Spec
=============================================================================
