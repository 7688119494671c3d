---------------------------- MODULE AtomicMemory ----------------------------
(***************************************************************************)
(* What the library promises: "the writes are commited as a single atomic  *)
(* operation" (stm-core/src/lib.rs).  A transaction ends with a commit or  *)
(* is abandoned.  It commits in one step, also if it has only read: then   *)
(* everything its closure was shown is equal to memory, and everything it  *)
(* wrote becomes memory.  Memory changes in no other way but by the one    *)
(* store of a write_atomic.  Committed transactions are therefore          *)
(* serialisable, in the order of their Commit steps.                       *)
(***************************************************************************)
CONSTANTS Thread, Var, Addr, Null, InitValue

VARIABLES
  mem,        \* mem[v]: the committed value
  stage,      \* stage[t]: "out" of the library, "running" a transaction that
              \* has not committed, "committed", or in write_atomic, "setting"
  target,     \* target[t]: the variable that write_atomic is to set
  obs,        \* obs[t][v]: the value of v shown to the closure of t, or Null
  intent      \* intent[t][v]: the value that the closure wants v to get, or Null

vars == <<mem, stage, target, obs, intent>>

EmptyView == [v \in Var |-> Null]

Init ==
  /\ mem = InitValue
  /\ stage = [t \in Thread |-> "out"]
  /\ target = [t \in Thread |-> {}]
  /\ obs = [t \in Thread |-> EmptyView]
  /\ intent = [t \in Thread |-> EmptyView]

Enter(t, from, to) == stage[t] = from /\ stage' = [stage EXCEPT ![t] = to]

Forget(t) ==
  /\ obs' = [obs EXCEPT ![t] = EmptyView]
  /\ intent' = [intent EXCEPT ![t] = EmptyView]

Begin(t) ==
  /\ Enter(t, "out", "running")
  /\ UNCHANGED <<mem, target, obs, intent>>

(* A closure reads, writes, backtracks or starts again: only its own view  *)
(* changes.  What it is shown on the way may be out of date.               *)
Work(t) ==
  /\ Enter(t, "running", "running")
  /\ \A u \in Thread \ {t} : obs'[u] = obs[u] /\ intent'[u] = intent[u]
  /\ UNCHANGED <<mem, target>>

Abandon(t) ==
  /\ Enter(t, "running", "out")
  /\ Forget(t)
  /\ UNCHANGED <<mem, target>>

Commit(t) ==
  /\ Enter(t, "running", "committed")
  /\ \A v \in Var : obs[t][v] # Null => obs[t][v] = mem[v]
  /\ mem' = [v \in Var |-> IF intent[t][v] # Null THEN intent[t][v] ELSE mem[v]]
  /\ Forget(t)
  /\ UNCHANGED target

(* The call that has committed returns.                                    *)
Return(t) ==
  /\ Enter(t, "committed", "out")
  /\ Forget(t)
  /\ UNCHANGED <<mem, target>>

(* write_atomic is called, and takes effect: the value is a new one.       *)
Call(t, v) ==
  /\ Enter(t, "out", "setting")
  /\ target' = [target EXCEPT ![t] = {v}]
  /\ UNCHANGED <<mem, obs, intent>>

Set(t) ==
  /\ Enter(t, "setting", "out")
  /\ \E v \in target[t] : \E a \in Addr \ {mem[v]} : mem' = [mem EXCEPT ![v] = a]
  /\ target' = [target EXCEPT ![t] = {}]
  /\ UNCHANGED <<obs, intent>>

Next ==
  \E t \in Thread :
    \/ Begin(t) \/ Work(t) \/ Abandon(t) \/ Commit(t) \/ Return(t) \/ Set(t)
    \/ \E v \in Var : Call(t, v)

Spec == Init /\ [][Next]_vars
=============================================================================
