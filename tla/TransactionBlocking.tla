------------------------ MODULE TransactionBlocking ------------------------
(***************************************************************************)
(* Blocking: the proofs that a thread outside of the library has left      *)
(* nothing in it, and that no wake-up is lost between wait_for_change and  *)
(* commit.                                                                 *)
(***************************************************************************)
EXTENDS TransactionAtomicity, TransactionCells

-----------------------------------------------------------------------------
(* LeavesNoTrace made inductive.  The threads outside of the library, and  *)
(* those whose ControlBlock may be upgraded.                               *)
Outside == {"idle", "write_atomic"}

Asleep == {"wait", "check", "park", "dead"}

TraceOK(t) ==
  /\ running[t] <=> pc[t] \notin Outside
  /\ pc[t] \in Outside => log[t] = EmptyLog /\ frames[t] = <<>>
  /\ pc[t] \notin Asleep =>
       /\ reads[t] = {}
       /\ \A v \in Var : t \notin waiting[v]
       /\ \A u \in Thread : t \notin waking[u]
  /\ waking[t] # {} => pc[t] = "wake"

TraceInv == \A t \in Thread : TraceOK(t)

(* A step of s inside of the library that neither registers nor wakes.     *)
LEMMA TraceUntouched ==
  ASSUME TypeOK, TraceInv, NEW s \in Thread,
         UNCHANGED <<running, waiting, reads, waking>>,
         \A t \in Thread \ {s} :
           pc'[t] = pc[t] /\ log'[t] = log[t] /\ frames'[t] = frames[t],
         pc[s] \notin Outside, pc'[s] \notin Outside,
         pc[s] \in Asleep => pc'[s] \in Asleep,
         pc[s] # "wake"
  PROVE  TraceInv'
<1> SUFFICES ASSUME NEW t \in Thread PROVE TraceOK(t)'
  BY DEF TraceInv
<1>1. TraceOK(t)
  BY DEF TraceInv
<1>2. CASE t = s
  BY <1>1, <1>2 DEF TraceOK
<1>3. CASE t # s
  BY <1>1, <1>3 DEF TraceOK
<1> QED BY <1>2, <1>3

LEMMA TraceStep == TypeOK /\ TraceInv /\ [Next]_vars => TraceInv'
<1> SUFFICES ASSUME TypeOK, TraceInv, [Next]_vars PROVE TraceInv'
  OBVIOUS
<1> USE DEF Goto, shared, control, local, blocking, history, Outside, Asleep
<1>0. CASE UNCHANGED vars
  BY <1>0 DEF vars, TraceInv, TraceOK
<1>1. ASSUME NEW s \in Thread,
             \/ OrSecond(s) \/ OrBlocked(s) \/ ReleaseReads(s) \/ StartWaking(s)
             \/ WaitForChange(s) \/ Unblocked(s)
      PROVE  TraceInv'
  <2>1. /\ UNCHANGED <<running, waiting, reads, waking>>
        /\ \A t \in Thread \ {s} :
             pc'[t] = pc[t] /\ log'[t] = log[t] /\ frames'[t] = frames[t]
        /\ pc[s] \notin {"idle", "write_atomic", "wake"}
        /\ pc'[s] \notin {"idle", "write_atomic"}
        /\ pc[s] \in Asleep => pc'[s] \in Asleep
    BY <1>1
    DEF OrSecond, OrBlocked, ReleaseReads, StartWaking, WaitForChange, Unblocked, TypeOK
  <2> QED BY <2>1, TraceUntouched
<1>2. ASSUME NEW s \in Thread,
             \/ Or(s) \/ OrOk(s) \/ Retry(s) \/ Failure(s) \/ Commit(s)
             \/ \E v \in Var : ReadShared(s, v) \/ ReadLogged(s, v) \/ Write(s, v)
      PROVE  TraceInv'
  <2>1. /\ UNCHANGED <<running, waiting, reads, waking>>
        /\ \A t \in Thread \ {s} :
             pc'[t] = pc[t] /\ log'[t] = log[t] /\ frames'[t] = frames[t]
        /\ pc[s] = "run" /\ pc'[s] \in {"run", "retry", "lock"}
    BY <1>2
    DEF Or, OrOk, Retry, Failure, Commit, ReadShared, ReadLogged, Write, Clear, TypeOK
  <2> QED BY <2>1, TraceUntouched
<1>3. ASSUME NEW s \in Thread, NEW v \in Var,
             \/ SkipObsolete(s, v) \/ LockRead(s, v) \/ AnnounceWrite(s, v)
             \/ LockWrite(s, v) \/ WriteBack(s, v)
      PROVE  TraceInv'
  <2>1. CASE Inconsistent(s) /\ pc[s] = "lock"
    <3>1. /\ UNCHANGED <<running, waiting, reads, waking>>
          /\ \A t \in Thread \ {s} :
               pc'[t] = pc[t] /\ log'[t] = log[t] /\ frames'[t] = frames[t]
          /\ pc[s] = "lock" /\ pc'[s] = "run"
      BY <2>1 DEF Inconsistent, Clear, TypeOK
    <3> QED BY <3>1, TraceUntouched
  <2>2. CASE UNCHANGED <<control, log, frames, blocking>> /\ pc[s] \in {"lock", "writeback"}
    BY <2>2, TraceUntouched
  <2> QED
    BY <1>3, <2>1, <2>2 DEF SkipObsolete, LockRead, AnnounceWrite, LockWrite, WriteBack
<1>4. ASSUME NEW s \in Thread, NEW v \in Var,
             AnnounceWriteAtomic(s, v) \/ WriteAtomic(s, v)
      PROVE  TraceInv'
  <2>1. /\ UNCHANGED <<running, waiting, reads, waking, log, frames>>
        /\ \A t \in Thread \ {s} : pc'[t] = pc[t]
        /\ pc[s] \in Outside /\ pc'[s] \in Outside
    BY <1>4 DEF AnnounceWriteAtomic, WriteAtomic, TypeOK
  <2> QED BY <2>1 DEF TraceInv, TraceOK
<1>5. ASSUME NEW s \in Thread, Begin(s) PROVE TraceInv'
  BY <1>5 DEF Begin, TypeOK, TraceInv, TraceOK
<1>6. ASSUME NEW s \in Thread, Abort(s) \/ Panic(s) \/ CommitDone(s) PROVE TraceInv'
  <2>1. /\ pc' = [pc EXCEPT ![s] = "idle"] /\ DropGuard(s) /\ Clear(s)
        /\ UNCHANGED <<waiting, reads, waking>>
        /\ pc[s] \notin Asleep /\ (pc[s] = "wake" => waking[s] = {})
    BY <1>6 DEF Abort, Panic, CommitDone
  <2> QED BY <2>1 DEF Clear, DropGuard, TypeOK, TraceInv, TraceOK
<1>7. ASSUME NEW s \in Thread, WaitDone(s) PROVE TraceInv'
  <2> SUFFICES ASSUME NEW t \in Thread PROVE TraceOK(t)'
    BY DEF TraceInv
  <2>1. TraceOK(t)
    BY DEF TraceInv
  <2>2. CASE t = s
    BY <1>7, <2>1, <2>2 DEF WaitDone, Clear, TypeOK, TraceOK
  <2>3. CASE t # s
    BY <1>7, <2>1, <2>3 DEF WaitDone, Clear, TypeOK, TraceOK
  <2> QED BY <2>2, <2>3
<1>8. ASSUME NEW s \in Thread, NEW v \in Var, Register(s, v) \/ Compare(s, v)
      PROVE  TraceInv'
  <2>1. /\ UNCHANGED <<running, waking, frames>>
        /\ \A t \in Thread \ {s} :
             /\ pc'[t] = pc[t] /\ log'[t] = log[t] /\ reads'[t] = reads[t]
             /\ \A w \in Var : t \in waiting'[w] => t \in waiting[w]
        /\ pc[s] \in Asleep /\ pc'[s] \in Asleep
    <3>1. CASE Register(s, v)
      BY <3>1 DEF Register, TypeOK
    <3>2. CASE Compare(s, v)
      <4>1. pc[s] = "check" /\ pc'[s] \in {"wait", "park", "dead"}
        BY <3>2 DEF Compare, TypeOK
      <4> QED BY <3>2, <4>1 DEF Compare, TypeOK
    <3> QED BY <1>8, <3>1, <3>2
  <2> QED BY <2>1 DEF TraceInv, TraceOK
<1>9. ASSUME NEW s \in Thread, NEW v \in Var, TakeWaiting(s, v) PROVE TraceInv'
  <2>1. /\ UNCHANGED <<running, pc, log, frames, reads>>
        /\ pc[s] = "wake"
        /\ \A w \in Var : waiting'[w] \subseteq waiting[w]
        /\ waking' = [waking EXCEPT ![s] = waiting[v]]
    BY <1>9 DEF TakeWaiting, TypeOK
  <2> QED BY <2>1 DEF TypeOK, TraceInv, TraceOK
<1>10. ASSUME NEW s \in Thread, NEW u \in Thread, SetChanged(s, u) PROVE TraceInv'
  <2>1. /\ UNCHANGED <<running, pc, log, frames, reads, waiting>>
        /\ pc[s] = "wake"
        /\ waking' = [waking EXCEPT ![s] = @ \ {u}]
    BY <1>10 DEF SetChanged
  <2> QED BY <2>1 DEF TypeOK, TraceInv, TraceOK
<1> QED
  BY <1>0, <1>1, <1>2, <1>3, <1>4, <1>5, <1>6, <1>7, <1>8, <1>9, <1>10
  DEF Next, LibraryStep, UserStep

LEMMA Traces == Spec => [](TypeOK /\ TwoPhase /\ CellsInv /\ TraceInv)
<1>1. Init => TraceInv
  BY DEF Init, TraceInv, TraceOK, Outside, Asleep, EmptyLog
<1>2. TypeOK /\ TraceInv /\ [Next]_vars => TraceInv'
  BY TraceStep
<1> QED BY <1>1, <1>2, Identities, PTL DEF Spec

LEMMA OutsideLeavesNoTrace == TypeOK /\ TwoPhase /\ TraceInv => LeavesNoTrace
<1> SUFFICES ASSUME TypeOK, TwoPhase, TraceInv, NEW t \in Thread, pc[t] = "idle"
             PROVE  /\ ~running[t] /\ log[t] = EmptyLog /\ frames[t] = <<>>
                    /\ \A v \in Var :
                         writer[v] # t /\ t \notin readers[v] /\ t \notin waiting[v]
                    /\ \A u \in Thread : t \notin waking[u]
  BY DEF LeavesNoTrace
<1>1. TraceOK(t)
  BY DEF TraceInv
<1>2. ASSUME NEW v \in Var PROVE writer[v] # t /\ t \notin readers[v]
  <2>1. LockOK(t, v)
    BY DEF TwoPhase
  <2> QED BY <2>1 DEF LockOK, Visiting, Passed, Storing
<1> QED BY <1>1, <1>2 DEF TraceOK, Outside, Asleep

(* However a transaction ends - commit, abort, a panic of its closure -    *)
(* its thread leaves with no lock, no registration and no guard, so it can *)
(* always begin another (with_control and the drop of its locals).         *)
THEOREM NothingIsLeft == Spec => []LeavesNoTrace
BY OutsideLeavesNoTrace, Traces, PTL

-----------------------------------------------------------------------------
(* Only threads that Use says so call write_atomic.                        *)
SetterInv == \A t \in Thread : pc[t] = "write_atomic" => t \in Setters

LEMMA SetterStep == TypeOK /\ SetterInv /\ [Next]_vars => SetterInv'
<1> SUFFICES ASSUME TypeOK, SetterInv, [Next]_vars PROVE SetterInv'
  OBVIOUS
<1> USE DEF SetterInv, Setters, TypeOK, Goto, shared, control, local, blocking, history
<1>0. CASE UNCHANGED vars
  BY <1>0 DEF vars
<1>1. ASSUME NEW s \in Thread, NEW v \in Var, AnnounceWriteAtomic(s, v) PROVE SetterInv'
  BY <1>1 DEF AnnounceWriteAtomic
<1>2. ASSUME NEW s \in Thread, NEW v \in Var,
             LockRead(s, v) \/ LockWrite(s, v)
      PROVE  SetterInv'
  <2>1. pc' = [pc EXCEPT ![s] = "run"] \/ pc' = pc
    BY <1>2 DEF LockRead, LockWrite, Inconsistent
  <2> QED BY <2>1
<1>3. ASSUME NEW s \in Thread, NEW v \in Var,
             \/ SkipObsolete(s, v) \/ AnnounceWrite(s, v) \/ WriteBack(s, v)
             \/ TakeWaiting(s, v) \/ ReadShared(s, v) \/ ReadLogged(s, v) \/ Write(s, v)
      PROVE  SetterInv'
  <2>1. pc' = pc
    BY <1>3
    DEF SkipObsolete, AnnounceWrite, WriteBack, TakeWaiting, ReadShared, ReadLogged, Write
  <2> QED BY <2>1
<1>4. ASSUME NEW s \in Thread, NEW v \in Var,
             Register(s, v) \/ Compare(s, v) \/ WriteAtomic(s, v)
      PROVE  SetterInv'
  BY <1>4 DEF Register, Compare, WriteAtomic
<1>5. ASSUME NEW s \in Thread,
             \/ OrSecond(s) \/ OrBlocked(s) \/ ReleaseReads(s) \/ StartWaking(s)
             \/ CommitDone(s) \/ WaitForChange(s) \/ Unblocked(s) \/ WaitDone(s)
      PROVE  SetterInv'
  <2>1. PICK c \in PC \ {"write_atomic"} : pc' = [pc EXCEPT ![s] = c]
    BY <1>5
    DEF PC, OrSecond, OrBlocked, ReleaseReads, StartWaking, CommitDone, WaitForChange,
        Unblocked, WaitDone
  <2> QED BY <2>1
<1>6. ASSUME NEW s \in Thread,
             \/ Begin(s) \/ Or(s) \/ OrOk(s) \/ Retry(s) \/ Abort(s) \/ Failure(s)
             \/ Panic(s) \/ Commit(s)
      PROVE  SetterInv'
  <2>1. PICK c \in PC \ {"write_atomic"} : pc' = [pc EXCEPT ![s] = c]
    BY <1>6 DEF PC, Begin, Or, OrOk, Retry, Abort, Failure, Panic, Commit
  <2> QED BY <2>1
<1>7. ASSUME NEW s \in Thread, NEW u \in Thread, SetChanged(s, u) PROVE SetterInv'
  BY <1>7 DEF SetChanged
<1> QED
  BY <1>0, <1>1, <1>2, <1>3, <1>4, <1>5, <1>6, <1>7 DEF Next, LibraryStep, UserStep

-----------------------------------------------------------------------------
(* NoLostWakeUp made inductive: from the moment a thread has compared a    *)
(* variable, or is about to, it is registered with it or has been taken    *)
(* from its list by someone who will inform it ...                         *)
Waits(t) == pc[t] \in {"wait", "check", "park"} /\ blocked[t]

Reachable(t, v) == t \in waiting[v] \/ \E u \in Thread : t \in waking[u]

(* ... and if the variable changed since, that someone has begun.          *)
BlockingOK(t, v) ==
  /\ Waits(t) /\ Registered(t, v) => Reachable(t, v)
  /\ Waits(t) /\ v \in reads[t] /\ Outdated(t, v) => WakeUpPending(t, v)

BlockingInv == \A t \in Thread, v \in Var : BlockingOK(t, v)

(* A step of s that touches neither the lists of waiting threads nor a     *)
(* thread that waits or wakes.                                             *)
LEMMA BlockingUntouched ==
  ASSUME TypeOK, BlockingInv, NEW s \in Thread,
         UNCHANGED blocking,
         \A t \in Thread \ {s} :
           /\ pc'[t] = pc[t] /\ todo'[t] = todo[t] /\ log'[t] = log[t]
           /\ stale'[t] = stale[t],
         pc[s] \notin {"writeback", "wake"},
         pc'[s] \notin {"wait", "check", "park"}
  PROVE  BlockingInv'
<1> SUFFICES ASSUME NEW t \in Thread, NEW v \in Var, Waits(t)' PROVE BlockingOK(t, v)'
  BY DEF BlockingInv, BlockingOK
<1>1. t # s /\ BlockingOK(t, v)
  BY DEF Waits, BlockingInv
<1>2. WakeUpPending(t, v) => WakeUpPending(t, v)'
  BY DEF WakeUpPending, blocking
<1> QED
  BY <1>1, <1>2 DEF BlockingOK, Waits, Registered, Reachable, IsNext, Outdated, blocking

LEMMA BlockingStep ==
  TypeOK /\ TwoPhase /\ CellsInv /\ TraceInv /\ SetterInv /\ Setters = {} /\ BlockingInv
    /\ [Next]_vars => BlockingInv'
<1> SUFFICES ASSUME TypeOK, TwoPhase, CellsInv, TraceInv, SetterInv, Setters = {},
                    BlockingInv, [Next]_vars
             PROVE  BlockingInv'
  OBVIOUS
<1> USE DEF Goto, shared, control, local, history, Outdated
<1>0. CASE UNCHANGED vars
  BY <1>0
  DEF vars, blocking, BlockingInv, BlockingOK, Waits, Registered, Reachable, IsNext,
      WakeUpPending
<1>1. ASSUME NEW s \in Thread,
             \/ OrSecond(s) \/ OrBlocked(s) \/ ReleaseReads(s) \/ Unblocked(s)
             \/ Begin(s) \/ Or(s) \/ OrOk(s) \/ Retry(s) \/ Commit(s)
      PROVE  BlockingInv'
  <2>1. /\ UNCHANGED blocking
        /\ \A t \in Thread \ {s} :
             /\ pc'[t] = pc[t] /\ todo'[t] = todo[t] /\ log'[t] = log[t]
             /\ stale'[t] = stale[t]
        /\ pc[s] \notin {"writeback", "wake"}
        /\ pc'[s] \notin {"wait", "check", "park"}
    BY <1>1
    DEF OrSecond, OrBlocked, ReleaseReads, Unblocked, Begin, Or, OrOk, Retry, Commit, TypeOK,
        blocking
  <2> QED BY <2>1, BlockingUntouched
<1>2. ASSUME NEW s \in Thread,
             \/ Abort(s) \/ Failure(s) \/ Panic(s) \/ (Inconsistent(s) /\ pc[s] = "lock")
      PROVE  BlockingInv'
  <2>1. /\ UNCHANGED blocking
        /\ \A t \in Thread \ {s} :
             /\ pc'[t] = pc[t] /\ todo'[t] = todo[t] /\ log'[t] = log[t]
             /\ stale'[t] = stale[t]
        /\ pc[s] \notin {"writeback", "wake"}
        /\ pc'[s] \in {"idle", "run"}
    BY <1>2 DEF Abort, Failure, Panic, Inconsistent, Clear, TypeOK
  <2> QED BY <2>1, BlockingUntouched
<1>3. ASSUME NEW s \in Thread, NEW v \in Var,
             \/ SkipObsolete(s, v) \/ LockRead(s, v) \/ AnnounceWrite(s, v) \/ LockWrite(s, v)
             \/ AnnounceWriteAtomic(s, v)
             \/ ReadShared(s, v) \/ ReadLogged(s, v) \/ Write(s, v)
      PROVE  BlockingInv'
  <2>1. CASE Inconsistent(s) /\ pc[s] = "lock"
    BY <2>1, <1>2
  <2>2. CASE ~(Inconsistent(s) /\ pc[s] = "lock")
    <3>1. /\ UNCHANGED blocking
          /\ \A t \in Thread \ {s} :
               /\ pc'[t] = pc[t] /\ todo'[t] = todo[t] /\ log'[t] = log[t]
               /\ stale'[t] = stale[t]
          /\ pc[s] \in {"idle", "lock", "run"}
          /\ pc'[s] \notin {"wait", "check", "park"}
      BY <1>3, <2>2
      DEF SkipObsolete, LockRead, AnnounceWrite, LockWrite, AnnounceWriteAtomic, ReadShared,
          ReadLogged, Write, Visited, TypeOK
    <3> QED BY <3>1, BlockingUntouched
  <2> QED BY <2>1, <2>2
<1>4. ASSUME NEW s \in Thread, NEW v \in Var, WriteAtomic(s, v) PROVE BlockingInv'
  BY <1>4 DEF WriteAtomic, SetterInv
<1>5. ASSUME NEW s \in Thread, CommitDone(s) PROVE BlockingInv'
  <2> SUFFICES ASSUME NEW t \in Thread, NEW v \in Var, Waits(t)' PROVE BlockingOK(t, v)'
    BY DEF BlockingInv, BlockingOK
  <2>1. t # s /\ BlockingOK(t, v)
    BY <1>5 DEF CommitDone, TypeOK, Waits, BlockingInv
  <2>2. /\ UNCHANGED blocking
        /\ todo[s] = {} /\ waking[s] = {} /\ pc[s] = "wake"
        /\ \A u \in Thread \ {s} :
             /\ pc'[u] = pc[u] /\ todo'[u] = todo[u] /\ log'[u] = log[u]
             /\ stale'[u] = stale[u]
    BY <1>5 DEF CommitDone, Clear, TypeOK
  <2>3. WakeUpPending(t, v) => WakeUpPending(t, v)'
    BY <2>2 DEF WakeUpPending, blocking
  <2> QED
    BY <2>1, <2>2, <2>3 DEF BlockingOK, Waits, Registered, Reachable, IsNext, blocking
<1>6. ASSUME NEW s \in Thread, NEW w \in Var, WriteBack(s, w) PROVE BlockingInv'
  <2> SUFFICES ASSUME NEW t \in Thread, NEW v \in Var, Waits(t)' PROVE BlockingOK(t, v)'
    BY DEF BlockingInv, BlockingOK
  <2>1. /\ UNCHANGED <<blocking, pc, log>>
        /\ pc[s] = "writeback"
        /\ \A u \in Thread \ {s} : todo'[u] = todo[u]
        /\ v # w => stale'[t][v] = stale[t][v]
    BY <1>6 DEF WriteBack, Visited, Store, TypeOK, Loads
  <2>2. BlockingOK(t, v) /\ t # s
    BY <2>1 DEF BlockingInv, Waits
  <2>3. IsWrite(log[s][w])
    BY <1>6 DEF WriteBack, TwoPhase, LockOK, Storing, IsNext
  <2>4. v = w => WakeUpPending(t, v)'
    BY <2>1, <2>3 DEF WakeUpPending
  <2>5. WakeUpPending(t, v) => WakeUpPending(t, v)'
    BY <2>1 DEF WakeUpPending, blocking
  <2> QED
    BY <2>1, <2>2, <2>4, <2>5
    DEF BlockingOK, Waits, Registered, Reachable, IsNext, blocking
<1>7. ASSUME NEW s \in Thread, StartWaking(s) PROVE BlockingInv'
  <2> SUFFICES ASSUME NEW t \in Thread, NEW v \in Var, Waits(t)' PROVE BlockingOK(t, v)'
    BY DEF BlockingInv, BlockingOK
  <2>1. /\ UNCHANGED <<blocking, log, stale>>
        /\ pc[s] = "writeback" /\ pc'[s] = "wake" /\ todo'[s] = Written(log[s])
        /\ \A u \in Thread \ {s} : pc'[u] = pc[u] /\ todo'[u] = todo[u]
    BY <1>7 DEF StartWaking, TypeOK
  <2>2. BlockingOK(t, v) /\ t # s
    BY <2>1 DEF BlockingInv, Waits
  <2>3. Registered(t, v)' => Registered(t, v)
    BY <2>1, <2>2 DEF Registered, IsNext, blocking
  <2>4. Waits(t) /\ Reachable(t, v)' = Reachable(t, v)
    BY <2>1, <2>2 DEF Waits, Reachable, blocking
  <2>5. ASSUME v \in reads'[t], Outdated(t, v)' PROVE WakeUpPending(t, v)'
    <3>1. WakeUpPending(t, v) /\ Reachable(t, v)
      BY <2>1, <2>2, <2>4, <2>5 DEF BlockingOK, Registered, blocking
    <3>2. CASE IsWrite(log[s][v])
      <4>1. CASE t \in waiting[v]
        BY <2>1, <3>2, <4>1 DEF WakeUpPending, Written, blocking
      <4>2. CASE \E u \in Thread : t \in waking[u]
        <5>1. PICK u \in Thread : t \in waking[u]
          BY <4>2
        <5>2. pc[u] = "wake"
          BY <5>1 DEF TraceInv, TraceOK
        <5> QED BY <2>1, <5>1, <5>2 DEF WakeUpPending, blocking
      <4> QED BY <3>1, <4>1, <4>2 DEF Reachable
    <3>3. CASE ~IsWrite(log[s][v])
      BY <2>1, <3>1, <3>3 DEF WakeUpPending, blocking
    <3> QED BY <3>2, <3>3
  <2> QED BY <2>2, <2>3, <2>4, <2>5 DEF BlockingOK
<1>8. ASSUME NEW s \in Thread, NEW w \in Var, TakeWaiting(s, w) PROVE BlockingInv'
  <2> SUFFICES ASSUME NEW t \in Thread, NEW v \in Var, Waits(t)' PROVE BlockingOK(t, v)'
    BY DEF BlockingInv, BlockingOK
  <2>1. /\ UNCHANGED <<reads, blocked, pc, log, stale>>
        /\ pc[s] = "wake" /\ waking[s] = {}
        /\ waking' = [waking EXCEPT ![s] = waiting[w]]
        /\ waiting' = [waiting EXCEPT ![w] = {}]
        /\ todo' = [todo EXCEPT ![s] = @ \ {w}]
    BY <1>8 DEF TakeWaiting, Visited
  <2>2. BlockingOK(t, v) /\ t # s
    BY <2>1 DEF BlockingInv, Waits
  <2>3. Registered(t, v)' = Registered(t, v) /\ Waits(t)' = Waits(t)
    BY <2>1, <2>2 DEF Registered, Waits, IsNext, TypeOK
  <2>4. Reachable(t, v) => Reachable(t, v)'
    BY <2>1 DEF Reachable, TypeOK
  <2>5. WakeUpPending(t, v) => WakeUpPending(t, v)'
    BY <2>1 DEF WakeUpPending, TypeOK
  <2> QED BY <2>1, <2>2, <2>3, <2>4, <2>5 DEF BlockingOK
<1>9. ASSUME NEW s \in Thread, NEW x \in Thread, SetChanged(s, x) PROVE BlockingInv'
  <2> SUFFICES ASSUME NEW t \in Thread, NEW v \in Var, Waits(t)' PROVE BlockingOK(t, v)'
    BY DEF BlockingInv, BlockingOK
  <2>1. /\ UNCHANGED <<control, local, stale, waiting, reads>>
        /\ blocked' = [blocked EXCEPT ![x] = FALSE]
        /\ waking' = [waking EXCEPT ![s] = @ \ {x}]
    BY <1>9 DEF SetChanged
  <2>2. BlockingOK(t, v) /\ t # x /\ Waits(t)
    BY <2>1 DEF BlockingInv, Waits, TypeOK
  <2>3. Registered(t, v)' = Registered(t, v)
    BY <2>1 DEF Registered, IsNext
  <2>4. Reachable(t, v) => Reachable(t, v)'
    BY <2>1, <2>2 DEF Reachable, TypeOK
  <2>5. WakeUpPending(t, v) => WakeUpPending(t, v)'
    BY <2>1, <2>2 DEF WakeUpPending, TypeOK
  <2> QED BY <2>1, <2>2, <2>3, <2>4, <2>5 DEF BlockingOK
<1>10. ASSUME NEW s \in Thread, WaitForChange(s) PROVE BlockingInv'
  <2> SUFFICES ASSUME NEW t \in Thread, NEW v \in Var, Waits(t)' PROVE BlockingOK(t, v)'
    BY DEF BlockingInv, BlockingOK
  <2>1. /\ UNCHANGED <<waiting, reads, waking, stale>>
        /\ pc[s] = "retry" /\ pc'[s] \in {"wait", "park"}
        /\ \A u \in Thread \ {s} :
             /\ pc'[u] = pc[u] /\ todo'[u] = todo[u] /\ log'[u] = log[u]
             /\ blocked'[u] = blocked[u]
    BY <1>10 DEF WaitForChange, TypeOK
  <2>2. CASE t = s
    <3>1. reads'[t] = {} /\ ~Registered(t, v)'
      BY <2>1, <2>2 DEF TraceInv, TraceOK, Asleep, Registered
    <3> QED BY <3>1 DEF BlockingOK
  <2>3. CASE t # s
    <3>1. WakeUpPending(t, v) => WakeUpPending(t, v)'
      BY <2>1 DEF WakeUpPending
    <3> QED
      BY <2>1, <2>3, <3>1
      DEF BlockingInv, BlockingOK, Waits, Registered, Reachable, IsNext
  <2> QED BY <2>2, <2>3
<1>11. ASSUME NEW s \in Thread, NEW w \in Var, Register(s, w) PROVE BlockingInv'
  <2> SUFFICES ASSUME NEW t \in Thread, NEW v \in Var, Waits(t)' PROVE BlockingOK(t, v)'
    BY DEF BlockingInv, BlockingOK
  <2>1. /\ UNCHANGED <<reads, blocked, waking, stale, local>>
        /\ pc[s] = "wait" /\ pc'[s] = "check" /\ IsNext(s, w)
        /\ \A u \in Thread \ {s} : pc'[u] = pc[u]
        /\ waiting' = [waiting EXCEPT ![w] = @ \cup {s}]
    BY <1>11 DEF Register, TypeOK
  <2>2. BlockingOK(t, v) /\ Waits(t)
    BY <2>1 DEF BlockingInv, Waits
  <2>3. Reachable(t, v) => Reachable(t, v)'
    BY <2>1 DEF Reachable, TypeOK
  <2>4. WakeUpPending(t, v) => WakeUpPending(t, v)'
    BY <2>1 DEF WakeUpPending, TypeOK
  <2>5. CASE t = s /\ IsNext(s, v)
    <3>1. v = w
      BY <2>1, <2>5, ConstantsAssumption DEF IsNext, TypeOK
    <3>2. Reachable(t, v)'
      BY <2>1, <2>5, <3>1 DEF Reachable, TypeOK
    <3> QED BY <2>1, <2>2, <2>4, <3>2 DEF BlockingOK
  <2>6. CASE ~(t = s /\ IsNext(s, v))
    <3>1. Registered(t, v)' => Registered(t, v)
      BY <2>1, <2>6 DEF Registered, IsNext
    <3> QED BY <2>1, <2>2, <2>3, <2>4, <3>1 DEF BlockingOK
  <2> QED BY <2>5, <2>6
<1>12. ASSUME NEW s \in Thread, NEW w \in Var, Compare(s, w) PROVE BlockingInv'
  <2> SUFFICES ASSUME NEW t \in Thread, NEW v \in Var, Waits(t)' PROVE BlockingOK(t, v)'
    BY DEF BlockingInv, BlockingOK
  <2>1. /\ UNCHANGED <<waiting, blocked, waking>>
        /\ ~(t = s /\ v = w) => stale'[t][v] = stale[t][v]
        /\ stale'[s][w] = stale[s][w] \cap {log[s][w].orig}
        /\ pc[s] = "check" /\ IsNext(s, w)
        /\ pc'[s] \in {"wait", "park"} => value[w] = log[s][w].orig
        /\ pc'[s] \in {"wait", "park", "dead"}
        /\ \A u \in Thread \ {s} :
             /\ pc'[u] = pc[u] /\ todo'[u] = todo[u] /\ log'[u] = log[u]
             /\ reads'[u] = reads[u]
        /\ reads'[s] = reads[s] \cup {w}
    <3>1. /\ pc[s] = "check" /\ IsNext(s, w) /\ s \in Thread
          /\ reads' = [reads EXCEPT ![s] = @ \cup {w}]
          /\ todo' = [todo EXCEPT ![s] = @ \ {w}]
          /\ UNCHANGED <<waiting, blocked, waking>>
      BY <1>12 DEF Compare, Visited
    <3>5. /\ ~(t = s /\ v = w) => stale'[t][v] = stale[t][v]
          /\ stale'[s][w] = stale[s][w] \cap {log[s][w].orig}
      BY <1>12 DEF Compare, TypeOK, Loads
    <3>2. \A u \in Thread \ {s} : pc'[u] = pc[u] /\ log'[u] = log[u]
      BY <1>12 DEF Compare, TypeOK
    <3>3. pc'[s] \in {"wait", "park", "dead"}
      BY <1>12 DEF Compare, TypeOK
    <3>4. value[w] # log[s][w].orig => pc'[s] = "dead"
      BY <1>12 DEF Compare, TypeOK
    <3> QED BY <3>1, <3>2, <3>3, <3>4, <3>5 DEF TypeOK
  <2>2. BlockingOK(t, v) /\ Waits(t)
    BY <2>1 DEF BlockingInv, Waits
  <2>3. Reachable(t, v) => Reachable(t, v)'
    BY <2>1 DEF Reachable
  <2>4. WakeUpPending(t, v) => WakeUpPending(t, v)'
    BY <2>1 DEF WakeUpPending
  <2>5. Registered(t, v)' => Registered(t, v)
    BY <2>1 DEF Registered, IsNext
  <2>6. t = s /\ v = w => ~Outdated(t, v)'
    <3> SUFFICES ASSUME t = s, v = w PROVE value[w] \notin stale[s][w]
      BY <2>1 DEF Waits
    <3>1. value[w] = log[s][w].orig /\ value[w] \in Addr
      BY <2>1 DEF Waits, TypeOK
    <3>2. value[w] \in Loaded(s, w)
      BY <3>1, NullAssumption DEF Loaded, Entries
    <3> QED BY <3>2 DEF CellsInv, LoadedIsCurrent
  <2> QED BY <2>1, <2>2, <2>3, <2>4, <2>5, <2>6 DEF BlockingOK
<1>13. ASSUME NEW s \in Thread, WaitDone(s) PROVE BlockingInv'
  <2> SUFFICES ASSUME NEW t \in Thread, NEW v \in Var, Waits(t)' PROVE BlockingOK(t, v)'
    BY DEF BlockingInv, BlockingOK
  <2>1. /\ pc[s] = "dead" /\ pc'[s] = "run"
        /\ \A u \in Thread \ {s} :
             /\ pc'[u] = pc[u] /\ todo'[u] = todo[u] /\ log'[u] = log[u]
             /\ reads'[u] = reads[u] /\ blocked'[u] = blocked[u] /\ stale'[u] = stale[u]
        /\ waiting' = [x \in Var |-> waiting[x] \ {s}]
        /\ waking' = [u \in Thread |-> waking[u] \ {s}]
    BY <1>13 DEF WaitDone, Clear, TypeOK
  <2>2. t # s /\ BlockingOK(t, v)
    BY <2>1 DEF BlockingInv, Waits
  <2>3. Reachable(t, v) => Reachable(t, v)'
    BY <2>1, <2>2 DEF Reachable
  <2>4. WakeUpPending(t, v) => WakeUpPending(t, v)'
    BY <2>1, <2>2 DEF WakeUpPending
  <2> QED
    BY <2>1, <2>2, <2>3, <2>4 DEF BlockingOK, Waits, Registered, IsNext
<1> QED
  BY <1>0, <1>1, <1>2, <1>3, <1>4, <1>5, <1>6, <1>7, <1>8, <1>9, <1>10, <1>11, <1>12, <1>13
  DEF Next, LibraryStep, UserStep

(* No wake-up is lost as long as every change is a commit: a blocked       *)
(* thread whose variable changed is about to be informed, by a thread that *)
(* is between its first store and the last wake-up of its commit           *)
(* (wait_for_change registers before it compares, commit writes before it  *)
(* wakes).  A thread that calls write_atomic can break this.               *)
THEOREM WakeUpsArePending ==
  ASSUME Setters = {}
  PROVE  Spec => []NoLostWakeUp
<1>1. Init => SetterInv /\ BlockingInv
  BY DEF Init, SetterInv, BlockingInv, BlockingOK, Waits
<1>2. TypeOK /\ SetterInv /\ [Next]_vars => SetterInv'
  BY SetterStep
<1>3. TypeOK /\ TwoPhase /\ CellsInv /\ TraceInv /\ SetterInv /\ BlockingInv /\ [Next]_vars
        => BlockingInv'
  BY BlockingStep
<1>4. BlockingInv => NoLostWakeUp
  BY DEF BlockingInv, BlockingOK, Waits, NoLostWakeUp
<1> QED BY <1>1, <1>2, <1>3, <1>4, Traces, PTL DEF Spec

-----------------------------------------------------------------------------
(* The waiting lists are used as WaitList allows.  A variable that has yet *)
(* to be visited has not been registered with.                             *)
RegistersOnce ==
  \A t \in Thread : pc[t] \in {"wait", "check"} => reads[t] \cap todo[t] = {}

(* Between the making of the ControlBlock and the end of its wait.         *)
Blocks == {"wait", "check", "park"}

(* What a step of s leaves alone that no thread can see in a list or flag. *)
Others(s) == \A t \in Thread \ {s} : pc'[t] = pc[t] /\ todo'[t] = todo[t]

LEMMA StepsOutsideLists ==
  ASSUME TypeOK, [Next]_vars
  PROVE  \/ UNCHANGED vars
         \/ \E s \in Thread :
              \/ Others(s) /\ UNCHANGED blocking /\ pc[s] \notin Blocks /\ pc'[s] \notin Blocks
              \/ WaitForChange(s) \/ Unblocked(s) \/ WaitDone(s)
              \/ \E v \in Var : TakeWaiting(s, v) \/ Register(s, v) \/ Compare(s, v)
              \/ \E u \in Thread : SetChanged(s, u)
<1> USE DEF Goto, shared, control, local, blocking, history
<1> USE DEF Blocks
<1> DEFINE Silent(s) ==
      Others(s) /\ UNCHANGED blocking /\ pc[s] \notin Blocks /\ pc'[s] \notin Blocks
<1>1. ASSUME NEW s \in Thread,
             \/ OrSecond(s) \/ OrBlocked(s) \/ ReleaseReads(s) \/ StartWaking(s)
             \/ Begin(s) \/ Or(s) \/ OrOk(s) \/ Retry(s) \/ Commit(s)
      PROVE  Silent(s)
  BY <1>1
  DEF OrSecond, OrBlocked, ReleaseReads, StartWaking, Begin, Or, OrOk, Retry,
      Commit, TypeOK, Others
<1>2. ASSUME NEW s \in Thread,
             \/ CommitDone(s) \/ Abort(s) \/ Failure(s) \/ Panic(s)
             \/ (Inconsistent(s) /\ pc[s] = "lock")
      PROVE  Silent(s)
  BY <1>2 DEF CommitDone, Abort, Failure, Panic, Inconsistent, Clear, TypeOK, Others
<1>3. ASSUME NEW s \in Thread, NEW v \in Var,
             \/ SkipObsolete(s, v) \/ LockRead(s, v) \/ AnnounceWrite(s, v)
             \/ LockWrite(s, v) \/ WriteBack(s, v) \/ WriteAtomic(s, v)
             \/ ReadShared(s, v) \/ ReadLogged(s, v) \/ Write(s, v)
             \/ AnnounceWriteAtomic(s, v)
      PROVE  Silent(s)
  <2>1. CASE Inconsistent(s) /\ pc[s] = "lock"
    BY <2>1, <1>2
  <2>2. CASE ~(Inconsistent(s) /\ pc[s] = "lock")
    <3>1. /\ pc[s] \in {"lock", "writeback", "write_atomic", "run", "idle"}
          /\ pc'[s] \in {"lock", "writeback", "write_atomic", "run", "idle"}
          /\ \A t \in Thread \ {s} : pc'[t] = pc[t]
          /\ UNCHANGED blocking
      BY <1>3, <2>2
      DEF SkipObsolete, LockRead, AnnounceWrite, LockWrite, WriteBack, WriteAtomic,
          ReadShared, ReadLogged, Write, AnnounceWriteAtomic, TypeOK
    <3>2. \A t \in Thread \ {s} : todo'[t] = todo[t]
      BY <1>3, <2>2
      DEF SkipObsolete, LockRead, AnnounceWrite, LockWrite, WriteBack, WriteAtomic,
          ReadShared, ReadLogged, Write, AnnounceWriteAtomic, Visited, TypeOK
    <3> QED BY <3>1, <3>2 DEF Others
  <2> QED BY <2>1, <2>2
<1>4. ASSUME NEW s \in Thread, LibraryStep(s) \/ UserStep(s)
      PROVE  \/ Silent(s) \/ WaitForChange(s) \/ Unblocked(s) \/ WaitDone(s)
             \/ \E v \in Var : TakeWaiting(s, v) \/ Register(s, v) \/ Compare(s, v)
             \/ \E u \in Thread : SetChanged(s, u)
  <2> HIDE DEF Silent
  <2> QED BY <1>1, <1>2, <1>3, <1>4 DEF LibraryStep, UserStep
<1> QED BY <1>4 DEF Next

LEMMA RegistersOnceStep ==
  TypeOK /\ TraceInv /\ RegistersOnce /\ [Next]_vars => RegistersOnce'
<1> SUFFICES ASSUME TypeOK, TraceInv, RegistersOnce, [Next]_vars,
                    NEW t \in Thread, pc'[t] \in {"wait", "check"}
             PROVE  reads'[t] \cap todo'[t] = {}
  BY DEF RegistersOnce
<1> USE DEF Goto, shared, control, local, blocking, history
<1>0. pc[t] \in {"wait", "check"} => reads[t] \cap todo[t] = {}
  BY DEF RegistersOnce
<1>1. CASE UNCHANGED vars
  BY <1>0, <1>1 DEF vars
<1>2. ASSUME NEW s \in Thread, Others(s), UNCHANGED reads, pc'[s] \notin Blocks
      PROVE  reads'[t] \cap todo'[t] = {}
  BY <1>0, <1>2 DEF Others, Blocks
<1>3. ASSUME NEW s \in Thread, WaitForChange(s) PROVE reads'[t] \cap todo'[t] = {}
  <2>1. CASE t = s
    <3>1. reads[s] = {} /\ reads' = reads
      BY <1>3 DEF WaitForChange, TraceInv, TraceOK, Asleep
    <3> QED BY <2>1, <3>1
  <2>2. CASE t # s
    BY <1>0, <1>3, <2>2 DEF WaitForChange, TypeOK
  <2> QED BY <2>1, <2>2
<1>4. ASSUME NEW s \in Thread, WaitDone(s) PROVE reads'[t] \cap todo'[t] = {}
  BY <1>0, <1>4 DEF WaitDone, Clear, TypeOK
<1>5. ASSUME NEW s \in Thread, NEW v \in Var, TakeWaiting(s, v) \/ Register(s, v)
      PROVE  reads'[t] \cap todo'[t] = {}
  BY <1>0, <1>5 DEF TakeWaiting, Register, Visited, TypeOK
<1>6. ASSUME NEW s \in Thread, NEW v \in Var, Compare(s, v)
      PROVE  reads'[t] \cap todo'[t] = {}
  <2>1. /\ reads' = [reads EXCEPT ![s] = @ \cup {v}]
        /\ todo' = [todo EXCEPT ![s] = @ \ {v}]
        /\ pc[s] = "check" /\ \A u \in Thread \ {s} : pc'[u] = pc[u]
    BY <1>6 DEF Compare, Visited, TypeOK
  <2> QED BY <1>0, <2>1 DEF TypeOK
<1>7. ASSUME NEW s \in Thread, NEW u \in Thread, SetChanged(s, u)
      PROVE  reads'[t] \cap todo'[t] = {}
  BY <1>0, <1>7 DEF SetChanged
<1>8. ASSUME NEW s \in Thread, Unblocked(s) PROVE reads'[t] \cap todo'[t] = {}
  BY <1>0, <1>8 DEF Unblocked, TypeOK
<1> QED BY <1>1, <1>2, <1>3, <1>4, <1>5, <1>6, <1>7, <1>8, StepsOutsideLists

LEMMA ListStep ==
  ASSUME TypeOK, TraceInv, RegistersOnce, [Next]_vars, NEW v \in Var
  PROVE  [List(v)!Next]_(List(v)!vars)
<1> USE DEF Goto, shared, control, local, blocking, history
<1> DEFINE inside == {t \in Thread : Registered(t, v)}
<1>N. /\ List(v)!vars = <<inside, waiting[v], waking>>
      /\ List(v)!Next <=>
           \/ \E t \in Thread : List(v)!Register(t) \/ List(v)!Leave(t)
           \/ \E k \in Thread : \/ List(v)!Take(k)
                               \/ \E t \in Thread : List(v)!Inform(k, t)
                               \/ \E S \in SUBSET Thread : List(v)!TakeElsewhere(k, S)
  BY DEF List!vars, List!Next
<1> DEFINE Goal == [List(v)!Next]_(List(v)!vars)
<1>S. inside' = inside /\ waiting'[v] = waiting[v] /\ waking' = waking => Goal
  BY DEF List!vars
<1>1. CASE UNCHANGED vars
  BY <1>1, <1>S DEF vars, Registered, IsNext
<1>2. ASSUME NEW s \in Thread, Others(s), UNCHANGED blocking,
             pc[s] \notin Blocks, pc'[s] \notin Blocks
      PROVE  Goal
  BY <1>2, <1>S DEF Others, Blocks, Registered, IsNext
<1>3. ASSUME NEW s \in Thread, WaitForChange(s) PROVE Goal
  <2>1. /\ pc[s] = "retry" /\ pc'[s] \in {"wait", "park"}
        /\ UNCHANGED <<waiting, reads, waking>>
        /\ \A t \in Thread \ {s} : pc'[t] = pc[t] /\ todo'[t] = todo[t]
    BY <1>3 DEF WaitForChange, TypeOK
  <2> QED BY <2>1, <1>S DEF Registered, IsNext
<1>4. ASSUME NEW s \in Thread, WaitDone(s) PROVE Goal
  <2>1. /\ pc[s] = "dead" /\ pc'[s] = "run" /\ reads'[s] = {}
        /\ \A t \in Thread \ {s} :
             pc'[t] = pc[t] /\ todo'[t] = todo[t] /\ reads'[t] = reads[t]
        /\ waiting'[v] = waiting[v] \ {s}
        /\ waking' = [u \in Thread |-> waking[u] \ {s}]
    BY <1>4 DEF WaitDone, Clear, TypeOK
  <2>2. inside' = inside \ {s}
    BY <2>1 DEF Registered, IsNext
  <2>3. List(v)!Leave(s)
    BY <2>1, <2>2 DEF List!Leave
  <2> QED BY <2>3, <1>N
<1>5. ASSUME NEW s \in Thread, NEW w \in Var, TakeWaiting(s, w) PROVE Goal
  <2>1. /\ UNCHANGED <<pc, reads>> /\ pc[s] = "wake" /\ waking[s] = {}
        /\ todo' = [todo EXCEPT ![s] = @ \ {w}]
        /\ waking' = [waking EXCEPT ![s] = waiting[w]]
        /\ waiting' = [waiting EXCEPT ![w] = {}]
    BY <1>5 DEF TakeWaiting, Visited
  <2>2. inside' = inside
    BY <2>1 DEF Registered, IsNext, TypeOK
  <2>3. CASE v = w
    <3>1. List(v)!Take(s)
      BY <2>1, <2>2, <2>3 DEF List!Take, TypeOK
    <3> QED BY <3>1, <1>N
  <2>4. CASE v # w
    <3>1. waiting[w] \in SUBSET Thread /\ waiting'[v] = waiting[v]
      BY <2>1, <2>4 DEF TypeOK
    <3>2. List(v)!TakeElsewhere(s, waiting[w])
      BY <2>1, <2>2, <3>1 DEF List!TakeElsewhere
    <3> QED BY <3>1, <3>2, <1>N
  <2> QED BY <2>3, <2>4
<1>6. ASSUME NEW s \in Thread, NEW w \in Var, Register(s, w) PROVE Goal
  <2>1. /\ UNCHANGED <<todo, reads, waking>>
        /\ pc[s] = "wait" /\ pc'[s] = "check" /\ IsNext(s, w)
        /\ \A t \in Thread \ {s} : pc'[t] = pc[t]
        /\ waiting' = [waiting EXCEPT ![w] = @ \cup {s}]
    BY <1>6 DEF Register, TypeOK
  <2>2. CASE v = w
    <3>1. ~Registered(s, v) /\ Registered(s, v)'
      BY <2>1, <2>2 DEF Registered, RegistersOnce, IsNext
    <3>2. inside' = inside \cup {s}
      BY <2>1, <3>1 DEF Registered, IsNext
    <3>3. List(v)!Register(s)
      BY <2>1, <2>2, <3>1, <3>2 DEF List!Register, TypeOK
    <3> QED BY <3>3, <1>N
  <2>3. CASE v # w
    <3>1. ~IsNext(s, v)
      BY <2>1, <2>3, ConstantsAssumption DEF IsNext, TypeOK
    <3>2. inside' = inside
      BY <2>1, <3>1 DEF Registered, IsNext
    <3>3. waiting'[v] = waiting[v]
      BY <2>1, <2>3 DEF TypeOK
    <3> QED BY <2>1, <3>2, <3>3, <1>S
  <2> QED BY <2>2, <2>3
<1>7. ASSUME NEW s \in Thread, NEW w \in Var, Compare(s, w) PROVE Goal
  <2>1. /\ UNCHANGED <<waiting, waking>>
        /\ pc[s] = "check" /\ pc'[s] # "check" /\ IsNext(s, w)
        /\ reads' = [reads EXCEPT ![s] = @ \cup {w}]
        /\ todo' = [todo EXCEPT ![s] = @ \ {w}]
        /\ \A t \in Thread \ {s} : pc'[t] = pc[t]
    BY <1>7 DEF Compare, Visited, TypeOK
  <2>2. IsNext(s, v) => v = w
    BY <2>1, ConstantsAssumption DEF IsNext, TypeOK
  <2>3. Registered(s, v)' = Registered(s, v)
    BY <2>1, <2>2 DEF Registered, TypeOK
  <2>4. \A t \in Thread \ {s} : Registered(t, v)' = Registered(t, v)
    BY <2>1 DEF Registered, IsNext, TypeOK
  <2> QED BY <2>1, <2>3, <2>4, <1>S
<1>8. ASSUME NEW s \in Thread, NEW u \in Thread, SetChanged(s, u) PROVE Goal
  <2>1. /\ UNCHANGED <<pc, todo, reads, waiting>> /\ u \in waking[s]
        /\ waking' = [waking EXCEPT ![s] = @ \ {u}]
    BY <1>8 DEF SetChanged
  <2>2. inside' = inside
    BY <2>1 DEF Registered, IsNext
  <2>3. List(v)!Inform(s, u)
    BY <2>1, <2>2 DEF List!Inform
  <2> QED BY <2>3, <1>N
<1>9. ASSUME NEW s \in Thread, Unblocked(s) PROVE Goal
  <2>1. /\ pc[s] = "park" /\ pc'[s] = "dead" /\ UNCHANGED <<todo, reads, waiting, waking>>
        /\ \A t \in Thread \ {s} : pc'[t] = pc[t]
    BY <1>9 DEF Unblocked, TypeOK
  <2> QED BY <2>1, <1>S DEF Registered, IsNext
<1> QED BY <1>1, <1>2, <1>3, <1>4, <1>5, <1>6, <1>7, <1>8, <1>9, StepsOutsideLists

(* Transaction relies on no more than what VarControlBlock is shown to     *)
(* provide: seen from any one variable, every behaviour of the threads is  *)
(* one of WaitList (wait_for_change and wake_all).                         *)
THEOREM ListsAreUsed == Spec => UsesWaitLists
<1>1. Init => RegistersOnce /\ \A v \in Var : List(v)!Init
  BY DEF Init, RegistersOnce, List!Init, Registered
<1>2. TypeOK /\ TraceInv /\ RegistersOnce /\ [Next]_vars => RegistersOnce'
  BY RegistersOnceStep
<1>3. TypeOK /\ TraceInv /\ RegistersOnce /\ [Next]_vars
        => [\A v \in Var : [List(v)!Next]_(List(v)!vars)]_vars
  BY ListStep
<1> QED BY <1>1, <1>2, <1>3, Traces, PTL DEF Spec, UsesWaitLists

-----------------------------------------------------------------------------
LEMMA ControlBlockStep ==
  ASSUME TypeOK, [Next]_vars, NEW t \in Thread
  PROVE  [ControlBlock(t)!Next]_(ControlBlock(t)!vars)
<1> USE DEF Goto, shared, control, local, blocking, history
<1> DEFINE Goal == [ControlBlock(t)!Next]_(ControlBlock(t)!vars)
<1>S. pc'[t] = pc[t] /\ blocked'[t] = blocked[t] => Goal
  BY DEF ControlBlock!vars, Phase
<1>1. CASE UNCHANGED vars
  BY <1>1, <1>S DEF vars
<1>2. ASSUME NEW s \in Thread, Others(s), UNCHANGED blocking,
             pc[s] \notin Blocks, pc'[s] \notin Blocks
      PROVE  Goal
  BY <1>2, <1>S DEF Others, Blocks, Phase, ControlBlock!vars
<1>3. ASSUME NEW s \in Thread, WaitForChange(s) PROVE Goal
  <2>1. /\ pc[s] = "retry" /\ pc'[s] \in {"wait", "park"} /\ blocked'[s] = TRUE
        /\ s # t => pc'[t] = pc[t] /\ blocked'[t] = blocked[t]
    BY <1>3 DEF WaitForChange, TypeOK
  <2>2. CASE s = t
    BY <2>1, <2>2 DEF Phase, ControlBlock!Next, ControlBlock!New
  <2> QED BY <2>1, <2>2, <1>S
<1>4. ASSUME NEW s \in Thread, Unblocked(s) PROVE Goal
  <2>1. /\ pc[s] = "park" /\ pc'[s] = "dead" /\ ~blocked[s] /\ blocked' = blocked
        /\ s # t => pc'[t] = pc[t]
    BY <1>4 DEF Unblocked, TypeOK
  <2>2. CASE s = t
    BY <2>1, <2>2 DEF Phase, ControlBlock!Next, ControlBlock!Return
  <2> QED BY <2>1, <2>2, <1>S
<1>5. ASSUME NEW s \in Thread, WaitDone(s) PROVE Goal
  <2>1. /\ pc[s] = "dead" /\ pc'[s] = "run"
        /\ s # t => pc'[t] = pc[t] /\ blocked'[t] = blocked[t]
    BY <1>5 DEF WaitDone, TypeOK
  <2>2. CASE s = t
    BY <2>1, <2>2 DEF Phase, ControlBlock!vars
  <2> QED BY <2>1, <2>2, <1>S
<1>6. ASSUME NEW s \in Thread, NEW v \in Var, TakeWaiting(s, v) PROVE Goal
  BY <1>6, <1>S DEF TakeWaiting
<1>7. ASSUME NEW s \in Thread, NEW v \in Var, Register(s, v) PROVE Goal
  <2>1. /\ pc[s] = "wait" /\ pc'[s] = "check" /\ blocked' = blocked
        /\ s # t => pc'[t] = pc[t]
    BY <1>7 DEF Register, TypeOK
  <2>2. CASE s = t
    BY <2>1, <2>2 DEF Phase, ControlBlock!vars
  <2> QED BY <2>1, <2>2, <1>S
<1>8. ASSUME NEW s \in Thread, NEW v \in Var, Compare(s, v) PROVE Goal
  <2>1. /\ pc[s] = "check" /\ pc'[s] \in {"wait", "park", "dead"} /\ blocked' = blocked
        /\ s # t => pc'[t] = pc[t]
    BY <1>8 DEF Compare, TypeOK
  <2>2. CASE s = t
    <3>1. CASE pc'[s] = "wait"
      BY <2>1, <2>2, <3>1 DEF Phase, ControlBlock!vars
    <3>2. CASE pc'[s] = "park"
      BY <2>1, <2>2, <3>2 DEF Phase, ControlBlock!Next, ControlBlock!Wait
    <3>3. CASE pc'[s] = "dead"
      BY <2>1, <2>2, <3>3 DEF Phase, ControlBlock!Next, ControlBlock!Discard
    <3> QED BY <2>1, <3>1, <3>2, <3>3
  <2> QED BY <2>1, <2>2, <1>S
<1>9. ASSUME NEW s \in Thread, NEW u \in Thread, SetChanged(s, u) PROVE Goal
  <2>1. /\ pc' = pc /\ blocked'[u] = FALSE
        /\ u # t => blocked'[t] = blocked[t]
    BY <1>9 DEF SetChanged, TypeOK
  <2>2. CASE u = t
    BY <2>1, <2>2 DEF Phase, ControlBlock!Next, ControlBlock!SetChanged
  <2> QED BY <2>1, <2>2, <1>S
<1> QED BY <1>1, <1>2, <1>3, <1>4, <1>5, <1>6, <1>7, <1>8, <1>9, StepsOutsideLists

(* Transaction relies on no more than what ControlBlock is shown to        *)
(* provide: seen from any one thread, its waits are those of a latch       *)
(* (wait_for_change, ControlBlock::wait and set_changed).                  *)
THEOREM LatchesAreUsed == Spec => UsesLatches
<1>1. Init => \A t \in Thread : ControlBlock(t)!Init
  BY DEF Init, ControlBlock!Init, Phase
<1>2. TypeOK /\ [Next]_vars
        => [\A t \in Thread : [ControlBlock(t)!Next]_(ControlBlock(t)!vars)]_vars
  BY ControlBlockStep
<1> QED BY <1>1, <1>2, TypeCorrect, PTL DEF Spec, UsesLatches
=============================================================================
