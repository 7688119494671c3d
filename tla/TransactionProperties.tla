------------------------ MODULE TransactionProperties ------------------------
(***************************************************************************)
(* What module Transaction is claimed to guarantee: invariants, action     *)
(* properties, the refinement of AtomicMemory and, under FairSpec,         *)
(* liveness.                                                               *)
(***************************************************************************)
EXTENDS Transaction

-----------------------------------------------------------------------------
(* Types.                                                                  *)
TypeOK ==
  /\ value \in [Var -> Addr]
  /\ writer \in [Var -> Thread \cup {NoThread}]
  /\ readers \in [Var -> SUBSET Thread]
  /\ waiting \in [Var -> SUBSET Thread]
  /\ pc \in [Thread -> PC]
  /\ running \in [Thread -> BOOLEAN]
  /\ log \in [Thread -> Log]
  /\ frames \in [Thread -> Seq(Frame)]
  /\ todo \in [Thread -> SUBSET Var]
  /\ reads \in [Thread -> SUBSET Var]
  /\ blocked \in [Thread -> BOOLEAN]
  /\ waking \in [Thread -> SUBSET Thread]
  /\ obs \in [Thread -> View]
  /\ intent \in [Thread -> View]
  /\ seen \in [Thread -> Loads]
  /\ stale \in [Thread -> Loads]

(* Two-phase locking.  A thread holds the write lock of a variable exactly *)
(* from the moment commit visits its entry to the moment the value is      *)
(* written back, and the read lock of a variable it only read until all    *)
(* locks are held; and as long as it holds a lock, the value of a variable *)
(* that it compared with its log has not changed since (commit).           *)
Visiting(t, v) == pc[t] = "lock" /\ (v \in todo[t] => IsNext(t, v))

Passed(t, v) == pc[t] = "lock" /\ v \notin todo[t]

Storing(t, v) == pc[t] \in {"writeback", "write_atomic"} /\ v \in todo[t]

LockOK(t, v) ==
  /\ writer[v] = t => (Visiting(t, v) /\ IsWrite(log[t][v])) \/ Storing(t, v)
  /\ Passed(t, v) /\ IsWrite(log[t][v]) => writer[v] = t /\ readers[v] = {}
  /\ Storing(t, v) => writer[v] = t
  /\ Storing(t, v) /\ pc[t] = "writeback" => readers[v] = {} /\ IsWrite(log[t][v])
  /\ t \in readers[v] <=> Passed(t, v) /\ log[t][v].kind = "Read"
  /\ Passed(t, v) /\ IsChecked(log[t][v]) => value[v] = log[t][v].orig

TwoPhase == \A t \in Thread, v \in Var : LockOK(t, v)

(* The variables whose lock t may ask for next: a closure loads any of     *)
(* them, a thread outside of a transaction stores to any, and the loops    *)
(* over a log, like a write_atomic, have come to one.                      *)
AsksFor(t, v) ==
  \/ pc[t] \in {"idle", "run"}
  \/ pc[t] = "lock" /\ IsNext(t, v) /\ log[t][v].kind # "ReadObsolete"
  \/ pc[t] = "check" /\ IsNext(t, v)
  \/ pc[t] = "write_atomic" /\ v \in todo[t]

(* Who keeps t from getting it: the readers that have yet to leave, once   *)
(* its writer bit is set, and before that whoever has set the bit.         *)
InTheWay(t, v) ==
  IF writer[v] = t THEN readers[v] ELSE {writer[v]} \ {NoThread}

WaitsFor(t, u) == \E v \in Var : AsksFor(t, v) /\ u \in InTheWay(t, v)

(* Deadlock freedom, the reason why the log is a BTreeMap and TVars are    *)
(* ordered by address: however commits, loads and atomic stores meet,      *)
(* there is no set of threads each of which waits for one of the others.   *)
NoDeadlock ==
  \A S \in SUBSET Thread :
    S # {} => \E t \in S : \A u \in S : ~WaitsFor(t, u)

(* A log l answers for what a closure saw (o) and asked for (w): each      *)
(* value it was shown is one that commit will compare, and each variable   *)
(* it wrote holds the last value it gave, which is also what it reads back.*)
Faithful(l, o, w) ==
  \A v \in Var :
    /\ o[v] # Null => IsChecked(l[v]) /\ l[v].orig = o[v]
    /\ IsWrite(l[v]) <=> w[v] # Null
    /\ w[v] # Null => l[v].new = w[v]

(* However reads, writes and alternatives of or are mixed, the log keeps   *)
(* every value the closure was shown on the path it took up for checking,  *)
(* holds its last writes, and leaves out those of abandoned alternatives   *)
(* (Transaction::read, write, or, combine and LogVar).                     *)
LogFaithful ==
  \A t \in Thread :
    pc[t] \in {"run", "lock"} => Faithful(log[t], obs[t], intent[t])

(* Arc::ptr_eq detects every change: a variable that has been written      *)
(* since a transaction loaded it never again holds the cell that the log   *)
(* has for it.  The log keeps that cell alive, so its address is not given *)
(* to a later value, and no cell is stored twice.  (That ptr_eq sees no    *)
(* change where there is none is CommitFailsOnConflict.)                   *)
PtrEqDetectsChange ==
  \A t \in Thread, v \in Var :
    HasReadValue(log[t][v]) /\ log[t][v].orig \in stale[t][v] => value[v] # log[t][v].orig

(* A value that t loaded from v, while it waits the one that it compared,  *)
(* was overwritten since.                                                  *)
Outdated(t, v) == stale[t][v] # {}

(* Somebody is on the way to take down the flag of t because v changed.    *)
WakeUpPending(t, v) ==
  \E u \in Thread :
    \/ pc[u] = "writeback" /\ IsWrite(log[u][v])
    \/ pc[u] = "wake" /\ v \in todo[u] /\ t \in waiting[v]
    \/ pc[u] = "wake" /\ t \in waking[u]

(* No lost wake-up: a thread blocked in wait_for_change on a variable that *)
(* has changed is about to be woken.  Registering before comparing, and    *)
(* writing before waking, leave no gap.                                    *)
NoLostWakeUp ==
  \A t \in Thread, v \in Var :
    pc[t] = "park" /\ blocked[t] /\ v \in reads[t] /\ Outdated(t, v)
      => WakeUpPending(t, v)

(* "If both block, Transaction::or still waits for TVars in both           *)
(* functions": a blocked thread is registered with every variable it       *)
(* loaded, on whichever path.                                              *)
WaitsForAllReads ==
  \A t \in Thread, v \in Var : pc[t] = "park" /\ seen[t][v] # {} => v \in reads[t]

(* What is true of it: a blocked thread is registered with every variable  *)
(* it loaded, except for those that its second alternative then wrote      *)
(* without reading (wait_for_change and combine; one level of or).         *)
WaitsForUnwrittenReads ==
  \A t \in Thread, v \in Var :
    pc[t] = "park" /\ seen[t][v] # {} /\ v \notin reads[t] => intent[t][v] # Null

(* "When the action has finished and all the used TVars are consistent,    *)
(* the writes are committed": the variables of blocked alternatives too.   *)
UsedVarsConsistent ==
  \A t \in Thread, v \in Var : pc[t] = "lock" /\ todo[t] = {} => ~Outdated(t, v)

-----------------------------------------------------------------------------
(* Commit ends with an early return only because another thread has        *)
(* stored to a variable since the failed transaction loaded the value that *)
(* its log has for it: a transaction is run again only if some other one   *)
(* made progress (commit, combine and the identity of cells).              *)
CommitFailsOnConflict ==
  [][\A t \in Thread :
       pc[t] = "lock" /\ pc'[t] = "run"
         => \E v \in Var : IsChecked(log[t][v]) /\ log[t][v].orig \in stale[t][v]]_vars

(* A thread outside of the library has left nothing in it, however its     *)
(* last transaction ended: no lock, no registration that could still be    *)
(* upgraded, no flag of a TransactionGuard that makes its next transaction *)
(* panic.                                                                  *)
LeavesNoTrace ==
  \A t \in Thread :
    pc[t] = "idle" =>
      /\ ~running[t] /\ log[t] = EmptyLog /\ frames[t] = <<>>
      /\ \A v \in Var : writer[v] # t /\ t \notin readers[v] /\ t \notin waiting[v]
      /\ \A u \in Thread : t \notin waking[u]

-----------------------------------------------------------------------------
(* The threads that call write_atomic.                                     *)
Setters == {t \in Thread : "write_atomic" \in Use[t].ops}

(* The committed memory: the values that a commit past its last check has  *)
(* yet to write back count as written.                                     *)
Committed ==
  [v \in Var |->
     IF writer[v] # NoThread /\ pc[writer[v]] = "writeback"
     THEN log[writer[v]][v].new ELSE value[v]]

(* Where each thread is, for a caller: a transaction has committed, and    *)
(* will return a result, once its last check is passed.                    *)
Stage ==
  [t \in Thread |->
     CASE pc[t] = "idle" -> "out"
       [] pc[t] \in {"writeback", "wake"} -> "committed"
       [] pc[t] = "write_atomic" -> "setting"
       [] OTHER -> "running"]

Atomic == INSTANCE AtomicMemory WITH
  mem <- Committed,
  stage <- Stage,
  target <- [t \in Thread |-> IF pc[t] = "write_atomic" THEN todo[t] ELSE {}]

(* Transactions are atomic: every behaviour of the code, seen through the  *)
(* refinement mapping, is one of AtomicMemory.  A transaction that goes on *)
(* to write back, wake and return, whether or not it wrote anything, has   *)
(* found at one instant that all its reads are current (commit).           *)
AtomicSpec == Atomic!Spec

-----------------------------------------------------------------------------
(* A thread has registered with v and goes on waiting or comparing.        *)
Registered(t, v) == v \in reads[t] \/ (pc[t] = "check" /\ IsNext(t, v))

List(v) == INSTANCE WaitList WITH
  Waiter <- Thread,
  Waker <- Thread,
  inside <- {t \in Thread : Registered(t, v)},
  waiting <- waiting[v]

(* wait_for_change and wake_all use the list of every variable as WaitList *)
(* allows, which is what VarControlBlock is shown to implement: a thread   *)
(* registers with a variable once per wait, at most, leaves all of them    *)
(* with the drop of its ControlBlock, and whoever takes one list informs   *)
(* all of it before taking the next.                                       *)
UsesWaitLists ==
  /\ \A v \in Var : List(v)!Init
  /\ [][\A v \in Var : [List(v)!Next]_(List(v)!vars)]_vars

(* What t does with its ControlBlock.                                      *)
Phase(t) ==
  IF pc[t] \in {"wait", "check"} THEN "armed"
  ELSE IF pc[t] = "park" THEN "waiting" ELSE "out"

ControlBlock(t) == INSTANCE Latch WITH
  phase <- Phase(t),
  blocked <- Phase(t) # "out" /\ blocked[t]

(* ... and with_control uses the ControlBlock of every thread as Latch     *)
(* allows, which is what module ControlBlock is shown to implement: one    *)
(* wait for each, and a thread goes on only if it found that it need not   *)
(* wait, or if the flag of this wait, and not of an earlier one, is down.  *)
UsesLatches ==
  /\ \A t \in Thread : ControlBlock(t)!Init
  /\ [][\A t \in Thread : [ControlBlock(t)!Next]_(ControlBlock(t)!vars)]_vars

-----------------------------------------------------------------------------
(* A commit ends, with success or not: the ordered locks are all obtained  *)
(* or found inconsistent, whatever the other threads do.                   *)
CommitEnds ==
  \A t \in Thread : pc[t] \in {"lock", "writeback", "wake"} ~> pc[t] \in {"run", "idle"}

(* A thread blocked on a variable that changes runs its closure again.     *)
WakesUp ==
  \A t \in Thread, v \in Var :
    pc[t] = "park" /\ v \in reads[t] /\ Outdated(t, v) ~> pc[t] = "run"
=============================================================================
