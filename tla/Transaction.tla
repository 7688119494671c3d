----------------------------- MODULE Transaction -----------------------------
(***************************************************************************)
(* Threads running transactions over shared TVars:                         *)
(* stm-core/src/transaction/mod.rs with the parts of tvar.rs it uses.      *)
(*                                                                         *)
(* A closure is user code, so a running transaction reads and writes any   *)
(* variable, nests Transaction::or, and ends in any way, within what Use   *)
(* allows it.  Every step another thread can observe is an action of its   *)
(* own: one per lock taken by commit, one per value written back, one per  *)
(* registration, comparison and wake-up.  Closures run outside all locks.  *)
(*                                                                         *)
(* A waiting thread's ControlBlock is the latch blocked; how park and      *)
(* unpark implement that latch is module ControlBlock, and the list that   *)
(* holds weak references to it is module VarControlBlock.  Here waiting    *)
(* and waking hold the references that can still be upgraded.              *)
(***************************************************************************)
EXTENDS Naturals, Sequences, LogVar

CONSTANTS
  Thread,
  NoThread,
  Var,        \* the addresses of the VarControlBlocks, the order of the log
  InitValue,  \* the cells allocated by TVar::new
  Alloc(_),   \* what the allocator may return, given the free addresses
  MaxDepth,   \* bound on the nesting of Transaction::or
  Use         \* what the closures of each thread do

Ops == {"rewrite", "or", "retry", "failure", "panic", "abort", "write_atomic"}

ASSUME ConstantsAssumption ==
  /\ NoThread \notin Thread
  /\ Var \subseteq Nat
  /\ InitValue \in [Var -> Addr]
  /\ \A v, u \in Var : InitValue[v] = InitValue[u] => v = u
  /\ MaxDepth \in Nat
  /\ Use \in [Thread -> [reads : SUBSET Var, writes : SUBSET Var, ops : SUBSET Ops]]

ASSUME AllocAssumption == \A free \in SUBSET Addr : Alloc(free) \subseteq free

VARIABLES
  value,     \* value[v]: the Arc behind the RwLock of v
  writer,    \* writer[v]: the thread that has set the lock's writer bit
  readers,   \* readers[v]: the threads holding the lock for reading
  waiting,   \* waiting[v]: live entries of waiting_threads
  pc,        \* where each thread is in with_control
  running,   \* the thread-local TRANSACTION_RUNNING
  log,       \* log[t][v]: Transaction::vars
  frames,    \* frames[t]: the calls of Transaction::or in progress, innermost first
  todo,      \* todo[t]: the variables a loop over the log has yet to visit
  reads,     \* reads[t]: the variables wait_for_change has registered with
  blocked,   \* blocked[t]: the flag of the thread's ControlBlock
  waking     \* waking[t]: threads taken by wake_all and not yet informed

(* History: what the closure was shown and asked for on its current path   *)
(* (obs, intent), the cells it loaded from each variable on any path       *)
(* (seen), and those of them that were overwritten since (stale).  No      *)
(* action depends on these.                                                *)
VARIABLES obs, intent, seen, stale

shared == <<value, writer, readers>>
control == <<pc, running>>
local == <<log, frames, todo>>
blocking == <<waiting, reads, blocked, waking>>
history == <<obs, intent, seen, stale>>
vars == <<shared, control, local, blocking, history>>

Log == [Var -> LogVar]
View == [Var -> Ptr]
Frame == [stage : {"first", "second"}, saved : Log, obs : View, intent : View]

EmptyLog == [v \in Var |-> Vacant]
EmptyView == [v \in Var |-> Null]
Loads == [Var -> SUBSET Addr]
NoLoads == [v \in Var |-> {}]

PC == {"idle", "run", "retry", "lock", "writeback", "wake",
       "wait", "check", "park", "dead", "write_atomic"}

(* Bug: the log keeps the address of what it has read and does not own it. *)
CellsWritten(l) == {l[v].new : v \in Var}

(* The cells that the entries of a log own.                                *)
Cells(l) == {l[v].orig : v \in Var} \cup {l[v].new : v \in Var}

(* The cells an Arc still points to: they are not free.                    *)
Live ==
  {value[v] : v \in Var}
    \cup (UNION {Cells(log[t]) : t \in Thread})
    \cup (UNION {UNION {Cells(frames[t][i].saved) : i \in 1..Len(frames[t])}
                  : t \in Thread})

Fresh == Alloc(Addr \ Live)

Written(l) == {v \in Var : IsWrite(l[v])}

(* Bug: the log is a hash map, or the TVars are not ordered by address.    *)
IsAny(t, v) == v \in todo[t]

(* A BTreeMap is iterated in the order of its keys.                        *)
IsNext(t, v) == v \in todo[t] /\ \A u \in todo[t] : v <= u

(* Bug: the writes of the blocked alternative are kept.                    *)
CombineAll(l, other) ==
  [v \in Var |-> IF l[v] = Vacant THEN other[v] ELSE l[v]]

(* Bug: the reads of the blocked alternative are dropped.                  *)
ForgetBlocked(l, other) == l

(* Transaction::combine: what the blocked log read and the other has not   *)
(* used is kept as obsolete.                                               *)
Combine(l, other) ==
  [v \in Var |-> IF l[v] = Vacant THEN Obsolete(other[v]) ELSE l[v]]

-----------------------------------------------------------------------------
Init ==
  /\ value = InitValue
  /\ writer = [v \in Var |-> NoThread]
  /\ readers = [v \in Var |-> {}]
  /\ waiting = [v \in Var |-> {}]
  /\ pc = [t \in Thread |-> "idle"]
  /\ running = [t \in Thread |-> FALSE]
  /\ log = [t \in Thread |-> EmptyLog]
  /\ frames = [t \in Thread |-> <<>>]
  /\ todo = [t \in Thread |-> {}]
  /\ reads = [t \in Thread |-> {}]
  /\ blocked = [t \in Thread |-> FALSE]
  /\ waking = [t \in Thread |-> {}]
  /\ obs = [t \in Thread |-> EmptyView]
  /\ intent = [t \in Thread |-> EmptyView]
  /\ seen = [t \in Thread |-> NoLoads]
  /\ stale = [t \in Thread |-> NoLoads]

Goto(t, from, to) == pc[t] = from /\ pc' = [pc EXCEPT ![t] = to]

(* Transaction::clear, or the drop of the transaction: the log is lost.    *)
Clear(t) ==
  /\ log' = [log EXCEPT ![t] = EmptyLog]
  /\ frames' = [frames EXCEPT ![t] = <<>>]
  /\ todo' = [todo EXCEPT ![t] = {}]
  /\ obs' = [obs EXCEPT ![t] = EmptyView]
  /\ intent' = [intent EXCEPT ![t] = EmptyView]
  /\ seen' = [seen EXCEPT ![t] = NoLoads]
  /\ stale' = [stale EXCEPT ![t] = NoLoads]

(* Bug: the guard has no Drop.                                             *)
LeaveGuard(t) == UNCHANGED running

(* The drop of the TransactionGuard.                                       *)
DropGuard(t) == running' = [running EXCEPT ![t] = FALSE]

(* A variable gets a new value: whatever was loaded from it is out of date.*)
Store(v, a) ==
  /\ value' = [value EXCEPT ![v] = a]
  /\ stale' = [u \in Thread |-> [stale[u] EXCEPT ![v] = seen[u][v]]]

-----------------------------------------------------------------------------
(* with_control: the guard is taken and the closure is called with an      *)
(* empty log.                                                              *)
Begin(t) ==
  /\ Goto(t, "idle", "run")
  /\ ~running[t]
  /\ running' = [running EXCEPT ![t] = TRUE]
  /\ UNCHANGED <<shared, local, blocking, history>>

(* Transaction::read of a variable that is not in the log: read_ref_atomic *)
(* holds the read lock for the time of one clone.                          *)
ReadShared(t, v) ==
  /\ pc[t] = "run" /\ v \in Use[t].reads
  /\ log[t][v] = Vacant
  /\ writer[v] = NoThread
  /\ log' = [log EXCEPT ![t][v] = Entry("Read", value[v], Null)]
  /\ obs' = [obs EXCEPT ![t][v] = value[v]]
  /\ seen' = [seen EXCEPT ![t][v] = @ \cup {value[v]}]
  /\ stale' = [stale EXCEPT ![t][v] = @ \ {value[v]}]
  /\ UNCHANGED <<shared, control, frames, todo, blocking, intent>>

(* Transaction::read of a variable that is in the log.                     *)
ReadLogged(t, v) ==
  /\ pc[t] = "run" /\ v \in Use[t].reads
  /\ log[t][v] # Vacant
  /\ log' = [log EXCEPT ![t][v] = ReadUpgrade(@)]
  /\ obs' = IF intent[t][v] = Null
            THEN [obs EXCEPT ![t][v] = ReadResult(log[t][v])] ELSE obs
  /\ UNCHANGED <<shared, control, frames, todo, blocking, intent, seen, stale>>

(* Transaction::write: the value is boxed in a new cell.                   *)
Write(t, v) ==
  /\ pc[t] = "run" /\ v \in Use[t].writes
  /\ IsWrite(log[t][v]) => "rewrite" \in Use[t].ops
  /\ \E a \in Fresh :
       /\ log' = [log EXCEPT ![t][v] = WriteUpgrade(@, a)]
       /\ intent' = [intent EXCEPT ![t][v] = a]
  /\ UNCHANGED <<shared, control, frames, todo, blocking, obs, seen, stale>>

-----------------------------------------------------------------------------
(* Transaction::or copies the log and runs its first closure.              *)
Or(t) ==
  /\ pc[t] = "run" /\ "or" \in Use[t].ops
  /\ Len(frames[t]) < MaxDepth
  /\ frames' = [frames EXCEPT ![t] =
       <<[stage |-> "first", saved |-> log[t], obs |-> obs[t], intent |-> intent[t]]>> \o @]
  /\ UNCHANGED <<shared, control, log, todo, blocking, history>>

(* The running closure of an or returns Ok: the copy is dropped if it was  *)
(* the first, and the log of the first is combined if it was the second.   *)
OrOk(t) ==
  /\ pc[t] = "run" /\ frames[t] # <<>>
  /\ log' = IF Head(frames[t]).stage = "first" THEN log
            ELSE [log EXCEPT ![t] = Combine(@, Head(frames[t]).saved)]
  /\ frames' = [frames EXCEPT ![t] = Tail(@)]
  /\ UNCHANGED <<shared, control, todo, blocking, history>>

(* A closure returns Err(Retry).                                           *)
Retry(t) ==
  /\ Goto(t, "run", "retry") /\ "retry" \in Use[t].ops
  /\ UNCHANGED <<shared, running, local, blocking, history>>

(* Err(Retry) reaches an or whose first closure returned it: the logs are  *)
(* swapped and the second closure runs.                                    *)
OrSecond(t) ==
  /\ frames[t] # <<>> /\ Head(frames[t]).stage = "first"
  /\ Goto(t, "retry", "run")
  /\ log' = [log EXCEPT ![t] = Head(frames[t]).saved]
  /\ obs' = [obs EXCEPT ![t] = Head(frames[t]).obs]
  /\ intent' = [intent EXCEPT ![t] = Head(frames[t]).intent]
  /\ frames' = [frames EXCEPT ![t] =
       <<[stage |-> "second", saved |-> log[t], obs |-> EmptyView, intent |-> EmptyView]>>
         \o Tail(@)]
  /\ UNCHANGED <<shared, running, todo, blocking, seen, stale>>

(* Err(Retry) reaches an or whose second closure returned it.              *)
OrBlocked(t) ==
  /\ pc[t] = "retry"
  /\ frames[t] # <<>> /\ Head(frames[t]).stage = "second"
  /\ log' = [log EXCEPT ![t] = Combine(@, Head(frames[t]).saved)]
  /\ frames' = [frames EXCEPT ![t] = Tail(@)]
  /\ UNCHANGED <<shared, control, todo, blocking, history>>

-----------------------------------------------------------------------------
(* The control function of with_control may answer Abort.  That of with,   *)
(* and so of atomically, never does.                                       *)
MayAbort(t) == "abort" \in Use[t].ops

(* The control function answers Abort: with_control returns None.  It is   *)
(* asked for Retry and for Failure.                                        *)
Abort(t) ==
  /\ MayAbort(t)
  /\ \/ pc[t] = "retry" /\ frames[t] = <<>>
     \/ pc[t] = "run" /\ "failure" \in Use[t].ops
  /\ pc' = [pc EXCEPT ![t] = "idle"]
  /\ DropGuard(t) /\ Clear(t)
  /\ UNCHANGED <<shared, blocking>>

(* A closure returns Err(Failure), which every enclosing or passes on, and *)
(* control does not abort: the closure runs again.                         *)
Failure(t) ==
  /\ Goto(t, "run", "run") /\ "failure" \in Use[t].ops
  /\ Clear(t)
  /\ UNCHANGED <<shared, running, blocking>>

(* A closure panics, possibly by the assertion of a nested                 *)
(* TransactionGuard::new: unwinding drops the transaction and its guard.   *)
Panic(t) ==
  /\ Goto(t, "run", "idle") /\ "panic" \in Use[t].ops
  /\ DropGuard(t) /\ Clear(t)
  /\ UNCHANGED <<shared, blocking>>

-----------------------------------------------------------------------------
(* The closure returned Ok: commit, first phase.                           *)
Commit(t) ==
  /\ Goto(t, "run", "lock") /\ frames[t] = <<>>
  /\ todo' = [todo EXCEPT ![t] = {v \in Var : log[t][v] # Vacant}]
  /\ UNCHANGED <<shared, running, log, frames, blocking, history>>

Visited(t, v) == todo' = [todo EXCEPT ![t] = @ \ {v}]

(* The early return of commit: the guards unlock as they are dropped, and  *)
(* with_control clears the log and runs the closure again.                 *)
Inconsistent(t) ==
  /\ pc' = [pc EXCEPT ![t] = "run"]
  /\ writer' = [v \in Var |-> IF writer[v] = t THEN NoThread ELSE writer[v]]
  /\ readers' = [v \in Var |-> readers[v] \ {t}]
  /\ Clear(t)
  /\ UNCHANGED <<value, running, blocking>>

SkipObsolete(t, v) ==
  /\ pc[t] = "lock" /\ IsNext(t, v)
  /\ log[t][v].kind = "ReadObsolete"
  /\ Visited(t, v)
  /\ UNCHANGED <<shared, control, log, frames, blocking, history>>

(* Bug: the lock is only tried, and its being held passes for a conflict.  *)
TryLockRead(t, v) ==
  /\ pc[t] = "lock" /\ IsNext(t, v)
  /\ log[t][v].kind = "Read"
  /\ \/ /\ writer[v] = NoThread /\ value[v] = log[t][v].orig
        /\ readers' = [readers EXCEPT ![v] = @ \cup {t}]
        /\ Visited(t, v)
        /\ UNCHANGED <<value, writer, control, log, frames, blocking, history>>
     \/ /\ writer[v] # NoThread \/ value[v] # log[t][v].orig
        /\ Inconsistent(t)

(* Bug: a variable that was only read is locked and not compared.          *)
LockReadUnchecked(t, v) ==
  /\ pc[t] = "lock" /\ IsNext(t, v)
  /\ log[t][v].kind = "Read"
  /\ writer[v] = NoThread
  /\ readers' = [readers EXCEPT ![v] = @ \cup {t}]
  /\ Visited(t, v)
  /\ UNCHANGED <<value, writer, control, log, frames, blocking, history>>

LockRead(t, v) ==
  /\ pc[t] = "lock" /\ IsNext(t, v)
  /\ log[t][v].kind = "Read"
  /\ writer[v] = NoThread
  /\ \/ /\ value[v] = log[t][v].orig
        /\ readers' = [readers EXCEPT ![v] = @ \cup {t}]
        /\ Visited(t, v)
        /\ UNCHANGED <<value, writer, control, log, frames, blocking, history>>
     \/ value[v] # log[t][v].orig /\ Inconsistent(t)

(* RwLock::write, first half: the writer bit is set and keeps new readers  *)
(* out, while the readers that are in have yet to leave.                   *)
AnnounceWrite(t, v) ==
  /\ pc[t] = "lock" /\ IsNext(t, v)
  /\ IsWrite(log[t][v])
  /\ writer[v] = NoThread
  /\ writer' = [writer EXCEPT ![v] = t]
  /\ UNCHANGED <<value, readers, control, local, blocking, history>>

LockWrite(t, v) ==
  /\ pc[t] = "lock" /\ IsNext(t, v)
  /\ IsWrite(log[t][v])
  /\ writer[v] = t /\ readers[v] = {}
  /\ \/ /\ log[t][v].kind = "ReadWrite" => value[v] = log[t][v].orig
        /\ Visited(t, v)
        /\ UNCHANGED <<shared, control, log, frames, blocking, history>>
     \/ /\ log[t][v].kind = "ReadWrite" /\ value[v] # log[t][v].orig
        /\ Inconsistent(t)

(* Every lock is held and every read is consistent: second phase.  The     *)
(* read locks are released first.                                          *)
ReleaseReads(t) ==
  /\ Goto(t, "lock", "writeback") /\ todo[t] = {}
  /\ readers' = [v \in Var |-> readers[v] \ {t}]
  /\ todo' = [todo EXCEPT ![t] = Written(log[t])]
  /\ obs' = [obs EXCEPT ![t] = EmptyView]
  /\ intent' = [intent EXCEPT ![t] = EmptyView]
  /\ seen' = [seen EXCEPT ![t] = NoLoads]
  /\ stale' = [stale EXCEPT ![t] = NoLoads]
  /\ UNCHANGED <<value, writer, running, log, frames, blocking>>

(* Bug: the two values of a ReadWrite are mixed up.                        *)
WriteBackOriginal(t, v) ==
  /\ pc[t] = "writeback" /\ IsNext(t, v)
  /\ Store(v, IF log[t][v].kind = "ReadWrite" THEN log[t][v].orig ELSE log[t][v].new)
  /\ writer' = [writer EXCEPT ![v] = NoThread]
  /\ Visited(t, v)
  /\ UNCHANGED <<readers, control, log, frames, blocking, obs, intent, seen>>

(* One value is written and its lock released at the end of the iteration. *)
WriteBack(t, v) ==
  /\ pc[t] = "writeback" /\ IsNext(t, v)
  /\ Store(v, log[t][v].new)
  /\ writer' = [writer EXCEPT ![v] = NoThread]
  /\ Visited(t, v)
  /\ UNCHANGED <<readers, control, log, frames, blocking, obs, intent, seen>>

(* Bug: commit does not call wake_all.                                     *)
WakeNobody(t) ==
  /\ Goto(t, "writeback", "wake") /\ todo[t] = {}
  /\ UNCHANGED <<shared, running, log, frames, todo, blocking, history>>

StartWaking(t) ==
  /\ Goto(t, "writeback", "wake") /\ todo[t] = {}
  /\ todo' = [todo EXCEPT ![t] = Written(log[t])]
  /\ UNCHANGED <<shared, running, log, frames, blocking, history>>

(* VarControlBlock::wake_all: the list is taken under its mutex, ...       *)
TakeWaiting(t, v) ==
  /\ pc[t] = "wake" /\ IsNext(t, v) /\ waking[t] = {}
  /\ waking' = [waking EXCEPT ![t] = waiting[v]]
  /\ waiting' = [waiting EXCEPT ![v] = {}]
  /\ Visited(t, v)
  /\ UNCHANGED <<shared, control, log, frames, reads, blocked, history>>

(* ... and each thread in it is informed by ControlBlock::set_changed.     *)
SetChanged(t, u) ==
  /\ pc[t] = "wake" /\ u \in waking[t]
  /\ blocked' = [blocked EXCEPT ![u] = FALSE]
  /\ waking' = [waking EXCEPT ![t] = @ \ {u}]
  /\ UNCHANGED <<shared, control, local, waiting, reads, history>>

CommitDone(t) ==
  /\ Goto(t, "wake", "idle") /\ todo[t] = {} /\ waking[t] = {}
  /\ DropGuard(t) /\ Clear(t)
  /\ UNCHANGED <<shared, blocking>>

-----------------------------------------------------------------------------
(* Err(Retry) reaches with_control, which does not abort: wait_for_change  *)
(* takes the log, keeps what was read and makes a new ControlBlock.        *)
WaitForChange(t) ==
  LET readValues == {v \in Var : HasReadValue(log[t][v])}
  IN  /\ frames[t] = <<>>
      /\ Goto(t, "retry", IF readValues = {} THEN "park" ELSE "wait")
      /\ todo' = [todo EXCEPT ![t] = readValues]
      /\ log' = [log EXCEPT ![t] = [v \in Var |-> Obsolete(@[v])]]
      /\ blocked' = [blocked EXCEPT ![t] = TRUE]
      /\ UNCHANGED <<shared, running, frames, waiting, reads, waking, history>>

(* VarControlBlock::wait registers before the value is compared.           *)
Register(t, v) ==
  /\ Goto(t, "wait", "check") /\ IsNext(t, v)
  /\ waiting' = [waiting EXCEPT ![v] = @ \cup {t}]
  /\ UNCHANGED <<shared, running, local, reads, blocked, waking, history>>

(* Bug: the value is not looked at again once the thread has registered.   *)
RegisteredOnly(t, v) ==
  /\ IsNext(t, v)
  /\ Goto(t, "check", IF todo[t] = {v} THEN "park" ELSE "wait")
  /\ reads' = [reads EXCEPT ![t] = @ \cup {v}]
  /\ log' = [log EXCEPT ![t][v] = Vacant]
  /\ Visited(t, v)
  /\ UNCHANGED <<shared, running, frames, waiting, blocked, waking, history>>

(* The closure given to all(): the first changed variable ends the loop.   *)
(* (What the history says of v is from here on about the value compared.)  *)
Compare(t, v) ==
  /\ IsNext(t, v) /\ writer[v] = NoThread
  /\ Goto(t, "check", IF value[v] # log[t][v].orig THEN "dead"
                      ELSE IF todo[t] = {v} THEN "park" ELSE "wait")
  /\ reads' = [reads EXCEPT ![t] = @ \cup {v}]
  /\ log' = [log EXCEPT ![t] = IF value[v] = @[v].orig
                                THEN [@ EXCEPT ![v] = Vacant] ELSE EmptyLog]
  /\ Visited(t, v)
  /\ stale' = [stale EXCEPT ![t][v] = @ \cap {log[t][v].orig}]
  /\ UNCHANGED <<shared, running, frames, waiting, blocked, waking, obs, intent, seen>>

(* Bug: an unpark meant for an earlier wait ends this one.                 *)
UnblockedByToken(t) ==
  /\ Goto(t, "park", "dead")
  /\ UNCHANGED <<shared, running, local, blocking, history>>

(* ControlBlock::wait returns once the flag is down.                       *)
Unblocked(t) ==
  /\ Goto(t, "park", "dead") /\ ~blocked[t]
  /\ UNCHANGED <<shared, running, local, blocking, history>>

(* Bug: something still owns the ControlBlock when the wait is over.       *)
WaitDoneLeaks(t) ==
  /\ Goto(t, "dead", "run")
  /\ reads' = [reads EXCEPT ![t] = {}]
  /\ blocked' = [blocked EXCEPT ![t] = FALSE]
  /\ Clear(t)
  /\ UNCHANGED <<shared, running, waiting, waking>>

(* set_dead on every registered variable, the drop of the ControlBlock,    *)
(* after which no weak reference to it can be upgraded, and clear.         *)
WaitDone(t) ==
  /\ Goto(t, "dead", "run")
  /\ waiting' = [v \in Var |-> waiting[v] \ {t}]
  /\ waking' = [u \in Thread |-> waking[u] \ {t}]
  /\ reads' = [reads EXCEPT ![t] = {}]
  /\ blocked' = [blocked EXCEPT ![t] = FALSE]
  /\ Clear(t)
  /\ UNCHANGED <<shared, running>>

-----------------------------------------------------------------------------
(* TVar::write_atomic, outside a transaction: the lock in its two halves,  *)
(* then the store and the unlock.  There is no wake_all.                   *)
AnnounceWriteAtomic(t, v) ==
  /\ Goto(t, "idle", "write_atomic") /\ "write_atomic" \in Use[t].ops
  /\ v \in Use[t].writes /\ writer[v] = NoThread
  /\ writer' = [writer EXCEPT ![v] = t]
  /\ todo' = [todo EXCEPT ![t] = {v}]
  /\ UNCHANGED <<value, readers, running, log, frames, blocking, history>>

(* Bug: the store does not wait for the readers, as without the lock.      *)
StoreUnlocked(t, v) ==
  /\ Goto(t, "write_atomic", "idle")
  /\ todo[t] = {v}
  /\ \E a \in Fresh : Store(v, a)
  /\ writer' = [writer EXCEPT ![v] = NoThread]
  /\ Visited(t, v)
  /\ UNCHANGED <<readers, running, log, frames, blocking, obs, intent, seen>>

WriteAtomic(t, v) ==
  /\ Goto(t, "write_atomic", "idle")
  /\ todo[t] = {v} /\ readers[v] = {}
  /\ \E a \in Fresh : Store(v, a)
  /\ writer' = [writer EXCEPT ![v] = NoThread]
  /\ Visited(t, v)
  /\ UNCHANGED <<readers, running, log, frames, blocking, obs, intent, seen>>

-----------------------------------------------------------------------------
(* The steps of the library, which it takes without the user's help ...    *)
LibraryStep(t) ==
  \/ OrSecond(t) \/ OrBlocked(t)
  \/ ReleaseReads(t) \/ StartWaking(t) \/ CommitDone(t)
  \/ WaitForChange(t) \/ Unblocked(t) \/ WaitDone(t)
  \/ \E v \in Var : \/ SkipObsolete(t, v) \/ LockRead(t, v)
                    \/ AnnounceWrite(t, v) \/ LockWrite(t, v)
                    \/ WriteBack(t, v) \/ TakeWaiting(t, v)
                    \/ Register(t, v) \/ Compare(t, v)
                    \/ WriteAtomic(t, v)
  \/ \E u \in Thread : SetChanged(t, u)

(* ... and those that the calling program and its closures choose.         *)
UserStep(t) ==
  \/ Begin(t) \/ Or(t) \/ OrOk(t) \/ Retry(t)
  \/ Abort(t) \/ Failure(t) \/ Panic(t) \/ Commit(t)
  \/ \E v \in Var : \/ ReadShared(t, v) \/ ReadLogged(t, v) \/ Write(t, v)
                    \/ AnnounceWriteAtomic(t, v)

Next == \E t \in Thread : LibraryStep(t) \/ UserStep(t)

Spec == Init /\ [][Next]_vars

(* Threads are scheduled, and parking_lot hands a lock that keeps being    *)
(* released to every thread that keeps asking for it (eventual fairness).  *)
(* Nothing is assumed of the closures.                                     *)
FairSpec == Spec /\ \A t \in Thread : SF_vars(LibraryStep(t))
=============================================================================
