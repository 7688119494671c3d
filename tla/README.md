# rust-stm in TLA+

A TLA+ development of the software transactional memory in `src/stm-core`:
modules that model its transactions, variables and blocking, TLC configurations
that check them on small instances, and theorems checked by TLAPS.

Notation: `mod.rs` is `src/stm-core/src/transaction/mod.rs`; the other files are
`control_block.rs` and `log_var.rs` beside it and `tvar.rs`, `lib.rs`, `tarc.rs`,
`tweak.rs`, `result.rs` in `src/stm-core/src`.

## 1. Inventory

| Part | State | Operations | Hard behaviour | What makes it correct |
|---|---|---|---|---|
| Transaction (`mod.rs`) | the log `vars`, a `BTreeMap` from variables to entries; the thread-local `TRANSACTION_RUNNING` | `with_control`, `read`, `write`, `or`, `combine`, `clear`, `commit`, `wait_for_change` | locks taken, reads compared and values stored one variable at a time, next to other commits; nested `or` swaps and merges logs; a closure may retry, fail, abort or panic anywhere | commits are atomic and isolated; a commit fails only on a conflict and always ends; blocked threads wake; nothing is left behind |
| Log entries (`log_var.rs`) | `Read`, `Write`, `ReadWrite`, and their `ReadObsolete` forms | `read`, `write`, `obsolete`, `into_read_value` | the entry decides both what is stored and what is checked | a value that was shown stays checked, the last write wins |
| Variable: value and lock (`tvar.rs`) | `RwLock` around an `Arc` | `read_ref_atomic`, `write_atomic`, `new` | comparison is by pointer, and freed cells may be allocated again | pointer equality means "not written since" |
| Variable: waiting list (`tvar.rs`) | `waiting_threads`, a mutex-protected list of weak references, and the counter `dead_threads` | `wait`, `wake_all`, `set_dead` | lazy upgrade races with drop; the cleanup races with registration and with other cleanups | a live registration is never dropped; the list stays short |
| Control block (`control_block.rs`) | the flag `blocked`, the thread handle; the thread's park token | `new`, `wait`, `set_changed` | tokens outlive the wait they were meant for; spurious returns of `park` | `wait` returns only after `set_changed`, and then does return |
| API (`lib.rs`, `result.rs`) | – | `atomically`, `retry`, `guard`, `unwrap_or_retry`, `optionally` | they only combine the above | – |
| `TArc` (`tarc.rs`) | a `TVar<Arc<T>>` | `read`, `write`, `write_val`, `replace`, `update`, `modify_cow`, `read_atomic`, `write_atomic` | `replace`, `update` and `modify_cow` are a read, a computation and a write with other threads in between | what was computed from a value is committed over that value only: no update is lost |
| `TWeak` (`tweak.rs`) | a `TVar<Weak<T>>` | `downgrade`, `upgrade`, `write`, `write_arc`, `clear` | `upgrade` reads a reference count that the log does not track | what `upgrade` said still holds at commit; who blocks on a failed one is woken when it would succeed |
| Facade, test helpers, benchmarks | – | – | no state of their own | not modelled |

Interaction: a closure runs in its thread with no lock held and touches only the
log, except that the first read of a variable loads its `Arc` under the read
lock. `commit` locks every variable of the log in address order, releases the
read locks, stores and unlocks each written variable, and then has
`wake_all` inform every waiting thread. `wait_for_change` registers its
`ControlBlock` with each variable that was read, comparing after each
registration, and parks. `write_atomic` goes around the log and wakes nobody.

What is hard to test in this code, each at its line, is the list `hazards` of
`PROJECT.json`.

## 2. Modules

| Module | Models | Role |
|---|---|---|
| `LogVar` | `log_var.rs` | entries of the log as operators |
| `Transaction` | `mod.rs`, `read_ref_atomic`, `write_atomic`, the lock of a `TVar` | the core: threads, logs, locks, blocking |
| `TransactionProperties` | – | its invariants, action properties, liveness |
| `AtomicMemory` | – | the abstract specification `Transaction` implements |
| `MCTransaction` | – | instances for TLC |
| `ControlBlock` | `control_block.rs` | park, unpark and tokens |
| `Latch` | – | the abstract specification `ControlBlock` implements |
| `VarControlBlock` | `wait`, `wake_all`, `set_dead` of `tvar.rs`, and the part of `wait_for_change` that calls them | the list of weak references |
| `WaitList` | – | the abstract specification `VarControlBlock` implements |
| `MCVarControlBlock` | – | an instance for TLC |
| `SmartPointers` | `tarc.rs`, `tweak.rs`, `replace` and `modify` of `tvar.rs` | reference counts beside the steps of `Transaction` |
| `MCSmartPointers` | – | an instance for TLC |
| `TransactionProofs` | – | types, two-phase locking and deadlock freedom, proved |
| `TransactionAtomicity` | – | faithful logs and atomicity, proved |
| `TransactionCells` | – | pointer equality, proved |
| `TransactionBlocking` | – | nothing left behind, no lost wake-up, the use of lists and latches, proved |
| `TransactionAlternatives` | – | what becomes of reads: conflicts and waiting, proved |
| `SmartPointersProofs` | – | transactions with pointers are transactions, no lost updates, back-edges and upgrades, and what survives a destructor that panics, proved |
| `ControlBlockProofs` | – | the latch, proved |
| `VarControlBlockProofs` | – | the waiting list, proved |

`Transaction` uses the waiting list and the control block in their abstract
form: `waiting` and `waking` are the variables of `WaitList`, and `blocked` is
the flag of `Latch`. `VarControlBlock` and `ControlBlock` show that the code
provides these forms. The other half is shown as well: `UsesWaitLists` says that
`Transaction`, seen from any one variable, is a behaviour of `WaitList`
(`List(v)`), and `UsesLatches` that, seen from any one thread, it is one of `Latch`
(`ControlBlock(t)`). So `WaitList` and `Latch` are contracts, and both sides of
each are checked and proved. This keeps each state space small;
what it leaves out is stated in section 6.

The proof modules form a chain: `TransactionAlternatives` extends
`TransactionBlocking`, which extends `TransactionAtomicity` and `TransactionCells`,
which extend `TransactionProofs`. `SmartPointersProofs` extends `SmartPointers`
and the end of the chain.

### Transaction

Each thread has a program counter `pc`:

| `pc` | In the code |
|---|---|
| `idle` | outside the library |
| `run` | the closure is running |
| `retry` | `Err(Retry)` is on its way out to an `or` or to `with_control` |
| `lock` | first phase of `commit`: the loop over the log that locks and compares |
| `writeback` | second phase: the read locks are released, values are stored |
| `wake` | the loop that calls `wake_all` |
| `wait`, `check`, `park`, `dead` | `wait_for_change`: before a registration, before a comparison, in `ControlBlock::wait`, before the `set_dead` loop |
| `write_atomic` | `write_atomic` has announced itself to the lock |

`todo` is the part of the log that the current loop has yet to visit, and `IsNext`
makes the loop follow the order of the `BTreeMap`. A cell (a member of `Addr`)
is what an `Arc` points to. `Live` is the set of cells that have a reference, so a cell is
allocated again once the last log that mentions it is gone; comparison is by
address, as in `Arc::ptr_eq`. Values are not modelled apart from their cells: every
`write` boxes its value in a new cell, so two values are the same value only if they
are the same cell.

`frames` is the stack of calls of `or`: the copy of the log that it made, in its
first stage, or the log of the blocked alternative, in its second.

The lock is parking_lot's: a writer first sets the writer bit, which keeps new
readers out, and then waits for the readers to leave. `AnnounceWrite` and
`LockWrite` are the two halves. This matters for deadlock, since a reader can wait for
a writer that itself waits.

Releasing several locks at once (`ReleaseReads`, `Inconsistent`) is one step:
no other thread is disturbed by a lock being free sooner, and any behaviour of the
code in which it is free later is one of the model in which the other threads were
slower to take it.

What closures do is the constant `Use`: the variables they may read and write, and
whether they may write a variable twice (`rewrite`), use `or`, retry, fail, be
aborted by the control function, or panic, and whether the thread also calls
`write_atomic`. Within this, every
sequence of calls is possible, so that the model has no particular program in it.

The history variables `obs`, `intent`, `seen` and `stale` record what the closure was
shown and asked for, which cells it loaded from each variable, and which of those were
overwritten since. They are kept by cell, and not by variable, because an abandoned alternative and
the one that follows it may load the same variable at different times. They do not
influence any step.

Operators marked *Bug:* are faulty variants of the definition that follows
them (a dropped guard, a hash map for the tree, an `if` for a `while`). No
specification uses them. Put in the place of that definition, each makes a
property fail, which is how the properties were tried out.

### ControlBlock and VarControlBlock

`ControlBlock` has one thread that makes one `ControlBlock` after the other
(`Rounds` of them), and wakers that may hold a reference to any that is
alive. The park token belongs to the thread, so a token for the first
may end the `park` on the second; `park` may also return for no reason.
Under the refinement mapping both are stuttering steps of `Latch`.

`VarControlBlock` has the list of one variable. A waiter makes its
`ControlBlock` (`New`), may register it here (`Wait`) or may have dropped it again
before it came to this variable, counts it as dead (`SetDead`), perhaps cleans up
(`ResetDead`, `Retain` for one reference after the other, `Retained`) and drops it.
Since a `Weak` keeps the allocation of its target, `Referred` cells are not allocated again; `Alive` decides
whether `upgrade` succeeds. `mutex` is visible only for the cleanup of `set_dead`,
the one critical section of more than one step that other threads can observe.
Whoever upgrades a reference keeps its `ControlBlock` alive for a moment: a `wake_all`
(`held`), and a cleanup, whose `is_some` has the upgraded `Arc` as a temporary (`temp`). Both
may happen in the lists of other variables with which the same `ControlBlock` is registered:
`UpgradeElsewhere` is the upgrade of a `wake_all` of another variable, and `RetainElsewhere` that
of a cleanup, which a waiter may come to in its other calls of `set_dead`, before or
after the one here, or without having registered here at all (`left`).

### SmartPointers

A `TArc<T>` is a `TVar<Arc<T>>` and a `TWeak<T>` a `TVar<Weak<T>>`, so the
threads take the steps of `Transaction`. Beside them the module keeps what the
log does not know:

| Variable | In the code |
|---|---|
| `boxed[a]` | the `Arc` or `Weak` that the cell `a` boxes |
| `owned[t]` | the `Arc`s that the closure of `t`, or its caller, has in its hands |
| `calls` | the operations that have read their variable and have yet to go on: `replace`, `update`, `modify_cow` before the write, `upgrade` before `Weak::upgrade` |
| `failed[t]` | history: the `TWeak`s whose `upgrade` returned `None` on the path taken |
| `based[t][v]` | history: the value that `replace`, `update` or `modify_cow` read from `v`, if what `t` is to write to `v` was made from it |

There is no counter: a value is `Alive` while an `Arc` to it is in a cell that is itself
referred to (in a variable, a log, a copy made by `or`), in somebody's hands, or in
an operation under way. `MakeMut` decides by the same sets whether
`Arc::make_mut` copies. A compound operation is two steps, and other threads commit
and drop `Arc`s between them. A closure may `retry` at any point, for whichever reason:
`retry` itself, `guard`, or `unwrap_or_retry` of an `upgrade`.

`Target` names the `TWeak`s that are back-edges of a `TArc`. Closures that
maintain them commit only with `KeepsBackEdges`: whoever writes the `TArc`
writes the `TWeak`, and the `TWeak` refers to what the transaction itself saw or put in
the `TArc`. This is the discipline of the programs that use the two types
together (a tree with parent links), and the question is
whether the STM keeps it across interleavings. The
properties that depend on it name `Target`; the others hold for all closures.

`DestructorSpec` adds one step, `DestructorPanics`: commit drops the last `Arc` to a value whose
`Drop` panics.

## 3. What is checked

All runs finish within three minutes with two workers; the largest, `arcs`, has 421015 distinct states, and `waiting_list` 183015.

| Run | Instance | Question |
|---|---|---|
| `atomic` | 2 threads that read and write 2 variables in every way | Is every commit atomic, also that of a transaction that only reads (`AtomicSpec`), two-phase (`TwoPhase`), refused only on a conflict (`CommitFailsOnConflict`)? Can threads wait for each other in a circle (`NoDeadlock`)? Does pointer equality miss a change (`PtrEqDetectsChange`; that it reports none where there is none is part of `CommitFailsOnConflict`)? Does the log say what the closure saw (`LogFaithful`)? Deadlock is checked. |
| `or` | `or`, `retry` and repeated writes against a transaction that changes both variables | Does the log survive the swaps and merges of `or`; does a blocked alternative leave no writes; which variables does a blocked `or` wait for (`WaitsForUnwrittenReads`)? Does what `or` keeps of it ever make a commit fail in vain (`CommitFailsOnConflict`)? |
| `wait` | 3 threads: one waits for two variables, which the others change | Is a wake-up ever lost (`NoLostWakeUp`); without `or`, is every loaded variable waited for (`WaitsForAllReads`)? Is anything left behind (`LeavesNoTrace`)? Are the waiting lists used as `WaitList` allows (`UsesWaitLists`), and the control blocks as `Latch` does (`UsesLatches`)? |
| `user` | panic, failure, abort and retry, next to `write_atomic` | Is anything left behind (`LeavesNoTrace`); is `write_atomic` one store, and are the transactions beside it atomic (`AtomicSpec`)? |
| `live` | a consumer that blocks and a producer, `FairSpec` | Does every commit end (`CommitEnds`), and does a blocked thread run again (`WakesUp`)? |
| `control_block` | 3 wakers, 3 rounds, `FairSpec` | Does the code implement `Latch`, with its liveness (`ImplementsLatch`)? Is the thread unparked (`NoMissedUnpark`), and once (`WakesOnce`)? |
| `waiting_list` | 2 waiters, 1 waker, threshold 1, and whatever these do in the lists of other variables | Does the list implement `WaitList`, so that no live registration is lost? How long can it get (`ListBounded`)? Deadlock is checked. |
| `arcs` | two threads that change a `TArc` and maintain a `TWeak` as its back-edge: one with `replace`, `update`, `write_val` and `clear`, which also follows the back-edge, retries and may panic; the other with `read`, `modify_cow`, `write_arc` and `read_atomic` | Is an update ever lost between the read and the write of such an operation (`NoLostUpdate`)? Are back-edges intact in committed memory (`BackEdgesHold`)? Is what a failed `upgrade` said still so at commit (`UpgradesAtCommit`)? Does a thread that blocks on it sleep only while it would still fail (`SleepsOnlyWhileDead`)? |
| `or_reads` | the instance of `or` | violated: see F1 |
| `write_atomic_wakes` | a thread that waits and one that calls `write_atomic` | violated: see F2 |
| `used_vars` | the instance of `or` | violated: see F3 |
| `destructor` | the instance of `arcs`, with a destructor that panics | violated: see F4 |

### Where code and documentation part

**F1.** `mod.rs:230` says of `or`: "If both block, `Transaction::or` still waits for
`TVar`s in both functions." `combine` (`mod.rs:276`) uses `or_insert`, so an entry
`Write` that the second alternative made for a variable hides the `ReadObsolete`
entry that the first made for it. `wait_for_change` then does not register with
that variable. `WaitsForAllReads` fails in run `or_reads`;
`WaitsForUnwrittenReads`, which excludes exactly this case, holds.

**F2.** `tvar.rs:218` says that `write_atomic` "is semantically equivalent to"
a transaction that writes the variable. The transaction would wake the
threads blocked on the variable; `write_atomic` does not, and `NoLostWakeUp` fails in run
`write_atomic_wakes`. Runs without `write_atomic` on waited variables keep it.

**F3.** `lib.rs:26–28` says that writes are committed when "all the used `TVar`s are
consistent". The reads of a blocked alternative are obsolete and `commit`
skips them (`mod.rs:375–377`), so a transaction commits its second alternative
although its first might by then not block any more. The comment on `ReadObsolete`
(`log_var.rs:26–30`, "Don't check for consistency, but block on Var") shows that this is
the design; the documentation of the crate promises more. `UsedVarsConsistent` fails in run
`used_vars`. Atomicity of what the committed path saw and wrote is not touched
by this: `AtomicSpec` holds in run `or`.

**F4.** `lib.rs:105` says: "Panicking in a transaction is transaction-safe. The
transaction aborts and all changes are discarded. No poisoning or half written
transactions happen." User code also runs in the middle of a commit: `*lock = value`
(`mod.rs:399`) drops the old value, and with it perhaps the last `Arc` to
something with a `Drop` of its own. If that panics, the variables stored so far keep
their new values, the rest keep the old ones, the locks are released by unwinding without
poisoning, and nobody is woken. `AtomicSpec` fails in run `destructor`. A panic of
the closure itself is safe, as documented: `LeavesNoTrace` and
`AtomicSpec` hold in run `user`. And what `lib.rs:32` says, "Panicing within STM does not poison
the `TVar`s", holds even of such a destructor: `NothingIsPoisoned` (§5).

### Bounds, and why they are enough

- **Threads, variables.** Two variables are what a lock order, a half-stored
  commit, and a wait interrupted by a change of an earlier variable need. Two threads make every
  pairwise interleaving of commits; `wait` has three so that two wakers meet one waiter.
  The safety theorems of section 5 hold for any number.
- **Addr = 1..12.** At most twelve cells can be live at once in these instances, so
  allocation never fails for lack of them. The allocator (`LeastFree`) returns the lowest
  free address: freed cells are used again at the first occasion, which is the case pointer comparison has to
  fear. The constant `Alloc` leaves any other choice to the proofs.
- **Addr = Payload = 1..11, MaxOwned = 1** in `arcs`: a thread asks for another `Arc` only when it holds
  none, and with eleven cells and payloads some are free in every state of the run, so that allocation
  never fails. One `Arc` in the hands of a thread is what keeps a value alive across
  a commit; a second one adds no new way to do so. `TArc::write` is in the calls of neither thread: it takes
  the same step as `write_val`, with an `Arc` that the closure has, and `replace` stores such an `Arc` too.
- **VIEW PointerShape** adds to `Shape` where the references to each payload are, and for which written entries it is `based`; payloads are only compared too.
- **VIEW Shape** identifies states that differ only in the names of cells.
  The model compares cells for equality only, and never looks at a cell that has been freed, so
  the view is an exact quotient; all properties are invariant under renaming. Of the history it
  keeps, for each cell that a log or a copy of it has, whether it is out of date (that it was loaded is
  `KnownInv` of section 5), and for each variable whether anything loaded from it is, once the
  thread has registered with it: no property of a run with this view asks for more. (`UsedVarsConsistent` does ask for
  more, but a counterexample is one under any view.)
- **MaxDepth** bounds the nesting of `or`: 0 where it is not used, 1 in the runs with `or`.
- **Rounds = 3**: a token left from the first wait reaches the second, and that of the second a third.
- **Threshold = 1** in place of 64 makes the cleanup happen often.
  `Ctrl` has enough addresses that allocation never fails. With these numbers `ListBounded` is exact: with one less on its
  right-hand side it fails. One waker can keep one `ControlBlock` alive, which is its part of the bound; that two do
  not get in each other's way is a theorem (section 5), as is the bound for any number of threads.
- **Symmetry** (waiters, wakers) is used in `waiting_list` only, a safety run whose properties do not name a thread.

`CHECK_DEADLOCK FALSE` appears where the system may really stop: a thread that
blocks on variables nobody changes any more sleeps forever (`or`, `wait`, `user`, `live`, `arcs`, `destructor`),
as does the thread in `control_block` when its rounds are used up.

### Fairness

`FairSpec` of `Transaction` assumes strong fairness of each thread's
`LibraryStep`: the steps the library takes once it has been called. A step that
waits for a lock can be enabled and disabled over and over by other
threads. That it is eventually taken rests on the operating system scheduling the thread
and on parking_lot's eventual fairness (it hands a contended lock to a waiting
thread from time to time). This assumes away what `tvar.rs:49` warns of, "Starvation may occur, if one thread
wants to write-lock but others keep holding read-locks": with strong fairness a writer that could get its lock again and again
does get it. What `CommitEnds` shows is that nothing else keeps a commit from its end: locks taken in
order are always obtained or found inconsistent, and no two commits hold each other up for ever; the mutant that
locks in any order breaks it. Nothing is assumed of closures (`UserStep`): they may run
forever. Hence nothing says that a transaction ever commits; the documentation of
`lib.rs` mentions that kind of starvation itself. `ControlBlock` assumes weak fairness of the
thread's steps and of a waker's steps once it has upgraded its reference, never that
`park` returns by itself.

## 4. Refinements

- `Transaction` ⇒ `AtomicMemory`. The abstract state has the memory, the `stage` of each thread (out of the library, running
  a transaction, committed, or in a `write_atomic`) and what its closure was shown and wants written. A running transaction
  ends with `Commit`, at which everything that it was shown is current and everything that it wrote takes effect, or with
  `Abandon`; `Work` leaves it running, so that a commit, also of a transaction that has only read, is
  a step of its own with its own check. Only a thread that has committed can `Return`. `write_atomic` is `Call`ed with a variable, and memory changes at its
  `Set`, by a new value for this variable, and in no other way but by `Commit`. The mapping: `mem <- Committed`, the value of a variable is
  the stored one, or, if its lock is held by a commit that has passed its
  last check, the value that commit will store; `stage <- Stage`, by the program counter. The step that maps to
  `Commit(t)` is `ReleaseReads(t)`; storing the values one by one is stuttering.
  This is what "a single atomic operation" means although locks are
  released in the order in which values are stored.
- `ControlBlock` ⇒ `Latch`, safety and liveness, with the flag of the current ControlBlock as
  `blocked`; a swap on an earlier one, and a stale token, stutter.
- `VarControlBlock` ⇒ `WaitList`, with the threads whose
  ControlBlock is alive and in the list as `waiting`.
- `Transaction` ⇒ `WaitList` for each variable, with the threads that have
  registered with it as `inside`. A list that `wake_all` of another variable
  leads to is `TakeElsewhere` here.
- `Transaction` ⇒ `Latch` for each thread (safety): `wait_for_change` makes the latch, finds that it
  need not wait or waits, and goes on only with the flag of this wait down; a `set_changed` by whichever
  `wake_all` is `SetChanged`, and one that comes when the flag is down already stutters.
- `SmartPointers` ⇒ `Transaction`, with the identity as the mapping: the pointers are beside the transactions and never in their way.

## 5. What is proved

For any set of threads, any set of variables with
natural-number addresses, any nesting depth, any use and any allocator that returns
free cells (`ConstantsAssumption`, `AllocAssumption`, `NullAssumption`), and likewise for any
sets of waiters (at least one) and wakers (finite where their number bounds the list, `FiniteAssumption`), any
`Rounds` and any `Threshold`; for `SmartPointers`, any set of payloads, any `Target` and any `Calls`
(`SmartPointersAssumption`):

| Theorem | Says |
|---|---|
| `TransactionProofs!TypeCorrect` | `Spec => []TypeOK` |
| `TwoPhaseLocking` | `Spec => []TwoPhase` |
| `DeadlockFreedom` | `Spec => []NoDeadlock`, if the addresses have an upper bound |
| `LogIsFaithful` | `Spec => []LogFaithful` |
| `TransactionsAreAtomic` | `Spec => AtomicSpec` |
| `ComparingPointersIsSound` | `Spec => []PtrEqDetectsChange` |
| `NothingIsLeft` | `Spec => []LeavesNoTrace` |
| `WakeUpsArePending` | `Spec => []NoLostWakeUp`, if nobody calls `write_atomic` (F2) |
| `ListsAreUsed` | `Spec => UsesWaitLists` |
| `LatchesAreUsed` | `Spec => UsesLatches` |
| `ConflictsAreReal` | `Spec => CommitFailsOnConflict` |
| `ReadsAreWaitedFor` | `Spec => []WaitsForUnwrittenReads`, for `MaxDepth <= 1` |
| `AllReadsAreWaitedFor` | `Spec => []WaitsForAllReads`, for `MaxDepth = 0` (F1) |
| `ControlBlockProofs!TypeCorrect` | `Spec => []TypeOK` (`ControlBlock`) |
| `NeverMissed` | `Spec => []NoMissedUnpark` (`ControlBlock`) |
| `WokenOnce` | `Spec => []WakesOnce` (`ControlBlock`) |
| `BehavesAsLatch` | the safety part of `ImplementsLatch` |
| `VarControlBlockProofs!TypeCorrect` | `Spec => []TypeOK` (`VarControlBlock`) |
| `ListKeepsWaiters` | `Spec => ImplementsWaitList` (`VarControlBlock`) |
| `ListStaysShort` | `Spec => []ListBounded` (`VarControlBlock`) |
| `PointersAreTransactions` | `PointersSpec => Spec` |
| `PointersTypeCorrect` | `PointersSpec => []PointersTypeOK` |
| `NothingIsLost` | `PointersSpec => []NoLostUpdate` |
| `BackEdgesAreKept` | `PointersSpec => []BackEdgesHold` |
| `UpgradesHoldAtCommit` | `PointersSpec => []UpgradesAtCommit` |
| `SleepersMissNothing` | `PointersSpec => []SleepsOnlyWhileDead`, if nobody calls `write_atomic` |
| `NothingIsPoisoned` | `DestructorSpec` implies `TwoPhase`, `LeavesNoTrace`, `LogFaithful`, `PtrEqDetectsChange` and `CommitFailsOnConflict` |
| `DestructorsBlockNobody` | `DestructorSpec => []NoDeadlock`, if addresses are bounded |

*Types and locks* (`TransactionProofs`). `TypeOK /\ TwoPhase` is inductive.
`TypeOK` needs `TwoPhase` in one place: `WriteBack` stores `log[t][v].new`, which is a
cell only because a variable in `todo` during write-back has a written entry.
`TwoPhase` (`LockOK` for each thread and variable) says which locks are
held at each position of the loops, that a writer excludes readers once it
has passed, and that what was compared is unchanged while the
lock is held. `QuietStep` covers all actions that touch neither locks nor the position of a
committing thread; each of the others has a step.

*Deadlock*. Of all variables that threads of a deadlocked set wait for, take the highest one (`Greatest`; addresses
are bounded). A thread that keeps another from getting its lock has passed it, by `TwoPhase`, so what that
thread waits for itself lies higher (`Ascending`), or it has only set the writer bit and waits for a
reader to leave (`WaitsHigher`); and that reader has passed the variable (`NoCycle`). This is the case of a reader that waits
for a writer that itself waits.

*Log* (`TransactionAtomicity`). `LogFaithful` is not inductive because of `or`: when an
alternative blocks, the log becomes the copy. `FaithfulInv` adds that each
copy on the stack is faithful to what the closure had seen and written when it was made,
and that the log is empty outside transactions.

*Atomicity.* `AtomicStep` takes the invariants above and shows that each action maps to
a step of `AtomicMemory` or a stutter. By `StagesApart` and `StageStep` a step changes the stage
of no other thread, nor the variable it is storing with `write_atomic`; most steps keep their own
thread inside its running transaction (`StaysRunning`) or committed (`StaysCommitted`). For `ReleaseReads`, `todo = {}` makes every entry
`Passed`: by `TwoPhase` every checked value equals memory and every written variable is locked
by this thread, and by `FaithfulInv` the log is what the closure saw and asked for.
The two halves are lemmas of their own (`CommitPoint`, `CommitEffect`), and no other step but
the store of `write_atomic` changes the committed memory (`MemoryKept`); that store is of a cell that is
nowhere in memory yet. `Setters` plays no part: who calls `write_atomic` matters
only to the wake-ups (`SetterInv` in `TransactionBlocking`).

*Cells* (`TransactionCells`). The comparison of pointers is sound although addresses
are reused. `CellsInv` says that a cell made by a `write` and not yet stored
is in no variable, and in the entries of no other thread or variable, so that the store of
a commit never brings back a cell that somebody has loaded; and that a
variable which holds a cell that a thread loaded from it has not been written
since. The invariant is about the copies that `or` keeps on the stack as well as
about the log.

*Nothing is left* (`TransactionBlocking`). `TraceInv` follows the guard, the log, the
registrations and the wake-ups under way through every `pc`; `TwoPhase` gives the locks.

*No lost wake-up*. `BlockingInv`: a thread that has registered with a variable is
in its list or has been taken from it by someone, and if the variable is stale
for it, that someone is still to come. The step that needs it is the store: at that moment the
thread is in the list and `wake_all` of the storing commit still lies ahead. `write_atomic` has no
such step, hence `Setters = {}`.

*Use of the lists*. `RegistersOnce`: what `wait_for_change` has still to visit it has not
registered with. `ListStep` then maps each action to one of `WaitList` or a stutter.

*Use of the latches*. `ControlBlockStep` maps each action to one of `Latch` or a stutter: only `Unblocked`
leaves a wait, by its guard, and only `Compare` leaves one that has not begun.

*Alternatives* (`TransactionAlternatives`). `KnownInv`: every cell that an entry of the log, or of a log on the stack
of `or`, has read is current or known to be stale, to any depth; `EntriesStep` says that the steps of `or` only
rearrange, merge and drop entries. That gives `ConflictsAreReal`. `RootedInv` orders the copies on the
stack: what an outer one has read, the inner ones and the log have too, so that
an alternative that is abandoned takes none of the reads before it along. `AccountInv` is about waiting: each variable a
thread loaded is in its log as read, in the copy that `combine` will merge, or excused by a write. It
assumes that no `or` is nested in another (`MaxDepth <= 1`), and so does what it shows:
if an inner `or` blocks whose second alternative wrote what its first had read (F1), and the outer `or`
abandons that write, nothing is left of either.

*Latch* (`ControlBlockProofs`). `NoMissedUnpark` and `WakesOnce` become inductive with
`FlagIsDown`: a waker that is about to unpark has taken the flag down. Two wakers
that would both unpark would both have found the flag up. For `NoMissedUnpark`, a
waker that finds the flag down already relies on the one that took it down. The
refinement needs `HeldIsMade`, that wakers hold only ControlBlocks that exist, and `MadeUp`, that each
begins with its flag up.

*Waiting list* (`VarControlBlockProofs`). The mapping goes from references to the
threads that own their targets, so it needs that no two threads own the same
ControlBlock (`OwnedOnce`), which holds because an address with any reference left is
not allocated (`NewIsFresh`). `Retain` and the upgrade of a dead reference
stutter, as dead references have no owner.

*Length of the list*. `CountInv` counts the references that were pushed since the last cleanup:
each belongs to a waiter that is still in, to one that has counted it in `dead`, or to one that
was left by the cleanup because it was alive, of which there are no more
than two for each waiter, its own `ControlBlock` and the one that its cleanup has upgraded, and one for each waker.
(`AliveFew`; a reference that is dead stays so, `DeadForGood`, so that `Kept` bounds what a cleanup leaves behind
although it visits one reference after the other.) `dead` passes the threshold only by the number of
threads that are on their way to the cleanup (`DeadBounded`). Together that is three for each waiter and one for each waker.

*Pointers* (`SmartPointersProofs`). `Simulation` maps each action to the step of `Transaction` it is made
of. `PointersInv` says that every cell that a variable holds, has held or may
come to hold (its `Slots`) boxes a reference of the right kind (`KindsKept`),
although addresses are reused, and that an operation which has
read a `TArc` finds the clone it was given in the log of its thread (`InLog`); no step of another thread
changes what that cell boxes, since the log keeps it live.

*Lost updates*. `BasedInv`: an operation under way finds in the log what it read (`FoundOK`), and
an entry whose new value was computed from a value is a `ReadWrite` with this value as its original
(`BasedOK`), which is then compared at commit (`CommitPoint`). The steps that could lose this are those of `or` and of
`LogVar::write`: what is written stays, on the same path, until it is written again (`WritesKept`), and
`write` keeps the original of what was read.

*Back-edges*. `EdgesInv` adds to `BackEdgesHold` that a commit that has begun keeps the
back-edges (`KeepsBackEdges`): the closure is held to it when it returns, and neither the log nor what
its cells box changes until the writes take effect. At that moment
`CommitPoint` makes what the log says of the `TArc` the committed value, and `CommitEffect` makes its
writes the new memory, both at once.

*Upgrades*. A dead value never comes back to life while some `Weak` to it is in reach
(`DeadStays`): nobody can get an `Arc` to it from a cell, a hand or an operation under way, and a new value is not
allocated where a `Weak` still points. `UpgradesInv` says that an upgrade under way asks for the value that the
log remembers, and `FailedInv` follows a failed one: while the closure runs, retries or commits, the
log remembers the dead value; while the thread falls asleep, each variable is either still to be compared and dead in
the log, or compared, and then dead in memory or stale. `UpgradesHoldAtCommit` puts
this together with `EdgesInv` (the `TArc` keeps its value alive, so
a `TWeak` to a dead value is not a back-edge), `SleepersMissNothing` with
`NoLostWakeUp`. That the log goes on remembering when an alternative is abandoned is `RootedInv`, and that
the thread loaded what it compares is `KnownInv`.

*Destructors*. `SoundInv` collects the invariants that do not speak of the values a commit has
written. `SoundStep` takes them through the steps of `PointersSpec` with the lemmas above, and
`UnwindingStep` through `DestructorPanics`. `Unwinding` says what this step leaves: one more variable stored, which the
thread had locked alone, and nothing changed for another thread but that its loads of that variable are stale.
What is lost with `DestructorPanics` is what F4 shows, `AtomicSpec`, and with it `BackEdgesHold`; and
`NoLostWakeUp`, since the unwinding skips `wake_all`.

Every safety property of the passing runs is a theorem. Only `WaitsForUnwrittenReads` and `WaitsForAllReads`
are for a depth of `or`, which is the one they speak of; with deeper nesting they are false (F1). Only model-checked: liveness (`CommitEnds`, `WakesUp`, the fairness part
of `ImplementsLatch`), which with ENABLED is out of the prover's reach.

## 6. What is not modelled, and why

- `TWeak`s that are made in the middle of a transaction (`downgrade` inside a closure), and a raw `Weak` that a closure keeps
  after `read`: the first is a new variable, and the set of variables is a constant; the second is only more
  ways to hold what `calls` holds for an `upgrade`.
- `write_atomic` of `TArc` and `TWeak` in `SmartPointers`: it is that of `TVar`, whose
  effect on atomicity and blocking is in `Transaction`; beside it no back-edge discipline could hold.
- `new_standalone`, `commit_standalone`, `init_transaction` and `commit_transaction` (feature `bench`): they
  commit one log again and again, so that the same cell is stored more than once,
  which no program outside of the benchmarks can do, and which `CellsInv` rules out for the others.
- The type erasure of values (`dyn Any`, downcasts): types are static in the callers,
  and a wrong downcast would be a wrong program, not a wrong schedule.
- The memory orders of the atomics: `SeqCst` and `Relaxed` accesses are both taken as interleaved. The counter `dead_threads`, the one that
  is `Relaxed`, only decides when to clean up.
- A nested `atomically` panics in `TransactionGuard::new`; for the outer transaction it is a
  panic of its closure (`Panic`).
- `Transaction`, `VarControlBlock` and `ControlBlock` in one state space: `WaitList` and `Latch` stand between
  them, and are checked and proved from both sides. That the two sides fit together is the usual
  argument for contracts and not itself a theorem here.
- The facade crate re-exports, the test helpers and the benchmarks have no state of the library.
- parking_lot, `Arc`, `Weak`, `std::thread::park` and the allocator are not in the repository;
  they are modelled from how the code uses them, and are marked external.

## 7. Plan

Done, in this order: `LogVar`, `Transaction` with commit; `or`; blocking;
`write_atomic`; `AtomicMemory`; `ControlBlock` and `Latch`; `VarControlBlock` and
`WaitList`; the proofs of types, locks, faithful logs, atomicity, latch and list;
`SmartPointers` with the panicking destructor; the use of the waiting lists; the proofs of
cells, blocking, alternatives, list length, pointers, back-edges, upgrades and lost updates; deadlock freedom; the
use of the latches; a history by cell, which freed the theorems about conflicts and upgrades from the nesting of `or`;
what survives a destructor that panics.

Left: `TWeak`s made by `downgrade` inside a transaction, with a set of variables that grows.
