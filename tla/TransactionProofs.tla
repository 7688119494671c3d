-------------------------- MODULE TransactionProofs --------------------------
(***************************************************************************)
(* Proofs about module Transaction.                                        *)
(***************************************************************************)
EXTENDS TransactionProperties, WellFoundedInduction, TLAPS

-----------------------------------------------------------------------------
(* Log entries.                                                            *)

(* An entry that LogVar::read, write or obsolete leaves behind is well     *)
(* formed: its kind tells which of its two values it carries.              *)
LEMMA EntryTypes ==
  /\ Vacant \in LogVar
  /\ \A a \in Addr : Entry("Read", a, Null) \in LogVar
  /\ \A e \in LogVar : ReadUpgrade(e) \in LogVar
  /\ \A e \in LogVar, a \in Addr : WriteUpgrade(e, a) \in LogVar
  /\ \A e \in LogVar : Obsolete(e) \in LogVar
<1> USE NullAssumption DEF LogVar, Kinds, Ptr, Entry, HasReadValue, IsWrite
<1>1. Vacant \in LogVar
  BY DEF Vacant
<1>2. \A a \in Addr : Entry("Read", a, Null) \in LogVar
  OBVIOUS
<1>3. \A e \in LogVar : ReadUpgrade(e) \in LogVar
  BY DEF ReadUpgrade
<1>4. \A e \in LogVar, a \in Addr : WriteUpgrade(e, a) \in LogVar
  BY DEF WriteUpgrade
<1>5. \A e \in LogVar : Obsolete(e) \in LogVar
  BY <1>1 DEF Obsolete
<1> QED BY <1>1, <1>2, <1>3, <1>4, <1>5

(* What a reader gets from an entry is a value.                            *)
LEMMA ReadResultType ==
  \A e \in LogVar : e # Vacant => ReadResult(e) \in Addr
BY DEF LogVar, Kinds, Ptr, Entry, HasReadValue, IsWrite, ReadResult, Vacant

LEMMA LogTypes ==
  /\ EmptyLog \in Log
  /\ \A l, m \in Log : Combine(l, m) \in Log
BY EntryTypes DEF EmptyLog, Log, Combine

(* The stack of a thread: pushing a frame, and the frame on top.           *)
LEMMA FrameTypes ==
  /\ \A f \in Frame, s \in Seq(Frame) : <<f>> \o s \in Seq(Frame)
  /\ \A s \in Seq(Frame) :
       s # <<>> => /\ Head(s) \in Frame /\ Tail(s) \in Seq(Frame)
                   /\ Head(s).saved \in Log
                   /\ Head(s).obs \in View /\ Head(s).intent \in View
<1>1. \A f \in Frame, s \in Seq(Frame) : <<f>> \o s \in Seq(Frame)
  OBVIOUS
<1>2. \A s \in Seq(Frame) : s # <<>> => Head(s) \in Frame /\ Tail(s) \in Seq(Frame)
  OBVIOUS
<1>3. \A f \in Frame : f.saved \in Log /\ f.obs \in View /\ f.intent \in View
  BY DEF Frame
<1> QED BY <1>1, <1>2, <1>3

LEMMA FreshType == Fresh \subseteq Addr
BY AllocAssumption DEF Fresh

LEMMA ViewType == EmptyView \in View /\ NoLoads \in Loads
BY DEF EmptyView, View, Ptr, NoLoads, Loads

(* The history of what was loaded.                                         *)
LEMMA StoreType ==
  ASSUME TypeOK, NEW v \in Var, NEW a \in Addr, Store(v, a)
  PROVE  value' \in [Var -> Addr] /\ stale' \in [Thread -> Loads]
<1>1. \A u \in Thread : [stale[u] EXCEPT ![v] = seen[u][v]] \in Loads
  BY DEF TypeOK, Loads
<1> QED BY <1>1 DEF TypeOK, Store

LEMMA LoadsType ==
  ASSUME NEW f \in [Thread -> Loads], NEW t \in Thread, NEW v \in Var,
         NEW S \in SUBSET Addr
  PROVE  [f EXCEPT ![t][v] = S] \in [Thread -> Loads] /\ f[t][v] \in SUBSET Addr
<1>1. [f[t] EXCEPT ![v] = S] \in Loads
  BY DEF Loads
<1> QED BY <1>1 DEF Loads

-----------------------------------------------------------------------------
(* Types.  That a thread writes back only values, and not Null, depends on *)
(* its writing back only variables it has written: TwoPhase is needed.     *)
LEMMA TypeStep == TypeOK /\ TwoPhase /\ [Next]_vars => TypeOK'
<1> SUFFICES ASSUME TypeOK, TwoPhase, [Next]_vars PROVE TypeOK'
  OBVIOUS
<1> USE DEF TypeOK, PC, Goto, Visited, shared, control, local, blocking, history
<1>0. CASE UNCHANGED vars
  BY <1>0 DEF vars
<1>1. ASSUME NEW t \in Thread, OrSecond(t) PROVE TypeOK'
  <2>1. /\ Head(frames[t]).saved \in Log /\ Head(frames[t]).obs \in View
        /\ Head(frames[t]).intent \in View /\ Tail(frames[t]) \in Seq(Frame)
    BY <1>1, FrameTypes DEF OrSecond
  <2>2. [stage |-> "second", saved |-> log[t], obs |-> EmptyView, intent |-> EmptyView]
          \in Frame
    BY ViewType DEF Frame
  <2>3. frames' \in [Thread -> Seq(Frame)]
    BY <1>1, <2>1, <2>2, FrameTypes DEF OrSecond
  <2> QED BY <1>1, <2>1, <2>3 DEF OrSecond
<1>2. ASSUME NEW t \in Thread, OrBlocked(t) PROVE TypeOK'
  <2>1. Head(frames[t]).saved \in Log /\ Tail(frames[t]) \in Seq(Frame)
    BY <1>2, FrameTypes DEF OrBlocked
  <2>2. Combine(log[t], Head(frames[t]).saved) \in Log
    BY <2>1, LogTypes
  <2> QED BY <1>2, <2>1, <2>2 DEF OrBlocked
<1>3. ASSUME NEW t \in Thread, ReleaseReads(t) PROVE TypeOK'
  BY <1>3, ViewType DEF ReleaseReads, Written
<1>4. ASSUME NEW t \in Thread, StartWaking(t) PROVE TypeOK'
  BY <1>4, ViewType DEF StartWaking, Written
<1>5. ASSUME NEW t \in Thread, CommitDone(t) PROVE TypeOK'
  BY <1>5, LogTypes, ViewType DEF CommitDone, Clear, DropGuard
<1>6. ASSUME NEW t \in Thread, WaitForChange(t) PROVE TypeOK'
  <2>1. [v \in Var |-> Obsolete(log[t][v])] \in Log
    BY EntryTypes DEF Log
  <2> QED BY <1>6, <2>1 DEF WaitForChange
<1>7. ASSUME NEW t \in Thread, Unblocked(t) PROVE TypeOK'
  BY <1>7, LogTypes, ViewType DEF Unblocked, Clear, DropGuard
<1>8. ASSUME NEW t \in Thread, WaitDone(t) PROVE TypeOK'
  BY <1>8, LogTypes, ViewType DEF WaitDone, Clear, DropGuard
<1>9. ASSUME NEW t \in Thread, Begin(t) PROVE TypeOK'
  BY <1>9, LogTypes, ViewType DEF Begin, Clear, DropGuard
<1>10. ASSUME NEW t \in Thread, Or(t) PROVE TypeOK'
  <2>1. [stage |-> "first", saved |-> log[t], obs |-> obs[t], intent |-> intent[t]]
          \in Frame
    BY DEF Frame
  <2>2. frames' \in [Thread -> Seq(Frame)]
    BY <1>10, <2>1, FrameTypes DEF Or
  <2> QED BY <1>10, <2>2 DEF Or
<1>11. ASSUME NEW t \in Thread, OrOk(t) PROVE TypeOK'
  <2>1. Head(frames[t]).saved \in Log /\ Tail(frames[t]) \in Seq(Frame)
    BY <1>11, FrameTypes DEF OrOk
  <2>2. Combine(log[t], Head(frames[t]).saved) \in Log
    BY <2>1, LogTypes
  <2> QED BY <1>11, <2>1, <2>2 DEF OrOk
<1>12. ASSUME NEW t \in Thread, Retry(t) PROVE TypeOK'
  BY <1>12, LogTypes, ViewType DEF Retry, Clear, DropGuard
<1>13. ASSUME NEW t \in Thread, Abort(t) PROVE TypeOK'
  <2>1. pc' = [pc EXCEPT ![t] = "idle"] /\ DropGuard(t) /\ Clear(t)
        /\ UNCHANGED <<shared, blocking>>
    BY <1>13 DEF Abort
  <2> QED BY <2>1, LogTypes, ViewType DEF Clear, DropGuard
<1>14. ASSUME NEW t \in Thread, Failure(t) PROVE TypeOK'
  BY <1>14, LogTypes, ViewType DEF Failure, Clear, DropGuard
<1>15. ASSUME NEW t \in Thread, Panic(t) PROVE TypeOK'
  BY <1>15, LogTypes, ViewType DEF Panic, Clear, DropGuard
<1>16. ASSUME NEW t \in Thread, Commit(t) PROVE TypeOK'
  BY <1>16, LogTypes, ViewType DEF Commit, Clear, DropGuard
<1>17. ASSUME NEW t \in Thread, NEW v \in Var, SkipObsolete(t, v) PROVE TypeOK'
  BY <1>17, LogTypes, ViewType, FreshType, EntryTypes DEF SkipObsolete, Clear, Inconsistent, Store, Log
<1>18. ASSUME NEW t \in Thread, NEW v \in Var, LockRead(t, v) PROVE TypeOK'
  <2>1. CASE value[v] = log[t][v].orig
    <3>1. /\ readers' = [readers EXCEPT ![v] = @ \cup {t}] /\ Visited(t, v)
          /\ UNCHANGED <<value, writer, control, log, frames, blocking, history>>
      BY <1>18, <2>1 DEF LockRead, Inconsistent
    <3> QED BY <3>1
  <2>2. CASE Inconsistent(t)
    BY <2>2, LogTypes, ViewType DEF Inconsistent, Clear
  <2> QED BY <1>18, <2>1, <2>2 DEF LockRead
<1>19. ASSUME NEW t \in Thread, NEW v \in Var, AnnounceWrite(t, v) PROVE TypeOK'
  BY <1>19, LogTypes, ViewType, FreshType, EntryTypes DEF AnnounceWrite, Clear, Inconsistent, Store, Log
<1>20. ASSUME NEW t \in Thread, NEW v \in Var, LockWrite(t, v) PROVE TypeOK'
  <2>1. CASE log[t][v].kind = "ReadWrite" => value[v] = log[t][v].orig
    <3>1. Visited(t, v) /\ UNCHANGED <<shared, control, log, frames, blocking, history>>
      BY <1>20, <2>1 DEF LockWrite, Inconsistent
    <3> QED BY <3>1
  <2>2. CASE Inconsistent(t)
    BY <2>2, LogTypes, ViewType DEF Inconsistent, Clear
  <2> QED BY <1>20, <2>1, <2>2 DEF LockWrite
<1>21. ASSUME NEW t \in Thread, NEW v \in Var, WriteBack(t, v) PROVE TypeOK'
  <2>1. IsWrite(log[t][v]) /\ log[t][v] \in LogVar
    BY <1>21 DEF WriteBack, TwoPhase, LockOK, Storing, IsNext, Log
  <2>2. log[t][v].new \in Addr
    BY <2>1 DEF LogVar, Ptr
  <2> QED BY <1>21, <2>2, StoreType DEF WriteBack
<1>22. ASSUME NEW t \in Thread, NEW v \in Var, TakeWaiting(t, v) PROVE TypeOK'
  BY <1>22, LogTypes, ViewType, FreshType, EntryTypes DEF TakeWaiting, Clear, Inconsistent, Store, Log
<1>23. ASSUME NEW t \in Thread, NEW v \in Var, Register(t, v) PROVE TypeOK'
  BY <1>23, LogTypes, ViewType, FreshType, EntryTypes DEF Register, Clear, Inconsistent, Store, Log
<1>24. ASSUME NEW t \in Thread, NEW v \in Var, Compare(t, v) PROVE TypeOK'
  <2>1. stale' \in [Thread -> Loads]
    <3>1. stale[t][v] \cap {log[t][v].orig} \in SUBSET Addr
      BY DEF Loads
    <3> QED BY <1>24, <3>1, LoadsType DEF Compare
  <2>2. log' \in [Thread -> Log]
    BY <1>24, LogTypes, EntryTypes DEF Compare, Log
  <2> QED BY <1>24, <2>1, <2>2 DEF Compare
<1>25. ASSUME NEW t \in Thread, NEW v \in Var, WriteAtomic(t, v) PROVE TypeOK'
  <2>1. value' \in [Var -> Addr] /\ stale' \in [Thread -> Loads]
    BY <1>25, FreshType, StoreType DEF WriteAtomic
  <2> QED BY <1>25, <2>1 DEF WriteAtomic
<1>26. ASSUME NEW t \in Thread, NEW v \in Var, ReadShared(t, v) PROVE TypeOK'
  <2>1. Entry("Read", value[v], Null) \in LogVar
    BY EntryTypes
  <2>2. log' \in [Thread -> Log]
    BY <1>26, <2>1 DEF ReadShared, Log
  <2>3. obs' \in [Thread -> View]
    BY <1>26 DEF ReadShared, View, Ptr
  <2>4. seen' \in [Thread -> Loads] /\ stale' \in [Thread -> Loads]
    <3>1. /\ seen[t][v] \cup {value[v]} \in SUBSET Addr
          /\ stale[t][v] \ {value[v]} \in SUBSET Addr
      BY DEF Loads
    <3> QED BY <1>26, <3>1, LoadsType DEF ReadShared
  <2> QED BY <1>26, <2>2, <2>3, <2>4 DEF ReadShared
<1>27. ASSUME NEW t \in Thread, NEW v \in Var, ReadLogged(t, v) PROVE TypeOK'
  <2>1. log[t][v] \in LogVar
    BY DEF Log
  <2>2. ReadUpgrade(log[t][v]) \in LogVar /\ ReadResult(log[t][v]) \in Addr
    BY <1>27, <2>1, EntryTypes, ReadResultType DEF ReadLogged
  <2>3. log' \in [Thread -> Log]
    BY <1>27, <2>2 DEF ReadLogged, Log
  <2>4. obs' \in [Thread -> View]
    BY <1>27, <2>2 DEF ReadLogged, View, Ptr
  <2> QED BY <1>27, <2>3, <2>4 DEF ReadLogged
<1>28. ASSUME NEW t \in Thread, NEW v \in Var, Write(t, v) PROVE TypeOK'
  <2>1. PICK a \in Fresh :
           /\ log' = [log EXCEPT ![t][v] = WriteUpgrade(@, a)]
           /\ intent' = [intent EXCEPT ![t][v] = a]
    BY <1>28 DEF Write
  <2>2. a \in Addr /\ log[t][v] \in LogVar
    BY FreshType DEF Log
  <2>3. WriteUpgrade(log[t][v], a) \in LogVar
    BY <2>2, EntryTypes
  <2>4. log' \in [Thread -> Log]
    BY <2>1, <2>3 DEF Log
  <2>5. intent' \in [Thread -> View]
    BY <2>1, <2>2 DEF View, Ptr
  <2> QED BY <1>28, <2>4, <2>5 DEF Write
<1>29. ASSUME NEW t \in Thread, NEW v \in Var, AnnounceWriteAtomic(t, v) PROVE TypeOK'
  BY <1>29, LogTypes, ViewType, FreshType, EntryTypes DEF AnnounceWriteAtomic, Clear, Inconsistent, Store, Log
<1>30. ASSUME NEW t \in Thread, NEW u \in Thread, SetChanged(t, u) PROVE TypeOK'
  BY <1>30 DEF SetChanged
<1> QED
  BY <1>0, <1>1, <1>2, <1>3, <1>4, <1>5, <1>6, <1>7, <1>8, <1>9, <1>10, <1>11, <1>12, <1>13, <1>14, <1>15, <1>16, <1>17, <1>18, <1>19, <1>20, <1>21, <1>22, <1>23, <1>24, <1>25, <1>26, <1>27, <1>28, <1>29, <1>30 DEF Next, LibraryStep, UserStep

-----------------------------------------------------------------------------
(* Two-phase locking.                                                      *)

(* The program counters between the first lock and the last unlock.        *)
Locking == {"lock", "writeback", "write_atomic"}

(* A step of s outside of commit and write_atomic, which touches neither   *)
(* a lock nor the log of another thread ...                                *)
Quiet(s) ==
  /\ UNCHANGED shared
  /\ pc[s] \notin Locking /\ pc'[s] \notin Locking
  /\ \A t \in Thread \ {s} : pc'[t] = pc[t] /\ log'[t] = log[t] /\ todo'[t] = todo[t]

(* ... disturbs no thread's locks.                                         *)
LEMMA QuietStep ==
  ASSUME TwoPhase, NEW s \in Thread, Quiet(s)
  PROVE  TwoPhase'
<1> USE DEF Quiet
<1> SUFFICES ASSUME NEW t \in Thread, NEW v \in Var PROVE LockOK(t, v)'
  BY DEF TwoPhase
<1>1. LockOK(t, v)
  BY DEF TwoPhase
<1>2. CASE t = s
  BY <1>1, <1>2 DEF LockOK, Visiting, Passed, Storing, Locking, shared
<1>3. CASE t # s
  BY <1>1, <1>3 DEF LockOK, Visiting, Passed, Storing, IsNext, shared
<1> QED BY <1>2, <1>3

(* The early return of commit releases the locks of its thread, only.      *)
LEMMA InconsistentOK ==
  ASSUME TypeOK, NEW s \in Thread, pc[s] = "lock", Inconsistent(s),
         NEW t \in Thread, NEW v \in Var, LockOK(t, v)
  PROVE  LockOK(t, v)'
<1>1. CASE t = s
  BY <1>1, ConstantsAssumption DEF Inconsistent, Clear, TypeOK, LockOK, Visiting, Passed, Storing
<1>2. CASE t # s
  BY <1>2, ConstantsAssumption
  DEF Inconsistent, Clear, TypeOK, LockOK, Visiting, Passed, Storing, IsNext
<1> QED BY <1>1, <1>2

LEMMA TwoPhaseStep == TypeOK /\ TwoPhase /\ [Next]_vars => TwoPhase'
<1> SUFFICES ASSUME TypeOK, TwoPhase, [Next]_vars PROVE TwoPhase'
  OBVIOUS
<1>T. TypeOK'
  BY TypeStep
<1>F. /\ pc \in [Thread -> PC] /\ log \in [Thread -> Log]
      /\ todo \in [Thread -> SUBSET Var]
  BY DEF TypeOK
<1> USE <1>T DEF Goto, shared, control, local, blocking, history
<1>0. CASE UNCHANGED vars
  BY <1>0 DEF vars, TwoPhase, LockOK, Visiting, Passed, Storing, IsNext
<1>1. ASSUME NEW t \in Thread, OrSecond(t) PROVE TwoPhase'
  BY <1>1, <1>F, QuietStep DEF OrSecond, Clear, Locking, Quiet
<1>2. ASSUME NEW t \in Thread, OrBlocked(t) PROVE TwoPhase'
  BY <1>2, <1>F, QuietStep DEF OrBlocked, Clear, Locking, Quiet
<1>3. ASSUME NEW t \in Thread, CommitDone(t) PROVE TwoPhase'
  BY <1>3, <1>F, QuietStep DEF CommitDone, Clear, Locking, Quiet
<1>4. ASSUME NEW t \in Thread, WaitForChange(t) PROVE TwoPhase'
  BY <1>4, <1>F, QuietStep DEF WaitForChange, Clear, Locking, Quiet
<1>5. ASSUME NEW t \in Thread, Unblocked(t) PROVE TwoPhase'
  BY <1>5, <1>F, QuietStep DEF Unblocked, Clear, Locking, Quiet
<1>6. ASSUME NEW t \in Thread, WaitDone(t) PROVE TwoPhase'
  BY <1>6, <1>F, QuietStep DEF WaitDone, Clear, Locking, Quiet
<1>7. ASSUME NEW t \in Thread, Begin(t) PROVE TwoPhase'
  BY <1>7, <1>F, QuietStep DEF Begin, Clear, Locking, Quiet
<1>8. ASSUME NEW t \in Thread, Or(t) PROVE TwoPhase'
  BY <1>8, <1>F, QuietStep DEF Or, Clear, Locking, Quiet
<1>9. ASSUME NEW t \in Thread, OrOk(t) PROVE TwoPhase'
  BY <1>9, <1>F, QuietStep DEF OrOk, Clear, Locking, Quiet
<1>10. ASSUME NEW t \in Thread, Retry(t) PROVE TwoPhase'
  BY <1>10, <1>F, QuietStep DEF Retry, Clear, Locking, Quiet
<1>11. ASSUME NEW t \in Thread, Abort(t) PROVE TwoPhase'
  BY <1>11, <1>F, QuietStep DEF Abort, DropGuard, Clear, Locking, Quiet
<1>12. ASSUME NEW t \in Thread, Failure(t) PROVE TwoPhase'
  BY <1>12, <1>F, QuietStep DEF Failure, Clear, Locking, Quiet
<1>13. ASSUME NEW t \in Thread, Panic(t) PROVE TwoPhase'
  BY <1>13, <1>F, QuietStep DEF Panic, Clear, Locking, Quiet
<1>14. ASSUME NEW t \in Thread, NEW v \in Var, TakeWaiting(t, v) PROVE TwoPhase'
  BY <1>14, <1>F, QuietStep DEF TakeWaiting, Visited, Locking, Quiet
<1>15. ASSUME NEW t \in Thread, NEW v \in Var, Register(t, v) PROVE TwoPhase'
  BY <1>15, <1>F, QuietStep DEF Register, Visited, Locking, Quiet
<1>16. ASSUME NEW t \in Thread, NEW v \in Var, Compare(t, v) PROVE TwoPhase'
  BY <1>16, <1>F, QuietStep DEF Compare, Visited, Locking, Quiet
<1>17. ASSUME NEW t \in Thread, NEW v \in Var, ReadShared(t, v) PROVE TwoPhase'
  BY <1>17, <1>F, QuietStep DEF ReadShared, Visited, Locking, Quiet
<1>18. ASSUME NEW t \in Thread, NEW v \in Var, ReadLogged(t, v) PROVE TwoPhase'
  BY <1>18, <1>F, QuietStep DEF ReadLogged, Visited, Locking, Quiet
<1>19. ASSUME NEW t \in Thread, NEW v \in Var, Write(t, v) PROVE TwoPhase'
  BY <1>19, <1>F, QuietStep DEF Write, Visited, Locking, Quiet
<1>20. ASSUME NEW t \in Thread, NEW u \in Thread, SetChanged(t, u) PROVE TwoPhase'
  BY <1>20, <1>F, QuietStep DEF SetChanged, Locking, Quiet
<1>21. ASSUME NEW s \in Thread, Commit(s) PROVE TwoPhase'
  <2> SUFFICES ASSUME NEW t \in Thread, NEW v \in Var PROVE LockOK(t, v)'
    BY DEF TwoPhase
  <2>1. LockOK(t, v) /\ LockOK(s, v)
    BY DEF TwoPhase
  <2> QED
    BY <1>21, <2>1 DEF Commit, TypeOK, LockOK, Visiting, Passed, Storing, IsNext,
                       IsWrite, IsChecked, Vacant, Entry
<1>22. ASSUME NEW s \in Thread, ReleaseReads(s) PROVE TwoPhase'
  <2> SUFFICES ASSUME NEW t \in Thread, NEW v \in Var PROVE LockOK(t, v)'
    BY DEF TwoPhase
  <2>1. LockOK(t, v) /\ LockOK(s, v)
    BY DEF TwoPhase
  <2> QED BY <1>22, <2>1 DEF ReleaseReads, TypeOK, LockOK, Visiting, Passed, Storing, IsNext, Written
<1>23. ASSUME NEW s \in Thread, StartWaking(s) PROVE TwoPhase'
  <2> SUFFICES ASSUME NEW t \in Thread, NEW v \in Var PROVE LockOK(t, v)'
    BY DEF TwoPhase
  <2>1. LockOK(t, v) /\ LockOK(s, v)
    BY DEF TwoPhase
  <2> QED BY <1>23, <2>1 DEF StartWaking, TypeOK, LockOK, Visiting, Passed, Storing, IsNext, Written
<1>24. ASSUME NEW s \in Thread, NEW u \in Var, SkipObsolete(s, u) PROVE TwoPhase'
  <2> SUFFICES ASSUME NEW t \in Thread, NEW v \in Var PROVE LockOK(t, v)'
    BY DEF TwoPhase
  <2>1. LockOK(t, v) /\ LockOK(s, v) /\ LockOK(t, u) /\ LockOK(s, u)
    BY DEF TwoPhase
  <2>2. CASE t = s
    BY <1>24, <2>1, <2>2, ConstantsAssumption
    DEF SkipObsolete, Visited, TypeOK, LockOK, Visiting, Passed, Storing, IsNext, IsWrite, IsChecked
  <2>3. CASE t # s
    BY <1>24, <2>1, <2>3, ConstantsAssumption
    DEF SkipObsolete, Visited, TypeOK, LockOK, Visiting, Passed, Storing, IsNext, IsWrite, IsChecked
  <2> QED BY <2>2, <2>3
<1>25. ASSUME NEW s \in Thread, NEW u \in Var, LockRead(s, u) PROVE TwoPhase'
  <2> SUFFICES ASSUME NEW t \in Thread, NEW v \in Var PROVE LockOK(t, v)'
    BY DEF TwoPhase
  <2>1. LockOK(t, v) /\ LockOK(s, v) /\ LockOK(t, u) /\ LockOK(s, u)
    BY DEF TwoPhase
  <2>2. CASE Inconsistent(s)
    BY <1>25, <2>1, <2>2, InconsistentOK DEF LockRead
  <2>3. CASE value[u] = log[s][u].orig
    <3>1. /\ readers' = [readers EXCEPT ![u] = @ \cup {s}] /\ Visited(s, u)
          /\ UNCHANGED <<value, writer, control, log, frames, blocking, history>>
      BY <1>25, <2>3 DEF LockRead, Inconsistent
    <3>2. CASE t = s
      BY <1>25, <2>1, <2>3, <3>1, <3>2, ConstantsAssumption
      DEF LockRead, Visited, TypeOK, LockOK, Visiting, Passed, Storing, IsNext, IsWrite, IsChecked
    <3>3. CASE t # s
      BY <1>25, <2>1, <3>1, <3>3, ConstantsAssumption
      DEF LockRead, Visited, TypeOK, LockOK, Visiting, Passed, Storing, IsNext, IsWrite, IsChecked
    <3> QED BY <3>2, <3>3
  <2> QED BY <1>25, <2>2, <2>3 DEF LockRead
<1>26. ASSUME NEW s \in Thread, NEW u \in Var, AnnounceWrite(s, u) PROVE TwoPhase'
  <2> SUFFICES ASSUME NEW t \in Thread, NEW v \in Var PROVE LockOK(t, v)'
    BY DEF TwoPhase
  <2>1. LockOK(t, v) /\ LockOK(s, v) /\ LockOK(t, u) /\ LockOK(s, u)
    BY DEF TwoPhase
  <2>2. CASE t = s
    BY <1>26, <2>1, <2>2, ConstantsAssumption
    DEF AnnounceWrite, Visited, TypeOK, LockOK, Visiting, Passed, Storing, IsNext
  <2>3. CASE t # s
    BY <1>26, <2>1, <2>3, ConstantsAssumption
    DEF AnnounceWrite, Visited, TypeOK, LockOK, Visiting, Passed, Storing, IsNext
  <2> QED BY <2>2, <2>3
<1>27. ASSUME NEW s \in Thread, NEW u \in Var, LockWrite(s, u) PROVE TwoPhase'
  <2> SUFFICES ASSUME NEW t \in Thread, NEW v \in Var PROVE LockOK(t, v)'
    BY DEF TwoPhase
  <2>1. LockOK(t, v) /\ LockOK(s, v) /\ LockOK(t, u) /\ LockOK(s, u)
    BY DEF TwoPhase
  <2>2. CASE Inconsistent(s)
    BY <1>27, <2>1, <2>2, InconsistentOK DEF LockWrite
  <2>3. CASE log[s][u].kind = "ReadWrite" => value[u] = log[s][u].orig
    <3>1. /\ Visited(s, u) /\ UNCHANGED <<shared, control, log, frames, blocking, history>>
      BY <1>27, <2>3 DEF LockWrite, Inconsistent
    <3>2. CASE t = s
      BY <1>27, <2>1, <2>3, <3>1, <3>2, ConstantsAssumption
      DEF LockWrite, Visited, TypeOK, LockOK, Visiting, Passed, Storing, IsNext, IsWrite, IsChecked
    <3>3. CASE t # s
      BY <1>27, <2>1, <3>1, <3>3, ConstantsAssumption
      DEF LockWrite, Visited, TypeOK, LockOK, Visiting, Passed, Storing, IsNext, IsWrite, IsChecked
    <3> QED BY <3>2, <3>3
  <2> QED BY <1>27, <2>2, <2>3 DEF LockWrite
<1>28. ASSUME NEW s \in Thread, NEW u \in Var, WriteBack(s, u) PROVE TwoPhase'
  <2> SUFFICES ASSUME NEW t \in Thread, NEW v \in Var PROVE LockOK(t, v)'
    BY DEF TwoPhase
  <2>1. LockOK(t, v) /\ LockOK(s, v) /\ LockOK(t, u) /\ LockOK(s, u)
    BY DEF TwoPhase
  <2>2. CASE t = s
    BY <1>28, <2>1, <2>2, ConstantsAssumption
    DEF WriteBack, Visited, TypeOK, LockOK, Visiting, Passed, Storing, IsNext, Store, IsWrite, IsChecked
  <2>3. CASE t # s
    BY <1>28, <2>1, <2>3, ConstantsAssumption
    DEF WriteBack, Visited, TypeOK, LockOK, Visiting, Passed, Storing, IsNext, Store, IsWrite, IsChecked
  <2> QED BY <2>2, <2>3
<1>29. ASSUME NEW s \in Thread, NEW u \in Var, AnnounceWriteAtomic(s, u) PROVE TwoPhase'
  <2> SUFFICES ASSUME NEW t \in Thread, NEW v \in Var PROVE LockOK(t, v)'
    BY DEF TwoPhase
  <2>1. LockOK(t, v) /\ LockOK(s, v) /\ LockOK(t, u) /\ LockOK(s, u)
    BY DEF TwoPhase
  <2>2. CASE t = s
    BY <1>29, <2>1, <2>2, ConstantsAssumption
    DEF AnnounceWriteAtomic, Visited, TypeOK, LockOK, Visiting, Passed, Storing, IsNext
  <2>3. CASE t # s
    BY <1>29, <2>1, <2>3, ConstantsAssumption
    DEF AnnounceWriteAtomic, Visited, TypeOK, LockOK, Visiting, Passed, Storing, IsNext
  <2> QED BY <2>2, <2>3
<1>30. ASSUME NEW s \in Thread, NEW u \in Var, WriteAtomic(s, u) PROVE TwoPhase'
  <2> SUFFICES ASSUME NEW t \in Thread, NEW v \in Var PROVE LockOK(t, v)'
    BY DEF TwoPhase
  <2>1. LockOK(t, v) /\ LockOK(s, v) /\ LockOK(t, u) /\ LockOK(s, u)
    BY DEF TwoPhase
  <2>2. CASE t = s
    BY <1>30, <2>1, <2>2, ConstantsAssumption
    DEF WriteAtomic, Visited, TypeOK, LockOK, Visiting, Passed, Storing, IsNext, Store, IsWrite, IsChecked
  <2>3. CASE t # s
    BY <1>30, <2>1, <2>3, ConstantsAssumption
    DEF WriteAtomic, Visited, TypeOK, LockOK, Visiting, Passed, Storing, IsNext, Store, IsWrite, IsChecked
  <2> QED BY <2>2, <2>3
<1> QED
  BY <1>0, <1>1, <1>2, <1>3, <1>4, <1>5, <1>6, <1>7, <1>8, <1>9, <1>10, <1>11, <1>12, <1>13, <1>14, <1>15, <1>16, <1>17, <1>18, <1>19, <1>20, <1>21, <1>22, <1>23, <1>24, <1>25, <1>26, <1>27, <1>28, <1>29, <1>30 DEF Next, LibraryStep, UserStep

(* The two invariants are inductive together.                              *)
LEMMA Locks == Spec => [](TypeOK /\ TwoPhase)
<1>1. Init => TypeOK /\ TwoPhase
  BY ConstantsAssumption, LogTypes, ViewType
  DEF Init, TypeOK, PC, TwoPhase, LockOK, Visiting, Passed, Storing
<1>2. TypeOK /\ TwoPhase /\ [Next]_vars => (TypeOK /\ TwoPhase)'
  BY TypeStep, TwoPhaseStep
<1> QED BY <1>1, <1>2, PTL DEF Spec

(* Every variable of every reachable state has its type; in particular the *)
(* entries of a log are those that the constructors of LogVar can build.   *)
THEOREM TypeCorrect == Spec => []TypeOK
BY Locks, PTL

(* commit and write_atomic follow the two-phase locking protocol, and what *)
(* commit has found consistent stays so until it lets go of the lock.      *)
THEOREM TwoPhaseLocking == Spec => []TwoPhase
BY Locks, PTL
-----------------------------------------------------------------------------
(* Deadlock freedom.                                                       *)

(* The ascent of commit: what it has passed lies below what it has yet to  *)
(* visit, and write_atomic is about one variable.                          *)
Ascends(t) ==
  /\ pc[t] = "lock" =>
       \A x \in todo[t], y \in Var \ todo[t] : log[t][y] # Vacant => y < x
  /\ pc[t] = "write_atomic" => \E v \in Var : todo[t] = {v}

Ascending == \A t \in Thread : Ascends(t)

LEMMA AscendingStep == TypeOK /\ Ascending /\ [Next]_vars => Ascending'
<1> SUFFICES ASSUME TypeOK, Ascending, [Next]_vars, NEW t \in Thread PROVE Ascends(t)'
  BY DEF Ascending
<1>A. Ascends(t)
  BY DEF Ascending
<1>F. /\ pc \in [Thread -> PC] /\ log \in [Thread -> Log]
      /\ todo \in [Thread -> SUBSET Var]
  BY DEF TypeOK
<1>N. Var \subseteq Nat
  BY ConstantsAssumption
(* A step that leaves t where it is, or takes it where nothing is claimed. *)
<1>S. ASSUME \/ pc'[t] \notin {"lock", "write_atomic"}
             \/ pc'[t] = pc[t] /\ log'[t] = log[t] /\ todo'[t] = todo[t]
      PROVE  Ascends(t)'
  BY <1>A, <1>S DEF Ascends
(* A step by which t visits the next variable of its log.                  *)
<1>V. ASSUME NEW v \in Var, pc[t] = "lock", pc'[t] = "lock", IsNext(t, v), Visited(t, v),
             log'[t] = log[t]
      PROVE  Ascends(t)'
  <2>1. todo'[t] = todo[t] \ {v}
    BY <1>V, <1>F DEF Visited
  <2>2. ASSUME NEW x \in todo'[t], NEW y \in Var \ todo'[t], log'[t][y] # Vacant
        PROVE  y < x
    <3>1. CASE y = v
      <4>1. x \in todo[t] /\ x # v
        BY <1>F, <2>1, <2>2
      <4>2. v <= x /\ x \in Nat /\ v \in Nat
        BY <1>V, <1>F, <1>N, <4>1 DEF IsNext
      <4> QED BY <3>1, <4>1, <4>2
    <3>2. CASE y # v
      BY <1>V, <1>A, <2>1, <2>2, <3>2 DEF Ascends
    <3> QED BY <3>1, <3>2
  <2> QED BY <1>V, <2>2 DEF Ascends
<1> USE DEF Goto, shared, control, local, blocking, history
<1>0. CASE UNCHANGED vars
  BY <1>0, <1>S DEF vars
<1>1. ASSUME NEW s \in Thread, NEW u \in Var, Inconsistent(s) PROVE Ascends(t)'
  BY <1>1, <1>F, <1>S DEF Inconsistent, Clear
<1>2. ASSUME NEW s \in Thread, OrSecond(s) PROVE Ascends(t)'
  BY <1>2, <1>F, <1>S DEF OrSecond
<1>3. ASSUME NEW s \in Thread, OrBlocked(s) PROVE Ascends(t)'
  BY <1>3, <1>F, <1>S DEF OrBlocked
<1>4. ASSUME NEW s \in Thread,
             \/ ReleaseReads(s) \/ StartWaking(s) \/ CommitDone(s)
             \/ WaitForChange(s) \/ Unblocked(s) \/ WaitDone(s)
      PROVE  Ascends(t)'
  BY <1>4, <1>F, <1>S
  DEF ReleaseReads, StartWaking, CommitDone, WaitForChange, Unblocked, WaitDone, Clear
<1>5. ASSUME NEW s \in Thread, NEW u \in Var, SkipObsolete(s, u) PROVE Ascends(t)'
  BY <1>5, <1>F, <1>S, <1>V DEF SkipObsolete, Visited
<1>6. ASSUME NEW s \in Thread, NEW u \in Var, LockRead(s, u) PROVE Ascends(t)'
  <2>1. CASE Inconsistent(s)
    BY <1>1, <2>1
  <2>2. CASE Visited(s, u) /\ UNCHANGED <<control, log>>
    BY <1>6, <1>F, <1>S, <1>V, <2>2 DEF LockRead, Visited
  <2> QED BY <1>6, <2>1, <2>2 DEF LockRead
<1>7. ASSUME NEW s \in Thread, NEW u \in Var, LockWrite(s, u) PROVE Ascends(t)'
  <2>1. CASE Inconsistent(s)
    BY <1>1, <2>1
  <2>2. CASE Visited(s, u) /\ UNCHANGED <<control, log>>
    BY <1>7, <1>F, <1>S, <1>V, <2>2 DEF LockWrite, Visited
  <2> QED BY <1>7, <2>1, <2>2 DEF LockWrite
<1>8. ASSUME NEW s \in Thread, NEW u \in Var,
             \/ AnnounceWrite(s, u) \/ WriteBack(s, u) \/ TakeWaiting(s, u)
             \/ Register(s, u) \/ Compare(s, u) \/ WriteAtomic(s, u)
      PROVE  Ascends(t)'
  BY <1>8, <1>F, <1>S
  DEF AnnounceWrite, WriteBack, TakeWaiting, Register, Compare, WriteAtomic, Visited
<1>9. ASSUME NEW s \in Thread, NEW u \in Thread, SetChanged(s, u) PROVE Ascends(t)'
  BY <1>9, <1>S DEF SetChanged
<1>10. ASSUME NEW s \in Thread,
              \/ Begin(s) \/ Or(s) \/ OrOk(s) \/ Retry(s)
              \/ Abort(s) \/ Failure(s) \/ Panic(s)
       PROVE  Ascends(t)'
  BY <1>10, <1>F, <1>S DEF Begin, Or, OrOk, Retry, Abort, Failure, Panic, Clear
<1>11. ASSUME NEW s \in Thread, Commit(s) PROVE Ascends(t)'
  <2>1. CASE s = t
    BY <1>11, <1>F, <2>1 DEF Commit, Ascends
  <2>2. CASE s # t
    BY <1>11, <1>F, <1>S, <2>2 DEF Commit
  <2> QED BY <2>1, <2>2
<1>12. ASSUME NEW s \in Thread, NEW u \in Var,
              ReadShared(s, u) \/ ReadLogged(s, u) \/ Write(s, u)
       PROVE  Ascends(t)'
  <2>1. pc[s] = "run" /\ UNCHANGED <<pc, todo>> /\ (s # t => log'[t] = log[t])
    BY <1>12, <1>F DEF ReadShared, ReadLogged, Write
  <2> QED BY <1>S, <2>1
<1>13. ASSUME NEW s \in Thread, NEW u \in Var, AnnounceWriteAtomic(s, u) PROVE Ascends(t)'
  <2>1. CASE s = t
    BY <1>13, <1>F, <2>1 DEF AnnounceWriteAtomic, Ascends
  <2>2. CASE s # t
    BY <1>13, <1>F, <1>S, <2>2 DEF AnnounceWriteAtomic
  <2> QED BY <2>1, <2>2
<1> QED
  BY <1>0, <1>2, <1>3, <1>4, <1>5, <1>6, <1>7, <1>8, <1>9, <1>10, <1>11, <1>12, <1>13
  DEF Next, LibraryStep, UserStep

(* A non-empty set of numbers with an upper bound has a greatest element.  *)
LEMMA Greatest ==
  ASSUME NEW S \in SUBSET Nat, S # {}, NEW bound \in Nat, \A x \in S : x <= bound
  PROVE  \E x \in S : \A y \in S : y <= x
<1> DEFINE Less == OpToRel(<, Nat)
           T == {bound - x : x \in S}
<1>1. T \in SUBSET Nat /\ T # {}
  <2>1. \A x \in S : x \in Nat /\ bound - x \in Nat
    OBVIOUS
  <2> QED BY <2>1
<1>2. PICK d \in T : \A e \in T : <<e, d>> \notin Less
  BY <1>1, NatLessThanWellFounded, WFMin
<1>3. \A e \in T : ~(e < d)
  BY <1>1, <1>2 DEF OpToRel
<1>4. PICK x \in S : d = bound - x
  BY <1>2
<1>5. ASSUME NEW y \in S PROVE y <= x
  <2>1. ~(bound - y < bound - x)
    BY <1>3, <1>4
  <2> QED BY <2>1
<1> QED BY <1>5

(* A thread that some thread of S waits for at v, and that itself waits    *)
(* for one of S, does so at v for a reader, or at a variable above v.      *)
LEMMA WaitsHigher ==
  ASSUME TypeOK, TwoPhase, Ascending,
         NEW t \in Thread, NEW v \in Var, AsksFor(t, v),
         NEW u \in Thread, u \in InTheWay(t, v),
         NEW x \in Thread, NEW w \in Var, AsksFor(u, w), x \in InTheWay(u, w)
  PROVE  w > v \/ (w = v /\ x \in readers[v] /\ writer[v] = u)
<1>N. Var \subseteq Nat /\ NoThread \notin Thread
  BY ConstantsAssumption
<1>F. todo \in [Thread -> SUBSET Var] /\ writer[v] \in Thread \cup {NoThread}
  BY DEF TypeOK
<1>1. LockOK(u, v) /\ Ascends(u)
  BY DEF TwoPhase, Ascending
(* u reads v, and commit has passed it.                                    *)
<1>2. ASSUME u \in readers[v] PROVE w > v
  <2>1. Passed(u, v) /\ log[u][v].kind = "Read"
    BY <1>1, <1>2 DEF LockOK
  <2>2. log[u][v] # Vacant
    BY <2>1 DEF Vacant, Entry
  <2>3. w \in todo[u]
    BY <2>1 DEF Passed, AsksFor, IsNext
  <2> QED BY <1>1, <1>N, <1>F, <2>1, <2>2, <2>3 DEF Passed, Ascends
(* u has set the writer bit of v.                                          *)
<1>3. ASSUME writer[v] = u PROVE w > v \/ (w = v /\ x \in readers[v])
  <2>1. (Visiting(u, v) /\ IsWrite(log[u][v])) \/ Storing(u, v)
    BY <1>1, <1>3 DEF LockOK
  <2>2. CASE pc[u] = "lock"
    <3>1. w \in todo[u] /\ IsNext(u, w)
      BY <2>2 DEF AsksFor, IsNext
    <3>2. CASE v \in todo[u]
      <4>1. w = v
        <5>1. IsNext(u, v)
          BY <2>1, <2>2, <3>2 DEF Visiting, Storing
        <5>2. w <= v /\ v <= w
          BY <3>1, <3>2, <5>1 DEF IsNext
        <5> QED BY <1>N, <5>2
      <4> QED BY <1>3, <4>1 DEF InTheWay
    <3>3. CASE v \notin todo[u]
      <4>1. log[u][v] # Vacant
        BY <2>1, <2>2 DEF Storing, Vacant, Entry, IsWrite
      <4> QED BY <1>1, <1>N, <1>F, <2>2, <3>1, <3>3, <4>1 DEF Ascends
    <3> QED BY <3>2, <3>3
  <2>3. CASE pc[u] = "write_atomic"
    <3>1. w = v
      BY <1>1, <2>1, <2>3 DEF Ascends, Visiting, Storing, AsksFor
    <3> QED BY <1>3, <3>1 DEF InTheWay
  <2> QED BY <2>1, <2>2, <2>3 DEF Visiting, Storing, AsksFor
<1> QED BY <1>2, <1>3 DEF InTheWay

(* Two-phase locking in ascending order admits no deadlock.                *)
LEMMA NoCycle ==
  ASSUME TypeOK, TwoPhase, Ascending, NEW max \in Nat, \A v \in Var : v <= max
  PROVE  NoDeadlock
<1> SUFFICES ASSUME NEW S \in SUBSET Thread, S # {},
                    \A t \in S : \E u \in S : WaitsFor(t, u)
             PROVE  FALSE
  BY DEF NoDeadlock
<1> DEFINE Wait(t, u, v) == AsksFor(t, v) /\ u \in InTheWay(t, v)
           Contended == {v \in Var : \E t, u \in S : Wait(t, u, v)}
<1>1. Contended \in SUBSET Nat /\ Contended # {}
  BY ConstantsAssumption DEF WaitsFor
<1>2. PICK v \in Contended : \A w \in Contended : w <= v
  <2> HIDE DEF Contended
  <2>1. \A w \in Contended : w <= max
    BY DEF Contended
  <2> QED BY <1>1, <2>1, Greatest
<1>3. PICK t \in S, u \in S : Wait(t, u, v)
  OBVIOUS
<1>4. PICK x \in S, w \in Var : Wait(u, x, w)
  BY DEF WaitsFor
<1>5. v \in Nat /\ w \in Nat /\ ~(w > v)
  BY <1>1, <1>2, <1>4
<1>6. w = v /\ x \in readers[v] /\ writer[v] = u
  BY <1>3, <1>4, <1>5, WaitsHigher
(* The reader that u waits for waits in turn.                              *)
<1>7. PICK y \in S, z \in Var : Wait(x, y, z)
  BY DEF WaitsFor
<1>8. z \in Nat /\ ~(z > v)
  BY <1>1, <1>2, <1>7
<1>9. writer[v] = x
  BY <1>4, <1>6, <1>7, <1>8, WaitsHigher
<1>10. LockOK(x, v)
  BY DEF TwoPhase
<1> QED BY <1>6, <1>9, <1>10, <1>7, <1>4 DEF LockOK, Passed, IsWrite, Visiting, Storing

LEMMA Ascent == Spec => []Ascending
<1>1. Init => Ascending
  BY DEF Init, Ascending, Ascends
<1>2. TypeOK /\ Ascending /\ [Next]_vars => Ascending'
  BY AscendingStep
<1> QED BY <1>1, <1>2, TypeCorrect, PTL DEF Spec

(* No transactions, loads and atomic stores can block each other for ever, *)
(* whatever their number and the variables they use: addresses are         *)
(* bounded, commit takes its locks in their order (the BTreeMap and the    *)
(* Ord of VarControlBlock) and nobody keeps one while it sleeps.           *)
THEOREM DeadlockFreedom ==
  ASSUME NEW max \in Nat, \A v \in Var : v <= max
  PROVE  Spec => []NoDeadlock
<1>1. TypeOK /\ TwoPhase /\ Ascending => NoDeadlock
  BY NoCycle
<1> QED BY <1>1, Locks, Ascent, PTL
=============================================================================
