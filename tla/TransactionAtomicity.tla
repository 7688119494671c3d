------------------------ MODULE TransactionAtomicity ------------------------
(***************************************************************************)
(* Transactions are atomic: the proof that module Transaction implements   *)
(* AtomicMemory, by way of the log being faithful to what the closure saw  *)
(* and asked for.                                                          *)
(***************************************************************************)
EXTENDS TransactionProofs

-----------------------------------------------------------------------------
(* The log.                                                                *)

(* LogFaithful made inductive: the copies that Transaction::or will go     *)
(* back to are faithful to what the closure had seen and written by then,  *)
(* and between transactions there is nothing in the log.                   *)
Copies(s) ==
  \A i \in 1..Len(s) :
    s[i].stage = "first" => Faithful(s[i].saved, s[i].obs, s[i].intent)

FaithfulInv ==
  \A t \in Thread :
    /\ pc[t] \in {"idle", "write_atomic", "run", "lock"}
         => Faithful(log[t], obs[t], intent[t])
    /\ Copies(frames[t])

LEMMA FaithfulEmpty == Faithful(EmptyLog, EmptyView, EmptyView) /\ Copies(<<>>)
BY DEF Faithful, EmptyLog, EmptyView, Vacant, Entry, IsWrite, Copies

(* The stack of alternatives.                                              *)
LEMMA CopiesPush ==
  ASSUME NEW f \in Frame, NEW s \in Seq(Frame), Copies(s),
         f.stage = "first" => Faithful(f.saved, f.obs, f.intent)
  PROVE  Copies(<<f>> \o s)
<1> SUFFICES ASSUME NEW i \in 1..Len(<<f>> \o s), (<<f>> \o s)[i].stage = "first"
             PROVE  Faithful((<<f>> \o s)[i].saved, (<<f>> \o s)[i].obs, (<<f>> \o s)[i].intent)
  BY DEF Copies
<1>1. CASE i = 1
  BY <1>1
<1>2. CASE i # 1
  <2>1. i - 1 \in 1..Len(s) /\ (<<f>> \o s)[i] = s[i - 1]
    BY <1>2
  <2> QED BY <2>1 DEF Copies
<1> QED BY <1>1, <1>2

LEMMA CopiesPop ==
  ASSUME NEW s \in Seq(Frame), s # <<>>, Copies(s)
  PROVE  /\ Copies(Tail(s))
         /\ Head(s).stage = "first" => Faithful(Head(s).saved, Head(s).obs, Head(s).intent)
<1>1. Head(s) = s[1] /\ 1 \in 1..Len(s)
  OBVIOUS
<1>2. \A i \in 1..Len(Tail(s)) : i + 1 \in 1..Len(s) /\ Tail(s)[i] = s[i + 1]
  OBVIOUS
<1> QED BY <1>1, <1>2 DEF Copies

(* The entries that the operations on a faithful log leave behind.         *)
LEMMA FaithfulRead ==
  ASSUME NEW l \in Log, NEW o \in View, NEW w \in View, Faithful(l, o, w),
         NEW v \in Var, l[v] # Vacant
  PROVE  Faithful([l EXCEPT ![v] = ReadUpgrade(@)],
                  IF w[v] = Null THEN [o EXCEPT ![v] = ReadResult(l[v])] ELSE o, w)
BY DEF Faithful, Log, View, LogVar, Kinds, ReadUpgrade, ReadResult, HasReadValue, IsWrite,
       IsChecked, Vacant, Entry

LEMMA FaithfulWrite ==
  ASSUME NEW l \in Log, NEW o \in View, NEW w \in View, Faithful(l, o, w),
         NEW v \in Var, NEW a \in Addr
  PROVE  Faithful([l EXCEPT ![v] = WriteUpgrade(@, a)], o, [w EXCEPT ![v] = a])
BY NullAssumption
DEF Faithful, Log, View, LogVar, Kinds, WriteUpgrade, HasReadValue, IsWrite, IsChecked, Entry

LEMMA FaithfulCombine ==
  ASSUME NEW l \in Log, NEW m \in Log, NEW o \in View, NEW w \in View, Faithful(l, o, w)
  PROVE  Faithful(Combine(l, m), o, w)
BY DEF Faithful, Log, Combine, Obsolete, IsWrite, IsChecked, Vacant, Entry

(* A step that leaves the view and the log of every transaction alone, and *)
(* starts none.                                                            *)
LEMMA LogUntouched ==
  ASSUME FaithfulInv, UNCHANGED <<log, frames, obs, intent>>,
         \A t \in Thread :
           pc'[t] \in {"idle", "write_atomic", "run", "lock"}
             => pc[t] \in {"idle", "write_atomic", "run", "lock"}
  PROVE  FaithfulInv'
BY DEF FaithfulInv, Faithful, Copies

(* A step that abandons the log of s.                                      *)
LEMMA LogCleared ==
  ASSUME TypeOK, FaithfulInv, NEW s \in Thread, Clear(s),
         \A t \in Thread \ {s} : pc'[t] = pc[t]
  PROVE  FaithfulInv'
<1> SUFFICES ASSUME NEW t \in Thread
             PROVE  /\ pc'[t] \in {"idle", "write_atomic", "run", "lock"}
                         => Faithful(log'[t], obs'[t], intent'[t])
                    /\ Copies(frames'[t])
  BY DEF FaithfulInv, Faithful, Copies
<1>1. CASE t = s
  BY <1>1, FaithfulEmpty DEF Clear, TypeOK
<1>2. CASE t # s
  BY <1>2 DEF Clear, TypeOK, FaithfulInv
<1> QED BY <1>1, <1>2

(* A step of the closure of s: it suffices to look at the log of s.        *)
LEMMA LogOf ==
  ASSUME TypeOK, FaithfulInv, NEW s \in Thread,
         \A t \in Thread \ {s} :
           /\ pc'[t] = pc[t] /\ log'[t] = log[t] /\ frames'[t] = frames[t]
           /\ obs'[t] = obs[t] /\ intent'[t] = intent[t],
         pc'[s] \in {"idle", "write_atomic", "run", "lock"}
           => Faithful(log'[s], obs'[s], intent'[s]),
         Copies(frames'[s])
  PROVE  FaithfulInv'
<1> SUFFICES ASSUME NEW t \in Thread
             PROVE  /\ pc'[t] \in {"idle", "write_atomic", "run", "lock"}
                         => Faithful(log'[t], obs'[t], intent'[t])
                    /\ Copies(frames'[t])
  BY DEF FaithfulInv, Faithful, Copies
<1>1. CASE t = s
  BY <1>1
<1>2. CASE t # s
  BY <1>2 DEF FaithfulInv
<1> QED BY <1>1, <1>2

LEMMA FaithfulStep == TypeOK /\ FaithfulInv /\ [Next]_vars => FaithfulInv'
<1> SUFFICES ASSUME TypeOK, FaithfulInv, [Next]_vars PROVE FaithfulInv'
  OBVIOUS
<1> USE DEF Goto, shared, control, local, blocking, history
<1>0. CASE UNCHANGED vars
  BY <1>0, LogUntouched DEF vars
<1>1. ASSUME NEW t \in Thread, StartWaking(t) PROVE FaithfulInv'
  BY <1>1, LogUntouched DEF StartWaking, TypeOK
<1>2. ASSUME NEW t \in Thread, Begin(t) PROVE FaithfulInv'
  BY <1>2, LogUntouched DEF Begin, TypeOK
<1>3. ASSUME NEW t \in Thread, Retry(t) PROVE FaithfulInv'
  BY <1>3, LogUntouched DEF Retry, TypeOK
<1>4. ASSUME NEW t \in Thread, Commit(t) PROVE FaithfulInv'
  BY <1>4, LogUntouched DEF Commit, TypeOK
<1>5. ASSUME NEW t \in Thread, Unblocked(t) PROVE FaithfulInv'
  BY <1>5, LogUntouched DEF Unblocked, TypeOK
<1>6. ASSUME NEW t \in Thread, NEW v \in Var, SkipObsolete(t, v) PROVE FaithfulInv'
  BY <1>6, LogUntouched DEF SkipObsolete, TypeOK, Store
<1>7. ASSUME NEW t \in Thread, NEW v \in Var, AnnounceWrite(t, v) PROVE FaithfulInv'
  BY <1>7, LogUntouched DEF AnnounceWrite, TypeOK, Store
<1>8. ASSUME NEW t \in Thread, NEW v \in Var, WriteBack(t, v) PROVE FaithfulInv'
  BY <1>8, LogUntouched DEF WriteBack, TypeOK, Store
<1>9. ASSUME NEW t \in Thread, NEW v \in Var, TakeWaiting(t, v) PROVE FaithfulInv'
  BY <1>9, LogUntouched DEF TakeWaiting, TypeOK, Store
<1>10. ASSUME NEW t \in Thread, NEW v \in Var, Register(t, v) PROVE FaithfulInv'
  BY <1>10, LogUntouched DEF Register, TypeOK, Store
<1>11. ASSUME NEW t \in Thread, NEW v \in Var, AnnounceWriteAtomic(t, v) PROVE FaithfulInv'
  BY <1>11, LogUntouched DEF AnnounceWriteAtomic, TypeOK, Store
<1>12. ASSUME NEW t \in Thread, NEW v \in Var, WriteAtomic(t, v) PROVE FaithfulInv'
  BY <1>12, LogUntouched DEF WriteAtomic, TypeOK, Store
<1>13. ASSUME NEW t \in Thread, NEW u \in Thread, SetChanged(t, u) PROVE FaithfulInv'
  BY <1>13, LogUntouched DEF SetChanged
<1>14. ASSUME NEW t \in Thread, NEW v \in Var, LockRead(t, v) PROVE FaithfulInv'
  <2>1. CASE Inconsistent(t)
    BY <2>1, LogCleared DEF Inconsistent, TypeOK
  <2>2. CASE UNCHANGED <<control, log, frames, history>>
    BY <2>2, LogUntouched
  <2> QED BY <1>14, <2>1, <2>2 DEF LockRead
<1>15. ASSUME NEW t \in Thread, NEW v \in Var, LockWrite(t, v) PROVE FaithfulInv'
  <2>1. CASE Inconsistent(t)
    BY <2>1, LogCleared DEF Inconsistent, TypeOK
  <2>2. CASE UNCHANGED <<control, log, frames, history>>
    BY <2>2, LogUntouched
  <2> QED BY <1>15, <2>1, <2>2 DEF LockWrite
<1>16. ASSUME NEW t \in Thread, CommitDone(t) PROVE FaithfulInv'
  BY <1>16, LogCleared DEF CommitDone, TypeOK
<1>17. ASSUME NEW t \in Thread, WaitDone(t) PROVE FaithfulInv'
  BY <1>17, LogCleared DEF WaitDone, TypeOK
<1>18. ASSUME NEW t \in Thread, Abort(t) PROVE FaithfulInv'
  BY <1>18, LogCleared DEF Abort, TypeOK
<1>19. ASSUME NEW t \in Thread, Failure(t) PROVE FaithfulInv'
  BY <1>19, LogCleared DEF Failure, TypeOK
<1>20. ASSUME NEW t \in Thread, Panic(t) PROVE FaithfulInv'
  BY <1>20, LogCleared DEF Panic, TypeOK
<1>21. ASSUME NEW t \in Thread, ReleaseReads(t) PROVE FaithfulInv'
  BY <1>21, LogOf DEF ReleaseReads, TypeOK, FaithfulInv
<1>22. ASSUME NEW t \in Thread, WaitForChange(t) PROVE FaithfulInv'
  BY <1>22, LogOf DEF WaitForChange, TypeOK, FaithfulInv
<1>23. ASSUME NEW t \in Thread, NEW v \in Var, Compare(t, v) PROVE FaithfulInv'
  BY <1>23, LogOf DEF Compare, TypeOK, FaithfulInv
<1>24. ASSUME NEW t \in Thread, NEW v \in Var, ReadShared(t, v) PROVE FaithfulInv'
  <2>1. Faithful(log'[t], obs'[t], intent'[t])
    BY <1>24 DEF ReadShared, FaithfulInv, Faithful, TypeOK, Log, View, Vacant, Entry, IsWrite, IsChecked
  <2> QED BY <1>24, <2>1, LogOf DEF ReadShared, TypeOK, FaithfulInv
<1>25. ASSUME NEW t \in Thread, NEW v \in Var, ReadLogged(t, v) PROVE FaithfulInv'
  <2>1. Faithful(log[t], obs[t], intent[t])
    BY <1>25 DEF ReadLogged, FaithfulInv
  <2>2. /\ log'[t] = [log[t] EXCEPT ![v] = ReadUpgrade(@)]
        /\ obs'[t] = IF intent[t][v] = Null THEN [obs[t] EXCEPT ![v] = ReadResult(log[t][v])]
                     ELSE obs[t]
        /\ intent'[t] = intent[t]
    BY <1>25 DEF ReadLogged, TypeOK
  <2>3. log[t] \in Log /\ obs[t] \in View /\ intent[t] \in View /\ log[t][v] # Vacant
    BY <1>25 DEF ReadLogged, TypeOK
  <2>4. Faithful([log[t] EXCEPT ![v] = ReadUpgrade(@)],
                 IF intent[t][v] = Null THEN [obs[t] EXCEPT ![v] = ReadResult(log[t][v])]
                 ELSE obs[t], intent[t])
    BY <2>1, <2>3, FaithfulRead
  <2>5. Faithful(log'[t], obs'[t], intent'[t])
    BY <2>2, <2>4
  <2> QED BY <1>25, <2>5, LogOf DEF ReadLogged, TypeOK, FaithfulInv
<1>26. ASSUME NEW t \in Thread, NEW v \in Var, Write(t, v) PROVE FaithfulInv'
  <2>1. Faithful(log[t], obs[t], intent[t])
    BY <1>26 DEF Write, FaithfulInv
  <2>2. PICK a \in Fresh : /\ log' = [log EXCEPT ![t][v] = WriteUpgrade(@, a)]
                           /\ intent' = [intent EXCEPT ![t][v] = a]
    BY <1>26 DEF Write
  <2>3. /\ log'[t] = [log[t] EXCEPT ![v] = WriteUpgrade(@, a)]
        /\ intent'[t] = [intent[t] EXCEPT ![v] = a] /\ obs'[t] = obs[t]
    BY <1>26, <2>2 DEF Write, TypeOK
  <2>4. log[t] \in Log /\ obs[t] \in View /\ intent[t] \in View /\ a \in Addr
    BY FreshType DEF TypeOK
  <2>5. Faithful([log[t] EXCEPT ![v] = WriteUpgrade(@, a)], obs[t],
                 [intent[t] EXCEPT ![v] = a])
    BY <2>1, <2>4, FaithfulWrite
  <2>6. Faithful(log'[t], obs'[t], intent'[t])
    BY <2>3, <2>5
  <2> QED BY <1>26, <2>2, <2>6, LogOf DEF Write, TypeOK, FaithfulInv
<1>27. ASSUME NEW t \in Thread, Or(t) PROVE FaithfulInv'
  <2> DEFINE f == [stage |-> "first", saved |-> log[t], obs |-> obs[t], intent |-> intent[t]]
  <2>1. Faithful(log[t], obs[t], intent[t]) /\ Copies(frames[t])
    BY <1>27 DEF Or, FaithfulInv
  <2>2. f \in Frame /\ frames'[t] = <<f>> \o frames[t]
    BY <1>27 DEF Or, TypeOK, Frame
  <2>3. Copies(frames'[t])
    BY <2>1, <2>2, CopiesPush DEF TypeOK
  <2> QED BY <1>27, <2>1, <2>3, LogOf DEF Or, TypeOK
<1>28. ASSUME NEW t \in Thread, OrOk(t) PROVE FaithfulInv'
  <2>1. Faithful(log[t], obs[t], intent[t]) /\ Copies(frames[t])
    BY <1>28 DEF OrOk, FaithfulInv
  <2>2. Copies(frames'[t]) /\ Head(frames[t]).saved \in Log
    BY <1>28, <2>1, CopiesPop, FrameTypes DEF OrOk, TypeOK
  <2>3. Faithful(log'[t], obs'[t], intent'[t])
    BY <1>28, <2>1, <2>2, FaithfulCombine DEF OrOk, TypeOK
  <2> QED BY <1>28, <2>2, <2>3, LogOf DEF OrOk, TypeOK
<1>29. ASSUME NEW t \in Thread, OrSecond(t) PROVE FaithfulInv'
  <2> DEFINE f == [stage |-> "second", saved |-> log[t], obs |-> EmptyView,
                   intent |-> EmptyView]
  <2>1. /\ Copies(Tail(frames[t])) /\ Tail(frames[t]) \in Seq(Frame)
        /\ Faithful(Head(frames[t]).saved, Head(frames[t]).obs, Head(frames[t]).intent)
    BY <1>29, CopiesPop, FrameTypes DEF OrSecond, TypeOK, FaithfulInv
  <2>2. f \in Frame /\ frames'[t] = <<f>> \o Tail(frames[t])
    BY <1>29, ViewType DEF OrSecond, TypeOK, Frame
  <2>3. Copies(frames'[t])
    BY <2>1, <2>2, CopiesPush
  <2>4. Faithful(log'[t], obs'[t], intent'[t])
    BY <1>29, <2>1 DEF OrSecond, TypeOK
  <2> QED BY <1>29, <2>3, <2>4, LogOf DEF OrSecond, TypeOK
<1>30. ASSUME NEW t \in Thread, OrBlocked(t) PROVE FaithfulInv'
  <2>1. Copies(frames'[t])
    BY <1>30, CopiesPop DEF OrBlocked, TypeOK, FaithfulInv
  <2> QED BY <1>30, <2>1, LogOf DEF OrBlocked, TypeOK
<1> QED
  BY <1>0, <1>1, <1>2, <1>3, <1>4, <1>5, <1>6, <1>7, <1>8, <1>9, <1>10, <1>11, <1>12, <1>13, <1>14, <1>15, <1>16, <1>17, <1>18, <1>19, <1>20, <1>21, <1>22, <1>23, <1>24, <1>25, <1>26, <1>27, <1>28, <1>29, <1>30 DEF Next, LibraryStep, UserStep

LEMMA Faithfulness == Spec => [](TypeOK /\ TwoPhase /\ FaithfulInv)
<1>1. Init => FaithfulInv
  BY FaithfulEmpty DEF Init, FaithfulInv
<1>2. TypeOK /\ FaithfulInv /\ [Next]_vars => FaithfulInv'
  BY FaithfulStep
<1> QED BY <1>1, <1>2, Locks, PTL DEF Spec

(* Whatever mixture of reads, writes and alternatives a closure makes of   *)
(* its transaction, commit will compare every value the closure was shown  *)
(* on the path it took and will write the last value it gave.              *)
THEOREM LogIsFaithful == Spec => []LogFaithful
<1>1. FaithfulInv => LogFaithful
  BY DEF FaithfulInv, LogFaithful
<1> QED BY <1>1, Faithfulness, PTL

-----------------------------------------------------------------------------
(* The refinement.                                                         *)

(* The value of v is on its way from a log to the variable.                *)
InHand(v) == writer[v] # NoThread /\ pc[writer[v]] = "writeback"

(* A step leaves the committed memory alone if it stores nothing and       *)
(* changes no log and no lock from which values are being written back.    *)
LEMMA MemoryUntouched ==
  ASSUME TypeOK, UNCHANGED value,
         \A v \in Var : writer'[v] = writer[v] \/ (~InHand(v) /\ ~InHand(v)'),
         \A t \in Thread : /\ pc[t] = "writeback" <=> pc'[t] = "writeback"
                           /\ pc[t] = "writeback" => log'[t] = log[t]
  PROVE  Committed' = Committed
BY DEF Committed, InHand, TypeOK

(* Only ReleaseReads and WriteAtomic change the committed memory, ...      *)
LEMMA MemoryKept ==
  ASSUME TypeOK, TwoPhase, NEW s \in Thread, LibraryStep(s) \/ UserStep(s),
         ~ReleaseReads(s), \A v \in Var : ~WriteAtomic(s, v)
  PROVE  Committed' = Committed
<1> USE DEF Goto, shared, control, local, blocking, history, InHand, TypeOK
<1>1. CASE \/ OrSecond(s) \/ OrBlocked(s) \/ WaitForChange(s) \/ Unblocked(s) \/ Begin(s)
           \/ Or(s) \/ OrOk(s) \/ Retry(s) \/ Commit(s)
  BY <1>1, MemoryUntouched
  DEF OrSecond, OrBlocked, WaitForChange, Unblocked, Begin, Or, OrOk, Retry, Commit
<1>2. CASE \/ CommitDone(s) \/ WaitDone(s) \/ Abort(s) \/ Failure(s) \/ Panic(s)
  BY <1>2, MemoryUntouched DEF CommitDone, WaitDone, Abort, Failure, Panic, Clear
<1>3. CASE pc[s] = "lock" /\ Inconsistent(s)
  BY <1>3, MemoryUntouched, ConstantsAssumption DEF Inconsistent, Clear
<1>4. ASSUME NEW v \in Var,
             \/ SkipObsolete(s, v) \/ LockRead(s, v) \/ LockWrite(s, v)
             \/ AnnounceWrite(s, v) \/ AnnounceWriteAtomic(s, v)
      PROVE  Committed' = Committed
  <2>1. CASE LockRead(s, v) \/ LockWrite(s, v)
    BY <1>3, <2>1, MemoryUntouched DEF LockRead, LockWrite
  <2>2. CASE SkipObsolete(s, v) \/ AnnounceWrite(s, v) \/ AnnounceWriteAtomic(s, v)
    BY <2>2, MemoryUntouched, ConstantsAssumption
    DEF SkipObsolete, AnnounceWrite, AnnounceWriteAtomic
  <2> QED BY <1>4, <2>1, <2>2
<1>5. ASSUME NEW v \in Var, \/ TakeWaiting(s, v) \/ Register(s, v) \/ Compare(s, v)
                            \/ ReadShared(s, v) \/ ReadLogged(s, v) \/ Write(s, v)
      PROVE  Committed' = Committed
  BY <1>5, MemoryUntouched DEF TakeWaiting, Register, Compare, ReadShared, ReadLogged, Write
<1>6. ASSUME NEW u \in Thread, SetChanged(s, u) PROVE Committed' = Committed
  BY <1>6, MemoryUntouched DEF SetChanged
<1>7. CASE StartWaking(s)
  <2>1. \A v \in Var : writer[v] # s
    BY <1>7 DEF StartWaking, TwoPhase, LockOK, Visiting, Storing
  <2> QED BY <1>7, <2>1 DEF StartWaking, Committed
<1>8. ASSUME NEW v \in Var, WriteBack(s, v) PROVE Committed' = Committed
  <2>1. writer[v] = s
    BY <1>8 DEF WriteBack, IsNext, TwoPhase, LockOK, Storing
  <2> QED BY <1>8, <2>1, ConstantsAssumption DEF WriteBack, Store, Committed
<1> QED
  BY <1>1, <1>2, <1>4, <1>5, <1>6, <1>7, <1>8 DEF LibraryStep, UserStep

(* ... and of the views of the closures only that of s changes.            *)
LEMMA ViewsApart ==
  ASSUME TypeOK, NEW s \in Thread, LibraryStep(s) \/ UserStep(s)
  PROVE  \A t \in Thread \ {s} : obs'[t] = obs[t] /\ intent'[t] = intent[t]
<1> USE DEF history, TypeOK
<1>1. CASE \/ OrSecond(s) \/ OrBlocked(s) \/ ReleaseReads(s) \/ StartWaking(s)
           \/ WaitForChange(s) \/ Unblocked(s) \/ Begin(s) \/ Or(s) \/ OrOk(s) \/ Retry(s)
           \/ Commit(s)
  BY <1>1
  DEF OrSecond, OrBlocked, ReleaseReads, StartWaking, WaitForChange, Unblocked, Begin, Or,
      OrOk, Retry, Commit
<1>2. CASE \/ CommitDone(s) \/ WaitDone(s) \/ Abort(s) \/ Failure(s) \/ Panic(s)
           \/ Inconsistent(s)
  BY <1>2 DEF CommitDone, WaitDone, Abort, Failure, Panic, Inconsistent, Clear
<1>3. ASSUME NEW v \in Var,
             \/ SkipObsolete(s, v) \/ LockRead(s, v) \/ AnnounceWrite(s, v) \/ LockWrite(s, v)
             \/ WriteBack(s, v) \/ TakeWaiting(s, v) \/ Register(s, v) \/ Compare(s, v)
             \/ AnnounceWriteAtomic(s, v) \/ WriteAtomic(s, v)
      PROVE  \A t \in Thread \ {s} : obs'[t] = obs[t] /\ intent'[t] = intent[t]
  <2>1. CASE ~Inconsistent(s)
    BY <1>3, <2>1
    DEF SkipObsolete, LockRead, AnnounceWrite, LockWrite, WriteBack, TakeWaiting, Register,
        Compare, AnnounceWriteAtomic, WriteAtomic
  <2> QED BY <1>2, <2>1
<1>4. ASSUME NEW v \in Var, ReadShared(s, v) \/ ReadLogged(s, v) \/ Write(s, v)
      PROVE  \A t \in Thread \ {s} : obs'[t] = obs[t] /\ intent'[t] = intent[t]
  BY <1>4 DEF ReadShared, ReadLogged, Write
<1>5. ASSUME NEW u \in Thread, SetChanged(s, u)
      PROVE  \A t \in Thread \ {s} : obs'[t] = obs[t] /\ intent'[t] = intent[t]
  BY <1>5 DEF SetChanged
<1> QED BY <1>1, <1>2, <1>3, <1>4, <1>5 DEF LibraryStep, UserStep

(* When commit has visited all entries, what it compared is the committed  *)
(* memory, ...                                                             *)
LEMMA CommitPoint ==
  ASSUME TypeOK, TwoPhase, NEW t \in Thread, pc[t] = "lock", todo[t] = {},
         NEW v \in Var, IsChecked(log[t][v])
  PROVE  log[t][v].orig = value[v] /\ value[v] = Committed[v]
<1>1. value[v] = log[t][v].orig
  BY DEF TwoPhase, LockOK, Passed
<1>2. ~InHand(v)
  <2> SUFFICES ASSUME InHand(v) PROVE FALSE
    OBVIOUS
  <2> DEFINE u == writer[v]
  <2>1. u \in Thread /\ u # t /\ pc[u] = "writeback"
    BY DEF InHand, TypeOK
  <2>2. readers[v] = {}
    BY <2>1 DEF TwoPhase, LockOK, Visiting, Storing
  <2>3. t \in readers[v] \/ writer[v] = t
    BY DEF TwoPhase, LockOK, Passed, IsChecked, IsWrite
  <2> QED BY <2>1, <2>2, <2>3
<1> QED BY <1>1, <1>2 DEF Committed, InHand

(* ... and then what it writes takes effect.                               *)
LEMMA CommitEffect ==
  ASSUME TypeOK, TwoPhase, NEW t \in Thread, ReleaseReads(t), NEW v \in Var
  PROVE  Committed'[v] = IF IsWrite(log[t][v]) THEN log[t][v].new ELSE Committed[v]
<1>1. pc[t] = "lock" /\ todo[t] = {}
  BY DEF ReleaseReads, Goto
<1>2. CASE IsWrite(log[t][v])
  <2>1. writer[v] = t
    BY <1>1, <1>2 DEF TwoPhase, LockOK, Passed
  <2> QED BY <1>2, <2>1, ConstantsAssumption DEF ReleaseReads, Goto, Committed, TypeOK
<1>3. CASE ~IsWrite(log[t][v])
  <2>1. writer[v] # t
    BY <1>1, <1>3 DEF TwoPhase, LockOK, Storing
  <2> QED BY <1>3, <2>1 DEF ReleaseReads, Goto, Committed, TypeOK
<1> QED BY <1>2, <1>3

(* What the write_atomic that a thread has called will set.                *)
SetBy == [t \in Thread |-> IF pc[t] = "write_atomic" THEN todo[t] ELSE {}]

(* A step is one of a single thread, ...                                   *)
LEMMA StagesApart ==
  ASSUME TypeOK, NEW s \in Thread, LibraryStep(s) \/ UserStep(s)
  PROVE  \A t \in Thread \ {s} : pc'[t] = pc[t] /\ todo'[t] = todo[t]
<1> USE DEF Goto, control, local, TypeOK
<1>1. CASE \/ OrSecond(s) \/ OrBlocked(s) \/ ReleaseReads(s) \/ StartWaking(s)
           \/ WaitForChange(s) \/ Unblocked(s) \/ Begin(s) \/ Or(s) \/ OrOk(s) \/ Retry(s)
           \/ Commit(s)
  BY <1>1
  DEF OrSecond, OrBlocked, ReleaseReads, StartWaking, WaitForChange, Unblocked, Begin, Or,
      OrOk, Retry, Commit
<1>2. CASE \/ CommitDone(s) \/ WaitDone(s) \/ Abort(s) \/ Failure(s) \/ Panic(s)
           \/ Inconsistent(s)
  BY <1>2 DEF CommitDone, WaitDone, Abort, Failure, Panic, Inconsistent, Clear
<1>3. ASSUME NEW v \in Var,
             \/ SkipObsolete(s, v) \/ LockRead(s, v) \/ AnnounceWrite(s, v) \/ LockWrite(s, v)
             \/ WriteBack(s, v) \/ TakeWaiting(s, v) \/ Register(s, v) \/ Compare(s, v)
             \/ AnnounceWriteAtomic(s, v) \/ WriteAtomic(s, v)
      PROVE  \A t \in Thread \ {s} : pc'[t] = pc[t] /\ todo'[t] = todo[t]
  <2>1. CASE ~Inconsistent(s)
    BY <1>3, <2>1
    DEF SkipObsolete, LockRead, AnnounceWrite, LockWrite, WriteBack, TakeWaiting, Register,
        Compare, AnnounceWriteAtomic, WriteAtomic, Visited
  <2> QED BY <1>2, <2>1
<1>4. ASSUME NEW v \in Var, ReadShared(s, v) \/ ReadLogged(s, v) \/ Write(s, v)
      PROVE  \A t \in Thread \ {s} : pc'[t] = pc[t] /\ todo'[t] = todo[t]
  BY <1>4 DEF ReadShared, ReadLogged, Write
<1>5. ASSUME NEW u \in Thread, SetChanged(s, u)
      PROVE  \A t \in Thread \ {s} : pc'[t] = pc[t] /\ todo'[t] = todo[t]
  BY <1>5 DEF SetChanged
<1> QED BY <1>1, <1>2, <1>3, <1>4, <1>5 DEF LibraryStep, UserStep

(* Where a transaction is that has not committed.                          *)
Running == {"run", "retry", "lock", "wait", "check", "park", "dead"}

(* ... so it moves that thread alone from stage to stage, ...              *)
LEMMA StageStep ==
  ASSUME TypeOK, NEW s \in Thread, LibraryStep(s) \/ UserStep(s)
  PROVE  /\ Stage' = [Stage EXCEPT ![s] = Stage'[s]]
         /\ SetBy' = [SetBy EXCEPT ![s] = SetBy'[s]]
BY StagesApart DEF Stage, SetBy

(* ... or, mostly, keeps it inside of its transaction, ...                 *)
LEMMA StaysRunning ==
  ASSUME TypeOK, NEW s \in Thread,
         \/ OrSecond(s) \/ OrBlocked(s) \/ WaitForChange(s) \/ Unblocked(s) \/ WaitDone(s)
         \/ Or(s) \/ OrOk(s) \/ Retry(s) \/ Failure(s) \/ Commit(s)
         \/ \E v \in Var : \/ SkipObsolete(s, v) \/ LockRead(s, v)
                           \/ AnnounceWrite(s, v) \/ LockWrite(s, v)
                           \/ Register(s, v) \/ Compare(s, v)
                           \/ ReadShared(s, v) \/ ReadLogged(s, v) \/ Write(s, v)
  PROVE  pc[s] \in Running /\ pc'[s] \in Running
<1> USE DEF Goto, control, TypeOK, Running
<1>1. CASE \/ OrSecond(s) \/ OrBlocked(s) \/ WaitForChange(s) \/ Unblocked(s) \/ WaitDone(s)
           \/ Or(s) \/ OrOk(s) \/ Retry(s) \/ Failure(s) \/ Commit(s)
  BY <1>1
  DEF OrSecond, OrBlocked, WaitForChange, Unblocked, WaitDone, Or, OrOk, Retry, Failure, Commit
<1>2. ASSUME NEW v \in Var,
             \/ SkipObsolete(s, v) \/ LockRead(s, v) \/ AnnounceWrite(s, v) \/ LockWrite(s, v)
      PROVE  pc[s] \in Running /\ pc'[s] \in Running
  BY <1>2 DEF SkipObsolete, LockRead, AnnounceWrite, LockWrite, Inconsistent
<1>3. ASSUME NEW v \in Var,
             \/ Register(s, v) \/ Compare(s, v)
             \/ ReadShared(s, v) \/ ReadLogged(s, v) \/ Write(s, v)
      PROVE  pc[s] \in Running /\ pc'[s] \in Running
  BY <1>3 DEF Register, Compare, ReadShared, ReadLogged, Write
<1> QED BY <1>1, <1>2, <1>3

(* ... or let it write back and wake, which nobody can see any more.       *)
LEMMA StaysCommitted ==
  ASSUME TypeOK, NEW s \in Thread,
         \/ StartWaking(s) \/ \E v \in Var : WriteBack(s, v) \/ TakeWaiting(s, v)
         \/ \E u \in Thread : SetChanged(s, u)
  PROVE  /\ pc[s] \in {"writeback", "wake"} /\ pc'[s] \in {"writeback", "wake"}
         /\ UNCHANGED <<obs, intent>>
BY DEF StartWaking, WriteBack, TakeWaiting, SetChanged, Goto, control, history, TypeOK

LEMMA AtomicStep ==
  TypeOK /\ TwoPhase /\ FaithfulInv /\ [Next]_vars
    => [Atomic!Next]_Atomic!vars
<1> SUFFICES ASSUME TypeOK, TwoPhase, FaithfulInv, [Next]_vars
             PROVE  [Atomic!Next]_Atomic!vars
  OBVIOUS
<1>0. CASE UNCHANGED vars
  BY <1>0 DEF vars, shared, control, local, history, Atomic!vars, Committed, Stage
<1>1. ASSUME NEW t \in Thread, LibraryStep(t) \/ UserStep(t) PROVE [Atomic!Next]_Atomic!vars
  <2>1. /\ Stage' = [Stage EXCEPT ![t] = Stage'[t]]
        /\ SetBy' = [SetBy EXCEPT ![t] = SetBy'[t]]
    BY <1>1, StageStep
  <2>2. ~ReleaseReads(t) /\ (\A v \in Var : ~WriteAtomic(t, v)) => Committed' = Committed
    BY <1>1, MemoryKept
  <2> DEFINE KeepsMemory == ~ReleaseReads(t) /\ \A v \in Var : ~WriteAtomic(t, v)
  <2>3. CASE \/ OrSecond(t) \/ OrBlocked(t) \/ WaitForChange(t) \/ Unblocked(t) \/ WaitDone(t)
             \/ Or(t) \/ OrOk(t) \/ Retry(t) \/ Failure(t) \/ Commit(t)
             \/ \E v \in Var : \/ SkipObsolete(t, v) \/ LockRead(t, v)
                               \/ AnnounceWrite(t, v) \/ LockWrite(t, v)
                               \/ Register(t, v) \/ Compare(t, v)
                               \/ ReadShared(t, v) \/ ReadLogged(t, v) \/ Write(t, v)
    <3>1. pc[t] \in Running /\ pc'[t] \in Running
      BY <2>3, StaysRunning
    <3>2. Stage[t] = "running" /\ Stage'[t] = "running" /\ SetBy[t] = {} /\ SetBy'[t] = {}
      BY <3>1 DEF Stage, SetBy, Running
    <3>3. KeepsMemory
      BY <3>1 DEF Running, ReleaseReads, WriteAtomic, Goto, TypeOK
    <3>4. Stage' = [Stage EXCEPT ![t] = "running"] /\ SetBy' = SetBy
      BY <2>1, <3>2 DEF SetBy
    <3>5. Atomic!Work(t)
      BY <1>1, <2>2, <3>2, <3>3, <3>4, ViewsApart DEF Atomic!Work, Atomic!Enter, SetBy
    <3> QED BY <3>5 DEF Atomic!Next
  <2>4. CASE \/ StartWaking(t) \/ \E v \in Var : WriteBack(t, v) \/ TakeWaiting(t, v)
             \/ \E u \in Thread : SetChanged(t, u)
    <3>1. /\ pc[t] \in {"writeback", "wake"} /\ pc'[t] \in {"writeback", "wake"}
          /\ UNCHANGED <<obs, intent>>
      BY <2>4, StaysCommitted
    <3>2. Stage[t] = Stage'[t] /\ SetBy[t] = {} /\ SetBy'[t] = {}
      BY <3>1 DEF Stage, SetBy
    <3>3. KeepsMemory
      BY <3>1 DEF ReleaseReads, WriteAtomic, Goto, TypeOK
    <3>4. Stage' = Stage
      <4>1. Stage' = [Stage EXCEPT ![t] = Stage[t]]
        BY <2>1, <3>2
      <4> QED BY <4>1 DEF Stage
    <3>5. SetBy' = SetBy
      BY <2>1, <3>2 DEF SetBy
    <3> QED BY <2>2, <3>1, <3>3, <3>4, <3>5 DEF Atomic!vars, SetBy
  <2>5. CASE Begin(t)
    <3>1. Stage[t] = "out" /\ Stage'[t] = "running" /\ SetBy[t] = {} /\ SetBy'[t] = {}
      BY <2>5 DEF Begin, Goto, TypeOK, Stage, SetBy
    <3>2. KeepsMemory /\ UNCHANGED <<obs, intent>>
      BY <2>5 DEF Begin, ReleaseReads, WriteAtomic, Goto, TypeOK, history
    <3>3. Stage' = [Stage EXCEPT ![t] = "running"] /\ SetBy' = SetBy
      BY <2>1, <3>1 DEF SetBy
    <3>4. Atomic!Begin(t)
      BY <2>2, <3>1, <3>2, <3>3 DEF Atomic!Begin, Atomic!Enter, SetBy
    <3> QED BY <3>4 DEF Atomic!Next
  <2>6. CASE Abort(t) \/ Panic(t)
    <3>1. Stage[t] = "running" /\ Stage'[t] = "out" /\ SetBy[t] = {} /\ SetBy'[t] = {}
      BY <2>6 DEF Abort, Panic, Goto, TypeOK, Stage, SetBy
    <3>2. KeepsMemory /\ Atomic!Forget(t)
      BY <2>6
      DEF Abort, Panic, Clear, ReleaseReads, WriteAtomic, Goto, TypeOK, Atomic!Forget,
          Atomic!EmptyView, EmptyView
    <3>3. Stage' = [Stage EXCEPT ![t] = "out"] /\ SetBy' = SetBy
      BY <2>1, <3>1 DEF SetBy
    <3>4. Atomic!Abandon(t)
      BY <2>2, <3>1, <3>2, <3>3 DEF Atomic!Abandon, Atomic!Enter, SetBy
    <3> QED BY <3>4 DEF Atomic!Next
  <2>7. CASE CommitDone(t)
    <3>1. Stage[t] = "committed" /\ Stage'[t] = "out" /\ SetBy[t] = {} /\ SetBy'[t] = {}
      BY <2>7 DEF CommitDone, Goto, TypeOK, Stage, SetBy
    <3>2. KeepsMemory /\ Atomic!Forget(t)
      BY <2>7
      DEF CommitDone, Clear, ReleaseReads, WriteAtomic, Goto, TypeOK, Atomic!Forget,
          Atomic!EmptyView, EmptyView
    <3>3. Stage' = [Stage EXCEPT ![t] = "out"] /\ SetBy' = SetBy
      BY <2>1, <3>1 DEF SetBy
    <3>4. Atomic!Return(t)
      BY <2>2, <3>1, <3>2, <3>3 DEF Atomic!Return, Atomic!Enter, SetBy
    <3> QED BY <3>4 DEF Atomic!Next
  <2>8. ASSUME NEW v \in Var, AnnounceWriteAtomic(t, v) PROVE Atomic!Next
    <3>1. Stage[t] = "out" /\ Stage'[t] = "setting" /\ SetBy'[t] = {v}
      BY <2>8 DEF AnnounceWriteAtomic, Goto, TypeOK, Stage, SetBy
    <3>2. KeepsMemory /\ UNCHANGED <<obs, intent>>
      BY <2>8 DEF AnnounceWriteAtomic, ReleaseReads, WriteAtomic, Goto, TypeOK, history
    <3>3. Stage' = [Stage EXCEPT ![t] = "setting"] /\ SetBy' = [SetBy EXCEPT ![t] = {v}]
      BY <2>1, <3>1
    <3>4. Atomic!Call(t, v)
      BY <2>2, <3>1, <3>2, <3>3 DEF Atomic!Call, Atomic!Enter, SetBy
    <3> QED BY <3>4 DEF Atomic!Next
  <2>9. ASSUME NEW v \in Var, WriteAtomic(t, v) PROVE Atomic!Next
    <3>1. /\ Stage[t] = "setting" /\ Stage'[t] = "out"
          /\ SetBy[t] = {v} /\ SetBy'[t] = {} /\ UNCHANGED <<obs, intent>>
      BY <2>9 DEF WriteAtomic, Goto, TypeOK, Stage, SetBy
    <3>2. writer[v] = t
      BY <2>9 DEF WriteAtomic, Goto, TwoPhase, LockOK, Storing
    <3>3. PICK a \in Addr \ {value[v]} : value' = [value EXCEPT ![v] = a]
      <4>1. Fresh \subseteq Addr \ Live /\ value[v] \in Live
        BY AllocAssumption DEF Fresh, Live
      <4> QED BY <2>9, <4>1 DEF WriteAtomic, Store
    <3>4. Committed' = [Committed EXCEPT ![v] = a] /\ Committed[v] = value[v]
      BY <2>9, <3>2, <3>3, ConstantsAssumption DEF WriteAtomic, Goto, Committed, TypeOK
    <3>5. Stage' = [Stage EXCEPT ![t] = "out"] /\ SetBy' = [SetBy EXCEPT ![t] = {}]
      BY <2>1, <3>1
    <3>6. Atomic!Set(t)
      BY <3>1, <3>4, <3>5 DEF Atomic!Set, Atomic!Enter, SetBy
    <3> QED BY <3>6 DEF Atomic!Next
  <2>10. CASE ReleaseReads(t)
    <3>1. pc[t] = "lock" /\ todo[t] = {} /\ Faithful(log[t], obs[t], intent[t])
      BY <2>10 DEF ReleaseReads, Goto, FaithfulInv
    <3>2. \A v \in Var : obs[t][v] # Null => obs[t][v] = Committed[v]
      BY <3>1, CommitPoint DEF Faithful
    <3>3. \A v \in Var :
            Committed'[v] = IF intent[t][v] # Null THEN intent[t][v] ELSE Committed[v]
      BY <2>10, <3>1, CommitEffect DEF Faithful
    <3>4. Committed' = [v \in Var |-> IF intent[t][v] # Null THEN intent[t][v]
                                     ELSE Committed[v]]
      BY <3>3 DEF Committed
    <3>5. Stage[t] = "running" /\ Stage'[t] = "committed" /\ SetBy[t] = {} /\ SetBy'[t] = {}
      BY <2>10 DEF ReleaseReads, Goto, TypeOK, Stage, SetBy
    <3>6. Stage' = [Stage EXCEPT ![t] = "committed"] /\ SetBy' = SetBy
      BY <2>1, <3>5 DEF SetBy
    <3>7. Atomic!Forget(t)
      BY <2>10 DEF ReleaseReads, Atomic!Forget, Atomic!EmptyView, EmptyView
    <3>8. Atomic!Commit(t)
      BY <3>2, <3>4, <3>5, <3>6, <3>7 DEF Atomic!Commit, Atomic!Enter, SetBy
    <3> QED BY <3>8 DEF Atomic!Next
  <2> QED
    BY <1>1, <2>3, <2>4, <2>5, <2>6, <2>7, <2>8, <2>9, <2>10 DEF LibraryStep, UserStep
<1> QED BY <1>0, <1>1 DEF Next

(* Committed transactions take effect at one instant, at which everything  *)
(* their closures were shown on the path taken was current, also if they   *)
(* wrote nothing, and nothing else but write_atomic changes the memory:    *)
(* for every number of threads and variables, whatever the closures do.    *)
THEOREM TransactionsAreAtomic == Spec => AtomicSpec
<1>1. Init => Atomic!Init
  BY ConstantsAssumption
  DEF Init, Atomic!Init, Atomic!EmptyView, EmptyView, Committed, Stage
<1>2. TypeOK /\ TwoPhase /\ FaithfulInv /\ [Next]_vars => [Atomic!Next]_Atomic!vars
  BY AtomicStep
<1> QED BY <1>1, <1>2, Faithfulness, PTL DEF Spec, AtomicSpec, Atomic!Spec
=============================================================================
