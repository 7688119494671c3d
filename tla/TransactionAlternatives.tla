----------------------- MODULE TransactionAlternatives -----------------------
(***************************************************************************)
(* What becomes of the reads of a transaction: the proofs that commit only *)
(* fails on a conflict, that what a path has read stays in the log, and    *)
(* that a blocked thread has registered with what it loaded.  The last is  *)
(* about closures that nest no Transaction::or in another: when an or is   *)
(* abandoned whose second alternative wrote what its first one had read,   *)
(* the thread forgets both.                                                *)
(***************************************************************************)
EXTENDS TransactionBlocking

-----------------------------------------------------------------------------
(* What a step of s leaves alone of another thread.  It may store to a     *)
(* variable, and then the variable is stale for those who have loaded it.  *)
Elsewhere(s) ==
  \A t \in Thread \ {s} :
    /\ pc'[t] = pc[t] /\ log'[t] = log[t] /\ frames'[t] = frames[t]
    /\ todo'[t] = todo[t] /\ reads'[t] = reads[t]
    /\ intent'[t] = intent[t] /\ seen'[t] = seen[t]
    /\ \A v \in Var : \/ value'[v] = value[v] /\ stale'[t][v] = stale[t][v]
                      \/ stale'[t][v] = seen[t][v]

LEMMA StepsApart ==
  ASSUME TypeOK, NEW s \in Thread, LibraryStep(s) \/ UserStep(s)
  PROVE  Elsewhere(s)
<1> USE DEF Goto, shared, control, local, blocking, history, Elsewhere, TypeOK
<1>1. CASE \/ OrSecond(s) \/ OrBlocked(s) \/ ReleaseReads(s) \/ StartWaking(s)
           \/ WaitForChange(s) \/ Unblocked(s) \/ Begin(s) \/ Or(s) \/ OrOk(s) \/ Retry(s)
           \/ Commit(s)
  BY <1>1
  DEF OrSecond, OrBlocked, ReleaseReads, StartWaking, WaitForChange, Unblocked, Begin, Or,
      OrOk, Retry, Commit
<1>2. CASE \/ CommitDone(s) \/ WaitDone(s) \/ Abort(s) \/ Failure(s) \/ Panic(s)
           \/ Inconsistent(s)
  BY <1>2 DEF CommitDone, WaitDone, Abort, Failure, Panic, Inconsistent, Clear
<1>3. ASSUME NEW v \in Var,
             \/ SkipObsolete(s, v) \/ LockRead(s, v) \/ AnnounceWrite(s, v) \/ LockWrite(s, v)
             \/ TakeWaiting(s, v) \/ Register(s, v) \/ AnnounceWriteAtomic(s, v)
      PROVE  Elsewhere(s)
  <2>1. CASE ~Inconsistent(s)
    BY <1>3, <2>1
    DEF SkipObsolete, LockRead, AnnounceWrite, LockWrite, TakeWaiting, Register,
        AnnounceWriteAtomic, Visited
  <2> QED BY <1>2, <2>1
<1>4. ASSUME NEW v \in Var, ReadShared(s, v) \/ ReadLogged(s, v) \/ Write(s, v)
      PROVE  Elsewhere(s)
  BY <1>4 DEF ReadShared, ReadLogged, Write
<1>5. ASSUME NEW v \in Var, WriteBack(s, v) \/ WriteAtomic(s, v) PROVE Elsewhere(s)
  <2>1. \E a : Store(v, a)
    BY <1>5 DEF WriteBack, WriteAtomic
  <2>2. UNCHANGED <<log, frames, reads, intent, seen>>
    BY <1>5 DEF WriteBack, WriteAtomic
  <2>3. \A t \in Thread \ {s} : pc'[t] = pc[t] /\ todo'[t] = todo[t]
    BY <1>5 DEF WriteBack, WriteAtomic, Visited
  <2>4. \A t \in Thread, u \in Var :
          \/ value'[u] = value[u] /\ stale'[t][u] = stale[t][u]
          \/ stale'[t][u] = seen[t][u]
    BY <2>1 DEF Store, Loads
  <2> QED BY <2>2, <2>3, <2>4
<1>6. ASSUME NEW v \in Var, Compare(s, v) PROVE Elsewhere(s)
  BY <1>6 DEF Compare, Visited
<1>7. ASSUME NEW u \in Thread, SetChanged(s, u) PROVE Elsewhere(s)
  BY <1>7 DEF SetChanged
<1> QED BY <1>1, <1>2, <1>3, <1>4, <1>5, <1>6, <1>7 DEF LibraryStep, UserStep

-----------------------------------------------------------------------------
(* Where a thread is, and what it has on its stack and in its loop.        *)
PlaceOK(t) ==
  /\ Len(frames[t]) <= MaxDepth
  /\ pc[t] \notin {"run", "retry"} => frames[t] = <<>>
  /\ pc[t] = "park" => todo[t] = {}

PlaceInv == \A t \in Thread : PlaceOK(t)

LEMMA StackLengths ==
  /\ \A f \in Frame, s \in Seq(Frame) : Len(<<f>> \o s) = Len(s) + 1
  /\ \A s \in Seq(Frame) : s # <<>> => Len(Tail(s)) + 1 = Len(s) /\ Len(Tail(s)) \in Nat
  /\ Len(<<>>) = 0
OBVIOUS

LEMMA PlaceStep == TypeOK /\ PlaceInv /\ [Next]_vars => PlaceInv'
<1> SUFFICES ASSUME TypeOK, PlaceInv, [Next]_vars PROVE PlaceInv'
  OBVIOUS
<1>0. CASE UNCHANGED vars
  BY <1>0 DEF vars, shared, control, local, PlaceInv, PlaceOK
<1>n. CASE Next
  <2>1. PICK s \in Thread : LibraryStep(s) \/ UserStep(s)
    BY <1>n DEF Next
  <2>2. Elsewhere(s)
    BY <2>1, StepsApart
  <2> SUFFICES PlaceOK(s)'
    BY <2>2 DEF Elsewhere, PlaceInv, PlaceOK
  <2>3. PlaceOK(s) /\ frames[s] \in Seq(Frame) /\ MaxDepth \in Nat
    BY ConstantsAssumption DEF PlaceInv, TypeOK
  <2> USE DEF Goto, shared, control, local, blocking, history
  <2>4. CASE \/ CommitDone(s) \/ WaitDone(s) \/ Abort(s) \/ Failure(s) \/ Panic(s)
             \/ Inconsistent(s)
    <3>1. frames'[s] = <<>> /\ pc'[s] \in {"idle", "run"}
      BY <2>4
      DEF CommitDone, WaitDone, Abort, Failure, Panic, Inconsistent, Clear, TypeOK
    <3> QED BY <2>3, <3>1, StackLengths DEF PlaceOK
  <2>5. CASE Begin(s) \/ Retry(s) \/ Commit(s) \/ ReleaseReads(s) \/ StartWaking(s) \/ Unblocked(s)
    <3>1. frames' = frames /\ pc'[s] # "park" /\ (pc'[s] \in {"run", "retry"} \/ frames[s] = <<>>)
      BY <2>3, <2>5
      DEF Begin, Retry, Commit, ReleaseReads, StartWaking, Unblocked, PlaceOK, TypeOK
    <3> QED BY <2>3, <3>1 DEF PlaceOK
  <2>6. CASE WaitForChange(s)
    <3>1. frames' = frames /\ frames[s] = <<>> /\ (pc'[s] = "park" => todo'[s] = {})
      BY <2>6 DEF WaitForChange, TypeOK
    <3> QED BY <2>3, <3>1 DEF PlaceOK
  <2>7. ASSUME NEW v \in Var, Compare(s, v) PROVE PlaceOK(s)'
    <3>1. frames' = frames /\ pc[s] = "check" /\ (pc'[s] = "park" => todo'[s] = {})
      BY <2>7 DEF Compare, Visited, TypeOK
    <3> QED BY <2>3, <3>1 DEF PlaceOK
  <2>8. ASSUME NEW v \in Var,
               \/ SkipObsolete(s, v) \/ LockRead(s, v) \/ AnnounceWrite(s, v)
               \/ LockWrite(s, v) \/ WriteBack(s, v) \/ TakeWaiting(s, v)
               \/ Register(s, v) \/ WriteAtomic(s, v) \/ AnnounceWriteAtomic(s, v)
        PROVE  PlaceOK(s)'
    <3>1. CASE ~Inconsistent(s)
      <4>1. frames' = frames /\ pc[s] \notin {"run", "retry"} /\ pc'[s] # "park"
        BY <2>8, <3>1
        DEF SkipObsolete, LockRead, AnnounceWrite, LockWrite, WriteBack, TakeWaiting,
            Register, WriteAtomic, AnnounceWriteAtomic, TypeOK
      <4> QED BY <2>3, <4>1 DEF PlaceOK
    <3> QED BY <2>4, <3>1
  <2>9. ASSUME NEW v \in Var, ReadShared(s, v) \/ ReadLogged(s, v) \/ Write(s, v)
        PROVE  PlaceOK(s)'
    BY <2>3, <2>9 DEF ReadShared, ReadLogged, Write, PlaceOK
  <2>10. ASSUME NEW u \in Thread, SetChanged(s, u) PROVE PlaceOK(s)'
    BY <2>3, <2>10 DEF SetChanged, PlaceOK
  <2>11. CASE Or(s)
    <3> DEFINE f == [stage |-> "first", saved |-> log[s], obs |-> obs[s],
                     intent |-> intent[s]]
    <3>1. f \in Frame
      BY DEF Frame, TypeOK
    <3>2. /\ frames'[s] = <<f>> \o frames[s] /\ Len(frames[s]) < MaxDepth
          /\ pc[s] = "run" /\ pc' = pc
      BY <2>11 DEF Or, TypeOK
    <3> HIDE DEF f
    <3>3. Len(frames'[s]) = Len(frames[s]) + 1 /\ Len(frames[s]) \in Nat
      BY <2>3, <3>1, <3>2, StackLengths
    <3> QED BY <2>3, <3>2, <3>3 DEF PlaceOK
  <2>12. CASE OrSecond(s)
    <3> DEFINE f == [stage |-> "second", saved |-> log[s], obs |-> EmptyView,
                     intent |-> EmptyView]
    <3>1. f \in Frame /\ Tail(frames[s]) \in Seq(Frame)
      BY <2>3, <2>12, ViewType, FrameTypes DEF OrSecond, Frame, TypeOK
    <3>2. frames'[s] = <<f>> \o Tail(frames[s]) /\ frames[s] # <<>> /\ pc'[s] = "run"
      BY <2>12 DEF OrSecond, TypeOK
    <3> HIDE DEF f
    <3>3. Len(frames'[s]) = Len(frames[s])
      BY <2>3, <3>1, <3>2, StackLengths
    <3> QED BY <2>3, <3>2, <3>3 DEF PlaceOK
  <2>13. CASE OrOk(s) \/ OrBlocked(s)
    <3>1. /\ frames'[s] = Tail(frames[s]) /\ frames[s] # <<>>
          /\ pc' = pc /\ pc[s] \in {"run", "retry"}
      BY <2>13 DEF OrOk, OrBlocked, TypeOK
    <3>2. Len(frames'[s]) + 1 = Len(frames[s]) /\ Len(frames'[s]) \in Nat
      BY <2>3, <3>1, StackLengths
    <3> QED BY <2>3, <3>1, <3>2 DEF PlaceOK
  <2> QED
    BY <2>1, <2>4, <2>5, <2>6, <2>7, <2>8, <2>9, <2>10, <2>11, <2>12, <2>13
    DEF LibraryStep, UserStep
<1> QED BY <1>0, <1>n

LEMMA Places == Spec => []PlaceInv
<1>1. Init => PlaceInv
  BY ConstantsAssumption, StackLengths DEF Init, PlaceInv, PlaceOK
<1> QED BY <1>1, PlaceStep, Locks, PTL DEF Spec

-----------------------------------------------------------------------------
(* Conflicts.  Each entry that came from a read, in the log and in those   *)
(* that or keeps, is known to be current or known to be stale.             *)
Known(t, v, o) == o \in seen[t][v] /\ (value[v] = o \/ o \in stale[t][v])

KnownOK(t, v) ==
  pc[t] \in {"run", "retry", "lock"} => \A o \in Loaded(t, v) : Known(t, v, o)

KnownInv == \A t \in Thread, v \in Var : KnownOK(t, v)

LEMMA KnownElsewhere ==
  ASSUME NEW s \in Thread, Elsewhere(s), NEW t \in Thread \ {s}, NEW v \in Var, KnownOK(t, v)
  PROVE  KnownOK(t, v)'
<1>1. pc'[t] = pc[t] /\ Loaded(t, v)' = Loaded(t, v)
  BY DEF Elsewhere, Loaded, Entries
<1>2. \A o : Known(t, v, o) => Known(t, v, o)'
  BY DEF Elsewhere, Known
<1> QED BY <1>1, <1>2 DEF KnownOK

LEMMA KnownStep == TypeOK /\ TraceInv /\ KnownInv /\ [Next]_vars => KnownInv'
<1> SUFFICES ASSUME TypeOK, TraceInv, KnownInv, [Next]_vars PROVE KnownInv'
  OBVIOUS
<1>0. CASE UNCHANGED vars
  BY <1>0
  DEF vars, shared, control, local, blocking, history, KnownInv, KnownOK, Known, Loaded,
      Entries
<1>n. CASE Next
  <2>1. PICK s \in Thread : LibraryStep(s) \/ UserStep(s)
    BY <1>n DEF Next
  <2>2. Elsewhere(s)
    BY <2>1, StepsApart
  <2> SUFFICES ASSUME NEW v \in Var PROVE KnownOK(s, v)'
    BY <2>2, KnownElsewhere DEF KnownInv
  <2>3. KnownOK(s, v)
    BY DEF KnownInv
  <2> USE DEF Goto, shared, control, local, blocking, history
  (* Nothing is left that was loaded, ...                                  *)
  <2>4. ASSUME log'[s] = EmptyLog, frames'[s] = <<>> PROVE KnownOK(s, v)'
    <3>1. Entries(s, v)' = {Vacant}
      BY <2>4, SavedNone DEF Entries, EmptyLog
    <3>2. Loaded(s, v)' = {}
      BY <3>1 DEF Loaded, Vacant, Entry
    <3> QED BY <3>2 DEF KnownOK
  <2>5. CASE \/ CommitDone(s) \/ WaitDone(s) \/ Abort(s) \/ Failure(s) \/ Panic(s)
             \/ Inconsistent(s)
    <3>1. Clear(s)
      BY <2>5 DEF CommitDone, WaitDone, Abort, Failure, Panic, Inconsistent
    <3> QED BY <2>4, <3>1 DEF Clear, TypeOK
  <2>6. CASE Begin(s)
    BY <2>4, <2>6 DEF Begin, TraceInv, TraceOK, Outside
  (* ... or nothing is compared any more, ...                              *)
  <2>7. CASE \/ ReleaseReads(s) \/ StartWaking(s) \/ WaitForChange(s) \/ Unblocked(s)
             \/ \E u \in Thread : SetChanged(s, u)
             \/ \E w \in Var : \/ WriteBack(s, w) \/ TakeWaiting(s, w) \/ Register(s, w)
                               \/ Compare(s, w) \/ WriteAtomic(s, w)
                               \/ AnnounceWriteAtomic(s, w)
    <3>1. pc'[s] \notin {"run", "retry", "lock"}
      BY <2>7
      DEF ReleaseReads, StartWaking, WaitForChange, Unblocked, SetChanged, WriteBack,
          TakeWaiting, Register, Compare, WriteAtomic, AnnounceWriteAtomic, TypeOK
    <3> QED BY <3>1 DEF KnownOK
  (* ... or the current value is loaded, ...                               *)
  <2>8. ASSUME NEW w \in Var, ReadShared(s, w) PROVE KnownOK(s, v)'
    <3>1. UNCHANGED <<value, pc>>
      BY <2>8 DEF ReadShared
    <3>2. /\ seen'[s][v] = IF v = w THEN seen[s][v] \cup {value[v]} ELSE seen[s][v]
          /\ stale'[s][v] = IF v = w THEN stale[s][v] \ {value[v]} ELSE stale[s][v]
      BY <2>8 DEF ReadShared, TypeOK, Loads
    <3>3. \A o \in Loaded(s, v)' : o \in Loaded(s, v) \/ (v = w /\ o = value[v])
      BY <2>8, EntriesRead
    <3> QED BY <2>3, <3>1, <3>2, <3>3 DEF KnownOK, Known
  (* ... or what was loaded is what was loaded before.                     *)
  <2>9. ASSUME UNCHANGED <<value, seen, stale>>, pc[s] \in {"run", "retry", "lock"},
               Loaded(s, v)' \subseteq Loaded(s, v)
        PROVE  KnownOK(s, v)'
    BY <2>3, <2>9 DEF KnownOK, Known
  <2>10. CASE Or(s) \/ OrOk(s) \/ OrBlocked(s) \/ OrSecond(s) \/ \E w \in Var : ReadLogged(s, w)
    <3>1. Loaded(s, v)' \subseteq Loaded(s, v)
      BY <2>10, EntriesStep DEF Loaded, Rearranges
    <3>2. UNCHANGED <<value, seen, stale>> /\ pc[s] \in {"run", "retry"}
      BY <2>10 DEF Or, OrOk, OrBlocked, OrSecond, ReadLogged
    <3> QED BY <2>9, <3>1, <3>2
  <2>11. ASSUME NEW w \in Var, Write(s, w) PROVE KnownOK(s, v)'
    <3>1. Loaded(s, v)' = Loaded(s, v)
      BY <2>11, EntriesWritten
    <3> QED BY <2>9, <2>11, <3>1 DEF Write
  <2>12. CASE \/ Retry(s) \/ Commit(s)
              \/ \E w \in Var : \/ SkipObsolete(s, w) \/ LockRead(s, w)
                                \/ AnnounceWrite(s, w) \/ LockWrite(s, w)
    <3>1. CASE ~Inconsistent(s)
      <4>1. UNCHANGED <<value, log, frames, seen, stale>> /\ pc[s] \in {"run", "lock"}
        BY <2>12, <3>1 DEF Retry, Commit, SkipObsolete, LockRead, AnnounceWrite, LockWrite
      <4>2. Loaded(s, v)' = Loaded(s, v)
        BY <4>1 DEF Loaded, Entries
      <4> QED BY <2>9, <4>1, <4>2
    <3> QED BY <2>5, <3>1
  <2> QED
    BY <2>1, <2>5, <2>6, <2>7, <2>8, <2>10, <2>11, <2>12 DEF LibraryStep, UserStep
<1> QED BY <1>0, <1>n

LEMMA Knowledge == Spec => []KnownInv
<1>1. Init => KnownInv
  BY DEF Init, KnownInv, KnownOK
<1> QED BY <1>1, KnownStep, Traces, PTL DEF Spec

(* What fails a commit: an entry that is known, and not to be current.     *)
LEMMA ConflictStep ==
  ASSUME TypeOK, KnownInv, [Next]_vars, NEW t \in Thread, pc[t] = "lock", pc'[t] = "run"
  PROVE  \E v \in Var : IsChecked(log[t][v]) /\ log[t][v].orig \in stale[t][v]
<1>1. PICK s \in Thread : LibraryStep(s) \/ UserStep(s)
  BY DEF Next, vars, control
<1>2. t = s
  BY <1>1, StepsApart DEF Elsewhere
<1>3. \E w \in Var : (LockRead(t, w) \/ LockWrite(t, w)) /\ pc' # pc
  BY <1>1, <1>2
  DEF LibraryStep, UserStep, Goto, control, TypeOK, OrSecond, OrBlocked, ReleaseReads,
      StartWaking, CommitDone, WaitForChange, Unblocked, WaitDone, SkipObsolete,
      AnnounceWrite, WriteBack, TakeWaiting, Register, Compare, WriteAtomic, SetChanged,
      Begin, Or, OrOk, Retry, Abort, Failure, Panic, Commit, ReadShared, ReadLogged, Write,
      AnnounceWriteAtomic
<1>4. PICK w \in Var : (LockRead(t, w) \/ LockWrite(t, w)) /\ pc' # pc
  BY <1>3
<1>5. IsChecked(log[t][w]) /\ value[w] # log[t][w].orig
  BY <1>4 DEF LockRead, LockWrite, control, IsChecked
<1>6. log[t][w].orig # Null
  BY <1>5 DEF TypeOK, Log, LogVar, IsChecked, HasReadValue
<1>7. Known(t, w, log[t][w].orig)
  BY <1>6 DEF KnownInv, KnownOK, Loaded, Entries
<1> QED BY <1>5, <1>7 DEF Known

(* Commit is inconsistent only if another thread has stored to a variable  *)
(* since the value that the log has for it was loaded (commit, combine):   *)
(* no transaction runs again for nothing, however its alternatives nest.   *)
THEOREM ConflictsAreReal == Spec => CommitFailsOnConflict
<1>1. TypeOK /\ KnownInv /\ [Next]_vars
        => [\A t \in Thread :
              pc[t] = "lock" /\ pc'[t] = "run"
                => \E v \in Var : IsChecked(log[t][v]) /\ log[t][v].orig \in stale[t][v]]_vars
  BY ConflictStep
<1> QED BY <1>1, Knowledge, Traces, PTL DEF Spec, CommitFailsOnConflict

-----------------------------------------------------------------------------
(* What was read stays in the log: a copy that or keeps for the case that  *)
(* its first alternative blocks knows of no read that the log, or the copy *)
(* of an or further in, does not know of.                                  *)
Rooted(s, l, v) ==
  \A i \in 1..Len(s) : s[i].stage = "first" =>
    /\ s[i].saved[v].orig \in {Null, l[v].orig}
    /\ \A j \in 1..i :
         s[j].stage = "first" => s[i].saved[v].orig \in {Null, s[j].saved[v].orig}

RootedInv == \A t \in Thread, v \in Var : Rooted(frames[t], log[t], v)

LEMMA RootedPush ==
  ASSUME NEW f \in Frame, NEW s \in Seq(Frame), NEW l, NEW v, Rooted(s, l, v),
         f.stage = "second" \/ f.saved = l
  PROVE  Rooted(<<f>> \o s, l, v)
<1> DEFINE n == <<f>> \o s
<1>1. /\ Len(n) = Len(s) + 1 /\ n[1] = f /\ Len(s) \in Nat
      /\ \A i \in 2..Len(n) : i - 1 \in 1..Len(s) /\ n[i] = s[i - 1]
  OBVIOUS
<1> HIDE DEF n
<1>2. \A i \in 1..Len(n) : i = 1 \/ i \in 2..Len(n)
  BY <1>1
<1>3. SUFFICES ASSUME NEW i \in 1..Len(n), n[i].stage = "first"
               PROVE  /\ n[i].saved[v].orig \in {Null, l[v].orig}
                      /\ \A j \in 1..i : n[j].stage = "first"
                           => n[i].saved[v].orig \in {Null, n[j].saved[v].orig}
  BY DEF Rooted, n
<1>4. CASE i = 1
  <2>1. f.saved = l /\ \A j \in 1..i : n[j] = f
    BY <1>1, <1>3, <1>4
  <2> QED BY <1>1, <1>4, <2>1
<1>5. CASE i \in 2..Len(n)
  <2>1. /\ s[i - 1].saved[v].orig \in {Null, l[v].orig} /\ n[i] = s[i - 1]
        /\ \A j \in 1..(i - 1) :
             s[j].stage = "first" => s[i - 1].saved[v].orig \in {Null, s[j].saved[v].orig}
    BY <1>1, <1>3, <1>5 DEF Rooted
  <2>2. ASSUME NEW j \in 1..i, n[j].stage = "first"
        PROVE  n[i].saved[v].orig \in {Null, n[j].saved[v].orig}
    <3>1. CASE j = 1
      BY <1>1, <2>1, <2>2, <3>1
    <3>2. CASE j # 1
      <4>1. j \in 2..Len(n) /\ j - 1 \in 1..(i - 1)
        BY <1>1, <3>2
      <4> QED BY <1>1, <2>1, <2>2, <4>1
    <3> QED BY <3>1, <3>2
  <2> QED BY <2>1, <2>2
<1> QED BY <1>2, <1>4, <1>5

LEMMA RootedPop ==
  ASSUME NEW s \in Seq(Frame), s # <<>>, NEW l, NEW v, Rooted(s, l, v)
  PROVE  /\ Rooted(Tail(s), l, v)
         /\ Head(s).stage = "first" =>
              Rooted(Tail(s), Head(s).saved, v) /\ Head(s).saved[v].orig \in {Null, l[v].orig}
<1> DEFINE n == Tail(s)
<1>1. /\ Head(s) = s[1] /\ 1 \in 1..Len(s) /\ Len(s) \in Nat /\ Len(n) \in Nat
      /\ \A i \in 1..Len(n) : i + 1 \in 1..Len(s) /\ n[i] = s[i + 1]
  OBVIOUS
<1> HIDE DEF n
<1>2. ASSUME NEW i \in 1..Len(n), n[i].stage = "first"
      PROVE  /\ n[i].saved[v].orig \in {Null, l[v].orig}
             /\ Head(s).stage = "first" => n[i].saved[v].orig \in {Null, Head(s).saved[v].orig}
             /\ \A j \in 1..i :
                  n[j].stage = "first" => n[i].saved[v].orig \in {Null, n[j].saved[v].orig}
  <2>1. /\ s[i + 1].saved[v].orig \in {Null, l[v].orig}
        /\ \A j \in 1..(i + 1) :
             s[j].stage = "first" => s[i + 1].saved[v].orig \in {Null, s[j].saved[v].orig}
    BY <1>1, <1>2 DEF Rooted
  <2>2. 1 \in 1..(i + 1) /\ \A j \in 1..i : j \in 1..Len(n) /\ j + 1 \in 1..(i + 1)
    BY <1>1
  <2> QED BY <1>1, <2>1, <2>2
<1>3. Head(s).stage = "first" => Head(s).saved[v].orig \in {Null, l[v].orig}
  BY <1>1 DEF Rooted
<1> QED BY <1>2, <1>3 DEF Rooted, n

LEMMA RootedGrow ==
  ASSUME NEW s, NEW l, NEW v, Rooted(s, l, v), NEW m, l[v].orig \in {Null, m[v].orig}
  PROVE  Rooted(s, m, v)
BY DEF Rooted

LEMMA RootedStep == TypeOK /\ PlaceInv /\ RootedInv /\ [Next]_vars => RootedInv'
<1> SUFFICES ASSUME TypeOK, PlaceInv, RootedInv, [Next]_vars PROVE RootedInv'
  OBVIOUS
<1>0. CASE UNCHANGED vars
  BY <1>0 DEF vars, local, RootedInv
<1>n. CASE Next
  <2>1. PICK s \in Thread : LibraryStep(s) \/ UserStep(s)
    BY <1>n DEF Next
  <2>2. Elsewhere(s)
    BY <2>1, StepsApart
  <2> SUFFICES ASSUME NEW v \in Var PROVE Rooted(frames'[s], log'[s], v)
    BY <2>2 DEF Elsewhere, RootedInv
  <2>3. /\ Rooted(frames[s], log[s], v) /\ PlaceOK(s)
        /\ log[s] \in Log /\ log[s][v] \in LogVar /\ frames[s] \in Seq(Frame)
    BY DEF RootedInv, PlaceInv, TypeOK, Log
  <2> USE DEF Goto, shared, control, local, blocking, history
  <2>4. ASSUME frames'[s] = <<>> PROVE Rooted(frames'[s], log'[s], v)
    <3>1. 1..Len(<<>>) = {}
      OBVIOUS
    <3> QED BY <2>4, <3>1 DEF Rooted
  <2>5. CASE UNCHANGED <<log, frames>>
    BY <2>3, <2>5
  <2>6. CASE \/ CommitDone(s) \/ WaitDone(s) \/ Abort(s) \/ Failure(s) \/ Panic(s)
             \/ Inconsistent(s)
    BY <2>4, <2>6
    DEF CommitDone, WaitDone, Abort, Failure, Panic, Inconsistent, Clear, TypeOK
  <2>7. CASE WaitForChange(s) \/ \E w \in Var : Compare(s, w)
    BY <2>3, <2>4, <2>7 DEF WaitForChange, Compare, PlaceOK
  <2>8. CASE \/ Begin(s) \/ Retry(s) \/ Commit(s) \/ ReleaseReads(s) \/ StartWaking(s)
             \/ Unblocked(s) \/ \E u \in Thread : SetChanged(s, u)
             \/ \E w \in Var : \/ SkipObsolete(s, w) \/ LockRead(s, w) \/ AnnounceWrite(s, w)
                               \/ LockWrite(s, w) \/ WriteBack(s, w) \/ TakeWaiting(s, w)
                               \/ Register(s, w) \/ WriteAtomic(s, w)
                               \/ AnnounceWriteAtomic(s, w)
    <3>1. CASE ~Inconsistent(s)
      BY <2>5, <2>8, <3>1
      DEF Begin, Retry, Commit, ReleaseReads, StartWaking, Unblocked, SetChanged,
          SkipObsolete, LockRead, AnnounceWrite, LockWrite, WriteBack, TakeWaiting, Register,
          WriteAtomic, AnnounceWriteAtomic
    <3> QED BY <2>6, <3>1
  <2>9. ASSUME NEW w \in Var, ReadShared(s, w) \/ ReadLogged(s, w) \/ Write(s, w)
        PROVE  Rooted(frames'[s], log'[s], v)
    <3>1. frames' = frames
      BY <2>9 DEF ReadShared, ReadLogged, Write
    <3>2. log[s][v].orig \in {Null, log'[s][v].orig}
      <4>1. CASE ReadShared(s, w)
        BY <2>3, <4>1 DEF ReadShared, TypeOK, Log, Vacant, Entry
      <4>2. CASE ReadLogged(s, w)
        BY <2>3, <4>2 DEF ReadLogged, TypeOK, Log, ReadUpgrade, LogVar
      <4>3. CASE Write(s, w)
        BY <2>3, <4>3 DEF Write, TypeOK, Log, WriteUpgrade, Entry
      <4> QED BY <2>9, <4>1, <4>2, <4>3
    <3> QED BY <2>3, <3>1, <3>2, RootedGrow
  <2>10. CASE Or(s)
    <3> DEFINE f == [stage |-> "first", saved |-> log[s], obs |-> obs[s],
                     intent |-> intent[s]]
    <3>1. f \in Frame /\ f.saved = log[s]
      BY DEF Frame, TypeOK
    <3>2. frames'[s] = <<f>> \o frames[s] /\ log' = log
      BY <2>10 DEF Or, TypeOK
    <3> HIDE DEF f
    <3> QED BY <2>3, <3>1, <3>2, RootedPush
  <2>11. CASE OrSecond(s)
    <3> DEFINE f == [stage |-> "second", saved |-> log[s], obs |-> EmptyView,
                     intent |-> EmptyView]
               h == Head(frames[s])
    <3>1. /\ f \in Frame /\ f.stage = "second"
          /\ frames[s] # <<>> /\ Tail(frames[s]) \in Seq(Frame)
      BY <2>3, <2>11, ViewType, FrameTypes DEF OrSecond, Frame, TypeOK
    <3>2. frames'[s] = <<f>> \o Tail(frames[s]) /\ log'[s] = h.saved /\ h.stage = "first"
      BY <2>11 DEF OrSecond, TypeOK
    <3> HIDE DEF f
    <3>3. Rooted(Tail(frames[s]), h.saved, v)
      BY <2>3, <3>1, <3>2, RootedPop
    <3> HIDE DEF h
    <3> QED BY <3>1, <3>2, <3>3, RootedPush
  <2>12. CASE OrOk(s) \/ OrBlocked(s)
    <3>1. /\ frames[s] # <<>> /\ frames'[s] = Tail(frames[s])
          /\ log'[s] \in {log[s], Combine(log[s], Head(frames[s]).saved)}
      BY <2>12 DEF OrOk, OrBlocked, TypeOK
    <3>2. Rooted(Tail(frames[s]), log[s], v)
      BY <2>3, <3>1, RootedPop
    <3>3. log[s][v].orig \in {Null, log'[s][v].orig}
      BY <3>1 DEF Combine, Vacant, Entry
    <3> QED BY <3>1, <3>2, <3>3, RootedGrow
  <2> QED
    BY <2>1, <2>6, <2>7, <2>8, <2>9, <2>10, <2>11, <2>12 DEF LibraryStep, UserStep
<1> QED BY <1>0, <1>n

LEMMA Roots == Spec => []RootedInv
<1>1. Init => RootedInv
  <2>1. 1..Len(<<>>) = {}
    OBVIOUS
  <2> QED BY <2>1 DEF Init, RootedInv, Rooted
<1> QED BY <1>1, RootedStep, Places, Locks, PTL DEF Spec

-----------------------------------------------------------------------------
(* A stack of at most one frame.                                           *)
LEMMA OneFrame ==
  /\ \A f \in Frame : /\ <<f>> \o <<>> # <<>> /\ Len(<<f>> \o <<>>) = 1
                      /\ Head(<<f>> \o <<>>) = f
  /\ \A s \in Seq(Frame) : s # <<>> /\ Len(s) <= 1 => Tail(s) = <<>> /\ Len(s) = 1
  /\ \A s \in Seq(Frame) : Len(s) < 1 => s = <<>>
<1>1. \A f \in Frame : /\ <<f>> \o <<>> # <<>> /\ Len(<<f>> \o <<>>) = 1
                       /\ Head(<<f>> \o <<>>) = f
  OBVIOUS
<1>2. \A s \in Seq(Frame) : s # <<>> /\ Len(s) <= 1 => Tail(s) = <<>> /\ Len(s) = 1
  <2> SUFFICES ASSUME NEW s \in Seq(Frame), s # <<>>, Len(s) <= 1
               PROVE  Tail(s) = <<>> /\ Len(s) = 1
    OBVIOUS
  <2>1. Len(s) \in Nat /\ 1 \in 1..Len(s)
    OBVIOUS
  <2>2. Len(s) = 1
    <3>1. \A n \in Nat : 1 \in 1..n /\ n <= 1 => n = 1
      OBVIOUS
    <3> QED BY <2>1, <3>1
  <2>3. Tail(s) \in Seq(Frame) /\ Len(Tail(s)) = 0
    BY <2>2
  <2>4. \A q \in Seq(Frame) : Len(q) = 0 => q = <<>>
    OBVIOUS
  <2> QED BY <2>2, <2>3, <2>4
<1>3. \A s \in Seq(Frame) : Len(s) < 1 => s = <<>>
  OBVIOUS
<1> QED BY <1>1, <1>2, <1>3

(* Reads.  A variable that the closure loaded is read in the log, or was   *)
(* written since on the path that is being taken, or is in the copy of a   *)
(* blocked alternative that combine will merge.                            *)
Excused(t, v) == MaxDepth # 0 /\ intent[t][v] # Null

InCopy(t, v) ==
  /\ frames[t] # <<>> /\ Head(frames[t]).stage = "second"
  /\ HasReadValue(Head(frames[t]).saved[v])

CopyOK(t, v, f) ==
  f.stage = "first" =>
    /\ f.saved[v] = Vacant \/ HasReadValue(f.saved[v]) \/ f.intent[v] # Null
    /\ seen[t][v] # {} => HasReadValue(log[t][v]) \/ f.intent[v] # Null

AccountOK(t, v) ==
  /\ pc[t] \in Outside => seen[t][v] = {}
  /\ pc[t] \in {"run", "retry"} =>
       /\ log[t][v] = Vacant \/ HasReadValue(log[t][v]) \/ intent[t][v] # Null
       /\ seen[t][v] # {} => HasReadValue(log[t][v]) \/ Excused(t, v) \/ InCopy(t, v)
       /\ frames[t] # <<>> => CopyOK(t, v, Head(frames[t]))
  /\ pc[t] \in {"wait", "check", "park"} /\ seen[t][v] # {}
       => v \in reads[t] \cup todo[t] \/ Excused(t, v)

AccountInv == \A t \in Thread, v \in Var : AccountOK(t, v)

LEMMA AccountElsewhere ==
  ASSUME NEW s \in Thread, Elsewhere(s), NEW t \in Thread \ {s}, NEW v \in Var,
         AccountOK(t, v)
  PROVE  AccountOK(t, v)'
BY DEF Elsewhere, AccountOK, CopyOK, InCopy, Excused

LEMMA AccountStep ==
  TypeOK /\ TraceInv /\ PlaceInv /\ MaxDepth <= 1 /\ AccountInv /\ [Next]_vars => AccountInv'
<1> SUFFICES ASSUME TypeOK, TraceInv, PlaceInv, MaxDepth <= 1, AccountInv, [Next]_vars
             PROVE  AccountInv'
  OBVIOUS
<1>0. CASE UNCHANGED vars
  BY <1>0
  DEF vars, shared, control, local, blocking, history, AccountInv, AccountOK, CopyOK, InCopy,
      Excused
<1>n. CASE Next
  <2>1. PICK s \in Thread : LibraryStep(s) \/ UserStep(s)
    BY <1>n DEF Next
  <2>2. Elsewhere(s)
    BY <2>1, StepsApart
  <2> SUFFICES ASSUME NEW v \in Var PROVE AccountOK(s, v)'
    BY <2>2, AccountElsewhere DEF AccountInv
  <2>3. AccountOK(s, v) /\ PlaceOK(s) /\ MaxDepth \in Nat
    BY ConstantsAssumption DEF AccountInv, PlaceInv
  <2>4. /\ log[s] \in Log /\ log[s][v] \in LogVar /\ frames[s] \in Seq(Frame)
        /\ value[v] \in Addr /\ Null \notin Addr
    BY NullAssumption DEF TypeOK, Log
  <2> USE DEF Goto, shared, control, local, blocking, history
  <2>5. CASE \/ CommitDone(s) \/ WaitDone(s) \/ Abort(s) \/ Failure(s) \/ Panic(s)
             \/ Inconsistent(s)
    <3>1. /\ pc'[s] \in {"idle", "run"}
          /\ log'[s] = EmptyLog /\ frames'[s] = <<>> /\ seen'[s][v] = {}
      BY <2>5
      DEF CommitDone, WaitDone, Abort, Failure, Panic, Inconsistent, Clear, TypeOK, NoLoads
    <3> QED BY <3>1 DEF AccountOK, EmptyLog, Outside
  <2>6. CASE Begin(s)
    <3>1. pc[s] \in Outside /\ pc'[s] = "run" /\ seen'[s] = seen[s]
      BY <2>6 DEF Begin, Outside, TypeOK
    <3>2. log'[s] = EmptyLog /\ frames'[s] = <<>>
      BY <2>6, <3>1 DEF Begin, TraceInv, TraceOK
    <3> QED BY <2>3, <3>1, <3>2 DEF AccountOK, EmptyLog, Outside
  <2>7. CASE Retry(s)
    <3>1. /\ UNCHANGED <<log, frames, seen, intent>>
          /\ pc[s] = "run" /\ pc'[s] = "retry"
      BY <2>7 DEF Retry, TypeOK
    <3> QED BY <2>3, <3>1 DEF AccountOK, CopyOK, InCopy, Excused, Outside
  <2>8. CASE Commit(s) \/ ReleaseReads(s) \/ StartWaking(s) \/ Unblocked(s)
    <3>1. pc'[s] \in {"lock", "writeback", "wake", "dead"}
      BY <2>8 DEF Commit, ReleaseReads, StartWaking, Unblocked, TypeOK
    <3> QED BY <3>1 DEF AccountOK, Outside
  <2>9. ASSUME NEW w \in Var,
               \/ SkipObsolete(s, w) \/ LockRead(s, w) \/ AnnounceWrite(s, w)
               \/ LockWrite(s, w) \/ WriteBack(s, w) \/ TakeWaiting(s, w)
        PROVE  AccountOK(s, v)'
    <3>1. CASE pc' = pc
      <4>1. pc'[s] \in {"lock", "writeback", "wake"}
        BY <2>9, <3>1
        DEF SkipObsolete, LockRead, AnnounceWrite, LockWrite, WriteBack, TakeWaiting
      <4> QED BY <4>1 DEF AccountOK, Outside
    <3> QED
      BY <2>5, <2>9, <3>1
      DEF SkipObsolete, LockRead, AnnounceWrite, LockWrite, WriteBack, TakeWaiting
  <2>10. ASSUME NEW u \in Thread, SetChanged(s, u) PROVE AccountOK(s, v)'
    BY <2>10 DEF SetChanged, AccountOK, Outside
  <2>11. ASSUME NEW w \in Var, AnnounceWriteAtomic(s, w) \/ WriteAtomic(s, w)
         PROVE  AccountOK(s, v)'
    <3>1. pc[s] \in Outside /\ pc'[s] \in Outside /\ seen' = seen
      BY <2>11 DEF AnnounceWriteAtomic, WriteAtomic, Outside, TypeOK
    <3> QED BY <2>3, <3>1 DEF AccountOK, Outside
  <2>12. ASSUME NEW w \in Var, ReadShared(s, w) PROVE AccountOK(s, v)'
    <3>1. /\ UNCHANGED <<pc, frames, intent>> /\ pc[s] = "run"
          /\ log'[s] = [log[s] EXCEPT ![w] = Entry("Read", value[w], Null)]
          /\ seen'[s][v] = IF v = w THEN seen[s][v] \cup {value[v]} ELSE seen[s][v]
      BY <2>12 DEF ReadShared, TypeOK, Loads
    <3>2. CASE v = w
      <4>1. HasReadValue(log'[s][v])
        BY <2>4, <3>1, <3>2 DEF Log, HasReadValue, Entry
      <4> QED
        BY <2>3, <3>1, <4>1 DEF AccountOK, CopyOK, InCopy, Excused, Outside
    <3>3. CASE v # w
      <4>1. log'[s][v] = log[s][v] /\ seen'[s][v] = seen[s][v]
        BY <2>4, <3>1, <3>3 DEF Log
      <4> QED
        BY <2>3, <3>1, <4>1 DEF AccountOK, CopyOK, InCopy, Excused, Outside
    <3> QED BY <3>2, <3>3
  <2>13. ASSUME NEW w \in Var, ReadLogged(s, w) PROVE AccountOK(s, v)'
    <3>1. /\ UNCHANGED <<pc, frames, intent, seen>> /\ pc[s] = "run"
          /\ log'[s] = [log[s] EXCEPT ![w] = ReadUpgrade(@)]
      BY <2>13 DEF ReadLogged, TypeOK
    <3>2. log'[s][v] \in {log[s][v], ReadUpgrade(log[s][v])}
      BY <2>4, <3>1 DEF Log
    <3>3. /\ HasReadValue(log[s][v]) => HasReadValue(log'[s][v])
          /\ log[s][v] = Vacant => log'[s][v] = Vacant
      BY <2>4, <3>2 DEF ReadUpgrade, HasReadValue, LogVar, Vacant, Entry
    <3> QED BY <2>3, <3>1, <3>3 DEF AccountOK, CopyOK, InCopy, Excused, Outside
  <2>14. ASSUME NEW w \in Var, Write(s, w) PROVE AccountOK(s, v)'
    <3>1. PICK a \in Fresh : /\ log' = [log EXCEPT ![s][w] = WriteUpgrade(@, a)]
                             /\ intent' = [intent EXCEPT ![s][w] = a]
      BY <2>14 DEF Write
    <3>2. /\ UNCHANGED <<pc, frames, seen>> /\ pc[s] = "run"
          /\ log'[s] = [log[s] EXCEPT ![w] = WriteUpgrade(@, a)]
          /\ intent'[s] = [intent[s] EXCEPT ![w] = a] /\ intent[s] \in View /\ a # Null
      BY <2>14, <3>1, FreshType, NullAssumption DEF Write, TypeOK
    <3>3. log'[s][v] \in {log[s][v], WriteUpgrade(log[s][v], a)}
      BY <2>4, <3>2 DEF Log
    <3>4. HasReadValue(log[s][v]) => HasReadValue(log'[s][v])
      BY <2>4, <3>3 DEF WriteUpgrade, HasReadValue, LogVar, Kinds, Entry
    <3>5. \/ v = w /\ intent'[s][v] # Null
          \/ v # w /\ intent'[s][v] = intent[s][v] /\ log'[s][v] = log[s][v]
      BY <2>4, <3>2 DEF View, Log
    <3> QED BY <2>3, <3>2, <3>4, <3>5 DEF AccountOK, CopyOK, InCopy, Excused, Outside
  <2>15. CASE Or(s)
    <3> DEFINE f == [stage |-> "first", saved |-> log[s], obs |-> obs[s],
                     intent |-> intent[s]]
    <3>1. f \in Frame /\ f.stage = "first" /\ f.saved = log[s] /\ f.intent = intent[s]
      BY DEF Frame, TypeOK
    <3>2. frames[s] = <<>>
      BY <2>3, <2>4, <2>15, OneFrame DEF Or
    <3>3. frames'[s] = <<f>> \o <<>>
      BY <2>15, <3>2 DEF Or, TypeOK
    <3> HIDE DEF f
    <3>4. frames'[s] # <<>> /\ Head(frames'[s]) = f
      BY <3>1, <3>3, OneFrame
    <3>5. UNCHANGED <<pc, log, seen, intent>> /\ pc[s] = "run"
      BY <2>15 DEF Or
    <3> QED
      BY <2>3, <3>1, <3>2, <3>4, <3>5 DEF AccountOK, CopyOK, InCopy, Excused, Outside
  <2>16. CASE OrSecond(s)
    <3> DEFINE f == [stage |-> "second", saved |-> log[s], obs |-> EmptyView,
                     intent |-> EmptyView]
               h == Head(frames[s])
    <3>1. f \in Frame /\ f.stage = "second" /\ f.saved = log[s]
      BY ViewType DEF Frame, TypeOK
    <3>2. Tail(frames[s]) = <<>> /\ MaxDepth # 0
      BY <2>3, <2>4, <2>16, OneFrame DEF OrSecond, PlaceOK
    <3>3. frames'[s] = <<f>> \o <<>>
      BY <2>16, <3>2 DEF OrSecond, TypeOK
    <3> HIDE DEF f
    <3>4. frames'[s] # <<>> /\ Head(frames'[s]) = f
      BY <3>1, <3>3, OneFrame
    <3>5. /\ log'[s] = h.saved /\ intent'[s] = h.intent /\ seen' = seen
          /\ frames[s] # <<>> /\ h.stage = "first" /\ pc[s] = "retry" /\ pc'[s] = "run"
      BY <2>16 DEF OrSecond, TypeOK
    <3>6. CopyOK(s, v, h)
      BY <2>3, <3>5 DEF AccountOK
    <3> HIDE DEF h
    <3>7. /\ log'[s][v] = Vacant \/ HasReadValue(log'[s][v]) \/ intent'[s][v] # Null
          /\ seen[s][v] # {} => HasReadValue(log[s][v]) \/ intent'[s][v] # Null
      BY <3>5, <3>6 DEF CopyOK
    <3>8. InCopy(s, v)' <=> HasReadValue(log[s][v])
      BY <3>1, <3>4 DEF InCopy
    <3>9. CopyOK(s, v, Head(frames[s]))'
      BY <3>1, <3>4 DEF CopyOK
    <3> QED
      BY <3>2, <3>5, <3>7, <3>8, <3>9 DEF AccountOK, Excused, Outside
  <2>17. CASE OrOk(s) \/ OrBlocked(s)
    <3> DEFINE f == Head(frames[s])
    <3>1. frames[s] # <<>> /\ frames'[s] = Tail(frames[s])
      BY <2>17 DEF OrOk, OrBlocked, TypeOK
    <3>2. frames'[s] = <<>> /\ MaxDepth # 0
      BY <2>3, <2>4, <3>1, OneFrame DEF PlaceOK
    <3>3. UNCHANGED <<pc, seen, intent>> /\ pc[s] \in {"run", "retry"}
      BY <2>17 DEF OrOk, OrBlocked
    <3>4. /\ f.saved \in Log /\ f \in Frame
          /\ \/ f.stage = "first" /\ log'[s] = log[s]
             \/ f.stage = "second" /\ log'[s] = Combine(log[s], f.saved)
      BY <2>4, <2>17, <3>1, FrameTypes DEF OrOk, OrBlocked, TypeOK, Frame
    <3>5. CopyOK(s, v, f) /\ (InCopy(s, v) <=> f.stage = "second" /\ HasReadValue(f.saved[v]))
      BY <2>3, <3>1, <3>3 DEF AccountOK, InCopy
    <3> HIDE DEF f
    <3>6. \/ f.stage = "first" /\ log'[s][v] = log[s][v]
          \/ /\ f.stage = "second" /\ log[s][v] # Vacant
             /\ log'[s][v] = log[s][v]
          \/ /\ f.stage = "second" /\ log[s][v] = Vacant
             /\ log'[s][v] = Obsolete(f.saved[v])
      BY <3>4 DEF Combine
    <3>7. HasReadValue(f.saved[v]) => HasReadValue(Obsolete(f.saved[v]))
      BY DEF Obsolete, HasReadValue, Entry
    <3>8. Obsolete(f.saved[v]) = Vacant \/ HasReadValue(Obsolete(f.saved[v]))
      BY DEF Obsolete, HasReadValue, Entry
    <3>9. ~HasReadValue(Vacant)
      BY DEF Vacant, HasReadValue, Entry
    <3>10. /\ log'[s][v] = Vacant \/ HasReadValue(log'[s][v]) \/ intent'[s][v] # Null
           /\ seen[s][v] # {} => HasReadValue(log'[s][v]) \/ intent'[s][v] # Null
      BY <2>3, <3>2, <3>3, <3>5, <3>6, <3>7, <3>8, <3>9 DEF AccountOK, Excused
    <3> QED BY <3>2, <3>3, <3>10 DEF AccountOK, Excused, Outside
  <2>18. CASE WaitForChange(s)
    <3>1. /\ UNCHANGED <<seen, intent>> /\ frames[s] = <<>> /\ pc[s] = "retry"
          /\ pc'[s] \in {"wait", "park"}
          /\ todo'[s] = {u \in Var : HasReadValue(log[s][u])}
          /\ pc'[s] = "park" => todo'[s] = {}
      BY <2>18 DEF WaitForChange, TypeOK
    <3>2. seen[s][v] # {} => v \in todo'[s] \/ Excused(s, v)
      BY <2>3, <3>1 DEF AccountOK, InCopy
    <3> QED BY <3>1, <3>2 DEF AccountOK, Excused, Outside
  <2>19. ASSUME NEW w \in Var, Register(s, w) PROVE AccountOK(s, v)'
    <3>1. /\ UNCHANGED <<seen, intent, reads, todo>>
          /\ pc[s] = "wait" /\ pc'[s] = "check"
      BY <2>19 DEF Register, TypeOK
    <3> QED BY <2>3, <3>1 DEF AccountOK, Excused, Outside
  <2>20. ASSUME NEW w \in Var, Compare(s, w) PROVE AccountOK(s, v)'
    <3>1. /\ UNCHANGED <<seen, intent>>
          /\ reads'[s] = reads[s] \cup {w} /\ todo'[s] = todo[s] \ {w}
          /\ pc[s] = "check"
      BY <2>20 DEF Compare, Visited, TypeOK
    <3>2. pc'[s] \in {"wait", "park", "dead"} /\ (pc'[s] = "park" => todo[s] = {w})
      BY <2>20 DEF Compare, TypeOK
    <3> QED BY <2>3, <3>1, <3>2 DEF AccountOK, Excused, Outside
  <2> QED
    BY <2>1, <2>5, <2>6, <2>7, <2>8, <2>9, <2>10, <2>11, <2>12, <2>13, <2>14, <2>15, <2>16,
       <2>17, <2>18, <2>19, <2>20
    DEF LibraryStep, UserStep
<1> QED BY <1>0, <1>n

LEMMA Accounts ==
  ASSUME MaxDepth <= 1
  PROVE  Spec => []AccountInv
<1>1. Init => AccountInv
  BY DEF Init, AccountInv, AccountOK, EmptyLog, Vacant, Entry, Outside, NoLoads
<1>2. TypeOK /\ TraceInv /\ PlaceInv /\ AccountInv /\ [Next]_vars => AccountInv'
  BY AccountStep
<1> QED BY <1>1, <1>2, Places, Traces, PTL DEF Spec

(* A blocked thread is registered with every variable it loaded, on        *)
(* whichever path, unless it then wrote to it (wait_for_change, combine).  *)
THEOREM ReadsAreWaitedFor ==
  ASSUME MaxDepth <= 1
  PROVE  Spec => []WaitsForUnwrittenReads
<1>1. PlaceInv /\ AccountInv => WaitsForUnwrittenReads
  BY DEF PlaceInv, PlaceOK, AccountInv, AccountOK, Excused, WaitsForUnwrittenReads
<1> QED BY <1>1, Accounts, Places, PTL

(* Without alternatives, it is registered with all of them.                *)
THEOREM AllReadsAreWaitedFor ==
  ASSUME MaxDepth = 0
  PROVE  Spec => []WaitsForAllReads
<1>1. MaxDepth <= 1
  BY ConstantsAssumption
<1>2. PlaceInv /\ AccountInv => WaitsForAllReads
  BY DEF PlaceInv, PlaceOK, AccountInv, AccountOK, Excused, WaitsForAllReads
<1> QED BY <1>1, <1>2, Accounts, Places, PTL
=============================================================================
