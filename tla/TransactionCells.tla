-------------------------- MODULE TransactionCells --------------------------
(***************************************************************************)
(* The identity of cells: the proof that Arc::ptr_eq never takes a changed *)
(* variable for an unchanged one, although freed addresses are reused.     *)
(***************************************************************************)
EXTENDS TransactionProofs

-----------------------------------------------------------------------------
(* The entries for v that thread t has, in its log and in the logs that    *)
(* its calls of or keep; the cells loaded from v and those made for v.     *)
Saved(s, v) == {s[i].saved[v] : i \in 1..Len(s)}

Entries(t, v) == {log[t][v]} \cup Saved(frames[t], v)

Loaded(t, v) == {e.orig : e \in Entries(t, v)} \ {Null}

Made(t, v) == {e.new : e \in Entries(t, v)} \ {Null}

(* Commit has not stored them yet.                                         *)
Unstored(t, v) ==
  IF pc[t] = "wake" \/ (pc[t] = "writeback" /\ v \notin todo[t]) THEN {} ELSE Made(t, v)

(* A cell that is yet to be stored is in one place, and no variable holds  *)
(* it or has been read to hold it: storing it cannot undo a change.        *)
UnstoredIsPrivate ==
  \A t \in Thread, v \in Var : \A a \in Unstored(t, v) :
    \A u \in Thread, w \in Var :
      /\ value[w] # a
      /\ a \notin Loaded(u, w)
      /\ a \in Unstored(u, w) => u = t /\ w = v

(* A variable still holds the cell that was loaded from it only if it has  *)
(* not been written since it was loaded.                                   *)
LoadedIsCurrent ==
  \A t \in Thread, v \in Var : value[v] \in Loaded(t, v) => value[v] \notin stale[t][v]

CellsInv == UnstoredIsPrivate /\ LoadedIsCurrent

-----------------------------------------------------------------------------
LEMMA SavedPush ==
  ASSUME NEW f \in Frame, NEW s \in Seq(Frame), NEW v
  PROVE  Saved(<<f>> \o s, v) = {f.saved[v]} \cup Saved(s, v)
<1> DEFINE n == <<f>> \o s
<1>1. /\ Len(n) = Len(s) + 1 /\ n[1] = f
      /\ \A i \in 1..Len(s) : n[i + 1] = s[i]
      /\ \A i \in 2..Len(n) : i - 1 \in 1..Len(s) /\ n[i] = s[i - 1]
  OBVIOUS
<1>2. Len(s) \in Nat
  OBVIOUS
<1> HIDE DEF n
<1>3. ASSUME NEW e \in Saved(n, v) PROVE e \in {f.saved[v]} \cup Saved(s, v)
  <2>1. PICK i \in 1..Len(n) : e = n[i].saved[v]
    BY <1>3 DEF Saved
  <2>2. i = 1 \/ i \in 2..Len(n)
    BY <1>1, <1>2
  <2> QED BY <1>1, <2>1, <2>2 DEF Saved
<1>4. ASSUME NEW e \in {f.saved[v]} \cup Saved(s, v) PROVE e \in Saved(n, v)
  <2>1. CASE e = f.saved[v]
    <3>1. 1 \in 1..Len(n)
      BY <1>1, <1>2
    <3> QED BY <1>1, <2>1, <3>1 DEF Saved
  <2>2. CASE e \in Saved(s, v)
    <3>1. PICK i \in 1..Len(s) : e = s[i].saved[v]
      BY <2>2 DEF Saved
    <3>2. i + 1 \in 1..Len(n)
      BY <1>1, <1>2
    <3> QED BY <1>1, <3>1, <3>2 DEF Saved
  <2> QED BY <1>4, <2>1, <2>2
<1> QED BY <1>3, <1>4 DEF n

LEMMA SavedPop ==
  ASSUME NEW s \in Seq(Frame), s # <<>>, NEW v
  PROVE  Saved(Tail(s), v) \subseteq Saved(s, v) /\ Head(s).saved[v] \in Saved(s, v)
<1>1. /\ Head(s) = s[1] /\ 1 \in 1..Len(s)
      /\ \A i \in 1..Len(Tail(s)) : i + 1 \in 1..Len(s) /\ Tail(s)[i] = s[i + 1]
  OBVIOUS
<1> QED BY <1>1 DEF Saved

LEMMA SavedNone == \A v : Saved(<<>>, v) = {}
BY DEF Saved

(* What a transaction has loaded and made is live, so it is not what the   *)
(* allocator returns.                                                      *)
LEMMA EntriesAreLive ==
  ASSUME NEW t \in Thread, NEW v \in Var
  PROVE  Loaded(t, v) \subseteq Live /\ Made(t, v) \subseteq Live
<1>1. ASSUME NEW e \in Entries(t, v) PROVE {e.orig, e.new} \subseteq Live
  <2>1. CASE e = log[t][v]
    BY <2>1 DEF Live, Cells
  <2>2. CASE e \in Saved(frames[t], v)
    <3>1. PICK i \in 1..Len(frames[t]) : e = frames[t][i].saved[v]
      BY <2>2 DEF Saved
    <3>2. {e.orig, e.new} \subseteq Cells(frames[t][i].saved)
      BY <3>1 DEF Cells
    <3> QED BY <3>1, <3>2 DEF Live
  <2> QED BY <1>1, <2>1, <2>2 DEF Entries
<1> QED BY <1>1 DEF Loaded, Made

LEMMA FreshIsNew ==
  ASSUME NEW a \in Fresh
  PROVE  /\ a \in Addr
         /\ \A v \in Var : value[v] # a
         /\ \A t \in Thread, v \in Var :
              a \notin Loaded(t, v) /\ a \notin Made(t, v) /\ a \notin Unstored(t, v)
<1>1. a \in Addr /\ a \notin Live
  BY AllocAssumption DEF Fresh
<1>2. \A v \in Var : value[v] \in Live
  BY DEF Live
<1> QED BY <1>1, <1>2, EntriesAreLive DEF Unstored

-----------------------------------------------------------------------------
(* The steps of s that only rearrange its entries: each one that it has    *)
(* afterwards is one it had before, or a lesser form of one.               *)
Rearranges(s) ==
  \/ Or(s) \/ OrOk(s) \/ OrBlocked(s) \/ OrSecond(s) \/ WaitForChange(s)
  \/ \E v \in Var : ReadLogged(s, v) \/ Compare(s, v)

LEMMA EntriesStep ==
  ASSUME TypeOK, NEW s \in Thread, Rearranges(s), NEW u \in Var, NEW e \in Entries(s, u)'
  PROVE  \E d \in Entries(s, u) : e.orig \in {d.orig, Null} /\ e.new \in {d.new, Null}
<1> USE DEF Goto, shared, control, local, blocking, history
<1> DEFINE Goal == \E d \in Entries(s, u) : e.orig \in {d.orig, Null} /\ e.new \in {d.new, Null}
<1>1. ASSUME NEW v \in Var, Compare(s, v) PROVE Goal
  <2>1. frames' = frames /\ log'[s][u] \in {log[s][u], Vacant}
    BY <1>1 DEF Compare, TypeOK, Log, EmptyLog
  <2> QED BY <2>1 DEF Entries, Vacant, Entry
<1>2. CASE WaitForChange(s)
  <2>1. frames' = frames /\ log'[s][u] = Obsolete(log[s][u])
    BY <1>2 DEF WaitForChange, TypeOK
  <2> QED BY <2>1 DEF Entries, Obsolete, Vacant, Entry
<1>3. ASSUME NEW v \in Var, ReadLogged(s, v) PROVE Goal
  <2>1. /\ frames' = frames /\ log[s][u] \in LogVar
        /\ log'[s][u] \in {log[s][u], ReadUpgrade(log[s][u])}
    BY <1>3 DEF ReadLogged, TypeOK, Log
  <2> QED BY <2>1 DEF Entries, ReadUpgrade, LogVar
<1>4. CASE Or(s)
  <2> DEFINE f == [stage |-> "first", saved |-> log[s], obs |-> obs[s], intent |-> intent[s]]
  <2>1. f \in Frame /\ frames'[s] = <<f>> \o frames[s] /\ log' = log
    BY <1>4 DEF Or, TypeOK, Frame
  <2>2. Saved(frames'[s], u) = {log[s][u]} \cup Saved(frames[s], u)
    BY <2>1, SavedPush DEF TypeOK
  <2> QED BY <2>1, <2>2 DEF Entries
<1>5. CASE OrSecond(s)
  <2> DEFINE f == [stage |-> "second", saved |-> log[s], obs |-> EmptyView,
                   intent |-> EmptyView]
  <2>1. /\ f \in Frame /\ f.saved = log[s] /\ frames'[s] = <<f>> \o Tail(frames[s])
        /\ Tail(frames[s]) \in Seq(Frame)
        /\ log'[s] = Head(frames[s]).saved
    BY <1>5, ViewType, FrameTypes DEF OrSecond, TypeOK, Frame
  <2> HIDE DEF f
  <2>2. Saved(frames'[s], u) = {log[s][u]} \cup Saved(Tail(frames[s]), u)
    BY <2>1, SavedPush
  <2>3. /\ Saved(Tail(frames[s]), u) \subseteq Saved(frames[s], u)
        /\ Head(frames[s]).saved[u] \in Saved(frames[s], u)
    BY <1>5, SavedPop DEF OrSecond, TypeOK
  <2> QED BY <2>1, <2>2, <2>3 DEF Entries
<1>6. CASE OrOk(s) \/ OrBlocked(s)
  <2>1. /\ frames'[s] = Tail(frames[s]) /\ frames[s] # <<>>
        /\ log'[s] \in {log[s], Combine(log[s], Head(frames[s]).saved)}
    BY <1>6 DEF OrOk, OrBlocked, TypeOK
  <2>2. /\ Saved(Tail(frames[s]), u) \subseteq Saved(frames[s], u)
        /\ Head(frames[s]).saved[u] \in Saved(frames[s], u)
    BY <2>1, SavedPop DEF TypeOK
  <2>3. log'[s][u] \in {log[s][u], Obsolete(Head(frames[s]).saved[u])}
    BY <2>1 DEF Combine
  <2> QED BY <2>1, <2>2, <2>3 DEF Entries, Obsolete, Vacant, Entry
<1> QED BY <1>1, <1>2, <1>3, <1>4, <1>5, <1>6 DEF Rearranges

(* A load adds the current cell, ...                                       *)
LEMMA EntriesRead ==
  ASSUME TypeOK, NEW s \in Thread, NEW v \in Var, ReadShared(s, v),
         NEW t \in Thread, NEW u \in Var
  PROVE  /\ Loaded(t, u)' \subseteq Loaded(t, u)
              \cup (IF t = s /\ u = v THEN {value[v]} ELSE {})
         /\ Unstored(t, u)' = Unstored(t, u)
<1> USE DEF shared, control, blocking
<1>1. CASE t = s /\ u = v
  <2>1. log[s][v] = Vacant /\ log'[s][v] = Entry("Read", value[v], Null)
    BY DEF ReadShared, TypeOK, Log
  <2>2. Saved(frames[s], v)' = Saved(frames[s], v)
    BY DEF ReadShared, Saved
  <2>3. Loaded(s, v)' \subseteq Loaded(s, v) \cup {value[v]}
    BY <2>1, <2>2 DEF Loaded, Entries, Entry
  <2>4. Made(s, v)' = Made(s, v)
    BY <2>1, <2>2 DEF Made, Entries, Vacant, Entry
  <2> QED BY <1>1, <2>3, <2>4 DEF ReadShared, Unstored
<1>2. CASE ~(t = s /\ u = v)
  <2>1. log'[t][u] = log[t][u] /\ frames' = frames
    BY <1>2 DEF ReadShared, TypeOK, Log
  <2>2. Entries(t, u)' = Entries(t, u)
    BY <2>1 DEF Entries
  <2> QED BY <1>2, <2>2 DEF ReadShared, Loaded, Unstored, Made
<1> QED BY <1>1, <1>2

(* ... and a write a new one.                                              *)
LEMMA EntriesWritten ==
  ASSUME TypeOK, NEW s \in Thread, NEW v \in Var, Write(s, v)
  PROVE  \E a \in Fresh : \A t \in Thread, u \in Var :
           /\ Loaded(t, u)' = Loaded(t, u)
           /\ Unstored(t, u)' \subseteq Unstored(t, u)
                \cup (IF t = s /\ u = v THEN {a} ELSE {})
<1> USE DEF shared, control, blocking
<1>1. PICK a \in Fresh : log' = [log EXCEPT ![s][v] = WriteUpgrade(@, a)]
  BY DEF Write
<1> SUFFICES ASSUME NEW t \in Thread, NEW u \in Var
             PROVE  /\ Loaded(t, u)' = Loaded(t, u)
                    /\ Unstored(t, u)' \subseteq Unstored(t, u)
                         \cup (IF t = s /\ u = v THEN {a} ELSE {})
  OBVIOUS
<1>2. CASE t = s /\ u = v
  <2>1. log'[s][v] = WriteUpgrade(log[s][v], a)
    BY <1>1 DEF TypeOK, Log
  <2>2. log'[s][v].orig = log[s][v].orig /\ log'[s][v].new = a
    BY <2>1 DEF WriteUpgrade, Entry
  <2>3. Saved(frames[s], v)' = Saved(frames[s], v)
    BY DEF Write, Saved
  <2>4. Loaded(s, v)' = Loaded(s, v)
    BY <2>2, <2>3 DEF Loaded, Entries
  <2>5. Made(s, v)' \subseteq Made(s, v) \cup {a}
    BY <2>2, <2>3 DEF Made, Entries
  <2> QED BY <1>2, <2>4, <2>5 DEF Write, Unstored
<1>3. CASE ~(t = s /\ u = v)
  <2>1. log'[t][u] = log[t][u] /\ frames' = frames
    BY <1>1, <1>3 DEF Write, TypeOK, Log
  <2>2. Entries(t, u)' = Entries(t, u)
    BY <2>1 DEF Entries
  <2> QED BY <1>3, <2>2 DEF Write, Loaded, Unstored, Made
<1> QED BY <1>2, <1>3

-----------------------------------------------------------------------------
(* A step that stores nothing, loads nothing and makes no cell.            *)
LEMMA Shrinking ==
  ASSUME CellsInv, value' = value,
         \A t \in Thread, v \in Var :
           /\ Loaded(t, v)' \subseteq Loaded(t, v)
           /\ Unstored(t, v)' \subseteq Unstored(t, v),
         \A t \in Thread, v \in Var : stale'[t][v] \subseteq stale[t][v]
  PROVE  CellsInv'
BY DEF CellsInv, UnstoredIsPrivate, LoadedIsCurrent

(* One in which every entry that s has afterwards is one it had before, or *)
(* the obsolete form of one, ...                                           *)
LEMMA EntriesOnly ==
  ASSUME TypeOK, CellsInv, value' = value, NEW s \in Thread,
         \A t \in Thread \ {s} :
           /\ log'[t] = log[t] /\ frames'[t] = frames[t] /\ todo'[t] = todo[t]
           /\ pc'[t] = pc[t],
         \A v \in Var : \A e \in Entries(s, v)' :
           \E d \in Entries(s, v) : e.orig \in {d.orig, Null} /\ e.new \in {d.new, Null},
         \A v \in Var : Unstored(s, v)' \subseteq Made(s, v)' /\ Unstored(s, v) = Made(s, v),
         \A t \in Thread, v \in Var : stale'[t][v] \subseteq stale[t][v]
  PROVE  CellsInv'
<1>1. ASSUME NEW t \in Thread, t # s, NEW v \in Var
      PROVE  Loaded(t, v)' = Loaded(t, v) /\ Unstored(t, v)' = Unstored(t, v)
  BY <1>1 DEF Loaded, Unstored, Made, Entries
<1>2. ASSUME NEW v \in Var
      PROVE  /\ Loaded(s, v)' \subseteq Loaded(s, v)
             /\ Unstored(s, v)' \subseteq Unstored(s, v)
  BY DEF Loaded, Made
<1> QED BY <1>1, <1>2, Shrinking

(* ... and one in which the entries stay.                                  *)
LEMMA EntriesSame ==
  ASSUME CellsInv, UNCHANGED <<value, log, frames>>,
         \A t \in Thread, v \in Var : Unstored(t, v)' \subseteq Unstored(t, v),
         \A t \in Thread, v \in Var : stale'[t][v] \subseteq stale[t][v]
  PROVE  CellsInv'
<1>1. \A t \in Thread, v \in Var : Loaded(t, v)' = Loaded(t, v)
  BY DEF Loaded, Entries
<1> QED BY <1>1, Shrinking

(* The log of s is lost.                                                   *)
LEMMA EntriesLost ==
  ASSUME TypeOK, CellsInv, value' = value, NEW s \in Thread, Clear(s),
         \A t \in Thread \ {s} : pc'[t] = pc[t]
  PROVE  CellsInv'
<1>1. ASSUME NEW t \in Thread, t # s, NEW v \in Var
      PROVE  Loaded(t, v)' = Loaded(t, v) /\ Unstored(t, v)' = Unstored(t, v)
  BY <1>1 DEF Clear, TypeOK, Loaded, Unstored, Made, Entries
<1>2. ASSUME NEW v \in Var PROVE Loaded(s, v)' = {} /\ Unstored(s, v)' = {}
  <2>1. Entries(s, v)' = {Vacant}
    BY SavedNone DEF Clear, TypeOK, Entries, EmptyLog
  <2>2. Loaded(s, v)' = {} /\ Made(s, v)' = {}
    BY <2>1 DEF Loaded, Made, Vacant, Entry
  <2> QED BY <2>2 DEF Unstored
<1>3. \A t \in Thread, v \in Var : stale'[t][v] \subseteq stale[t][v]
  BY DEF Clear, TypeOK, NoLoads
<1> QED BY <1>1, <1>2, <1>3, Shrinking

(* A step of s that does not touch cells.                                  *)
LEMMA CellsUntouched ==
  ASSUME TypeOK, CellsInv, UNCHANGED <<value, log, frames, todo, stale>>, NEW s \in Thread,
         \A t \in Thread \ {s} : pc'[t] = pc[t],
         pc'[s] = pc[s] \/ (pc[s] # "wake" /\ pc[s] # "writeback")
  PROVE  CellsInv'
<1>1. ASSUME NEW t \in Thread, NEW v \in Var PROVE Unstored(t, v)' \subseteq Unstored(t, v)
  BY DEF Unstored, Made, Entries
<1> QED BY <1>1, EntriesSame

LEMMA CellsStep == TypeOK /\ TwoPhase /\ CellsInv /\ [Next]_vars => CellsInv'
<1> SUFFICES ASSUME TypeOK, TwoPhase, CellsInv, [Next]_vars PROVE CellsInv'
  OBVIOUS
<1> USE DEF Goto, shared, control, local, blocking, history
<1>0. CASE UNCHANGED vars
  <2>1. \A t \in Thread, v \in Var : Unstored(t, v)' = Unstored(t, v)
    BY <1>0 DEF vars, Unstored, Made, Entries
  <2> QED BY <1>0, <2>1, EntriesSame DEF vars
<1>1. ASSUME NEW s \in Thread, \/ Begin(s) \/ Retry(s) \/ Unblocked(s) PROVE CellsInv'
  BY <1>1, CellsUntouched DEF Begin, Retry, Unblocked, TypeOK
<1>2. ASSUME NEW s \in Thread, NEW v \in Var, AnnounceWrite(s, v) \/ Register(s, v)
      PROVE  CellsInv'
  BY <1>2, CellsUntouched DEF AnnounceWrite, Register, TypeOK
<1>3. ASSUME NEW s \in Thread, NEW u \in Thread, SetChanged(s, u) PROVE CellsInv'
  BY <1>3, CellsUntouched DEF SetChanged, TypeOK
<1>4. ASSUME NEW s \in Thread,
             \/ CommitDone(s) \/ WaitDone(s) \/ Abort(s) \/ Failure(s) \/ Panic(s)
             \/ Inconsistent(s)
      PROVE  CellsInv'
  <2>1. Clear(s) /\ value' = value /\ \A t \in Thread \ {s} : pc'[t] = pc[t]
    BY <1>4 DEF CommitDone, WaitDone, Abort, Failure, Panic, Inconsistent, TypeOK
  <2> QED BY <2>1, EntriesLost
<1>5. ASSUME NEW s \in Thread, NEW v \in Var,
             \/ SkipObsolete(s, v) \/ LockRead(s, v) \/ LockWrite(s, v) \/ TakeWaiting(s, v)
             \/ AnnounceWriteAtomic(s, v)
      PROVE  CellsInv'
  <2>1. CASE Inconsistent(s)
    BY <2>1, <1>4
  <2>2. CASE ~Inconsistent(s)
    <3>1. /\ UNCHANGED <<value, log, frames, stale>>
          /\ \A t \in Thread \ {s} : pc'[t] = pc[t] /\ todo'[t] = todo[t]
          /\ pc[s] # "writeback" /\ pc'[s] # "writeback" /\ (pc[s] = "wake" <=> pc'[s] = "wake")
      BY <1>5, <2>2
      DEF SkipObsolete, LockRead, LockWrite, TakeWaiting, AnnounceWriteAtomic, Visited, TypeOK
    <3>2. ASSUME NEW t \in Thread, NEW u \in Var PROVE Unstored(t, u)' = Unstored(t, u)
      BY <3>1 DEF Unstored, Made, Entries
    <3> QED BY <3>1, <3>2, EntriesSame
  <2> QED BY <2>1, <2>2
<1>6. ASSUME NEW s \in Thread, Commit(s) \/ ReleaseReads(s) \/ StartWaking(s)
      PROVE  CellsInv'
  <2>1. /\ UNCHANGED <<value, log, frames>>
        /\ \A t \in Thread, v \in Var : stale'[t][v] \subseteq stale[t][v]
        /\ \A t \in Thread \ {s} : pc'[t] = pc[t] /\ todo'[t] = todo[t]
        /\ \/ pc[s] \notin {"writeback", "wake"}
           \/ pc'[s] = "wake"
    <3>1. CASE Commit(s)
      BY <3>1 DEF Commit, TypeOK
    <3>2. CASE ReleaseReads(s)
      BY <3>2 DEF ReleaseReads, TypeOK, NoLoads
    <3>3. CASE StartWaking(s)
      BY <3>3 DEF StartWaking, TypeOK
    <3> QED BY <1>6, <3>1, <3>2, <3>3
  <2>2. ASSUME NEW t \in Thread, NEW u \in Var PROVE Unstored(t, u)' \subseteq Unstored(t, u)
    BY <2>1 DEF Unstored, Made, Entries
  <2> QED BY <2>1, <2>2, EntriesSame
<1>7. ASSUME NEW s \in Thread, Rearranges(s) PROVE CellsInv'
  <2> DEFINE Apart == /\ value' = value /\ pc[s] \notin {"wake", "writeback"}
                      /\ \A t \in Thread \ {s} :
                           /\ log'[t] = log[t] /\ frames'[t] = frames[t]
                           /\ todo'[t] = todo[t] /\ pc'[t] = pc[t]
             Shrinks == \A t \in Thread, v \in Var : stale'[t][v] \subseteq stale[t][v]
  <2>1. Apart
    <3>1. CASE Or(s) \/ OrOk(s) \/ OrBlocked(s) \/ OrSecond(s) \/ WaitForChange(s)
      BY <3>1 DEF Or, OrOk, OrBlocked, OrSecond, WaitForChange, TypeOK
    <3>2. ASSUME NEW v \in Var, ReadLogged(s, v) \/ Compare(s, v) PROVE Apart
      BY <3>2 DEF ReadLogged, Compare, Visited, TypeOK
    <3> QED BY <1>7, <3>1, <3>2 DEF Rearranges
  <2>2. Shrinks
    <3>1. CASE stale' = stale
      BY <3>1
    <3>2. ASSUME NEW v \in Var, Compare(s, v) PROVE Shrinks
      BY <3>2 DEF Compare, TypeOK, Loads
    <3> QED
      BY <1>7, <3>1, <3>2
      DEF Rearranges, Or, OrOk, OrBlocked, OrSecond, WaitForChange, ReadLogged
  <2>3. \A v \in Var : Unstored(s, v)' \subseteq Made(s, v)' /\ Unstored(s, v) = Made(s, v)
    BY <2>1 DEF Unstored
  <2>4. \A v \in Var : \A e \in Entries(s, v)' :
          \E d \in Entries(s, v) : e.orig \in {d.orig, Null} /\ e.new \in {d.new, Null}
    BY <1>7, EntriesStep
  <2> QED BY <2>1, <2>2, <2>3, <2>4, EntriesOnly
<1>8. ASSUME NEW s \in Thread, NEW v \in Var, ReadShared(s, v) PROVE CellsInv'
  <2>1. ASSUME NEW t \in Thread, NEW u \in Var
        PROVE  /\ Loaded(t, u)' \subseteq Loaded(t, u)
                    \cup (IF t = s /\ u = v THEN {value[v]} ELSE {})
               /\ Unstored(t, u)' = Unstored(t, u)
    BY <1>8, EntriesRead
  <2>2. UnstoredIsPrivate'
    BY <1>8, <2>1 DEF ReadShared, CellsInv, UnstoredIsPrivate
  <2>3. ASSUME NEW t \in Thread, NEW u \in Var
        PROVE  stale'[t][u] = IF t = s /\ u = v THEN stale[t][u] \ {value[v]} ELSE stale[t][u]
    BY <1>8 DEF ReadShared, TypeOK, Loads
  <2>4. LoadedIsCurrent'
    <3> SUFFICES ASSUME NEW t \in Thread, NEW u \in Var, value'[u] \in Loaded(t, u)'
                 PROVE  value'[u] \notin stale'[t][u]
      BY DEF LoadedIsCurrent
    <3>1. value' = value
      BY <1>8 DEF ReadShared
    <3>2. CASE t = s /\ u = v
      BY <2>3, <3>1, <3>2
    <3>3. CASE ~(t = s /\ u = v)
      BY <2>1, <2>3, <3>1, <3>3 DEF CellsInv, LoadedIsCurrent
    <3> QED BY <3>2, <3>3
  <2> QED BY <2>2, <2>4 DEF CellsInv
<1>9. ASSUME NEW s \in Thread, NEW v \in Var, Write(s, v) PROVE CellsInv'
  <2>1. PICK a \in Fresh : \A t \in Thread, u \in Var :
          /\ Loaded(t, u)' = Loaded(t, u)
          /\ Unstored(t, u)' \subseteq Unstored(t, u)
               \cup (IF t = s /\ u = v THEN {a} ELSE {})
    BY <1>9, EntriesWritten
  <2>2. UnstoredIsPrivate'
    BY <1>9, <2>1, FreshIsNew DEF Write, CellsInv, UnstoredIsPrivate
  <2>3. LoadedIsCurrent'
    BY <1>9, <2>1 DEF Write, CellsInv, LoadedIsCurrent
  <2> QED BY <2>2, <2>3 DEF CellsInv
<1>10. ASSUME NEW s \in Thread, NEW v \in Var, WriteBack(s, v) PROVE CellsInv'
  <2> DEFINE a == log[s][v].new
  <2>1. a \in Made(s, v) /\ a \in Unstored(s, v)
    <3>1. IsWrite(log[s][v]) /\ log[s][v] \in LogVar /\ pc[s] = "writeback" /\ v \in todo[s]
      BY <1>10 DEF WriteBack, TwoPhase, LockOK, Storing, IsNext, TypeOK, Log
    <3> QED BY <3>1 DEF LogVar, Made, Entries, Unstored
  <2>2. ASSUME NEW t \in Thread, NEW u \in Var
        PROVE  /\ Loaded(t, u)' = Loaded(t, u)
               /\ Unstored(t, u)' = IF t = s /\ u = v THEN {} ELSE Unstored(t, u)
    <3>1. Entries(t, u)' = Entries(t, u)
      BY <1>10 DEF WriteBack, Entries
    <3> QED BY <1>10, <3>1 DEF WriteBack, Visited, TypeOK, Loaded, Made, Unstored
  <2>3. value' = [value EXCEPT ![v] = a]
    BY <1>10 DEF WriteBack, Store
  <2> HIDE DEF a
  <2>4. UnstoredIsPrivate'
    <3> SUFFICES ASSUME NEW t \in Thread, NEW u \in Var, NEW b \in Unstored(t, u)',
                        NEW x \in Thread, NEW w \in Var
                 PROVE  /\ value'[w] # b
                        /\ b \notin Loaded(x, w)'
                        /\ b \in Unstored(x, w)' => x = t /\ w = u
      BY DEF UnstoredIsPrivate
    <3>1. b \in Unstored(t, u) /\ ~(t = s /\ u = v)
      BY <2>2
    <3>2. b # a /\ value[w] # b /\ b \notin Loaded(x, w)
      BY <2>1, <3>1 DEF CellsInv, UnstoredIsPrivate
    <3>3. b \in Unstored(x, w) => x = t /\ w = u
      BY <3>1 DEF CellsInv, UnstoredIsPrivate
    <3>4. value'[w] # b
      BY <2>3, <3>2 DEF TypeOK
    <3> QED BY <2>2, <3>2, <3>3, <3>4
  <2>5. \A t \in Thread, u \in Var \ {v} : stale'[t][u] = stale[t][u]
    BY <1>10 DEF WriteBack, Store, TypeOK, Loads
  <2>6. \A t \in Thread : a \notin Loaded(t, v)
    BY <2>1 DEF CellsInv, UnstoredIsPrivate
  <2>7. LoadedIsCurrent'
    <3> SUFFICES ASSUME NEW t \in Thread, NEW u \in Var, value'[u] \in Loaded(t, u)'
                 PROVE  value'[u] \notin stale'[t][u]
      BY DEF LoadedIsCurrent
    <3>1. value'[u] \in Loaded(t, u) /\ value'[u] = IF u = v THEN a ELSE value[u]
      BY <2>2, <2>3 DEF TypeOK
    <3> QED BY <2>5, <2>6, <3>1 DEF CellsInv, LoadedIsCurrent
  <2> QED BY <2>4, <2>7 DEF CellsInv
<1>11. ASSUME NEW s \in Thread, NEW v \in Var, WriteAtomic(s, v) PROVE CellsInv'
  <2>1. PICK a \in Fresh : Store(v, a)
    BY <1>11 DEF WriteAtomic
  <2>2. /\ value' = [value EXCEPT ![v] = a]
        /\ \A t \in Thread, u \in Var \ {v} : stale'[t][u] = stale[t][u]
    BY <2>1 DEF Store, TypeOK, Loads
  <2>3. ASSUME NEW t \in Thread, NEW u \in Var
        PROVE  Loaded(t, u)' = Loaded(t, u) /\ Unstored(t, u)' = Unstored(t, u)
    <3>1. Entries(t, u)' = Entries(t, u)
      BY <1>11 DEF WriteAtomic, Entries
    <3> QED BY <1>11, <3>1 DEF WriteAtomic, Visited, TypeOK, Loaded, Made, Unstored
  <2>4. UnstoredIsPrivate'
    BY <2>2, <2>3, FreshIsNew DEF CellsInv, UnstoredIsPrivate, TypeOK
  <2>5. LoadedIsCurrent'
    <3> SUFFICES ASSUME NEW t \in Thread, NEW u \in Var, value'[u] \in Loaded(t, u)'
                 PROVE  value'[u] \notin stale'[t][u]
      BY DEF LoadedIsCurrent
    <3>1. value'[u] \in Loaded(t, u) /\ value'[u] = IF u = v THEN a ELSE value[u]
      BY <2>2, <2>3 DEF TypeOK
    <3>2. u # v
      BY <3>1, FreshIsNew
    <3> QED BY <2>2, <3>1, <3>2 DEF CellsInv, LoadedIsCurrent
  <2> QED BY <2>4, <2>5 DEF CellsInv
<1> QED
  BY <1>0, <1>1, <1>2, <1>3, <1>4, <1>5, <1>6, <1>7, <1>8, <1>9, <1>10, <1>11
  DEF Next, LibraryStep, UserStep, Rearranges

LEMMA CellsInit == Init => CellsInv
<1> SUFFICES ASSUME Init PROVE CellsInv
  OBVIOUS
<1>1. ASSUME NEW t \in Thread, NEW v \in Var PROVE Loaded(t, v) = {} /\ Unstored(t, v) = {}
  <2>1. Entries(t, v) = {Vacant}
    BY SavedNone DEF Init, Entries, EmptyLog
  <2> QED BY <2>1 DEF Loaded, Unstored, Made, Vacant, Entry
<1> QED BY <1>1 DEF CellsInv, UnstoredIsPrivate, LoadedIsCurrent

LEMMA Identities == Spec => [](TypeOK /\ TwoPhase /\ CellsInv)
<1>1. Init => CellsInv
  BY CellsInit
<1>2. TypeOK /\ TwoPhase /\ CellsInv /\ [Next]_vars => CellsInv'
  BY CellsStep
<1> QED BY <1>1, <1>2, Locks, PTL DEF Spec

LEMMA IdentityDetectsChange == TypeOK /\ CellsInv => PtrEqDetectsChange
<1> SUFFICES ASSUME TypeOK, CellsInv, NEW t \in Thread, NEW v \in Var,
                    HasReadValue(log[t][v]), log[t][v].orig \in stale[t][v]
             PROVE  value[v] # log[t][v].orig
  BY DEF PtrEqDetectsChange
<1>1. log[t][v].orig \in Loaded(t, v)
  BY DEF TypeOK, Log, LogVar, Loaded, Entries
<1> QED BY <1>1 DEF CellsInv, LoadedIsCurrent

(* Comparing pointers is enough: whichever free address the allocator      *)
(* gives out, a variable that was written since a transaction loaded it    *)
(* does not hold the cell that the transaction remembers, in commit and in *)
(* wait_for_change (Arc::ptr_eq).                                          *)
THEOREM ComparingPointersIsSound == Spec => []PtrEqDetectsChange
BY IdentityDetectsChange, Identities, PTL
=============================================================================
