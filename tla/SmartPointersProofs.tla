------------------------- MODULE SmartPointersProofs -------------------------
(***************************************************************************)
(* TArc and TWeak: the proofs that transactions with them are transactions *)
(* (so that all that is proved of Transaction holds with them), that no    *)
(* cell of a TArc ever boxes a Weak or the other way round, that no update *)
(* is lost between the read and the write of replace, update and           *)
(* modify_cow, that back-edges which the closures maintain are intact in   *)
(* committed memory, and that a None of upgrade can be trusted by who      *)
(* commits and by who sleeps because of it.                                *)
(***************************************************************************)
EXTENDS SmartPointers, TransactionAlternatives

-----------------------------------------------------------------------------
(* A step of a transaction with pointers, but for TVar::write.             *)
Plain(s) ==
  \/ LibraryStep(s)
  \/ Begin(s) \/ Or(s) \/ OrOk(s) \/ Retry(s) \/ Abort(s) \/ Failure(s) \/ Panic(s)
  \/ Commit(s)
  \/ \E v \in Var : ReadShared(s, v) \/ ReadLogged(s, v)

LEMMA PlainStep ==
  ASSUME NEW s \in Thread, Plain(s) \/ \E v \in Var : Write(s, v)
  PROVE  Next /\ (LibraryStep(s) \/ UserStep(s))
BY DEF Plain, Next, UserStep

(* The cells of a variable: the one it holds, and those that any thread    *)
(* has loaded from it or made for it.                                      *)
Slots(v) == {value[v]} \cup UNION {Loaded(t, v) \cup Made(t, v) : t \in Thread}

LEMMA SlotsAreLive ==
  ASSUME TypeOK, NEW v \in Var
  PROVE  Slots(v) \subseteq Live /\ Slots(v) \subseteq Addr
<1>1. value[v] \in Live /\ value[v] \in Addr
  BY DEF Live, TypeOK
<1>2. ASSUME NEW t \in Thread
      PROVE  Loaded(t, v) \cup Made(t, v) \subseteq Live \cap Addr
  <2>1. \A e \in Entries(t, v) : e \in LogVar
    <3>1. log[t][v] \in LogVar
      BY DEF TypeOK, Log
    <3>2. ASSUME NEW i \in 1..Len(frames[t]) PROVE frames[t][i].saved[v] \in LogVar
      <4>1. frames[t] \in Seq(Frame)
        BY DEF TypeOK
      <4>2. frames[t][i] \in Frame
        BY <4>1
      <4> QED BY <4>2 DEF Frame, Log
    <3> QED BY <3>1, <3>2 DEF Entries, Saved
  <2>2. Loaded(t, v) \cup Made(t, v) \subseteq Addr
    BY <2>1 DEF Loaded, Made, LogVar, Ptr
  <2> QED BY <2>2, EntriesAreLive
<1> QED BY <1>1, <1>2 DEF Slots

(* No cell appears in an entry, ...                                        *)
LEMMA SlotsKept ==
  ASSUME TypeOK, value' = value, NEW s \in Thread,
         \A t \in Thread \ {s} : log'[t] = log[t] /\ frames'[t] = frames[t],
         \A v \in Var : \A e \in Entries(s, v)' :
           \E d \in Entries(s, v) : e.orig \in {d.orig, Null} /\ e.new \in {d.new, Null},
         NEW v \in Var
  PROVE  Slots(v)' \subseteq Slots(v)
<1>1. ASSUME NEW t \in Thread
      PROVE  Loaded(t, v)' \subseteq Loaded(t, v) /\ Made(t, v)' \subseteq Made(t, v)
  <2>1. CASE t = s
    BY <2>1 DEF Loaded, Made
  <2>2. CASE t # s
    BY <2>2 DEF Loaded, Made, Entries
  <2> QED BY <2>1, <2>2
<1> QED BY <1>1 DEF Slots

(* ... or none at all changes.                                             *)
LEMMA SlotsSame ==
  ASSUME UNCHANGED <<value, log, frames>>, NEW v \in Var
  PROVE  Slots(v)' = Slots(v)
BY DEF Slots, Loaded, Made, Entries

LEMMA SlotsStep ==
  ASSUME TypeOK, TwoPhase, NEW s \in Thread, Plain(s), pc[s] # "write_atomic", NEW x \in Var
  PROVE  Slots(x)' \subseteq Slots(x)
<1> USE DEF Goto, shared, control, local, blocking, history
<1>1. CASE \/ Begin(s) \/ Retry(s) \/ Unblocked(s) \/ Commit(s) \/ ReleaseReads(s)
           \/ StartWaking(s)
  BY <1>1, SlotsSame DEF Begin, Retry, Unblocked, Commit, ReleaseReads, StartWaking
<1>2. CASE \E u \in Thread : SetChanged(s, u)
  BY <1>2, SlotsSame DEF SetChanged
<1>3. CASE \/ CommitDone(s) \/ WaitDone(s) \/ Abort(s) \/ Failure(s) \/ Panic(s)
           \/ Inconsistent(s)
  <2>1. Clear(s) /\ value' = value
    BY <1>3 DEF CommitDone, WaitDone, Abort, Failure, Panic, Inconsistent
  <2>2. /\ \A t \in Thread \ {s} : log'[t] = log[t] /\ frames'[t] = frames[t]
        /\ log'[s] = EmptyLog /\ frames'[s] = <<>>
    BY <2>1 DEF Clear, TypeOK
  <2>3. ASSUME NEW v \in Var, NEW e \in Entries(s, v)'
        PROVE  \E d \in Entries(s, v) : e.orig \in {d.orig, Null} /\ e.new \in {d.new, Null}
    <3>1. e = Vacant /\ log[s][v] \in Entries(s, v)
      BY <2>2, SavedNone DEF Entries, EmptyLog
    <3> QED BY <3>1 DEF Vacant, Entry
  <2> QED BY <2>1, <2>2, <2>3, SlotsKept
<1>4. ASSUME NEW v \in Var,
             \/ SkipObsolete(s, v) \/ LockRead(s, v) \/ LockWrite(s, v) \/ TakeWaiting(s, v)
             \/ AnnounceWrite(s, v) \/ Register(s, v)
      PROVE  Slots(x)' \subseteq Slots(x)
  <2>1. CASE Inconsistent(s)
    BY <2>1, <1>3
  <2>2. CASE ~Inconsistent(s)
    BY <1>4, <2>2, SlotsSame
    DEF SkipObsolete, LockRead, LockWrite, TakeWaiting, AnnounceWrite, Register
  <2> QED BY <2>1, <2>2
<1>5. ASSUME NEW v \in Var, Compare(s, v) PROVE Slots(x)' \subseteq Slots(x)
  <2>1. ASSUME NEW u \in Var, NEW e \in Entries(s, u)'
        PROVE  \E d \in Entries(s, u) : e.orig \in {d.orig, Null} /\ e.new \in {d.new, Null}
    <3>1. frames' = frames /\ log'[s][u] \in {log[s][u], Vacant}
      BY <1>5 DEF Compare, TypeOK, Log, EmptyLog
    <3> QED BY <3>1 DEF Entries, Vacant, Entry
  <2> QED BY <1>5, <2>1, SlotsKept DEF Compare, TypeOK
<1>6. CASE WaitForChange(s)
  <2>1. ASSUME NEW u \in Var, NEW e \in Entries(s, u)'
        PROVE  \E d \in Entries(s, u) : e.orig \in {d.orig, Null} /\ e.new \in {d.new, Null}
    <3>1. frames' = frames /\ log'[s][u] = Obsolete(log[s][u])
      BY <1>6 DEF WaitForChange, TypeOK
    <3> QED BY <3>1 DEF Entries, Obsolete, Vacant, Entry
  <2> QED BY <1>6, <2>1, SlotsKept DEF WaitForChange, TypeOK
<1>7. ASSUME NEW v \in Var, ReadLogged(s, v) PROVE Slots(x)' \subseteq Slots(x)
  <2>1. ASSUME NEW u \in Var, NEW e \in Entries(s, u)'
        PROVE  \E d \in Entries(s, u) : e.orig \in {d.orig, Null} /\ e.new \in {d.new, Null}
    <3>1. /\ frames' = frames /\ log[s][u] \in LogVar
          /\ log'[s][u] \in {log[s][u], ReadUpgrade(log[s][u])}
      BY <1>7 DEF ReadLogged, TypeOK, Log
    <3> QED BY <3>1 DEF Entries, ReadUpgrade, LogVar
  <2> QED BY <1>7, <2>1, SlotsKept DEF ReadLogged, TypeOK
<1>8. CASE Or(s)
  <2> DEFINE f == [stage |-> "first", saved |-> log[s], obs |-> obs[s], intent |-> intent[s]]
  <2>1. f \in Frame /\ frames'[s] = <<f>> \o frames[s] /\ log' = log
    BY <1>8 DEF Or, TypeOK, Frame
  <2>2. ASSUME NEW u \in Var PROVE Entries(s, u)' = Entries(s, u)
    <3>1. Saved(frames'[s], u) = {log[s][u]} \cup Saved(frames[s], u)
      BY <2>1, SavedPush DEF TypeOK
    <3> QED BY <2>1, <3>1 DEF Entries
  <2> QED BY <1>8, <2>2, SlotsKept DEF Or, TypeOK
<1>9. CASE OrSecond(s)
  <2> DEFINE f == [stage |-> "second", saved |-> log[s], obs |-> EmptyView,
                   intent |-> EmptyView]
  <2>1. /\ f \in Frame /\ frames'[s] = <<f>> \o Tail(frames[s])
        /\ Tail(frames[s]) \in Seq(Frame)
        /\ log'[s] = Head(frames[s]).saved
    BY <1>9, ViewType, FrameTypes DEF OrSecond, TypeOK, Frame
  <2>2. ASSUME NEW u \in Var PROVE Entries(s, u)' \subseteq Entries(s, u)
    <3>1. Saved(frames'[s], u) = {log[s][u]} \cup Saved(Tail(frames[s]), u)
      <4>1. Saved(<<f>> \o Tail(frames[s]), u) = {f.saved[u]} \cup Saved(Tail(frames[s]), u)
        <5> HIDE DEF f
        <5> QED BY <2>1, SavedPush
      <4> QED BY <2>1, <4>1
    <3>2. /\ Saved(Tail(frames[s]), u) \subseteq Saved(frames[s], u)
          /\ Head(frames[s]).saved[u] \in Saved(frames[s], u)
      BY <1>9, SavedPop DEF OrSecond, TypeOK
    <3> QED BY <2>1, <3>1, <3>2 DEF Entries
  <2> QED BY <1>9, <2>2, SlotsKept DEF OrSecond, TypeOK
<1>10. CASE OrOk(s) \/ OrBlocked(s)
  <2>1. /\ frames'[s] = Tail(frames[s]) /\ frames[s] # <<>>
        /\ log'[s] \in {log[s], Combine(log[s], Head(frames[s]).saved)}
    BY <1>10 DEF OrOk, OrBlocked, TypeOK
  <2>2. ASSUME NEW u \in Var, NEW e \in Entries(s, u)'
        PROVE  \E d \in Entries(s, u) : e.orig \in {d.orig, Null} /\ e.new \in {d.new, Null}
    <3>1. /\ Saved(Tail(frames[s]), u) \subseteq Saved(frames[s], u)
          /\ Head(frames[s]).saved[u] \in Saved(frames[s], u)
      BY <2>1, SavedPop DEF TypeOK
    <3>2. log'[s][u] \in {log[s][u], Obsolete(Head(frames[s]).saved[u])}
      BY <2>1 DEF Combine
    <3>3. CASE e = log'[s][u]
      BY <3>1, <3>2, <3>3 DEF Entries, Obsolete, Vacant, Entry
    <3>4. CASE e # log'[s][u]
      BY <2>1, <3>1, <3>4 DEF Entries
    <3> QED BY <3>3, <3>4
  <2>3. value' = value /\ \A t \in Thread \ {s} : log'[t] = log[t] /\ frames'[t] = frames[t]
    BY <1>10 DEF OrOk, OrBlocked, TypeOK
  <2> QED BY <2>2, <2>3, SlotsKept
<1>11. ASSUME NEW v \in Var, ReadShared(s, v) PROVE Slots(x)' \subseteq Slots(x)
  <2>1. ASSUME NEW t \in Thread
        PROVE  Loaded(t, x)' \cup Made(t, x)' \subseteq Loaded(t, x) \cup Made(t, x) \cup {value[x]}
    <3>1. \/ log'[t][x] = log[t][x]
          \/ log'[t][x] = Entry("Read", value[x], Null)
      BY <1>11 DEF ReadShared, TypeOK, Log
    <3>2. Saved(frames[t], x)' = Saved(frames[t], x)
      BY <1>11 DEF ReadShared, Saved
    <3> QED BY <3>1, <3>2 DEF Loaded, Made, Entries, Entry
  <2> QED BY <1>11, <2>1 DEF ReadShared, Slots
<1>12. ASSUME NEW v \in Var, WriteBack(s, v) PROVE Slots(x)' \subseteq Slots(x)
  <2>1. log[s][v].new \in Made(s, v)
    <3>1. IsWrite(log[s][v]) /\ log[s][v] \in LogVar
      BY <1>12 DEF WriteBack, TwoPhase, LockOK, Storing, IsNext, TypeOK, Log
    <3> QED BY <3>1 DEF LogVar, Made, Entries
  <2>2. value' = [value EXCEPT ![v] = log[s][v].new] /\ UNCHANGED <<log, frames>>
    BY <1>12 DEF WriteBack, Store
  <2>3. \A t \in Thread : Loaded(t, x)' = Loaded(t, x) /\ Made(t, x)' = Made(t, x)
    BY <2>2 DEF Loaded, Made, Entries
  <2> QED BY <2>1, <2>2, <2>3 DEF Slots, TypeOK
<1>13. ASSUME NEW v \in Var PROVE ~WriteAtomic(s, v)
  BY DEF WriteAtomic
<1> QED
  BY <1>1, <1>2, <1>3, <1>4, <1>5, <1>6, <1>7, <1>8, <1>9, <1>10, <1>11, <1>12, <1>13
  DEF Plain, LibraryStep

(* A write makes one new cell, for the variable that is written.           *)
LEMMA SlotsWrite ==
  ASSUME TypeOK, NEW s \in Thread, NEW v \in Var, Write(s, v)
  PROVE  /\ log'[s][v].new \in Addr \ Live
         /\ \A x \in Var :
              Slots(x)' \subseteq Slots(x) \cup (IF x = v THEN {log'[s][v].new} ELSE {})
<1>1. PICK a \in Fresh : log' = [log EXCEPT ![s][v] = WriteUpgrade(@, a)]
  BY DEF Write
<1>2. log'[s][v].new = a /\ log'[s][v].orig = log[s][v].orig
  BY <1>1 DEF TypeOK, Log, WriteUpgrade, Entry
<1>3. ASSUME NEW t \in Thread, NEW x \in Var
      PROVE  Loaded(t, x)' \cup Made(t, x)' \subseteq
               Loaded(t, x) \cup Made(t, x) \cup (IF x = v THEN {a} ELSE {})
  <2>1. Saved(frames[t], x)' = Saved(frames[t], x)
    BY DEF Write, Saved
  <2>2. CASE t = s /\ x = v
    BY <1>2, <2>1, <2>2 DEF Loaded, Made, Entries
  <2>3. CASE ~(t = s /\ x = v)
    <3>1. log'[t][x] = log[t][x]
      BY <1>1, <2>3 DEF TypeOK, Log
    <3> QED BY <2>1, <3>1 DEF Loaded, Made, Entries
  <2> QED BY <2>2, <2>3
<1>4. a \in Addr \ Live
  BY AllocAssumption DEF Fresh
<1>5. value' = value
  BY DEF Write, shared
<1> QED BY <1>2, <1>3, <1>4, <1>5 DEF Slots

-----------------------------------------------------------------------------
(* PointersTypeOK made inductive: each variable keeps to its kind of       *)
(* reference in whichever cell it has, had or may get, ...                 *)
Kind(v, r) == r.strong <=> v \in TArcs

KindsKept == \A v \in Var : \A a \in Slots(v) : Kind(v, boxed[a])

NobodySets == \A t \in Thread : pc[t] # "write_atomic"

(* ... and an operation that has read a TArc finds in the log of its       *)
(* thread what it read.                                                    *)
InLog(c) ==
  /\ pc[c.thread] = "run"
  /\ c.op # "upgrade" => \E a \in Cells(log[c.thread]) \ {Null} : boxed[a] = Arc(c.ref)

OneCall == \A c, d \in calls : c.thread = d.thread => c = d

CallTyped(c) ==
  /\ c.op = "upgrade" <=> c.var \in TWeaks
  /\ c.op # "upgrade" => c.ref \in Payload

PointersTyped ==
  /\ boxed \in [Addr -> Ref]
  /\ owned \in [Thread -> SUBSET Payload]
  /\ calls \subseteq Call /\ \A c \in calls : CallTyped(c)
  /\ failed \in [Thread -> SUBSET TWeaks]

PointersInv ==
  PointersTyped /\ KindsKept /\ NobodySets /\ OneCall /\ \A c \in calls : InLog(c)

LEMMA Refs ==
  /\ \A r \in Ref : /\ r.strong \in BOOLEAN /\ r.to \in Payload \cup {Nothing}
                    /\ r.strong => r.to \in Payload /\ r = Arc(r.to)
  /\ \A p : Arc(p) \in Ref => p \in Payload
  /\ \A p \in Payload : Arc(p) \in Ref /\ Arc(p).strong
  /\ \A p \in Payload \cup {Nothing} : Weak(p) \in Ref /\ ~Weak(p).strong
<1>1. ASSUME NEW r \in Ref
      PROVE  /\ r.strong \in BOOLEAN /\ r.to \in Payload \cup {Nothing}
             /\ r.strong => r.to \in Payload /\ r = Arc(r.to)
  <2>1. CASE \E p \in Payload : r = Arc(p)
    BY <2>1 DEF Arc
  <2>2. CASE \E p \in Payload \cup {Nothing} : r = Weak(p)
    BY <2>2 DEF Weak
  <2> QED BY <2>1, <2>2 DEF Ref
<1>2. ASSUME NEW p, Arc(p) \in Ref PROVE p \in Payload
  BY <1>2 DEF Ref, Arc, Weak
<1>3. \A p \in Payload : Arc(p) \in Ref /\ Arc(p).strong
  BY DEF Ref, Arc
<1>4. ASSUME NEW p \in Payload \cup {Nothing} PROVE Weak(p) \in Ref /\ ~Weak(p).strong
  BY DEF Ref, Weak
<1> QED BY <1>1, <1>2, <1>3, <1>4

LEMMA NewPayloadType == NewPayload \subseteq Payload
<1> DEFINE used == {boxed[a].to : a \in Boxes} \cup (UNION {owned[t] : t \in Thread})
                     \cup {c.ref : c \in calls}
<1>1. Payload \ used \in SUBSET Addr
  BY SmartPointersAssumption
<1>2. Alloc(Payload \ used) \subseteq Payload \ used
  BY <1>1, AllocAssumption
<1> QED BY <1>2 DEF NewPayload

LEMMA LiveCells ==
  ASSUME TypeOK
  PROVE  /\ Boxes \subseteq Addr
         /\ \A t \in Thread : Cells(log[t]) \subseteq Live
<1>1. \A t \in Thread : Cells(log[t]) \subseteq Live /\ Cells(log[t]) \subseteq Ptr
  BY DEF Live, Cells, TypeOK, Log, LogVar
<1>2. ASSUME NEW t \in Thread, NEW i \in 1..Len(frames[t])
      PROVE  Cells(frames[t][i].saved) \subseteq Ptr
  <2>1. frames[t] \in Seq(Frame)
    BY DEF TypeOK
  <2>2. frames[t][i] \in Frame
    BY <2>1
  <2> QED BY <2>2 DEF Frame, Log, LogVar, Cells
<1>3. \A v \in Var : value[v] \in Ptr
  BY DEF TypeOK, Ptr
<1>4. Live \subseteq Ptr
  BY <1>1, <1>2, <1>3 DEF Live
<1> QED BY <1>1, <1>4 DEF Boxes, Ptr

LEMMA AliveIsPayload ==
  ASSUME TypeOK, PointersTyped, NEW p, Alive(p)
  PROVE  p \in Payload
<1>1. CASE \E a \in Boxes : boxed[a] = Arc(p)
  BY <1>1, LiveCells, Refs DEF PointersTyped
<1>2. CASE \E t \in Thread : p \in owned[t]
  BY <1>2 DEF PointersTyped
<1>3. CASE \E c \in calls : c.op # "upgrade" /\ c.ref = p
  BY <1>3 DEF PointersTyped, CallTyped
<1> QED BY <1>1, <1>2, <1>3 DEF Alive, HasArc

(* What a read returns is in the log, and of the kind of its variable.     *)
LEMMA ReadReturns ==
  ASSUME TypeOK, TwoPhase, PointersInv, NEW t \in Thread, NEW v \in Var,
         ReadShared(t, v) \/ ReadLogged(t, v)
  PROVE  /\ ReadResult(log'[t][v]) \in Cells(log'[t]) \ {Null}
         /\ ReadResult(log'[t][v]) \in Boxes
         /\ Result(t, v) \in Ref /\ Kind(v, Result(t, v))
<1> DEFINE a == ReadResult(log'[t][v])
<1>1. TypeOK'
  <2>1. Next
    BY DEF Next, UserStep
  <2> QED BY <2>1, TypeStep
<1>2. log'[t][v] \in LogVar /\ log'[t][v].kind # "Vacant"
  <2>1. log'[t][v] \in LogVar
    BY <1>1 DEF TypeOK, Log
  <2>2. CASE ReadShared(t, v)
    BY <2>1, <2>2 DEF ReadShared, TypeOK, Log, Entry
  <2>3. CASE ReadLogged(t, v)
    <3>1. log[t][v] \in LogVar /\ log[t][v] # Vacant /\ log'[t][v] = ReadUpgrade(log[t][v])
      BY <2>3 DEF ReadLogged, TypeOK, Log
    <3>2. log[t][v].kind # "Vacant"
      BY <3>1 DEF LogVar, Vacant, Entry, HasReadValue, IsWrite
    <3> QED BY <2>1, <3>1, <3>2 DEF ReadUpgrade, LogVar
  <2> QED BY <2>1, <2>2, <2>3
<1>3. a # Null /\ a \in {log'[t][v].orig, log'[t][v].new}
  BY <1>2 DEF LogVar, Kinds, ReadResult, HasReadValue, IsWrite
<1>4. a \in Cells(log'[t]) \ {Null}
  BY <1>3 DEF Cells
<1>5. a \in Slots(v)'
  BY <1>3 DEF Slots, Loaded, Made, Entries
<1>6. a \in Slots(v)
  BY <1>5, SlotsStep DEF Plain, PointersInv, NobodySets
<1>7. a \in Addr /\ a \in Boxes
  BY <1>3, <1>6, SlotsAreLive DEF Boxes
<1> HIDE DEF a
<1> QED BY <1>4, <1>6, <1>7 DEF PointersInv, PointersTyped, KindsKept, Result, a

-----------------------------------------------------------------------------
(* What a step of s leaves of the calls of the others.                     *)
LEMMA CallsOfOthers ==
  ASSUME TypeOK, PointersInv, NEW s \in Thread, LibraryStep(s) \/ UserStep(s),
         \A a \in Boxes : boxed'[a] = boxed[a],
         NEW c \in calls, c.thread # s
  PROVE  InLog(c)'
<1>1. c.thread \in Thread \ {s} /\ InLog(c)
  BY DEF PointersInv, PointersTyped, Call
<1>2. pc'[c.thread] = pc[c.thread] /\ log'[c.thread] = log[c.thread]
  BY <1>1, StepsApart DEF Elsewhere
<1>3. Cells(log[c.thread])' = Cells(log[c.thread])
  BY <1>2 DEF Cells
<1>4. \A a \in Cells(log[c.thread]) \ {Null} : boxed'[a] = boxed[a]
  BY <1>1, LiveCells DEF Boxes
<1> QED BY <1>1, <1>2, <1>3, <1>4 DEF InLog

(* A step that boxes nothing.                                              *)
LEMMA PlainKeepsInv ==
  ASSUME TypeOK, TwoPhase, PointersInv, NEW s \in Thread, Plain(s),
         UNCHANGED boxed, PointersTyped',
         OneCall', \A c \in calls' : (c \in calls /\ c.thread # s) \/ InLog(c)'
  PROVE  PointersInv'
<1>1. KindsKept'
  BY SlotsStep DEF PointersInv, KindsKept, NobodySets, Kind
<1>2. NobodySets'
  <2> USE DEF Goto, NobodySets, PointersInv
  <2>1. pc'[s] # "write_atomic"
    <3> USE DEF control, shared, local, blocking, history
    <3>1. CASE \/ OrSecond(s) \/ OrBlocked(s) \/ ReleaseReads(s) \/ StartWaking(s)
               \/ CommitDone(s) \/ WaitForChange(s) \/ Unblocked(s) \/ WaitDone(s)
      BY <3>1
      DEF OrSecond, OrBlocked, ReleaseReads, StartWaking, CommitDone, WaitForChange,
          Unblocked, WaitDone, TypeOK
    <3>2. ASSUME NEW v \in Var,
                 \/ SkipObsolete(s, v) \/ LockRead(s, v) \/ AnnounceWrite(s, v)
                 \/ LockWrite(s, v) \/ WriteBack(s, v) \/ TakeWaiting(s, v)
                 \/ Register(s, v) \/ Compare(s, v) \/ WriteAtomic(s, v)
          PROVE  pc'[s] # "write_atomic"
      BY <3>2
      DEF SkipObsolete, LockRead, AnnounceWrite, LockWrite, WriteBack, TakeWaiting,
          Register, Compare, WriteAtomic, Inconsistent, TypeOK
    <3>3. CASE \E u \in Thread : SetChanged(s, u)
      BY <3>3 DEF SetChanged
    <3>4. CASE \/ Begin(s) \/ Or(s) \/ OrOk(s) \/ Retry(s) \/ Abort(s) \/ Failure(s)
               \/ Panic(s) \/ Commit(s) \/ \E v \in Var : ReadShared(s, v) \/ ReadLogged(s, v)
      BY <3>4
      DEF Begin, Or, OrOk, Retry, Abort, Failure, Panic, Commit, ReadShared, ReadLogged,
          TypeOK
    <3> QED BY <3>1, <3>2, <3>3, <3>4 DEF Plain, LibraryStep
  <2>2. \A t \in Thread \ {s} : pc'[t] = pc[t]
    BY PlainStep, StepsApart DEF Elsewhere
  <2> QED BY <2>1, <2>2
<1>3. \A c \in calls' : InLog(c)'
  BY PlainStep, CallsOfOthers
<1> QED BY <1>1, <1>2, <1>3 DEF PointersInv

(* A write boxes a reference of the kind of the variable.                  *)
LEMMA WriteKeepsInv ==
  ASSUME TypeOK, PointersInv, NEW s \in Thread, NEW v \in Var, NEW ref \in Ref,
         WriteRef(s, v, ref), Kind(v, ref),
         owned' \in [Thread -> SUBSET Payload],
         calls' = {c \in calls : c.thread # s}
  PROVE  PointersInv'
<1> DEFINE a == log'[s][v].new
<1>1. /\ a \in Addr \ Live
      /\ \A x \in Var : Slots(x)' \subseteq Slots(x) \cup (IF x = v THEN {a} ELSE {})
  BY SlotsWrite DEF WriteRef
<1>2. boxed' = [boxed EXCEPT ![a] = ref]
  BY DEF WriteRef
<1> HIDE DEF a
<1>3. \A b \in Live : b # a
  BY <1>1
<1>4. PointersTyped'
  <2>1. boxed' \in [Addr -> Ref]
    BY <1>1, <1>2 DEF PointersInv, PointersTyped
  <2>2. failed' \in [Thread -> SUBSET TWeaks]
    BY DEF WriteRef, KeepFailed, PointersInv, PointersTyped
  <2> QED BY <2>1, <2>2 DEF PointersInv, PointersTyped, CallTyped
<1>5. KindsKept'
  <2> SUFFICES ASSUME NEW x \in Var, NEW b \in Slots(x)' PROVE Kind(x, boxed'[b])
    BY DEF KindsKept, Kind
  <2>1. CASE b \in Slots(x)
    <3>1. b \in Live /\ b \in Addr
      BY <2>1, SlotsAreLive
    <3>2. boxed'[b] = boxed[b]
      BY <1>2, <1>3, <3>1 DEF PointersInv, PointersTyped
    <3> QED BY <2>1, <3>2 DEF PointersInv, KindsKept
  <2>2. CASE b \notin Slots(x)
    <3>1. b = a /\ x = v
      BY <1>1, <2>2
    <3>2. boxed'[b] = ref
      BY <1>1, <1>2, <3>1 DEF PointersInv, PointersTyped
    <3> QED BY <3>1, <3>2
  <2> QED BY <2>1, <2>2
<1>6. NobodySets'
  BY DEF WriteRef, Write, control, PointersInv, NobodySets
<1>7. OneCall'
  BY DEF PointersInv, OneCall
<1>8. ASSUME NEW c \in calls' PROVE InLog(c)'
  <2>1. LibraryStep(s) \/ UserStep(s)
    BY DEF WriteRef, UserStep
  <2>2. \A b \in Boxes : boxed'[b] = boxed[b]
    BY <1>2, <1>3, LiveCells DEF Boxes, PointersInv, PointersTyped
  <2> QED BY <2>1, <2>2, CallsOfOthers
<1> QED BY <1>4, <1>5, <1>6, <1>7, <1>8 DEF PointersInv

-----------------------------------------------------------------------------
LEMMA Simulation == PointersTyped /\ [PointersNext]_<<vars, pointers>> => [Next]_vars
<1> SUFFICES ASSUME PointersTyped, PointersNext PROVE [Next]_vars
  OBVIOUS
<1>1. ASSUME NEW t \in Thread, Other(t) \/ PanicInCall(t) PROVE Next
  BY <1>1, PlainStep DEF Other, PanicInCall, Plain
<1>2. ASSUME NEW t \in Thread, NEW v \in Var,
             \/ ReadArc(t, v) \/ \E op \in Reading : ReadFirst(t, v, op)
             \/ WriteArc(t, v) \/ WriteWeak(t, v)
      PROVE  Next
  BY <1>2, PlainStep DEF ReadArc, ReadFirst, Read, WriteArc, WriteWeak, WriteRef, Plain
<1>3. ASSUME NEW c \in calls, Replace(c) \/ Update(c) \/ ModifyCow(c) PROVE Next
  <2>1. c.thread \in Thread /\ c.var \in Var
    BY DEF PointersTyped, Call
  <2> QED BY <1>3, <2>1, PlainStep DEF Replace, Update, ModifyCow, WriteLast, WriteRef
<1>4. ASSUME NEW t \in Thread, NEW v \in Var, ReadAtomic(t, v) PROVE UNCHANGED vars
  BY <1>4 DEF ReadAtomic
<1>5. ASSUME NEW t \in Thread, NEW p \in Payload, Release(t, p) PROVE UNCHANGED vars
  BY <1>5 DEF Release
<1>6. ASSUME NEW c \in calls, Upgrade(c) PROVE UNCHANGED vars
  BY <1>6 DEF Upgrade
<1> QED BY <1>1, <1>2, <1>3, <1>4, <1>5, <1>6 DEF PointersNext

(* While an operation is under way the closure runs.                       *)
LEMMA LibraryWaits ==
  ASSUME NEW s \in Thread, LibraryStep(s)
  PROVE  pc[s] # "run"
BY DEF LibraryStep, Goto, OrSecond, OrBlocked, ReleaseReads, StartWaking, CommitDone,
       WaitForChange, Unblocked, WaitDone, SkipObsolete, LockRead, AnnounceWrite, LockWrite,
       WriteBack, TakeWaiting, Register, Compare, WriteAtomic, SetChanged

(* The call of a thread is over.                                           *)
LEMMA CallEnds ==
  ASSUME PointersInv, NEW c \in calls
  PROVE  calls \ {c} = {d \in calls : d.thread # c.thread}
BY DEF PointersInv, OneCall

LEMMA FreeHasNone ==
  ASSUME NEW t, Free(t)
  PROVE  calls = {c \in calls : c.thread # t}
BY DEF Free

LEMMA PointersStep ==
  TypeOK /\ TwoPhase /\ PointersInv /\ [PointersNext]_<<vars, pointers>> => PointersInv'
<1> SUFFICES ASSUME TypeOK, TwoPhase, PointersInv, [PointersNext]_<<vars, pointers>>
             PROVE  PointersInv'
  OBVIOUS
<1>T. PointersTyped /\ OneCall /\ \A c \in calls : InLog(c) /\ CallTyped(c)
  BY DEF PointersInv, PointersTyped
<1>0. ASSUME UNCHANGED <<vars, boxed>>, PointersTyped', calls' \subseteq calls
      PROVE  PointersInv'
  <2>1. KindsKept' /\ NobodySets'
    BY <1>0, SlotsSame
    DEF vars, shared, control, local, PointersInv, KindsKept, Kind, NobodySets
  <2>2. OneCall' /\ \A c \in calls' : InLog(c)'
    BY <1>0, <1>T DEF OneCall, InLog, Cells, vars, control, local
  <2> QED BY <1>0, <2>1, <2>2 DEF PointersInv
<1>1. CASE UNCHANGED <<vars, pointers>>
  BY <1>0, <1>1, <1>T DEF pointers, PointersTyped, CallTyped
<1>2. ASSUME NEW t \in Thread, Other(t) \/ PanicInCall(t), KeepPath(t),
             UNCHANGED <<boxed, owned>>
      PROVE  PointersInv'
  <2>1. Plain(t)
    BY <1>2 DEF Other, PanicInCall, Plain
  <2>2. calls' = {c \in calls : c.thread # t}
    <3>1. CASE LibraryStep(t) /\ calls' = calls
      BY <1>T, <3>1, LibraryWaits DEF InLog
    <3>2. CASE Free(t) /\ calls' = calls
      BY <3>2, FreeHasNone
    <3> QED BY <1>2, <3>1, <3>2 DEF Other, PanicInCall
  <2>3. PointersTyped'
    BY <1>2, <1>T, <2>2 DEF KeepPath, KeepFailed, PointersTyped, CallTyped
  <2>4. OneCall'
    BY <1>T, <2>2 DEF OneCall
  <2> QED BY <1>2, <2>1, <2>2, <2>3, <2>4, PlainKeepsInv
<1>3. ASSUME NEW t \in Thread, NEW v \in Var, ReadArc(t, v) PROVE PointersInv'
  <2>1. ReadShared(t, v) \/ ReadLogged(t, v)
    BY <1>3 DEF ReadArc, Read
  <2>2. Result(t, v).to \in Payload
    BY <1>3, <2>1, ReadReturns, Refs DEF ReadArc, Kind
  <2>3. calls' = calls /\ calls = {c \in calls : c.thread # t} /\ boxed' = boxed
    BY <1>3, FreeHasNone DEF ReadArc
  <2>4. PointersTyped'
    BY <1>3, <1>T, <2>2, <2>3
    DEF ReadArc, Read, KeepPath, KeepFailed, PointersTyped, CallTyped
  <2>5. OneCall'
    BY <1>T, <2>3 DEF OneCall
  <2> QED BY <2>1, <2>3, <2>4, <2>5, PlainKeepsInv DEF Plain
<1>4. ASSUME NEW t \in Thread, NEW v \in Var, NEW op \in Reading, ReadFirst(t, v, op)
      PROVE  PointersInv'
  <2>1. ReadShared(t, v) \/ ReadLogged(t, v)
    BY <1>4 DEF ReadFirst, Read
  <2>2. /\ Result(t, v).to \in Payload \cup {Nothing}
        /\ v \in TArcs => Result(t, v).to \in Payload /\ Result(t, v) = Arc(Result(t, v).to)
    BY <2>1, ReadReturns, Refs DEF Kind
  <2>3. PICK new : new = [thread |-> t, op |-> op, var |-> v, ref |-> Result(t, v).to]
    OBVIOUS
  <2>4. /\ calls' = calls \cup {new} /\ calls = {c \in calls : c.thread # t}
        /\ boxed' = boxed /\ owned' = owned
    BY <1>4, <2>3, FreeHasNone DEF ReadFirst
  <2>5. new \in Call /\ CallTyped(new)
    BY <1>4, <2>2, <2>3 DEF ReadFirst, Call, CallTyped, TWeaks
  <2>6. PointersTyped'
    BY <1>4, <1>T, <2>4, <2>5
    DEF ReadFirst, Read, KeepPath, KeepFailed, PointersTyped, CallTyped
  <2>7. OneCall'
    BY <1>T, <2>3, <2>4 DEF OneCall
  <2>8. InLog(new)'
    <3>1. pc'[t] = "run"
      BY <2>1 DEF ReadShared, ReadLogged, control
    <3>2. op # "upgrade" =>
            \E a \in Cells(log'[t]) \ {Null} : boxed'[a] = Arc(Result(t, v).to)
      BY <1>4, <2>1, <2>2, <2>4, ReadReturns DEF ReadFirst, TWeaks, Result
    <3>3. Cells(log'[t]) = Cells(log[t])'
      BY DEF Cells
    <3>4. new.thread = t /\ new.op = op /\ new.ref = Result(t, v).to
      BY <2>3
    <3> QED BY <3>1, <3>2, <3>3, <3>4 DEF InLog
  <2>9. \A c \in calls' : (c \in calls /\ c.thread # t) \/ InLog(c)'
    BY <2>4, <2>8
  <2>10. Plain(t)
    BY <2>1 DEF Plain
  <2> QED BY <2>4, <2>6, <2>7, <2>9, <2>10, PlainKeepsInv
<1>5. ASSUME NEW t \in Thread, NEW v \in Var, WriteArc(t, v) PROVE PointersInv'
  <2>1. PICK p \in Payload : WriteRef(t, v, Arc(p))
    BY <1>5, <1>T, NewPayloadType DEF WriteArc, PointersTyped
  <2>2. v \in TArcs /\ UNCHANGED <<owned, calls>> /\ calls = {c \in calls : c.thread # t}
    BY <1>5, FreeHasNone DEF WriteArc
  <2> QED BY <1>T, <2>1, <2>2, Refs, WriteKeepsInv DEF Kind, PointersTyped
<1>6. ASSUME NEW t \in Thread, NEW v \in Var, WriteWeak(t, v) PROVE PointersInv'
  <2>1. PICK p \in Payload \cup {Nothing} : WriteRef(t, v, Weak(p))
    BY <1>6, <1>T DEF WriteWeak, PointersTyped
  <2>2. v \notin TArcs /\ UNCHANGED <<owned, calls>> /\ calls = {c \in calls : c.thread # t}
    BY <1>6, FreeHasNone DEF WriteWeak, TWeaks
  <2> QED BY <1>T, <2>1, <2>2, Refs, WriteKeepsInv DEF Kind, PointersTyped
<1>7. ASSUME NEW c \in calls, Replace(c) \/ Update(c) \/ ModifyCow(c) PROVE PointersInv'
  <2>1. /\ c.thread \in Thread /\ c.var \in TArcs /\ c.var \in Var /\ c.ref \in Payload
        /\ c.op # "upgrade"
    BY <1>7, <1>T DEF Replace, Update, ModifyCow, PointersTyped, CallTyped, Call, TWeaks
  <2>2. PICK p \in Payload : WriteRef(c.thread, c.var, Arc(p))
    <3>1. CASE Replace(c)
      BY <1>T, <2>1, <3>1 DEF Replace, WriteLast, PointersTyped
    <3>2. CASE Update(c)
      BY <3>2, NewPayloadType DEF Update, WriteLast
    <3>3. CASE ModifyCow(c)
      BY <2>1, <3>3, NewPayloadType DEF ModifyCow, WriteLast, MakeMut
    <3> QED BY <1>7, <3>1, <3>2, <3>3
  <2>3. owned' \in [Thread -> SUBSET Payload]
    BY <1>7, <1>T, <2>1 DEF Replace, Update, ModifyCow, PointersTyped
  <2>4. calls' = {d \in calls : d.thread # c.thread}
    BY <1>7, CallEnds DEF Replace, Update, ModifyCow, WriteLast
  <2> QED BY <2>1, <2>2, <2>3, <2>4, Refs, WriteKeepsInv DEF Kind
<1>8. ASSUME NEW c \in calls, Upgrade(c) PROVE PointersInv'
  <2>1. c.thread \in Thread /\ c.var \in TWeaks
    BY <1>8, <1>T DEF Upgrade, PointersTyped, CallTyped, Call
  <2>2. owned' \in [Thread -> SUBSET Payload]
    BY <1>8, <1>T, <2>1, AliveIsPayload DEF Upgrade, PointersTyped
  <2>3. failed' \in [Thread -> SUBSET TWeaks]
    BY <1>8, <1>T, <2>1 DEF Upgrade, PointersTyped
  <2>4. UNCHANGED <<vars, boxed>> /\ calls' \subseteq calls
    BY <1>8 DEF Upgrade
  <2> QED BY <1>0, <1>T, <2>2, <2>3, <2>4 DEF PointersTyped, CallTyped
<1>9. ASSUME NEW t \in Thread, NEW v \in Var, ReadAtomic(t, v) PROVE PointersInv'
  <2>1. value[v] \in Slots(v) /\ boxed[value[v]] \in Ref
    BY <1>T DEF Slots, TypeOK, PointersTyped
  <2>2. v \in TArcs => boxed[value[v]].to \in Payload
    BY <2>1, Refs DEF PointersInv, KindsKept, Kind
  <2>3. owned' \in [Thread -> SUBSET Payload]
    BY <1>9, <1>T, <2>2 DEF ReadAtomic, LoadAtomic, PointersTyped
  <2>4. UNCHANGED <<vars, boxed, calls, failed>>
    BY <1>9 DEF ReadAtomic
  <2> QED BY <1>0, <1>T, <2>3, <2>4 DEF PointersTyped, CallTyped
<1>10. ASSUME NEW t \in Thread, NEW p \in Payload, Release(t, p) PROVE PointersInv'
  <2>1. owned' \in [Thread -> SUBSET Payload] /\ UNCHANGED <<vars, boxed, calls, failed>>
    BY <1>10, <1>T DEF Release, PointersTyped
  <2> QED BY <1>0, <1>T, <2>1 DEF PointersTyped, CallTyped
<1> QED
  BY <1>1, <1>2, <1>3, <1>4, <1>5, <1>6, <1>7, <1>8, <1>9, <1>10 DEF PointersNext

LEMMA PointersStart == PointersInit => TypeOK /\ TwoPhase /\ PointersInv
<1> SUFFICES ASSUME PointersInit PROVE TypeOK /\ TwoPhase /\ PointersInv
  OBVIOUS
<1>1. TypeOK /\ TwoPhase
  BY ConstantsAssumption, LogTypes, ViewType
  DEF PointersInit, Init, TypeOK, PC, TwoPhase, LockOK, Visiting, Passed, Storing
<1>2. PICK made \in [Var -> Ref] :
        /\ \A v \in Var : made[v] \in IF v \in TArcs THEN NewTArc(v) ELSE NewTWeak(v)
        /\ boxed = [a \in Addr |-> IF \E v \in Var : InitValue[v] = a
                                   THEN made[CHOOSE v \in Var : InitValue[v] = a]
                                   ELSE Weak(Nothing)]
  BY DEF PointersInit
<1>3. ASSUME NEW a \in Addr PROVE boxed[a] \in Ref
  <2>1. Weak(Nothing) \in Ref
    BY Refs
  <2> QED BY <1>2, <2>1
<1>4. PointersTyped
  BY <1>2, <1>3 DEF PointersInit, PointersTyped
<1>5. ASSUME NEW v \in Var PROVE InitValue[v] \in Addr /\ boxed[InitValue[v]] = made[v]
  <2>1. InitValue[v] \in Addr /\ \A u \in Var : InitValue[u] = InitValue[v] => u = v
    BY ConstantsAssumption
  <2>2. (CHOOSE u \in Var : InitValue[u] = InitValue[v]) = v
    BY <2>1
  <2> QED BY <1>2, <2>1, <2>2
<1>6. ASSUME NEW v \in Var PROVE Kind(v, made[v])
  <2>1. CASE v \in TArcs
    BY <1>2, <2>1 DEF NewTArc, Arc, Kind
  <2>2. CASE v \notin TArcs
    <3>1. made[v] \in NewTWeak(v)
      BY <1>2, <2>2
    <3>2. \E p : made[v] = Weak(p)
      BY <3>1 DEF NewTWeak
    <3> QED BY <2>2, <3>2 DEF Weak, Kind
  <2> QED BY <2>1, <2>2
<1>7. ASSUME NEW v \in Var PROVE Slots(v) = {InitValue[v]}
  <2>1. \A t \in Thread : Entries(t, v) = {Vacant}
    <3> SUFFICES ASSUME NEW t \in Thread PROVE Entries(t, v) = {Vacant}
      OBVIOUS
    <3>1. log[t] = EmptyLog /\ frames[t] = <<>>
      BY DEF PointersInit, Init
    <3> QED BY <3>1, SavedNone DEF Entries, EmptyLog
  <2>2. \A t \in Thread : Loaded(t, v) = {} /\ Made(t, v) = {}
    BY <2>1 DEF Loaded, Made, Vacant, Entry
  <2> QED BY <2>2 DEF Slots, PointersInit, Init
<1>8. KindsKept
  BY <1>5, <1>6, <1>7 DEF KindsKept
<1>9. NobodySets /\ OneCall /\ \A c \in calls : InLog(c)
  BY DEF PointersInit, Init, NobodySets, OneCall
<1> QED BY <1>1, <1>4, <1>8, <1>9 DEF PointersInv

LEMMA Pointers == PointersSpec => [](TypeOK /\ TwoPhase /\ PointersInv)
<1>1. /\ TypeOK /\ TwoPhase /\ PointersInv /\ [PointersNext]_<<vars, pointers>>
      => (TypeOK /\ TwoPhase /\ PointersInv)'
  <2> SUFFICES ASSUME TypeOK, TwoPhase, PointersInv, [PointersNext]_<<vars, pointers>>
               PROVE  (TypeOK /\ TwoPhase /\ PointersInv)'
    OBVIOUS
  <2>1. [Next]_vars
    BY Simulation DEF PointersInv
  <2>2. TypeOK' /\ TwoPhase'
    BY <2>1, TypeStep, TwoPhaseStep
  <2> QED BY <2>2, PointersStep
<1> QED BY <1>1, PointersStart, PTL DEF PointersSpec

(* A program that uses TArc and TWeak is a program that uses TVar: read,   *)
(* write, replace, update, modify_cow and upgrade are made of TVar's read  *)
(* and write, so whatever is proved of Transaction (atomicity, two-phase   *)
(* locking, no lost wake-up) holds with them too.                          *)
THEOREM PointersAreTransactions == PointersSpec => Spec
<1>1. PointersInit => Init
  BY DEF PointersInit
<1>2. PointersInv /\ [PointersNext]_<<vars, pointers>> => [Next]_vars
  BY Simulation DEF PointersInv
<1> QED BY <1>1, <1>2, Pointers, PTL DEF Spec, PointersSpec

-----------------------------------------------------------------------------
(* A step with pointers, as far as cells are concerned.                    *)
LEMMA ToLock ==
  ASSUME TypeOK, NEW s \in Thread, Plain(s), pc'[s] = "lock"
  PROVE  log'[s] = log[s] /\ (pc[s] = "lock" \/ Commit(s))
<1> USE DEF Goto, shared, control, local, blocking, history, TypeOK
<1>1. CASE \/ OrSecond(s) \/ OrBlocked(s) \/ ReleaseReads(s) \/ StartWaking(s)
           \/ CommitDone(s) \/ WaitForChange(s) \/ Unblocked(s) \/ WaitDone(s)
  BY <1>1
  DEF OrSecond, OrBlocked, ReleaseReads, StartWaking, CommitDone, WaitForChange, Unblocked,
      WaitDone
<1>2. ASSUME NEW v \in Var,
             \/ SkipObsolete(s, v) \/ LockRead(s, v) \/ AnnounceWrite(s, v)
             \/ LockWrite(s, v) \/ WriteBack(s, v) \/ TakeWaiting(s, v)
             \/ Register(s, v) \/ Compare(s, v) \/ WriteAtomic(s, v)
      PROVE  log'[s] = log[s] /\ pc[s] = "lock"
  <2>1. ~Inconsistent(s)
    BY DEF Inconsistent
  <2> QED BY <1>2, <2>1
      DEF SkipObsolete, LockRead, AnnounceWrite, LockWrite, WriteBack, TakeWaiting, Register,
          Compare, WriteAtomic
<1>3. CASE \E u \in Thread : SetChanged(s, u)
  BY <1>3 DEF SetChanged
<1>4. CASE \/ Begin(s) \/ Or(s) \/ OrOk(s) \/ Retry(s) \/ Abort(s) \/ Failure(s)
           \/ Panic(s) \/ \E v \in Var : ReadShared(s, v) \/ ReadLogged(s, v)
  BY <1>4 DEF Begin, Or, OrOk, Retry, Abort, Failure, Panic, ReadShared, ReadLogged
<1>5. CASE Commit(s)
  BY <1>5 DEF Commit
<1> QED BY <1>1, <1>2, <1>3, <1>4, <1>5 DEF Plain, LibraryStep

LEMMA CommitFromRun ==
  ASSUME TypeOK, NEW s \in Thread, Commit(s)
  PROVE  pc[s] = "run" /\ pc'[s] = "lock"
BY DEF Commit, Goto, TypeOK

(* The operation that s had under way is over.                             *)
CallOver(s) == calls' = {c \in calls : c.thread # s}

(* What s writes to v is the result of a call.                             *)
FromCall(s, v) ==
  \E c \in calls :
    /\ c.thread = s /\ c.var = v /\ c.op # "upgrade"
    /\ KeepBased(s, IF IsWrite(log[s][v]) THEN based[s]
                    ELSE [based[s] EXCEPT ![v] = c.ref])

LEMMA Shapes ==
  ASSUME TypeOK, TwoPhase, PointersInv, PointersNext
  PROVE  \/ /\ UNCHANGED <<vars, boxed>> /\ calls' \subseteq calls
            /\ failed' = failed \/ \E c \in calls : Upgrade(c)
            /\ based' = based
         \/ \E s \in Thread :
              /\ Plain(s) /\ boxed' = boxed /\ KeepPath(s)
              /\ Commit(s) => KeepsBackEdges(s)
              /\ CallOver(s) \/ \E v \in Var, op \in Reading : ReadFirst(s, v, op)
         \/ \E s \in Thread, v \in Var, ref \in Ref :
              /\ WriteRef(s, v, ref) /\ CallOver(s)
              /\ KeepBased(s, based[s]) \/ FromCall(s, v)
<1> DEFINE Goal ==
      \/ /\ UNCHANGED <<vars, boxed>> /\ calls' \subseteq calls
         /\ failed' = failed \/ \E c \in calls : Upgrade(c)
         /\ based' = based
      \/ \E s \in Thread :
           /\ Plain(s) /\ boxed' = boxed /\ KeepPath(s)
           /\ Commit(s) => KeepsBackEdges(s)
           /\ CallOver(s) \/ \E v \in Var, op \in Reading : ReadFirst(s, v, op)
      \/ \E s \in Thread, v \in Var, ref \in Ref :
           /\ WriteRef(s, v, ref) /\ CallOver(s)
           /\ KeepBased(s, based[s]) \/ FromCall(s, v)
<1>T. PointersTyped /\ \A c \in calls : CallTyped(c) /\ InLog(c)
  BY DEF PointersInv, PointersTyped
<1>1. ASSUME NEW t \in Thread, Other(t) \/ PanicInCall(t), KeepPath(t), UNCHANGED boxed
      PROVE  Goal
  <2>0. CallOver(t)
    <3>1. CASE LibraryStep(t) /\ calls' = calls
      BY <1>T, <3>1, LibraryWaits DEF InLog, CallOver
    <3>2. CASE Free(t) /\ calls' = calls
      BY <3>2, FreeHasNone DEF CallOver
    <3> QED BY <1>1, <3>1, <3>2 DEF Other, PanicInCall, CallOver
  <2>1. CASE KeepsBackEdges(t) /\ Commit(t)
    BY <1>1, <2>0, <2>1 DEF Plain
  <2>2. CASE ~(KeepsBackEdges(t) /\ Commit(t))
    <3>1. /\ Plain(t)
          /\ \/ LibraryStep(t) \/ Begin(t) \/ Or(t) \/ OrOk(t) \/ Retry(t) \/ Abort(t)
             \/ Failure(t) \/ Panic(t)
      BY <1>1, <2>2 DEF Other, PanicInCall, Plain
    <3>2. ~Commit(t)
      <4> SUFFICES ASSUME Commit(t) PROVE FALSE
        OBVIOUS
      <4>1. pc[t] = "run" /\ pc'[t] = "lock"
        BY CommitFromRun
      <4>2. ~LibraryStep(t)
        BY <4>1, LibraryWaits
      <4> QED BY <3>1, <4>1, <4>2
          DEF Begin, Or, OrOk, Retry, Abort, Failure, Panic, Goto, control, TypeOK
    <3> QED BY <1>1, <2>0, <3>1, <3>2
  <2> QED BY <2>1, <2>2
<1>2. ASSUME NEW t \in Thread, NEW v \in Var,
             ReadArc(t, v) \/ \E op \in Reading : ReadFirst(t, v, op)
      PROVE  Goal
  <2>1. Plain(t) /\ boxed' = boxed /\ pc' = pc /\ KeepPath(t)
    BY <1>2 DEF ReadArc, ReadFirst, Read, Plain, ReadShared, ReadLogged, control
  <2>2. ~Commit(t)
    BY <2>1, CommitFromRun
  <2>3. ReadArc(t, v) => CallOver(t)
    BY FreeHasNone DEF ReadArc, CallOver
  <2> QED BY <1>2, <2>1, <2>2, <2>3
<1>3. ASSUME NEW t \in Thread, NEW v \in Var, WriteArc(t, v) \/ WriteWeak(t, v) PROVE Goal
  <2>1. \E ref \in Ref : WriteRef(t, v, ref)
    <3>1. CASE WriteArc(t, v)
      <4>1. PICK p \in Payload : WriteRef(t, v, Arc(p))
        BY <1>T, <3>1, NewPayloadType DEF WriteArc, PointersTyped
      <4> QED BY <4>1, Refs
    <3>2. CASE WriteWeak(t, v)
      <4>1. PICK p \in Payload \cup {Nothing} : WriteRef(t, v, Weak(p))
        BY <1>T, <3>2 DEF WriteWeak, PointersTyped
      <4> QED BY <4>1, Refs
    <3> QED BY <1>3, <3>1, <3>2
  <2>2. CallOver(t)
    BY <1>3, FreeHasNone DEF WriteArc, WriteWeak, CallOver
  <2>3. KeepBased(t, based[t])
    BY <1>3 DEF WriteArc, WriteWeak
  <2> QED BY <2>1, <2>2, <2>3
<1>4. ASSUME NEW c \in calls, Replace(c) \/ Update(c) \/ ModifyCow(c) PROVE Goal
  <2>1. /\ c.thread \in Thread /\ c.var \in Var /\ c.ref \in Payload
    BY <1>4, <1>T DEF Replace, Update, ModifyCow, PointersTyped, CallTyped, Call
  <2>2. PICK p \in Payload : WriteRef(c.thread, c.var, Arc(p))
    <3>1. CASE Replace(c)
      BY <1>T, <2>1, <3>1 DEF Replace, WriteLast, PointersTyped
    <3>2. CASE Update(c)
      BY <3>2, NewPayloadType DEF Update, WriteLast
    <3>3. CASE ModifyCow(c)
      BY <2>1, <3>3, NewPayloadType DEF ModifyCow, WriteLast, MakeMut
    <3> QED BY <1>4, <3>1, <3>2, <3>3
  <2>3. CallOver(c.thread)
    BY <1>4, CallEnds DEF Replace, Update, ModifyCow, WriteLast, CallOver
  <2>4. FromCall(c.thread, c.var)
    BY <1>4 DEF Replace, Update, ModifyCow, WriteLast, FromCall
  <2> QED BY <2>1, <2>2, <2>3, <2>4, Refs
<1>5. ASSUME NEW t \in Thread,
             (\E v \in Var : ReadAtomic(t, v)) \/ (\E p \in Payload : Release(t, p))
      PROVE  Goal
  BY <1>5 DEF ReadAtomic, Release
<1>6. ASSUME NEW c \in calls, Upgrade(c) PROVE Goal
  BY <1>6 DEF Upgrade
<1> HIDE DEF Goal
<1>7. Goal
  BY <1>1, <1>2, <1>3, <1>4, <1>5, <1>6 DEF PointersNext
<1> QED BY <1>7 DEF Goal

(* A write leaves the cells that anyone can see as they are.               *)
LEMMA BoxesKept ==
  ASSUME TypeOK, PointersInv, NEW s \in Thread, NEW v \in Var, NEW ref, WriteRef(s, v, ref)
  PROVE  \A a \in Live : boxed'[a] = boxed[a]
<1>1. log'[s][v].new \in Addr \ Live
  BY SlotsWrite DEF WriteRef
<1> QED BY <1>1 DEF WriteRef, PointersInv, PointersTyped

LEMMA CommittedIsSlot ==
  ASSUME TypeOK, TwoPhase, NEW v \in Var
  PROVE  Committed[v] \in Slots(v) /\ Committed[v] \in Live
<1>1. CASE InHand(v)
  <2> DEFINE u == writer[v]
  <2>1. u \in Thread /\ pc[u] = "writeback" /\ Committed[v] = log[u][v].new
    BY <1>1 DEF InHand, Committed, TypeOK
  <2>2. IsWrite(log[u][v])
    BY <2>1 DEF TwoPhase, LockOK, Visiting, Storing
  <2>3. log[u][v] \in LogVar
    BY <2>1 DEF TypeOK, Log
  <2>4. log[u][v].new # Null
    BY <2>2, <2>3 DEF LogVar
  <2>5. log[u][v].new \in Made(u, v)
    BY <2>4 DEF Made, Entries
  <2> QED BY <2>1, <2>5, SlotsAreLive DEF Slots
<1>2. CASE ~InHand(v)
  BY <1>2, SlotsAreLive DEF InHand, Committed, Slots
<1> QED BY <1>1, <1>2

-----------------------------------------------------------------------------
(* Lost updates.  From its read to its write an operation finds in the log *)
(* that the variable was read, and what it returned, unless the            *)
(* transaction had written it before; ...                                  *)
FoundOK(c) ==
  c.op # "upgrade" =>
    /\ log[c.thread][c.var].kind \in {"Read", "ReadWrite", "Write"}
    /\ log[c.thread][c.var].kind = "Read" => boxed[log[c.thread][c.var].orig] = Arc(c.ref)

(* ... and what it writes has the value it was computed from for original. *)
BasedOK(t, v) ==
  based[t][v] # Nothing =>
    /\ pc[t] \in {"run", "lock"}
    /\ log[t][v].kind = "ReadWrite" /\ boxed[log[t][v].orig] = Arc(based[t][v])

BasedInv ==
  /\ based \in [Thread -> [Var -> Payload \cup {Nothing}]]
  /\ \A c \in calls : FoundOK(c)
  /\ \A t \in Thread, v \in Var : BasedOK(t, v)

(* What is written stays, on the same path, until it is written again.     *)
LEMMA WritesKept ==
  ASSUME TypeOK, NEW s \in Thread, Plain(s), pc[s] \in {"run", "lock"},
         pc'[s] \in {"run", "lock"},
         NEW v \in Var, log[s][v].kind = "ReadWrite", IsWrite(log'[s][v])
  PROVE  log'[s][v] = log[s][v]
<1> USE DEF Goto, shared, control, local, blocking, history, TypeOK
<1>1. CASE \/ OrSecond(s) \/ OrBlocked(s) \/ ReleaseReads(s) \/ StartWaking(s)
           \/ CommitDone(s) \/ WaitForChange(s) \/ Unblocked(s) \/ WaitDone(s)
  BY <1>1
  DEF OrSecond, OrBlocked, ReleaseReads, StartWaking, CommitDone, WaitForChange, Unblocked,
      WaitDone
<1>2. ASSUME Clear(s) PROVE FALSE
  BY <1>2 DEF Clear, EmptyLog, Vacant, Entry, IsWrite
<1>3. ASSUME NEW u \in Var,
             \/ SkipObsolete(s, u) \/ LockRead(s, u) \/ AnnounceWrite(s, u)
             \/ LockWrite(s, u) \/ WriteBack(s, u) \/ TakeWaiting(s, u)
             \/ Register(s, u) \/ Compare(s, u) \/ WriteAtomic(s, u)
      PROVE  log'[s] = log[s]
  <2>1. ~Inconsistent(s)
    BY <1>2 DEF Inconsistent
  <2> QED BY <1>3, <2>1
      DEF SkipObsolete, LockRead, AnnounceWrite, LockWrite, WriteBack, TakeWaiting, Register,
          Compare, WriteAtomic
<1>4. CASE \E u \in Thread : SetChanged(s, u)
  BY <1>4 DEF SetChanged
<1>5. CASE Begin(s) \/ Or(s) \/ Retry(s) \/ Commit(s)
  BY <1>5 DEF Begin, Or, Retry, Commit
<1>6. CASE Abort(s) \/ Failure(s) \/ Panic(s)
  BY <1>2, <1>6 DEF Abort, Failure, Panic
<1>7. CASE OrOk(s)
  BY <1>7 DEF OrOk, Combine, Obsolete, Vacant, Entry
<1>8. ASSUME NEW u \in Var, ReadShared(s, u) PROVE log'[s][v] = log[s][v]
  BY <1>8 DEF ReadShared, Vacant, Entry, Log
<1>9. ASSUME NEW u \in Var, ReadLogged(s, u) PROVE log'[s][v] = log[s][v]
  <2>1. log[s][v] \in LogVar
    BY DEF Log
  <2> QED BY <1>9, <2>1 DEF ReadLogged, ReadUpgrade, LogVar, Log
<1> QED BY <1>1, <1>3, <1>4, <1>5, <1>6, <1>7, <1>8, <1>9 DEF Plain, LibraryStep

LEMMA BasedStep ==
  TypeOK /\ TwoPhase /\ PointersInv /\ BasedInv /\ [PointersNext]_<<vars, pointers>>
    => BasedInv'
<1> SUFFICES ASSUME TypeOK, TwoPhase, PointersInv, BasedInv,
                    [PointersNext]_<<vars, pointers>>
             PROVE  BasedInv'
  OBVIOUS
<1>T. /\ based \in [Thread -> [Var -> Payload \cup {Nothing}]]
      /\ \A c \in calls :
           c.thread \in Thread /\ c.var \in Var /\ c.ref \in Payload \cup {Nothing}
  BY DEF BasedInv, PointersInv, PointersTyped, Call
<1>L. ASSUME NEW t \in Thread, NEW v \in Var
      PROVE  /\ log[t][v] \in LogVar
             /\ log[t][v].kind \in {"Read", "ReadWrite"} => log[t][v].orig \in Boxes
  <2>1. log[t][v] \in LogVar
    BY DEF TypeOK, Log
  <2>2. log[t][v].kind \in {"Read", "ReadWrite"}
          => log[t][v].orig # Null /\ log[t][v].orig \in Cells(log[t])
    BY <2>1 DEF LogVar, HasReadValue, Cells
  <2> QED BY <2>1, <2>2, LiveCells DEF Boxes
(* A thread that does nothing, and a call that goes on.                    *)
<1>1. ASSUME NEW t \in Thread, NEW v \in Var, log'[t] = log[t], pc'[t] = pc[t],
             based'[t] = based[t], \A a \in Boxes : boxed'[a] = boxed[a]
      PROVE  BasedOK(t, v)'
  <2>1. BasedOK(t, v)
    BY DEF BasedInv
  <2> QED BY <1>1, <1>L, <2>1 DEF BasedOK
<1>2. ASSUME NEW c \in calls, log'[c.thread] = log[c.thread],
             \A a \in Boxes : boxed'[a] = boxed[a]
      PROVE  FoundOK(c)'
  <2>1. FoundOK(c) /\ c.thread \in Thread /\ c.var \in Var
    BY <1>T DEF BasedInv
  <2> QED BY <1>2, <1>L, <2>1 DEF FoundOK
<1>3. ASSUME NEW s \in Thread, NEW origin \in [Var -> Payload \cup {Nothing}],
             KeepBased(s, origin)
      PROVE  /\ based' \in [Thread -> [Var -> Payload \cup {Nothing}]]
             /\ \A t \in Thread \ {s} : based'[t] = based[t]
             /\ \A v \in Var : based'[s][v] =
                  IF pc'[s] \in {"run", "lock"} /\ IsWrite(log'[s][v])
                  THEN origin[v] ELSE Nothing
  <2> DEFINE new == [v \in Var |-> IF pc'[s] \in {"run", "lock"} /\ IsWrite(log'[s][v])
                                   THEN origin[v] ELSE Nothing]
  <2>1. new \in [Var -> Payload \cup {Nothing}]
    OBVIOUS
  <2>2. based' = [based EXCEPT ![s] = new]
    BY <1>3 DEF KeepBased
  <2>3. \A v \in Var : new[v] = IF pc'[s] \in {"run", "lock"} /\ IsWrite(log'[s][v])
                                THEN origin[v] ELSE Nothing
    OBVIOUS
  <2> HIDE DEF new
  <2> QED BY <1>T, <2>1, <2>2, <2>3
<1>4. ASSUME UNCHANGED <<vars, boxed, based>>, calls' \subseteq calls PROVE BasedInv'
  <2>1. log' = log /\ pc' = pc
    BY <1>4 DEF vars, control, local
  <2> QED BY <1>1, <1>2, <1>4, <1>T, <2>1 DEF BasedInv
<1>5. ASSUME NEW s \in Thread, Plain(s), boxed' = boxed, KeepPath(s),
             CallOver(s) \/ \E v \in Var, op \in Reading : ReadFirst(s, v, op)
      PROVE  BasedInv'
  <2>1. LibraryStep(s) \/ UserStep(s)
    BY <1>5, PlainStep
  <2>2. \A t \in Thread \ {s} : pc'[t] = pc[t] /\ log'[t] = log[t]
    BY <2>1, StepsApart DEF Elsewhere
  <2>3. /\ based' \in [Thread -> [Var -> Payload \cup {Nothing}]]
        /\ \A t \in Thread \ {s} : based'[t] = based[t]
        /\ \A v \in Var : based'[s][v] =
             IF pc'[s] \in {"run", "lock"} /\ IsWrite(log'[s][v])
             THEN based[s][v] ELSE Nothing
    BY <1>3, <1>5, <1>T DEF KeepPath
  <2>4. ASSUME NEW v \in Var PROVE BasedOK(s, v)'
    <3> SUFFICES ASSUME based'[s][v] # Nothing
                 PROVE  /\ pc'[s] \in {"run", "lock"} /\ log'[s][v].kind = "ReadWrite"
                        /\ boxed'[log'[s][v].orig] = Arc(based'[s][v])
      BY DEF BasedOK
    <3>1. /\ pc'[s] \in {"run", "lock"} /\ IsWrite(log'[s][v])
          /\ based'[s][v] = based[s][v] /\ based[s][v] # Nothing
      BY <2>3
    <3>2. /\ pc[s] \in {"run", "lock"} /\ log[s][v].kind = "ReadWrite"
          /\ boxed[log[s][v].orig] = Arc(based[s][v])
      BY <3>1 DEF BasedInv, BasedOK
    <3>3. log'[s][v] = log[s][v]
      BY <1>5, <3>1, <3>2, WritesKept
    <3> QED BY <1>5, <3>1, <3>2, <3>3
  <2>5. ASSUME NEW v \in Var, NEW op \in Reading, ReadFirst(s, v, op), NEW c \in calls',
               c \notin calls
        PROVE  FoundOK(c)'
    <3>1. ReadShared(s, v) \/ ReadLogged(s, v)
      BY <2>5 DEF ReadFirst, Read
    <3>2. c.thread = s /\ c.op = op /\ c.var = v /\ c.ref = Result(s, v).to
      BY <2>5 DEF ReadFirst
    <3>3. op # "upgrade" => Result(s, v) = Arc(Result(s, v).to)
      BY <2>5, <3>1, ReadReturns, Refs DEF ReadFirst, Kind, TWeaks
    <3>4. log'[s][v].kind \in {"Read", "ReadWrite", "Write"}
      <4>1. CASE ReadShared(s, v)
        BY <4>1 DEF ReadShared, Entry, TypeOK, Log
      <4>2. CASE ReadLogged(s, v)
        <5>1. log[s][v] \in LogVar /\ log[s][v] # Vacant
          BY <1>L, <4>2 DEF ReadLogged
        <5>2. log[s][v].kind # "Vacant"
          BY <5>1 DEF LogVar, Vacant, Entry, HasReadValue, IsWrite
        <5>3. log'[s][v] = ReadUpgrade(log[s][v])
          BY <4>2 DEF ReadLogged, TypeOK, Log
        <5>4. log[s][v].kind \in Kinds
          BY <5>1 DEF LogVar
        <5> QED BY <5>1, <5>2, <5>3, <5>4 DEF ReadUpgrade, LogVar, Kinds
      <4> QED BY <3>1, <4>1, <4>2
    <3>5. log'[s][v].kind = "Read" => Result(s, v) = boxed[log'[s][v].orig]
      BY DEF Result, ReadResult, IsWrite
    <3> QED BY <1>5, <3>2, <3>3, <3>4, <3>5 DEF FoundOK
  <2>6. ASSUME NEW c \in calls' PROVE FoundOK(c)'
    <3>1. CASE c \in calls /\ c.thread # s
      BY <1>2, <1>5, <1>T, <2>2, <3>1
    <3>2. CASE ~(c \in calls /\ c.thread # s)
      <4>1. ~CallOver(s)
        BY <3>2 DEF CallOver
      <4>2. PICK v \in Var, op \in Reading : ReadFirst(s, v, op)
        BY <1>5, <4>1
      <4>3. c \notin calls
        BY <3>2, <4>2 DEF ReadFirst, Free
      <4> QED BY <2>5, <4>2, <4>3
    <3> QED BY <3>1, <3>2
  <2> QED BY <1>1, <1>5, <2>2, <2>3, <2>4, <2>6 DEF BasedInv
<1>6. ASSUME NEW s \in Thread, NEW v \in Var, NEW ref \in Ref, WriteRef(s, v, ref), CallOver(s),
             KeepBased(s, based[s]) \/ FromCall(s, v)
      PROVE  BasedInv'
  <2>1. \A a \in Boxes : boxed'[a] = boxed[a]
    BY <1>6, BoxesKept DEF Boxes
  <2>2. PICK a \in Fresh : log' = [log EXCEPT ![s][v] = WriteUpgrade(@, a)]
    BY <1>6 DEF WriteRef, Write
  <2>3. /\ pc' = pc /\ pc[s] = "run" /\ \A t \in Thread \ {s} : log'[t] = log[t]
        /\ log'[s][v] = WriteUpgrade(log[s][v], a)
        /\ \A u \in Var \ {v} : log'[s][u] = log[s][u]
    BY <1>6, <2>2 DEF WriteRef, Write, control, TypeOK, Log
  <2>4. PICK origin \in [Var -> Payload \cup {Nothing}] :
          /\ KeepBased(s, origin)
          /\ \A u \in Var \ {v} : origin[u] = based[s][u]
          /\ \/ origin[v] = based[s][v]
             \/ ~IsWrite(log[s][v]) /\ \E c \in calls :
                  c.thread = s /\ c.var = v /\ c.op # "upgrade" /\ origin[v] = c.ref
    <3>1. CASE KeepBased(s, based[s])
      BY <1>T, <3>1
    <3>2. CASE FromCall(s, v)
      <4>1. PICK c \in calls :
              /\ c.thread = s /\ c.var = v /\ c.op # "upgrade"
              /\ KeepBased(s, IF IsWrite(log[s][v]) THEN based[s]
                              ELSE [based[s] EXCEPT ![v] = c.ref])
        BY <3>2 DEF FromCall
      <4>2. CASE IsWrite(log[s][v])
        BY <1>T, <4>1, <4>2
      <4>3. CASE ~IsWrite(log[s][v])
        <5>1. PICK origin : origin = [based[s] EXCEPT ![v] = c.ref]
          OBVIOUS
        <5>2. /\ origin \in [Var -> Payload \cup {Nothing}] /\ origin[v] = c.ref
              /\ \A u \in Var \ {v} : origin[u] = based[s][u]
          BY <1>T, <5>1
        <5>3. KeepBased(s, origin)
          BY <4>1, <4>3, <5>1
        <5> QED BY <4>1, <4>3, <5>2, <5>3
      <4> QED BY <4>2, <4>3
    <3> QED BY <1>6, <3>1, <3>2
  <2>5. /\ based' \in [Thread -> [Var -> Payload \cup {Nothing}]]
        /\ \A t \in Thread \ {s} : based'[t] = based[t]
        /\ \A u \in Var : based'[s][u] \in {origin[u], Nothing}
    BY <1>3, <2>4
  <2>6. ASSUME NEW u \in Var PROVE BasedOK(s, u)'
    <3> SUFFICES ASSUME based'[s][u] # Nothing
                 PROVE  /\ log'[s][u].kind = "ReadWrite"
                        /\ boxed'[log'[s][u].orig] = Arc(based'[s][u])
      BY <2>3 DEF BasedOK
    <3>1. based'[s][u] = origin[u]
      BY <2>5
    <3>2. CASE origin[u] = based[s][u]
      <4>1. log[s][u].kind = "ReadWrite" /\ boxed[log[s][u].orig] = Arc(based[s][u])
        BY <3>1, <3>2 DEF BasedInv, BasedOK
      <4>2. log'[s][u].kind = "ReadWrite" /\ log'[s][u].orig = log[s][u].orig
        BY <2>3, <4>1 DEF WriteUpgrade, Entry
      <4> QED BY <1>L, <2>1, <3>1, <3>2, <4>1, <4>2
    <3>3. CASE origin[u] # based[s][u]
      <4>1. u = v /\ ~IsWrite(log[s][v])
        BY <2>4, <3>3
      <4>2. PICK c \in calls :
              c.thread = s /\ c.var = v /\ c.op # "upgrade" /\ origin[v] = c.ref
        BY <2>4, <3>3
      <4>3. log[s][v].kind = "Read" /\ boxed[log[s][v].orig] = Arc(c.ref)
        BY <4>1, <4>2 DEF BasedInv, FoundOK, IsWrite
      <4>4. log'[s][v].kind = "ReadWrite" /\ log'[s][v].orig = log[s][v].orig
        BY <2>3, <4>3 DEF WriteUpgrade, Entry
      <4> QED BY <1>L, <2>1, <3>1, <4>1, <4>2, <4>3, <4>4
    <3> QED BY <3>2, <3>3
  <2>7. ASSUME NEW c \in calls' PROVE FoundOK(c)'
    <3>1. c \in calls /\ c.thread # s
      BY <1>6 DEF CallOver
    <3> QED BY <1>2, <1>T, <2>1, <2>3, <3>1
  <2> QED BY <1>1, <2>1, <2>3, <2>5, <2>6, <2>7 DEF BasedInv
<1>7. CASE UNCHANGED <<vars, pointers>>
  BY <1>4, <1>7 DEF pointers
<1> QED BY <1>4, <1>5, <1>6, <1>7, Shapes

LEMMA Based == PointersSpec => []BasedInv
<1>1. PointersInit => BasedInv
  BY DEF PointersInit, BasedInv, BasedOK
<1>2. /\ TypeOK /\ TwoPhase /\ PointersInv /\ BasedInv /\ [PointersNext]_<<vars, pointers>>
      => BasedInv'
  BY BasedStep
<1> QED BY <1>1, <1>2, Pointers, PTL DEF PointersSpec

(* The downcasts of tarc.rs and tweak.rs never fail: what a TArc holds is  *)
(* an Arc and what a TWeak holds is a Weak, whichever thread boxed it.     *)
THEOREM PointersTypeCorrect == PointersSpec => []PointersTypeOK
<1>1. TypeOK /\ PointersInv /\ BasedInv => PointersTypeOK
  BY DEF TypeOK, PointersInv, PointersTyped, PointersTypeOK, KindsKept, Kind, Slots, BasedInv
<1> QED BY <1>1, Pointers, Based, PTL

(* replace, update and modify_cow lose nobody's update, although between   *)
(* their read and their write the others may commit what they like: what   *)
(* is committed was computed from what the TArc holds at that moment.      *)
THEOREM NothingIsLost == PointersSpec => []NoLostUpdate
<1>1. TypeOK /\ TwoPhase /\ BasedInv => NoLostUpdate
  <2> SUFFICES ASSUME TypeOK, TwoPhase, BasedInv, NEW t \in Thread, NEW v \in Var,
                      pc[t] = "lock", todo[t] = {}, based[t][v] # Nothing
               PROVE  boxed[value[v]] = Arc(based[t][v])
    BY DEF NoLostUpdate
  <2>1. log[t][v].kind = "ReadWrite" /\ boxed[log[t][v].orig] = Arc(based[t][v])
    BY DEF BasedInv, BasedOK
  <2>2. log[t][v].orig = value[v]
    BY <2>1, CommitPoint DEF IsChecked
  <2> QED BY <2>1, <2>2
<1> QED BY <1>1, Pointers, Based, PTL

-----------------------------------------------------------------------------
(* Back-edges.  BackEdgesHold made inductive: a commit that is under way   *)
(* keeps them.                                                             *)
EdgesInv ==
  BackEdgesHold /\ \A t \in Thread : pc[t] = "lock" => KeepsBackEdges(t)

(* What KeepsBackEdges says of one back-edge.                              *)
LEMMA KeptEdge ==
  ASSUME NEW t \in Thread
  PROVE  KeepsBackEdges(t) <=>
           \A w \in DOMAIN Target :
             LET v == Target[w]
             IN  /\ IsWrite(log[t][v]) => IsWrite(log[t][w])
                 /\ IsWrite(log[t][w]) =>
                      \/ boxed[log[t][w].new].to = Nothing
                      \/ /\ IsWrite(log[t][v]) \/ IsChecked(log[t][v])
                         /\ boxed[log[t][w].new].to = boxed[ReadResult(log[t][v])].to
BY DEF KeepsBackEdges

LEMMA EdgeVars ==
  ASSUME NEW w \in DOMAIN Target
  PROVE  w \in Var /\ Target[w] \in Var /\ Target[w] \in TArcs
BY SmartPointersAssumption DEF TWeaks

LEMMA KeptSame ==
  ASSUME TypeOK, NEW t \in Thread, KeepsBackEdges(t), log'[t] = log[t],
         \A a \in Live : boxed'[a] = boxed[a]
  PROVE  KeepsBackEdges(t)'
<1>1. ASSUME NEW v \in Var
      PROVE  /\ IsWrite(log[t][v]) => boxed'[log[t][v].new] = boxed[log[t][v].new]
             /\ IsWrite(log[t][v]) \/ IsChecked(log[t][v])
                  => boxed'[ReadResult(log[t][v])] = boxed[ReadResult(log[t][v])]
  <2>1. log[t][v] \in LogVar
    BY DEF TypeOK, Log
  <2>2. /\ IsWrite(log[t][v]) => log[t][v].new \in Cells(log[t])
        /\ IsWrite(log[t][v]) \/ IsChecked(log[t][v])
             => ReadResult(log[t][v]) \in Cells(log[t])
    BY <2>1 DEF LogVar, Cells, ReadResult
  <2> QED BY <2>2, LiveCells
<1> HIDE DEF IsWrite, IsChecked, ReadResult
<1>2. ASSUME NEW w \in DOMAIN Target
      PROVE  LET v == Target[w]
             IN  /\ IsWrite(log'[t][v]) => IsWrite(log'[t][w])
                 /\ IsWrite(log'[t][w]) =>
                      \/ boxed'[log'[t][w].new].to = Nothing
                      \/ /\ IsWrite(log'[t][v]) \/ IsChecked(log'[t][v])
                         /\ boxed'[log'[t][w].new].to = boxed'[ReadResult(log'[t][v])].to
  BY <1>1, KeptEdge, EdgeVars
<1> QED BY <1>2 DEF KeepsBackEdges, IsWrite, IsChecked, ReadResult

LEMMA EdgesStep ==
  TypeOK /\ TwoPhase /\ PointersInv /\ EdgesInv /\ [PointersNext]_<<vars, pointers>>
    => EdgesInv'
<1> SUFFICES ASSUME TypeOK, TwoPhase, PointersInv, EdgesInv,
                    [PointersNext]_<<vars, pointers>>
             PROVE  EdgesInv'
  OBVIOUS
<1>0. ASSUME Committed' = Committed, \A a \in Live : boxed'[a] = boxed[a]
      PROVE  BackEdgesHold'
  <2> SUFFICES ASSUME NEW w \in DOMAIN Target
               PROVE  boxed'[Committed'[w]].to \in {Nothing, boxed'[Committed'[Target[w]]].to}
    BY DEF BackEdgesHold
  <2>1. Committed[w] \in Live /\ Committed[Target[w]] \in Live
    BY EdgeVars, CommittedIsSlot
  <2> QED BY <1>0, <2>1 DEF EdgesInv, BackEdgesHold
<1>1. ASSUME UNCHANGED <<vars, boxed>> PROVE EdgesInv'
  <2>1. Committed' = Committed
    BY <1>1 DEF Committed, vars, shared, control, local
  <2>2. BackEdgesHold'
    BY <1>0, <1>1, <2>1
  <2>3. pc' = pc /\ log' = log
    BY <1>1 DEF vars, control, local
  <2> QED BY <1>1, <2>2, <2>3, KeptSame DEF EdgesInv
<1>2. ASSUME NEW s \in Thread, NEW v \in Var, NEW ref \in Ref, WriteRef(s, v, ref)
      PROVE  EdgesInv'
  <2>1. \A a \in Live : boxed'[a] = boxed[a]
    BY <1>2, BoxesKept
  <2>2. UserStep(s) /\ pc' = pc /\ pc[s] = "run"
        /\ \A t \in Thread \ {s} : log'[t] = log[t]
    BY <1>2 DEF WriteRef, UserStep, Write, control, TypeOK
  <2>3. ~ReleaseReads(s) /\ \A u \in Var : ~WriteAtomic(s, u)
    BY <2>2 DEF ReleaseReads, WriteAtomic, Goto
  <2>4. Committed' = Committed
    BY <2>2, <2>3, MemoryKept
  <2>5. BackEdgesHold'
    BY <1>0, <2>1, <2>4
  <2>6. ASSUME NEW t \in Thread, pc'[t] = "lock" PROVE KeepsBackEdges(t)'
    BY <2>1, <2>2, <2>6, KeptSame DEF EdgesInv
  <2> QED BY <2>5, <2>6 DEF EdgesInv
<1>3. ASSUME NEW s \in Thread, Plain(s), boxed' = boxed, Commit(s) => KeepsBackEdges(s)
      PROVE  EdgesInv'
  <2>1. LibraryStep(s) \/ UserStep(s)
    BY <1>3, PlainStep
  <2>2. ASSUME NEW t \in Thread, pc'[t] = "lock" PROVE KeepsBackEdges(t)'
    <3>1. CASE t = s
      BY <1>3, <2>2, <3>1, ToLock, KeptSame DEF EdgesInv
    <3>2. CASE t # s
      <4>1. pc'[t] = pc[t] /\ log'[t] = log[t]
        BY <2>1, <3>2, StepsApart DEF Elsewhere
      <4> QED BY <1>3, <2>2, <4>1, KeptSame DEF EdgesInv
    <3> QED BY <3>1, <3>2
  <2>3. BackEdgesHold'
    <3>1. CASE ~ReleaseReads(s)
      <4>1. \A u \in Var : ~WriteAtomic(s, u)
        BY DEF PointersInv, NobodySets, WriteAtomic, Goto
      <4> QED BY <1>0, <1>3, <2>1, <3>1, <4>1, MemoryKept
    <3>2. CASE ReleaseReads(s)
      <4> SUFFICES ASSUME NEW w \in DOMAIN Target
                   PROVE  boxed[Committed'[w]].to
                            \in {Nothing, boxed[Committed'[Target[w]]].to}
        BY <1>3 DEF BackEdgesHold
      <4> DEFINE v == Target[w]
      <4>1. pc[s] = "lock" /\ todo[s] = {} /\ w \in Var /\ v \in Var
        BY <3>2, EdgeVars DEF ReleaseReads, Goto
      <4>2. KeepsBackEdges(s)
        BY <4>1 DEF EdgesInv
      <4>3. /\ Committed'[w] = IF IsWrite(log[s][w]) THEN log[s][w].new ELSE Committed[w]
            /\ Committed'[v] = IF IsWrite(log[s][v]) THEN log[s][v].new ELSE Committed[v]
        BY <3>2, <4>1, CommitEffect
      <4>4. IsChecked(log[s][v]) => log[s][v].orig = Committed[v]
        BY <4>1, CommitPoint
      <4>5. IsWrite(log[s][v]) \/ IsChecked(log[s][v])
              => ReadResult(log[s][v]) = Committed'[v]
        BY <4>3, <4>4 DEF ReadResult
      <4>6. boxed[Committed[w]].to \in {Nothing, boxed[Committed[v]].to}
        BY DEF EdgesInv, BackEdgesHold
      <4>7. /\ IsWrite(log[s][v]) => IsWrite(log[s][w])
            /\ IsWrite(log[s][w]) =>
                 \/ boxed[log[s][w].new].to = Nothing
                 \/ /\ IsWrite(log[s][v]) \/ IsChecked(log[s][v])
                    /\ boxed[log[s][w].new].to = boxed[ReadResult(log[s][v])].to
        BY <4>2, KeptEdge
      <4> HIDE DEF v
      <4>8. boxed[Committed'[w]].to \in {Nothing, boxed[Committed'[v]].to}
        <5>1. CASE IsWrite(log[s][w])
          BY <4>3, <4>5, <4>7, <5>1
        <5>2. CASE ~IsWrite(log[s][w])
          BY <4>3, <4>6, <4>7, <5>2
        <5> QED BY <5>1, <5>2
      <4> QED BY <4>8 DEF v
    <3> QED BY <3>1, <3>2
  <2> QED BY <2>2, <2>3 DEF EdgesInv
<1>4. CASE UNCHANGED <<vars, pointers>>
  BY <1>1, <1>4 DEF pointers
<1> QED BY <1>1, <1>2, <1>3, <1>4, Shapes

LEMMA EdgesStart == PointersInit => EdgesInv
<1> SUFFICES ASSUME PointersInit, NEW w \in DOMAIN Target
             PROVE  boxed[Committed[w]].to \in {Nothing, boxed[Committed[Target[w]]].to}
  BY DEF EdgesInv, BackEdgesHold, PointersInit, Init
<1>1. PICK made \in [Var -> Ref] :
        /\ \A v \in Var : made[v] \in IF v \in TArcs THEN NewTArc(v) ELSE NewTWeak(v)
        /\ boxed = [a \in Addr |-> IF \E v \in Var : InitValue[v] = a
                                   THEN made[CHOOSE v \in Var : InitValue[v] = a]
                                   ELSE Weak(Nothing)]
  BY DEF PointersInit
<1>2. ASSUME NEW v \in Var PROVE boxed[Committed[v]] = made[v]
  <2>1. InitValue[v] \in Addr /\ \A u \in Var : InitValue[u] = InitValue[v] => u = v
    BY ConstantsAssumption
  <2>2. (CHOOSE u \in Var : InitValue[u] = InitValue[v]) = v
    BY <2>1
  <2>3. Committed[v] = InitValue[v]
    BY DEF PointersInit, Init, Committed
  <2> QED BY <1>1, <2>1, <2>2, <2>3
<1>3. w \in Var \ TArcs /\ Target[w] \in Var /\ Target[w] \in TArcs
  BY SmartPointersAssumption DEF TWeaks
<1>4. made[Target[w]] = Arc(InitPayload[Target[w]])
  BY <1>1, <1>3 DEF NewTArc
<1>5. made[w] \in {Weak(Nothing), Weak(InitPayload[Target[w]])}
  BY <1>1, <1>3 DEF NewTWeak
<1> QED BY <1>2, <1>3, <1>4, <1>5 DEF Arc, Weak

LEMMA Edges == PointersSpec => []EdgesInv
<1>1. /\ TypeOK /\ TwoPhase /\ PointersInv /\ EdgesInv /\ [PointersNext]_<<vars, pointers>>
      => EdgesInv'
  BY EdgesStep
<1> QED BY <1>1, EdgesStart, Pointers, PTL DEF PointersSpec

(* Whoever changes what a back-edge leads to changes the back-edge in the  *)
(* same transaction, and takes what he makes it lead to from what he has   *)
(* read or written himself (KeepsBackEdges): then, however the reads, the  *)
(* computations and the writes of TArc and TWeak interleave, no back-edge  *)
(* in committed memory ever leads elsewhere.                               *)
THEOREM BackEdgesAreKept == PointersSpec => []BackEdgesHold
<1>1. EdgesInv => BackEdgesHold
  BY DEF EdgesInv
<1> QED BY <1>1, Edges, PTL

-----------------------------------------------------------------------------
(* Upgrades.  A value that is dead stays dead while there is a Weak to it. *)
LEMMA BoxesAreSlots ==
  /\ \A a \in Boxes : \E v \in Var : a \in Slots(v)
  /\ \A a \in Boxes' : \E v \in Var : a \in Slots(v)'
<1>1. \A a \in Boxes : \E v \in Var : a \in Slots(v)
  BY DEF Boxes, Live, Slots, Cells, Loaded, Made, Entries, Saved
<1>2. \A a \in Boxes' : \E v \in Var : a \in Slots(v)'
  BY DEF Boxes, Live, Slots, Cells, Loaded, Made, Entries, Saved
<1> QED BY <1>1, <1>2

LEMMA BoxesShrink ==
  ASSUME TypeOK, TwoPhase, PointersInv, NEW s \in Thread, Plain(s)
  PROVE  Boxes' \subseteq Boxes
BY SlotsStep, SlotsAreLive, BoxesAreSlots DEF PointersInv, NobodySets, Boxes

LEMMA BoxesGrow ==
  ASSUME TypeOK, NEW s \in Thread, NEW v \in Var, Write(s, v)
  PROVE  Boxes' \subseteq Boxes \cup {log'[s][v].new}
BY SlotsWrite, SlotsAreLive, BoxesAreSlots DEF Boxes

LEMMA NotRevived ==
  ASSUME NEW p, ~Alive(p),
         \A b \in Boxes' : (b \in Boxes /\ boxed'[b] = boxed[b]) \/ boxed'[b] # Arc(p),
         \A t \in Thread : p \in owned'[t] => p \in owned[t],
         \A c \in calls' : c \in calls \/ c.op = "upgrade" \/ c.ref # p
  PROVE  ~Alive(p)'
BY DEF Alive, HasArc

LEMMA UnusedPayload ==
  ASSUME NEW a \in Boxes
  PROVE  boxed[a].to \notin NewPayload
<1> DEFINE used == {boxed[b].to : b \in Boxes} \cup (UNION {owned[t] : t \in Thread})
                     \cup {c.ref : c \in calls}
<1>1. Payload \ used \in SUBSET Addr
  BY SmartPointersAssumption
<1>2. Alloc(Payload \ used) \subseteq Payload \ used
  BY <1>1, AllocAssumption
<1> QED BY <1>2 DEF NewPayload

LEMMA DeadStays ==
  ASSUME TypeOK, TwoPhase, PointersInv, [PointersNext]_<<vars, pointers>>,
         NEW a \in Boxes, NEW p, p = boxed[a].to, ~Alive(p)
  PROVE  ~Alive(p)'
<1>T. PointersTyped /\ \A c \in calls : CallTyped(c)
  BY DEF PointersInv, PointersTyped
<1>D. /\ \A b \in Boxes : boxed[b] # Arc(p)
      /\ \A t \in Thread : p \notin owned[t]
      /\ \A c \in calls : c.op # "upgrade" => c.ref # p
  BY DEF Alive, HasArc
<1>0. ASSUME UNCHANGED <<vars, boxed>>, \A t \in Thread : p \in owned'[t] => p \in owned[t],
             calls' \subseteq calls
      PROVE  ~Alive(p)'
  <2>1. Boxes' = Boxes
    BY <1>0 DEF Boxes, Live, vars, shared, local
  <2> QED BY <1>0, <2>1, NotRevived
<1>1. CASE UNCHANGED <<vars, pointers>>
  BY <1>0, <1>1 DEF pointers
<1>2. ASSUME NEW t \in Thread, Other(t) \/ PanicInCall(t), UNCHANGED <<boxed, owned>>
      PROVE  ~Alive(p)'
  <2>1. Plain(t) /\ calls' \subseteq calls
    BY <1>2 DEF Other, PanicInCall, Plain
  <2> QED BY <1>2, <2>1, BoxesShrink, NotRevived
<1>3. ASSUME NEW t \in Thread, NEW v \in Var, ReadArc(t, v) PROVE ~Alive(p)'
  <2>1. (ReadShared(t, v) \/ ReadLogged(t, v)) /\ Plain(t)
    BY <1>3 DEF ReadArc, Read, Plain
  <2>2. PICK b \in Boxes : Result(t, v) = boxed[b]
    BY <2>1, ReadReturns DEF Result
  <2>3. Result(t, v) = Arc(Result(t, v).to)
    BY <1>3, <2>1, ReadReturns, Refs DEF ReadArc, Kind
  <2>4. Result(t, v).to # p
    BY <1>D, <2>2, <2>3
  <2>5. \A u \in Thread : p \in owned'[u] => p \in owned[u]
    BY <1>3, <1>T, <2>4 DEF ReadArc, PointersTyped
  <2> QED BY <1>3, <2>1, <2>5, BoxesShrink, NotRevived DEF ReadArc
<1>4. ASSUME NEW t \in Thread, NEW v \in Var, NEW op \in Reading, ReadFirst(t, v, op)
      PROVE  ~Alive(p)'
  <2>1. (ReadShared(t, v) \/ ReadLogged(t, v)) /\ Plain(t)
    BY <1>4 DEF ReadFirst, Read, Plain
  <2>2. PICK b \in Boxes : Result(t, v) = boxed[b]
    BY <2>1, ReadReturns DEF Result
  <2>3. op # "upgrade" => Result(t, v) = Arc(Result(t, v).to)
    BY <1>4, <2>1, ReadReturns, Refs DEF ReadFirst, Kind, TWeaks
  <2>4. op # "upgrade" => Result(t, v).to # p
    BY <1>D, <2>2, <2>3
  <2>5. \A c \in calls' : c \in calls \/ c.op = "upgrade" \/ c.ref # p
    BY <1>4, <2>4 DEF ReadFirst
  <2> QED BY <1>4, <2>1, <2>5, BoxesShrink, NotRevived DEF ReadFirst
<1>5. ASSUME NEW t \in Thread, NEW v \in Var, NEW ref, WriteRef(t, v, ref), ref # Arc(p),
             \A u \in Thread : p \in owned'[u] => p \in owned[u], calls' \subseteq calls
      PROVE  ~Alive(p)'
  <2> DEFINE n == log'[t][v].new
  <2>1. n \in Addr \ Live /\ Boxes' \subseteq Boxes \cup {n}
    BY <1>5, SlotsWrite, BoxesGrow DEF WriteRef
  <2>2. boxed' = [boxed EXCEPT ![n] = ref]
    BY <1>5 DEF WriteRef
  <2> HIDE DEF n
  <2>3. \A b \in Boxes' : (b \in Boxes /\ boxed'[b] = boxed[b]) \/ boxed'[b] # Arc(p)
    BY <1>5, <1>T, <2>1, <2>2 DEF PointersTyped, Boxes
  <2> QED BY <1>5, <2>3, NotRevived
<1>6. ASSUME NEW t \in Thread, NEW v \in Var, WriteArc(t, v) PROVE ~Alive(p)'
  <2>1. PICK q : WriteRef(t, v, Arc(q)) /\ (q \in owned[t] \/ q \in NewPayload)
    BY <1>6 DEF WriteArc
  <2>2. q # p
    BY <1>D, <2>1, UnusedPayload
  <2> QED BY <1>5, <1>6, <2>1, <2>2 DEF WriteArc, Arc
<1>7. ASSUME NEW t \in Thread, NEW v \in Var, WriteWeak(t, v) PROVE ~Alive(p)'
  <2>1. PICK q : WriteRef(t, v, Weak(q))
    BY <1>7 DEF WriteWeak
  <2> QED BY <1>5, <1>7, <2>1 DEF WriteWeak, Arc, Weak
<1>8. ASSUME NEW c \in calls, Replace(c) \/ Update(c) \/ ModifyCow(c) PROVE ~Alive(p)'
  <2>1. c.thread \in Thread /\ c.var \in Var /\ c.op # "upgrade" /\ c.ref # p
    BY <1>8, <1>D, <1>T DEF Replace, Update, ModifyCow, PointersTyped, Call
  <2>2. PICK q : /\ WriteRef(c.thread, c.var, Arc(q))
                 /\ q \in owned[c.thread] \/ q \in NewPayload \/ q = c.ref
    BY <1>8 DEF Replace, Update, ModifyCow, WriteLast, MakeMut
  <2>3. q # p
    BY <1>D, <2>1, <2>2, UnusedPayload
  <2>4. \A u \in Thread : p \in owned'[u] => p \in owned[u]
    BY <1>8, <1>T, <2>1 DEF Replace, Update, ModifyCow, PointersTyped
  <2>5. calls' \subseteq calls
    BY <1>8 DEF Replace, Update, ModifyCow, WriteLast
  <2> QED BY <1>5, <2>1, <2>2, <2>3, <2>4, <2>5 DEF Arc
<1>9. ASSUME NEW c \in calls, Upgrade(c) PROVE ~Alive(p)'
  <2>1. \A u \in Thread : p \in owned'[u] => p \in owned[u]
    BY <1>9, <1>T DEF Upgrade, PointersTyped
  <2> QED BY <1>0, <1>9, <2>1 DEF Upgrade
<1>10. ASSUME NEW t \in Thread, NEW v \in Var, ReadAtomic(t, v) PROVE ~Alive(p)'
  <2>1. value[v] \in Slots(v) /\ v \in TArcs /\ boxed[value[v]] \in Ref
    BY <1>10, <1>T DEF Slots, ReadAtomic, TypeOK, PointersTyped
  <2>2. value[v] \in Boxes
    BY <2>1, SlotsAreLive, NullAssumption DEF Boxes
  <2>3. boxed[value[v]] = Arc(boxed[value[v]].to)
    BY <2>1, Refs DEF PointersInv, KindsKept, Kind
  <2>4. boxed[value[v]].to # p
    BY <1>D, <2>2, <2>3
  <2>5. \A u \in Thread : p \in owned'[u] => p \in owned[u]
    BY <1>10, <1>T, <2>4 DEF ReadAtomic, LoadAtomic, PointersTyped
  <2> QED BY <1>0, <1>10, <2>5 DEF ReadAtomic
<1>11. ASSUME NEW t \in Thread, NEW q \in Payload, Release(t, q) PROVE ~Alive(p)'
  <2>1. \A u \in Thread : p \in owned'[u] => p \in owned[u]
    BY <1>11, <1>T DEF Release, PointersTyped
  <2> QED BY <1>0, <1>11, <2>1 DEF Release
<1> QED
  BY <1>1, <1>2, <1>3, <1>4, <1>6, <1>7, <1>8, <1>9, <1>10, <1>11 DEF PointersNext

(* An upgrade that returned None: what the log remembers of the TWeak is a *)
(* Weak to a dead value, and so is what the TWeak holds while the thread   *)
(* sleeps, unless it was changed.                                          *)
Awake == {"idle", "run", "retry", "lock"}

Remembers(t, w, p) ==
  obs[t][w] # Null /\ log[t][w].orig # Null /\ boxed[log[t][w].orig].to = p

Dead(t, w) == log[t][w].orig # Null /\ ~Alive(boxed[log[t][w].orig].to)

FailedOK(t, w) ==
  /\ obs[t][w] # Null
  /\ pc[t] \in Awake => Dead(t, w)
  /\ pc[t] \in {"wait", "check", "park"} =>
       /\ seen[t][w] # {}
       /\ \/ w \in todo[t] /\ Dead(t, w)
          \/ /\ w \in reads[t] /\ w \notin todo[t]
             /\ Outdated(t, w) \/ ~Alive(boxed[value[w]].to)

FailedInv == \A t \in Thread : \A w \in failed[t] : FailedOK(t, w)

UpgradesInv ==
  \A c \in calls :
    c.op = "upgrade" /\ intent[c.thread][c.var] = Null => Remembers(c.thread, c.var, c.ref)

(* What was read stays in the log as long as the path goes on.             *)
LEMMA OrigKept ==
  ASSUME TypeOK, FaithfulInv, RootedInv, NobodySets, NEW s \in Thread,
         Plain(s) \/ \E v \in Var : Write(s, v),
         NEW w \in Var, obs'[s][w] # Null, pc'[s] \in Awake,
         pc[s] \in Awake => log[s][w].orig # Null
  PROVE  pc[s] \in Awake /\ log'[s][w].orig = log[s][w].orig
<1> DEFINE Goal == pc[s] \in Awake /\ log'[s][w].orig = log[s][w].orig
<1> USE DEF Goto, shared, control, local, blocking, history, TypeOK, Awake
<1>1. CASE \/ Begin(s) \/ Or(s) \/ Retry(s) \/ Commit(s)
  BY <1>1 DEF Begin, Or, Retry, Commit
<1>2. CASE \/ ReleaseReads(s) \/ StartWaking(s) \/ WaitForChange(s) \/ Unblocked(s)
  BY <1>2 DEF ReleaseReads, StartWaking, WaitForChange, Unblocked
<1>3. CASE \/ CommitDone(s) \/ WaitDone(s) \/ Abort(s) \/ Failure(s) \/ Panic(s)
           \/ Inconsistent(s)
  BY <1>3 DEF CommitDone, WaitDone, Abort, Failure, Panic, Inconsistent, Clear, EmptyView
<1>4. ASSUME NEW v \in Var,
             \/ SkipObsolete(s, v) \/ LockRead(s, v) \/ AnnounceWrite(s, v) \/ LockWrite(s, v)
             \/ WriteBack(s, v) \/ TakeWaiting(s, v) \/ Register(s, v) \/ Compare(s, v)
      PROVE  Goal
  <2>1. CASE ~Inconsistent(s)
    BY <1>4, <2>1
    DEF SkipObsolete, LockRead, AnnounceWrite, LockWrite, WriteBack, TakeWaiting, Register,
        Compare
  <2> QED BY <1>3, <2>1
<1>5. ASSUME NEW v \in Var PROVE ~WriteAtomic(s, v)
  BY DEF WriteAtomic, NobodySets
<1>6. CASE \E u \in Thread : SetChanged(s, u)
  BY <1>6 DEF SetChanged
<1>7. ASSUME NEW v \in Var, ReadShared(s, v) \/ ReadLogged(s, v) \/ Write(s, v)
      PROVE  Goal
  <2>1. pc[s] = "run" /\ log[s][v] \in LogVar
    BY <1>7 DEF ReadShared, ReadLogged, Write, Log
  <2>2. log[s][w].orig # Null
    BY <2>1
  <2>3. CASE ReadShared(s, v)
    BY <2>1, <2>2, <2>3 DEF ReadShared, Vacant, Entry
  <2>4. CASE ReadLogged(s, v)
    BY <2>1, <2>4 DEF ReadLogged, ReadUpgrade, LogVar, Log
  <2>5. CASE Write(s, v)
    BY <2>1, <2>5 DEF Write, WriteUpgrade, Entry, Log
  <2> QED BY <1>7, <2>3, <2>4, <2>5
<1>8. CASE OrOk(s) \/ OrBlocked(s)
  <2>1. pc[s] \in Awake /\ log[s][w].orig # Null
    BY <1>8 DEF OrOk, OrBlocked
  <2>2. log'[s][w] = log[s][w]
    BY <1>8, <2>1 DEF OrOk, OrBlocked, Combine, Vacant, Entry, Log
  <2> QED BY <2>1, <2>2
<1>9. CASE OrSecond(s)
  <2> DEFINE f == Head(frames[s])
  <2>1. /\ frames[s] # <<>> /\ f.stage = "first" /\ pc[s] = "retry"
        /\ log'[s] = f.saved /\ obs'[s] = f.obs
    BY <1>9 DEF OrSecond
  <2>2. Rooted(frames[s], log[s], w) /\ frames[s] \in Seq(Frame)
    BY DEF RootedInv
  <2>3. f.saved[w].orig \in {Null, log[s][w].orig}
    BY <2>1, <2>2, RootedPop
  <2>4. Faithful(f.saved, f.obs, f.intent)
    <3>1. Copies(frames[s]) /\ frames[s] \in Seq(Frame)
      BY DEF FaithfulInv
    <3> QED BY <2>1, <3>1, CopiesPop
  <2>5. f.saved[w].orig # Null
    BY <2>1, <2>4 DEF Faithful
  <2> QED BY <2>1, <2>3, <2>5
<1> QED
  BY <1>1, <1>2, <1>3, <1>4, <1>5, <1>6, <1>7, <1>8, <1>9 DEF Plain, LibraryStep

(* A thread that goes to sleep, or goes on doing so, remembers what it has *)
(* yet to compare and has compared the rest.                               *)
LEMMA FallsAsleep ==
  ASSUME TypeOK, KnownInv, NEW s \in Thread, Plain(s),
         pc'[s] \in {"wait", "check", "park"}, NEW w \in Var, FailedOK(s, w)
  PROVE  /\ pc[s] \in {"retry", "wait", "check", "park"}
         /\ seen'[s][w] # {} /\ value' = value
         /\ \/ w \in todo'[s] /\ log'[s][w].orig = log[s][w].orig
               /\ (pc[s] # "retry" => w \in todo[s] /\ Dead(s, w))
            \/ /\ w \in reads'[s] /\ w \notin todo'[s]
               /\ \/ stale'[s][w] # {} \/ ~Alive(boxed[value[w]].to)
                  \/ value[w] = log[s][w].orig /\ Dead(s, w)
<1> DEFINE Goal ==
      /\ pc[s] \in {"retry", "wait", "check", "park"}
      /\ seen'[s][w] # {} /\ value' = value
      /\ \/ w \in todo'[s] /\ log'[s][w].orig = log[s][w].orig
            /\ (pc[s] # "retry" => w \in todo[s] /\ Dead(s, w))
         \/ /\ w \in reads'[s] /\ w \notin todo'[s]
            /\ \/ stale'[s][w] # {} \/ ~Alive(boxed[value[w]].to)
               \/ value[w] = log[s][w].orig /\ Dead(s, w)
<1> USE DEF Goto, shared, control, local, blocking, history, TypeOK
<1>1. CASE WaitForChange(s)
  <2>1. pc[s] = "retry" /\ log[s][w].orig # Null /\ log[s][w] \in LogVar
    BY <1>1 DEF WaitForChange, FailedOK, Awake, Dead, Log
  <2>2. log[s][w].orig \in seen[s][w]
    BY <2>1 DEF KnownInv, KnownOK, Known, Loaded, Entries
  <2>3. HasReadValue(log[s][w])
    BY <2>1 DEF LogVar
  <2>4. w \in todo'[s] /\ log'[s][w].orig = log[s][w].orig
    BY <1>1, <2>3 DEF WaitForChange, Obsolete, Entry
  <2> QED BY <1>1, <2>1, <2>2, <2>4 DEF WaitForChange
<1>2. ASSUME NEW v \in Var, Register(s, v) PROVE Goal
  BY <1>2 DEF Register, FailedOK, Outdated
<1>3. ASSUME NEW v \in Var, Compare(s, v) PROVE Goal
  <2>1. value[v] = log[s][v].orig /\ pc[s] = "check" /\ v \in todo[s]
    BY <1>3 DEF Compare, IsNext
  <2>2. /\ UNCHANGED <<value, seen>> /\ \A u \in Var \ {v} : stale'[s][u] = stale[s][u]
        /\ todo'[s] = todo[s] \ {v} /\ reads'[s] = reads[s] \cup {v}
        /\ log'[s] = [log[s] EXCEPT ![v] = Vacant]
    BY <1>3, <2>1 DEF Compare, Visited, Loads
  <2>3. seen[s][w] # {}
    BY <2>1 DEF FailedOK
  <2>4. CASE w \in todo[s] /\ Dead(s, w)
    <3>1. CASE w = v
      BY <2>1, <2>2, <2>3, <2>4, <3>1
    <3>2. CASE w # v
      BY <2>1, <2>2, <2>3, <2>4, <3>2 DEF Log
    <3> QED BY <3>1, <3>2
  <2>5. CASE /\ w \in reads[s] /\ w \notin todo[s]
             /\ Outdated(s, w) \/ ~Alive(boxed[value[w]].to)
    BY <2>1, <2>2, <2>3, <2>5 DEF Outdated
  <2> QED BY <2>1, <2>4, <2>5 DEF FailedOK
<1>4. CASE \/ OrSecond(s) \/ OrBlocked(s) \/ ReleaseReads(s) \/ StartWaking(s)
           \/ CommitDone(s) \/ Unblocked(s) \/ WaitDone(s)
           \/ Begin(s) \/ Or(s) \/ OrOk(s) \/ Retry(s) \/ Abort(s) \/ Failure(s)
           \/ Panic(s) \/ Commit(s) \/ \E v \in Var : ReadShared(s, v) \/ ReadLogged(s, v)
  BY <1>4
  DEF OrSecond, OrBlocked, ReleaseReads, StartWaking, CommitDone, Unblocked, WaitDone, Begin,
      Or, OrOk, Retry, Abort, Failure, Panic, Commit, ReadShared, ReadLogged
<1>5. ASSUME NEW v \in Var,
             \/ SkipObsolete(s, v) \/ LockRead(s, v) \/ AnnounceWrite(s, v) \/ LockWrite(s, v)
             \/ WriteBack(s, v) \/ TakeWaiting(s, v) \/ WriteAtomic(s, v)
      PROVE  Goal
  BY <1>5
  DEF SkipObsolete, LockRead, AnnounceWrite, LockWrite, WriteBack, TakeWaiting, WriteAtomic,
      Inconsistent
<1>6. CASE \E u \in Thread : SetChanged(s, u)
  BY <1>6 DEF SetChanged
<1> QED BY <1>1, <1>2, <1>3, <1>4, <1>5, <1>6 DEF Plain, LibraryStep

(* What is dead and in reach of a Weak stays what it is, and dead.         *)
LEMMA StaysDead ==
  ASSUME TypeOK, TwoPhase, PointersInv, [PointersNext]_<<vars, pointers>>,
         NEW a \in Boxes, ~Alive(boxed[a].to)
  PROVE  boxed'[a] = boxed[a] /\ ~Alive(boxed[a].to)'
<1>1. boxed'[a] = boxed[a]
  <2>1. CASE UNCHANGED <<vars, pointers>>
    BY <2>1 DEF pointers
  <2>2. CASE PointersNext
    <3>1. a \in Live
      BY DEF Boxes
    <3>2. ASSUME NEW s \in Thread, NEW v \in Var, NEW ref \in Ref, WriteRef(s, v, ref)
          PROVE  boxed'[a] = boxed[a]
      BY <3>1, <3>2, BoxesKept
    <3> QED BY <2>2, <3>2, Shapes
  <2> QED BY <2>1, <2>2
<1>2. PICK p : p = boxed[a].to
  OBVIOUS
<1>3. ~Alive(p)'
  BY <1>2, DeadStays
<1>4. p = boxed'[a].to
  BY <1>1, <1>2
<1> QED BY <1>1, <1>3, <1>4

(* A thread that a step leaves alone is as well informed as before.        *)
LEMMA FailedApart ==
  ASSUME TypeOK, TwoPhase, PointersInv, [PointersNext]_<<vars, pointers>>,
         NEW t \in Thread, NEW w \in Var, FailedOK(t, w),
         pc'[t] = pc[t], log'[t] = log[t], todo'[t] = todo[t], reads'[t] = reads[t],
         seen'[t] = seen[t], obs'[t] = obs[t],
         \/ value'[w] = value[w] /\ stale'[t][w] = stale[t][w]
         \/ stale'[t][w] = seen[t][w]
  PROVE  FailedOK(t, w)'
<1>1. Dead(t, w) => Dead(t, w)'
  <2> SUFFICES ASSUME Dead(t, w) PROVE Dead(t, w)'
    OBVIOUS
  <2>1. PICK a : a = log[t][w].orig
    OBVIOUS
  <2>2. a # Null /\ a \in Boxes /\ ~Alive(boxed[a].to)
    BY <2>1, LiveCells DEF Dead, Boxes, Cells
  <2>3. ~Alive(boxed[a].to)'
    BY <2>2, StaysDead
  <2>4. a = log'[t][w].orig
    BY <2>1
  <2> QED BY <2>2, <2>3, <2>4 DEF Dead
<1>2. ~Alive(boxed[value[w]].to) /\ value'[w] = value[w] => ~Alive(boxed[value[w]].to)'
  <2> SUFFICES ASSUME ~Alive(boxed[value[w]].to), value'[w] = value[w]
               PROVE  ~Alive(boxed[value[w]].to)'
    OBVIOUS
  <2>1. PICK a : a = value[w]
    OBVIOUS
  <2>2. a \in Boxes /\ ~Alive(boxed[a].to)
    BY <2>1, NullAssumption DEF Boxes, Live, TypeOK
  <2>3. ~Alive(boxed[a].to)'
    BY <2>2, StaysDead
  <2>4. a = value'[w]
    BY <2>1
  <2> QED BY <2>3, <2>4
<1> QED BY <1>1, <1>2 DEF FailedOK, Outdated

(* The thread that takes the step: ...                                     *)
LEMMA FailedActor ==
  ASSUME TypeOK, TwoPhase, PointersInv, [PointersNext]_<<vars, pointers>>,
         FaithfulInv, KnownInv, RootedInv,
         NEW s \in Thread, Plain(s) \/ \E v \in Var : Write(s, v),
         NEW w \in Var, FailedOK(s, w), obs'[s][w] # Null
  PROVE  FailedOK(s, w)'
<1>0. ASSUME NEW a, a \in Cells(log[s]) \/ a = value[w], a # Null, ~Alive(boxed[a].to)
      PROVE  ~Alive(boxed[a].to)'
  <2>1. a \in Boxes
    BY <1>0, LiveCells DEF Boxes, Live
  <2> QED BY <1>0, <2>1, StaysDead
<1>1. ASSUME Dead(s, w), log'[s][w].orig = log[s][w].orig
      PROVE  Dead(s, w)'
  <2>1. PICK a : a = log[s][w].orig
    OBVIOUS
  <2>2. a # Null /\ a \in Cells(log[s]) /\ ~Alive(boxed[a].to)
    BY <1>1, <2>1 DEF Dead, Cells
  <2>3. ~Alive(boxed[a].to)'
    BY <1>0, <2>2
  <2>4. a = log'[s][w].orig
    BY <1>1, <2>1
  <2> QED BY <2>2, <2>3, <2>4 DEF Dead
<1>2. CASE pc'[s] \in Awake
  <2>1. pc[s] \in Awake => Dead(s, w) /\ log[s][w].orig # Null
    BY DEF FailedOK, Dead
  <2>2. pc[s] \in Awake /\ log'[s][w].orig = log[s][w].orig
    BY <1>2, <2>1, OrigKept DEF PointersInv
  <2>3. Dead(s, w)'
    BY <1>1, <2>1, <2>2
  <2> QED BY <1>2, <2>3 DEF FailedOK, Awake
<1>3. CASE pc'[s] \in {"wait", "check", "park"}
  <2>1. Plain(s)
    <3>1. ASSUME NEW v \in Var, Write(s, v) PROVE pc'[s] = "run"
      BY <3>1 DEF Write, control
    <3> QED BY <1>3, <3>1
  <2>2. /\ pc[s] \in {"retry", "wait", "check", "park"}
        /\ seen'[s][w] # {} /\ value' = value
        /\ \/ w \in todo'[s] /\ log'[s][w].orig = log[s][w].orig
              /\ (pc[s] # "retry" => w \in todo[s] /\ Dead(s, w))
           \/ /\ w \in reads'[s] /\ w \notin todo'[s]
              /\ \/ stale'[s][w] # {} \/ ~Alive(boxed[value[w]].to)
                 \/ value[w] = log[s][w].orig /\ Dead(s, w)
    BY <1>3, <2>1, FallsAsleep
  <2>3. pc[s] = "retry" => Dead(s, w)
    BY DEF FailedOK, Awake
  <2>4. ASSUME ~Alive(boxed[value[w]].to) PROVE ~Alive(boxed[value[w]].to)'
    <3>1. PICK a : a = value[w]
      OBVIOUS
    <3>2. a # Null /\ ~Alive(boxed[a].to)
      BY <2>4, <3>1, NullAssumption DEF TypeOK
    <3>3. ~Alive(boxed[a].to)'
      BY <1>0, <3>1, <3>2
    <3>4. a = value'[w]
      BY <2>2, <3>1
    <3> QED BY <3>3, <3>4
  <2>5. CASE w \in todo'[s] /\ log'[s][w].orig = log[s][w].orig
             /\ (pc[s] # "retry" => w \in todo[s] /\ Dead(s, w))
    BY <1>1, <1>3, <2>2, <2>3, <2>5 DEF FailedOK, Awake
  <2>6. CASE /\ w \in reads'[s] /\ w \notin todo'[s]
             /\ stale'[s][w] # {} \/ ~Alive(boxed[value[w]].to)
    BY <1>3, <2>2, <2>4, <2>6 DEF FailedOK, Awake, Outdated
  <2> QED BY <2>2, <2>5, <2>6 DEF Dead
<1>4. CASE pc'[s] \notin Awake \cup {"wait", "check", "park"}
  BY <1>4 DEF FailedOK
<1> QED BY <1>2, <1>3, <1>4

LEMMA UpgradesStep ==
  /\ TypeOK /\ TwoPhase /\ PointersInv /\ FaithfulInv /\ UpgradesInv
  /\ [PointersNext]_<<vars, pointers>>
  => UpgradesInv'
<1> SUFFICES ASSUME TypeOK, TwoPhase, PointersInv, FaithfulInv, UpgradesInv,
                    [PointersNext]_<<vars, pointers>>,
                    NEW c \in calls', c.op = "upgrade", intent'[c.thread][c.var] = Null
             PROVE  Remembers(c.thread, c.var, c.ref)'
  BY DEF UpgradesInv
<1>1. \A d \in calls : d.thread \in Thread /\ d.var \in Var
  BY DEF PointersInv, PointersTyped, Call
<1>2. ASSUME UNCHANGED <<vars, boxed>>, calls' \subseteq calls
      PROVE  Remembers(c.thread, c.var, c.ref)'
  BY <1>2 DEF vars, local, history, UpgradesInv, Remembers
<1>3. ASSUME NEW s \in Thread, LibraryStep(s) \/ UserStep(s),
             \A a \in Boxes : boxed'[a] = boxed[a], c \in calls, c.thread # s
      PROVE  Remembers(c.thread, c.var, c.ref)'
  <2>1. /\ c.thread \in Thread \ {s} /\ c.var \in Var
        /\ log'[c.thread] = log[c.thread] /\ obs'[c.thread] = obs[c.thread]
        /\ intent'[c.thread] = intent[c.thread]
    BY <1>1, <1>3, StepsApart, ViewsApart DEF Elsewhere
  <2>2. Remembers(c.thread, c.var, c.ref)
    BY <1>3, <2>1 DEF UpgradesInv
  <2>3. log[c.thread][c.var].orig \in Boxes
    BY <2>1, <2>2, LiveCells DEF Remembers, Boxes, Cells
  <2> QED BY <1>3, <2>1, <2>2, <2>3 DEF Remembers
<1>4. ASSUME NEW s \in Thread, NEW v \in Var, NEW op \in Reading, ReadFirst(s, v, op),
             c \notin calls
      PROVE  Remembers(c.thread, c.var, c.ref)'
  <2>1. ReadShared(s, v) \/ ReadLogged(s, v)
    BY <1>4 DEF ReadFirst, Read
  <2>2. c.thread = s /\ c.var = v /\ c.ref = Result(s, v).to /\ boxed' = boxed
    BY <1>4 DEF ReadFirst
  <2>3. TypeOK' /\ FaithfulInv'
    <3>1. Next
      BY <2>1 DEF Next, UserStep
    <3> QED BY <3>1, TypeStep, FaithfulStep
  <2>4. obs'[s][v] # Null
    <3>1. CASE ReadShared(s, v)
      BY <3>1, NullAssumption DEF ReadShared, TypeOK, View
    <3>2. CASE ReadLogged(s, v)
      <4>1. intent[s][v] = Null /\ log[s][v] \in LogVar /\ log[s][v] # Vacant
        BY <2>2, <3>2 DEF ReadLogged, TypeOK, Log
      <4>2. ReadResult(log[s][v]) # Null
        BY <4>1, ReadResultType, NullAssumption
      <4> QED BY <3>2, <4>1, <4>2 DEF ReadLogged, TypeOK, View
    <3> QED BY <2>1, <3>1, <3>2
  <2>5. pc'[s] = "run"
    BY <2>1 DEF ReadShared, ReadLogged, control
  <2>6. Faithful(log'[s], obs'[s], intent'[s])
    BY <2>3, <2>5 DEF FaithfulInv
  <2>7. ~IsWrite(log'[s][v]) /\ log'[s][v].orig # Null
    BY <2>2, <2>4, <2>6, NullAssumption, <2>3 DEF Faithful, TypeOK, View, Ptr
  <2>8. ReadResult(log'[s][v]) = log'[s][v].orig
    BY <2>7 DEF ReadResult
  <2> QED BY <2>2, <2>4, <2>7, <2>8 DEF Remembers, Result
<1>5. CASE UNCHANGED <<vars, pointers>>
  BY <1>2, <1>5 DEF pointers
<1>6. CASE PointersNext
  <2>1. ASSUME NEW s \in Thread, Plain(s), boxed' = boxed,
               CallOver(s) \/ \E v \in Var, op \in Reading : ReadFirst(s, v, op)
        PROVE  Remembers(c.thread, c.var, c.ref)'
    <3>1. LibraryStep(s) \/ UserStep(s)
      BY <2>1, PlainStep
    <3>2. CASE CallOver(s)
      BY <1>3, <2>1, <3>1, <3>2 DEF CallOver
    <3>3. ASSUME NEW v \in Var, NEW op \in Reading, ReadFirst(s, v, op)
          PROVE  Remembers(c.thread, c.var, c.ref)'
      <4>1. c \in calls => c.thread # s
        BY <3>3 DEF ReadFirst, Free
      <4> QED BY <1>3, <1>4, <2>1, <3>1, <3>3, <4>1
    <3> QED BY <2>1, <3>2, <3>3
  <2>2. ASSUME NEW s \in Thread, NEW v \in Var, NEW ref \in Ref, WriteRef(s, v, ref),
               CallOver(s)
        PROVE  Remembers(c.thread, c.var, c.ref)'
    <3>1. LibraryStep(s) \/ UserStep(s)
      BY <2>2 DEF WriteRef, UserStep
    <3>2. \A a \in Boxes : boxed'[a] = boxed[a]
      BY <2>2, BoxesKept DEF Boxes
    <3> QED BY <1>3, <2>2, <3>1, <3>2 DEF CallOver
  <2> QED BY <1>2, <1>6, <2>1, <2>2, Shapes
<1> QED BY <1>5, <1>6

LEMMA FailedStep ==
  /\ TypeOK /\ TwoPhase /\ PointersInv /\ FaithfulInv /\ KnownInv /\ RootedInv
  /\ UpgradesInv /\ FailedInv /\ [PointersNext]_<<vars, pointers>>
  => FailedInv'
<1> SUFFICES ASSUME TypeOK, TwoPhase, PointersInv, FaithfulInv, KnownInv, RootedInv,
                    UpgradesInv, FailedInv, [PointersNext]_<<vars, pointers>>,
                    NEW t \in Thread, NEW w \in failed'[t]
             PROVE  FailedOK(t, w)'
  BY DEF FailedInv
<1>T. failed \in [Thread -> SUBSET TWeaks] /\ TWeaks \subseteq Var
  BY DEF PointersInv, PointersTyped, TWeaks
<1>1. ASSUME UNCHANGED vars, w \in failed[t] PROVE FailedOK(t, w)'
  <2>1. FailedOK(t, w) /\ w \in Var
    BY <1>1, <1>T DEF FailedInv
  <2> QED BY <1>1, <2>1, FailedApart DEF vars, shared, control, local, blocking, history
<1>2. ASSUME NEW c \in calls, Upgrade(c), w \notin failed[t] PROVE FailedOK(t, w)'
  <2>1. c.thread \in Thread /\ c.var \in Var /\ InLog(c)
    BY DEF PointersInv, PointersTyped, Call
  <2>2. /\ t = c.thread /\ w = c.var /\ c.op = "upgrade" /\ ~Alive(c.ref)
        /\ intent[t][w] = Null
    BY <1>2, <1>T, <2>1 DEF Upgrade
  <2>3. Remembers(t, w, c.ref) /\ pc[t] = "run"
    BY <2>1, <2>2 DEF UpgradesInv, InLog
  <2>4. UNCHANGED <<vars, boxed>>
    BY <1>2 DEF Upgrade
  <2>5. Dead(t, w)
    BY <2>2, <2>3 DEF Remembers, Dead
  <2>6. FailedOK(t, w) /\ w \in Var
    BY <2>1, <2>2, <2>3, <2>5 DEF FailedOK, Remembers
  <2> QED BY <2>4, <2>6, FailedApart DEF vars, shared, control, local, blocking, history
<1>3. ASSUME NEW s \in Thread, Plain(s) \/ \E v \in Var : Write(s, v), KeepFailed(s)
      PROVE  FailedOK(t, w)'
  <2>1. LibraryStep(s) \/ UserStep(s)
    BY <1>3, PlainStep
  <2>2. w \in failed[t] /\ w \in Var /\ (t = s => obs'[t][w] # Null)
    BY <1>3, <1>T DEF KeepFailed
  <2>3. FailedOK(t, w)
    BY <2>2 DEF FailedInv
  <2>4. CASE t = s
    BY <1>3, <2>2, <2>3, <2>4, FailedActor
  <2>5. CASE t # s
    BY <2>1, <2>2, <2>3, <2>5, StepsApart, ViewsApart, FailedApart DEF Elsewhere
  <2> QED BY <2>4, <2>5
<1>4. CASE UNCHANGED <<vars, pointers>>
  BY <1>1, <1>4 DEF pointers
<1>5. CASE PointersNext
  <2>1. ASSUME NEW s \in Thread, NEW v \in Var, NEW ref \in Ref, WriteRef(s, v, ref)
        PROVE  FailedOK(t, w)'
    BY <1>3, <2>1 DEF WriteRef
  <2> QED BY <1>1, <1>2, <1>3, <1>5, <2>1, Shapes DEF KeepPath
<1> QED BY <1>4, <1>5

LEMMA FailedUpgrades == PointersSpec => [](UpgradesInv /\ FailedInv)
<1>1. PointersInit => UpgradesInv /\ FailedInv
  BY DEF PointersInit, UpgradesInv, FailedInv
<1>2. /\ TypeOK /\ TwoPhase /\ PointersInv /\ FaithfulInv /\ UpgradesInv
      /\ [PointersNext]_<<vars, pointers>>
      => UpgradesInv'
  BY UpgradesStep
<1>3. /\ TypeOK /\ TwoPhase /\ PointersInv /\ FaithfulInv /\ KnownInv /\ RootedInv
      /\ UpgradesInv /\ FailedInv /\ [PointersNext]_<<vars, pointers>>
      => FailedInv'
  BY FailedStep
<1> QED
  BY <1>1, <1>2, <1>3, Knowledge, Roots, PointersAreTransactions, Faithfulness, Pointers, PTL
  DEF PointersSpec

(* The None of upgrade can be trusted although no log entry stands for the *)
(* reference count: a transaction that commits having seen the value of a  *)
(* back-edge dead finds the TWeak empty, for whoever replaced the value in *)
(* the TArc has replaced the TWeak as well, and the commit has failed.     *)
THEOREM UpgradesHoldAtCommit == PointersSpec => []UpgradesAtCommit
<1>1. TypeOK /\ TwoPhase /\ PointersInv /\ FaithfulInv /\ EdgesInv /\ FailedInv
      => UpgradesAtCommit
  <2> SUFFICES ASSUME TypeOK, TwoPhase, PointersInv, FaithfulInv, EdgesInv, FailedInv,
                      NEW t \in Thread, pc[t] = "lock", todo[t] = {},
                      NEW w \in failed[t] \cap DOMAIN Target
               PROVE  boxed[value[w]].to = Nothing
    BY DEF UpgradesAtCommit
  <2> DEFINE v == Target[w]
  <2>1. w \in Var /\ v \in Var /\ v \in TArcs
    BY EdgeVars
  <2>2. obs[t][w] # Null /\ ~Alive(boxed[log[t][w].orig].to)
    BY DEF FailedInv, FailedOK, Awake, Dead
  <2>3. IsChecked(log[t][w])
    BY <2>1, <2>2 DEF FaithfulInv, Faithful
  <2>4. log[t][w].orig = value[w] /\ value[w] = Committed[w]
    BY <2>1, <2>3, CommitPoint
  <2>5. boxed[Committed[w]].to \in {Nothing, boxed[Committed[v]].to}
    BY DEF EdgesInv, BackEdgesHold
  <2>6. Committed[v] \in Slots(v) /\ Committed[v] \in Addr /\ Committed[v] \in Boxes
    BY <2>1, CommittedIsSlot, SlotsAreLive, NullAssumption DEF Boxes
  <2>7. boxed[Committed[v]] = Arc(boxed[Committed[v]].to)
    BY <2>1, <2>6, Refs DEF PointersInv, PointersTyped, KindsKept, Kind
  <2>8. Alive(boxed[Committed[v]].to)
    BY <2>6, <2>7 DEF Alive, HasArc
  <2> QED BY <2>2, <2>4, <2>5, <2>8
<1> QED
  BY <1>1, PointersAreTransactions, Faithfulness, Pointers, Edges, FailedUpgrades, PTL

(* Nor does a thread oversleep that blocked because upgrade returned None: *)
(* although only a write to the TWeak wakes it, as long as nobody is on    *)
(* the way to wake it the value has not come back to life.  (Writers that  *)
(* wake nobody, write_atomic, are excluded.)                               *)
THEOREM SleepersMissNothing ==
  ASSUME Setters = {}
  PROVE  PointersSpec => []SleepsOnlyWhileDead
<1>1. TypeOK /\ PointersInv /\ FailedInv /\ PlaceInv /\ NoLostWakeUp => SleepsOnlyWhileDead
  <2> SUFFICES ASSUME TypeOK, PointersInv, FailedInv, PlaceInv, NoLostWakeUp,
                      NEW t \in Thread, NEW w \in Var, pc[t] = "park", blocked[t],
                      w \in failed[t], ~WakeUpPending(t, w)
               PROVE  ~Alive(boxed[value[w]].to)
    BY DEF SleepsOnlyWhileDead
  <2>1. todo[t] = {}
    BY DEF PlaceInv, PlaceOK
  <2>2. w \in reads[t] /\ (Outdated(t, w) \/ ~Alive(boxed[value[w]].to))
    BY <2>1 DEF FailedInv, FailedOK
  <2> QED BY <2>2 DEF NoLostWakeUp
<1>2. Spec => []NoLostWakeUp
  BY WakeUpsArePending
<1> QED
  BY <1>1, <1>2, Places, PointersAreTransactions, Pointers, FailedUpgrades, PTL
-----------------------------------------------------------------------------
(* A destructor that panics.  The transaction is half written, but all     *)
(* that does not speak of the values written survives.                     *)
SoundInv ==
  /\ TypeOK /\ TwoPhase /\ Ascending /\ CellsInv /\ FaithfulInv
  /\ TraceInv /\ PlaceInv /\ KnownInv /\ PointersInv

LEMMA SoundStep == SoundInv /\ [PointersNext]_<<vars, pointers>> => SoundInv'
<1> SUFFICES ASSUME SoundInv, [PointersNext]_<<vars, pointers>> PROVE SoundInv'
  OBVIOUS
<1> USE DEF SoundInv
<1>1. [Next]_vars
  BY Simulation DEF PointersInv
<1>2. TypeOK' /\ TwoPhase' /\ PointersInv'
  BY <1>1, TypeStep, TwoPhaseStep, PointersStep
<1>3. Ascending' /\ CellsInv' /\ FaithfulInv'
  BY <1>1, AscendingStep, CellsStep, FaithfulStep
<1>4. TraceInv' /\ PlaceInv' /\ KnownInv'
  BY <1>1, TraceStep, PlaceStep, KnownStep
<1> QED BY <1>2, <1>3, <1>4

(* What the unwinding leaves to the thread and to the others.              *)
LEMMA Unwinding ==
  ASSUME SoundInv, NEW s \in Thread, NEW v \in Var, DestructorPanics(s, v)
  PROVE  /\ pc[s] = "writeback" /\ v \in todo[s] /\ IsWrite(log[s][v])
         /\ writer[v] = s /\ readers[v] = {} /\ log[s][v].new \in Addr
         /\ value' = [value EXCEPT ![v] = log[s][v].new]
         /\ pc'[s] = "idle" /\ log'[s] = EmptyLog /\ frames'[s] = <<>>
         /\ Elsewhere(s)
<1> USE DEF SoundInv
<1>1. pc[s] = "writeback" /\ v \in todo[s] /\ Store(v, log[s][v].new)
  BY DEF DestructorPanics, IsNext, Goto
<1>2. IsWrite(log[s][v]) /\ writer[v] = s /\ readers[v] = {}
  BY <1>1 DEF TwoPhase, LockOK, Storing
<1>3. log[s][v].new \in Addr
  <2>1. log[s][v] \in LogVar
    BY DEF TypeOK, Log
  <2>2. log[s][v].new \in Ptr /\ log[s][v].new # Null
    BY <2>1, <1>2 DEF LogVar
  <2> QED BY <2>2 DEF Ptr
<1>4. pc'[s] = "idle" /\ log'[s] = EmptyLog /\ frames'[s] = <<>>
  BY <1>1 DEF DestructorPanics, Goto, TypeOK, PlaceInv, PlaceOK
<1>5. Elsewhere(s)
  <2>1. \A t \in Thread \ {s} :
          /\ pc'[t] = pc[t] /\ log'[t] = log[t] /\ frames'[t] = frames[t]
          /\ todo'[t] = todo[t] /\ reads'[t] = reads[t]
          /\ intent'[t] = intent[t] /\ seen'[t] = seen[t]
    BY DEF DestructorPanics, Goto, TypeOK, blocking
  <2>2. \A t \in Thread, u \in Var :
          \/ value'[u] = value[u] /\ stale'[t][u] = stale[t][u]
          \/ stale'[t][u] = seen[t][u]
    BY <1>1 DEF Store, TypeOK, Loads
  <2> QED BY <2>1, <2>2 DEF Elsewhere
<1> QED BY <1>1, <1>2, <1>3, <1>4, <1>5 DEF Store

LEMMA UnwindingStep ==
  ASSUME SoundInv, NEW s \in Thread, NEW v \in Var, DestructorPanics(s, v)
  PROVE  SoundInv'
<1> DEFINE a == log[s][v].new
<1> USE DEF SoundInv
<1>U. /\ pc[s] = "writeback" /\ v \in todo[s] /\ IsWrite(log[s][v])
      /\ writer[v] = s /\ readers[v] = {} /\ a \in Addr
      /\ value' = [value EXCEPT ![v] = a]
      /\ pc'[s] = "idle" /\ log'[s] = EmptyLog /\ frames'[s] = <<>>
      /\ Elsewhere(s)
  BY Unwinding
<1>V. \A t \in Thread \ {s} :
        /\ pc'[t] = pc[t] /\ log'[t] = log[t] /\ frames'[t] = frames[t]
        /\ todo'[t] = todo[t]
  BY <1>U DEF Elsewhere
<1>1. TypeOK'
  <2>1. value' \in [Var -> Addr] /\ stale' \in [Thread -> Loads]
    BY <1>U, StoreType DEF DestructorPanics
  <2>2. pc' \in [Thread -> PC] /\ running' \in [Thread -> BOOLEAN]
    BY DEF DestructorPanics, Goto, DropGuard, TypeOK, PC
  <2>3. writer' \in [Var -> Thread \cup {NoThread}] /\ UNCHANGED <<readers, frames, blocking, seen>>
    BY DEF DestructorPanics, TypeOK
  <2>4. /\ log' \in [Thread -> Log] /\ todo' \in [Thread -> SUBSET Var]
        /\ obs' \in [Thread -> View] /\ intent' \in [Thread -> View]
    BY LogTypes, ViewType DEF DestructorPanics, TypeOK
  <2> QED BY <2>1, <2>2, <2>3, <2>4 DEF TypeOK, blocking
<1>2. TwoPhase'
  <2> SUFFICES ASSUME NEW t \in Thread, NEW u \in Var PROVE LockOK(t, u)'
    BY DEF TwoPhase
  <2>1. LockOK(t, u) /\ LockOK(s, u)
    BY DEF TwoPhase
  <2>2. /\ writer'[u] = IF writer[u] = s THEN NoThread ELSE writer[u]
        /\ readers' = readers
    BY DEF DestructorPanics
  <2>3. CASE t = s
    BY <1>U, <2>1, <2>2, <2>3, ConstantsAssumption DEF LockOK, Visiting, Passed, Storing
  <2>4. CASE t # s
    <3>1. /\ Passed(t, u)' = Passed(t, u) /\ Storing(t, u)' = Storing(t, u)
          /\ Visiting(t, u)' = Visiting(t, u) /\ log'[t] = log[t] /\ pc'[t] = pc[t]
      BY <1>V, <2>4 DEF Passed, Storing, Visiting, IsNext
    <3>2. writer[u] = t => writer'[u] = t
      BY <2>2, <2>4
    <3>3. writer'[u] = t => writer[u] = t
      BY <2>2, ConstantsAssumption
    <3>4. Passed(t, u) /\ IsChecked(log[t][u]) => value'[u] = value[u]
      BY <1>U, <2>1, <2>4 DEF LockOK, TypeOK, IsChecked, IsWrite
    <3> QED BY <2>1, <2>2, <3>1, <3>2, <3>3, <3>4 DEF LockOK
  <2> QED BY <2>3, <2>4
<1>3. Ascending'
  BY <1>U, <1>V DEF Ascending, Ascends
<1>4. CellsInv'
  <2>1. a \in Unstored(s, v)
    <3>1. log[s][v] \in LogVar
      BY DEF TypeOK, Log
    <3> QED BY <1>U, <3>1 DEF LogVar, IsWrite, Made, Entries, Unstored
  <2>2. ASSUME NEW u \in Var PROVE Loaded(s, u)' = {} /\ Unstored(s, u)' = {}
    <3>1. Entries(s, u)' = {Vacant}
      BY <1>U, SavedNone DEF Entries, EmptyLog
    <3> QED BY <3>1 DEF Loaded, Made, Unstored, Vacant, Entry
  <2>3. ASSUME NEW t \in Thread \ {s}, NEW u \in Var
        PROVE  Loaded(t, u)' = Loaded(t, u) /\ Unstored(t, u)' = Unstored(t, u)
    BY <1>V DEF Loaded, Unstored, Made, Entries
  <2> HIDE DEF a
  <2>4. UnstoredIsPrivate'
    <3> SUFFICES ASSUME NEW t \in Thread, NEW u \in Var, NEW b \in Unstored(t, u)',
                        NEW x \in Thread, NEW w \in Var
                 PROVE  /\ value'[w] # b
                        /\ b \notin Loaded(x, w)'
                        /\ b \in Unstored(x, w)' => x = t /\ w = u
      BY DEF UnstoredIsPrivate
    <3>1. t # s /\ b \in Unstored(t, u)
      BY <2>2, <2>3
    <3>2. b # a /\ value[w] # b /\ b \notin Loaded(x, w)
      BY <2>1, <3>1 DEF CellsInv, UnstoredIsPrivate
    <3>3. b \in Unstored(x, w) => x = t /\ w = u
      BY <3>1 DEF CellsInv, UnstoredIsPrivate
    <3>4. value'[w] # b
      BY <1>U, <3>2 DEF TypeOK
    <3> QED BY <2>2, <2>3, <3>2, <3>3, <3>4
  <2>5. LoadedIsCurrent'
    <3> SUFFICES ASSUME NEW t \in Thread, NEW u \in Var, value'[u] \in Loaded(t, u)'
                 PROVE  value'[u] \notin stale'[t][u]
      BY DEF LoadedIsCurrent
    <3>1. t # s /\ value'[u] \in Loaded(t, u)
      BY <2>2, <2>3
    <3>2. a \notin Loaded(t, u)
      BY <2>1 DEF CellsInv, UnstoredIsPrivate
    <3>3. u # v /\ value'[u] = value[u]
      BY <1>U, <3>1, <3>2 DEF TypeOK
    <3>4. stale'[t][u] = stale[t][u]
      BY <3>3 DEF DestructorPanics, Store, TypeOK, Loads
    <3> QED BY <3>1, <3>3, <3>4 DEF CellsInv, LoadedIsCurrent
  <2> QED BY <2>4, <2>5 DEF CellsInv
<1>5. FaithfulInv'
  <2>1. obs'[s] = EmptyView /\ intent'[s] = EmptyView
    BY DEF DestructorPanics, TypeOK
  <2>2. \A t \in Thread \ {s} : obs'[t] = obs[t] /\ intent'[t] = intent[t]
    BY DEF DestructorPanics, TypeOK
  <2>3. Faithful(log'[s], obs'[s], intent'[s]) /\ Copies(frames'[s])
    BY <1>U, <2>1, FaithfulEmpty
  <2> QED BY <1>V, <2>2, <2>3, LogOf
<1>6. TraceInv'
  <2> SUFFICES ASSUME NEW t \in Thread PROVE TraceOK(t)'
    BY DEF TraceInv
  <2>1. TraceOK(t) /\ UNCHANGED <<reads, waiting, waking>>
    BY DEF TraceInv, DestructorPanics, blocking
  <2>2. running'[t] = IF t = s THEN FALSE ELSE running[t]
    BY DEF DestructorPanics, DropGuard, TypeOK
  <2>3. CASE t = s
    BY <1>U, <2>1, <2>2, <2>3 DEF TraceOK, Outside, Asleep
  <2>4. CASE t # s
    BY <1>V, <2>1, <2>2, <2>4 DEF TraceOK
  <2> QED BY <2>3, <2>4
<1>7. PlaceInv' /\ KnownInv'
  <2>1. PlaceOK(s)' /\ \A u \in Var : KnownOK(s, u)'
    BY <1>U, ConstantsAssumption, StackLengths DEF PlaceOK, KnownOK
  <2>2. \A t \in Thread \ {s}, u \in Var : KnownOK(t, u)'
    BY <1>U, KnownElsewhere DEF KnownInv
  <2>3. \A t \in Thread \ {s} : PlaceOK(t)'
    BY <1>V DEF PlaceInv, PlaceOK
  <2> QED BY <2>1, <2>2, <2>3 DEF PlaceInv, KnownInv
<1>8. PointersInv'
  <2>1. UNCHANGED pointers
    BY DEF DestructorPanics
  <2>2. ASSUME NEW u \in Var PROVE Slots(u)' \subseteq Slots(u)
    <3>1. a \in Slots(v)
      <4>1. log[s][v] \in LogVar
        BY DEF TypeOK, Log
      <4> QED BY <1>U, <4>1 DEF LogVar, IsWrite, Made, Entries, Slots
    <3>2. ASSUME NEW t \in Thread
          PROVE  Loaded(t, u)' \subseteq Loaded(t, u) /\ Made(t, u)' \subseteq Made(t, u)
      <4>1. CASE t = s
        <5>1. Entries(s, u)' = {Vacant}
          BY <1>U, SavedNone DEF Entries, EmptyLog
        <5> QED BY <4>1, <5>1 DEF Loaded, Made, Vacant, Entry
      <4>2. CASE t # s
        BY <1>V, <4>2 DEF Loaded, Made, Entries
      <4> QED BY <4>1, <4>2
    <3> HIDE DEF a
    <3> QED BY <1>U, <3>1, <3>2 DEF Slots, TypeOK
  <2>3. KindsKept' /\ NobodySets' /\ OneCall'
    <3>1. KindsKept'
      BY <2>1, <2>2 DEF PointersInv, KindsKept, Kind, pointers
    <3>2. NobodySets' /\ OneCall'
      BY <1>U, <1>V, <2>1 DEF PointersInv, NobodySets, OneCall, pointers
    <3> QED BY <3>1, <3>2
  <2>4. PointersTyped'
    BY <2>1 DEF PointersInv, PointersTyped, CallTyped, pointers
  <2>5. ASSUME NEW c \in calls PROVE InLog(c)'
    <3>1. InLog(c) /\ c.thread \in Thread
      BY DEF PointersInv, PointersTyped, Call
    <3>2. c.thread \in Thread \ {s}
      BY <1>U, <3>1 DEF InLog
    <3>3. pc'[c.thread] = pc[c.thread] /\ log'[c.thread] = log[c.thread]
      BY <1>V, <3>2
    <3> QED BY <2>1, <3>1, <3>3 DEF InLog, Cells, pointers
  <2> QED BY <2>1, <2>3, <2>4, <2>5 DEF PointersInv, pointers
<1> QED BY <1>1, <1>2, <1>3, <1>4, <1>5, <1>6, <1>7, <1>8

LEMMA Soundness == DestructorSpec => []SoundInv
<1>1. PointersInit => SoundInv
  <2>1. PointersInit => Init
    BY DEF PointersInit
  <2>2. Init => Ascending /\ TraceInv /\ KnownInv /\ PlaceInv
    BY ConstantsAssumption, StackLengths
    DEF Init, Ascending, Ascends, TraceInv, TraceOK, Outside, Asleep, EmptyLog, KnownInv,
        KnownOK, PlaceInv, PlaceOK
  <2>3. Init => FaithfulInv
    BY FaithfulEmpty DEF Init, FaithfulInv
  <2> QED BY <2>1, <2>2, <2>3, PointersStart, CellsInit DEF SoundInv
<1>2. ASSUME SoundInv,
             [\/ PointersNext
              \/ \E t \in Thread, v \in Var : DestructorPanics(t, v)]_<<vars, pointers>>
      PROVE  SoundInv'
  BY <1>2, SoundStep, UnwindingStep
<1> QED BY <1>1, <1>2, PTL DEF DestructorSpec

(* "Panicing within STM does not poison the TVars", not even if it is a    *)
(* destructor that panics in the middle of a commit: the locks are         *)
(* released and the guard is dropped, the next transactions find nothing   *)
(* of this one but the values it has stored, compare with them as ever,    *)
(* and are not made to run again by the values it has not.                 *)
THEOREM NothingIsPoisoned ==
  DestructorSpec
    => /\ [](TwoPhase /\ LeavesNoTrace /\ LogFaithful /\ PtrEqDetectsChange)
       /\ CommitFailsOnConflict
<1>1. SoundInv => TwoPhase /\ LeavesNoTrace /\ LogFaithful /\ PtrEqDetectsChange
  BY OutsideLeavesNoTrace, IdentityDetectsChange DEF SoundInv, FaithfulInv, LogFaithful
<1>2. ASSUME SoundInv,
             [\/ PointersNext
              \/ \E t \in Thread, v \in Var : DestructorPanics(t, v)]_<<vars, pointers>>
      PROVE  [\A t \in Thread :
                pc[t] = "lock" /\ pc'[t] = "run"
                  => \E v \in Var :
                       IsChecked(log[t][v]) /\ log[t][v].orig \in stale[t][v]]_vars
  <2>1. CASE [PointersNext]_<<vars, pointers>>
    <3>1. [Next]_vars
      BY <1>2, <2>1, Simulation DEF SoundInv, PointersInv
    <3> QED BY <1>2, <3>1, ConflictStep DEF SoundInv
  <2>2. ASSUME NEW s \in Thread, NEW v \in Var, DestructorPanics(s, v),
               NEW t \in Thread, pc[t] = "lock"
        PROVE  pc'[t] # "run"
    BY <1>2, <2>2, Unwinding DEF Elsewhere
  <2> QED BY <1>2, <2>1, <2>2
<1> QED BY <1>1, <1>2, Soundness, PTL DEF DestructorSpec, CommitFailsOnConflict

(* Nor do the threads it leaves behind ever wait for each other.           *)
THEOREM DestructorsBlockNobody ==
  ASSUME NEW max \in Nat, \A v \in Var : v <= max
  PROVE  DestructorSpec => []NoDeadlock
<1>1. SoundInv => NoDeadlock
  BY NoCycle DEF SoundInv
<1> QED BY <1>1, Soundness, PTL
=============================================================================
