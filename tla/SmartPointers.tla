---------------------------- MODULE SmartPointers ----------------------------
(***************************************************************************)
(* TArc and TWeak: stm-core/src/tarc.rs and tweak.rs, and the compound     *)
(* operations of TVar.  They are TVars whose cells box an Arc<T> or a      *)
(* Weak<T>, so a thread's steps are those of module Transaction, with the  *)
(* reference counts of the user's values beside them: a value is alive     *)
(* while an Arc to it is in some cell that is itself alive, or in the      *)
(* hands of a thread.  The log knows nothing of these counts.              *)
(*                                                                         *)
(* An operation made of a read and a write is two steps, because other     *)
(* threads may drop Arcs in between.                                       *)
(***************************************************************************)
EXTENDS TransactionProperties, FiniteSets

CONSTANTS
  Payload,   \* where the values behind Arc<T> are allocated
  Nothing,   \* what Weak::new() refers to
  InitPayload,  \* the value each TArc is made with; the other variables are TWeaks
  Target,    \* the TArc that a TWeak is a back-edge of, for those that are one
  Calls,     \* Calls[t]: the operations that thread t uses
  MaxOwned   \* bound on the Arcs that a thread holds when it asks for another

(* What a cell boxes: an Arc<T> owns its payload, a Weak<T> does not.      *)
Arc(p) == [strong |-> TRUE, to |-> p]
Weak(p) == [strong |-> FALSE, to |-> p]
Ref == {Arc(p) : p \in Payload} \cup {Weak(p) : p \in Payload \cup {Nothing}}

Reading == {"replace", "update", "modify_cow", "upgrade"}
Writing == {"write", "write_val", "write_arc", "clear"}
Call == [thread : Thread, op : Reading, var : Var, ref : Payload \cup {Nothing}]

TArcs == DOMAIN InitPayload
TWeaks == Var \ TArcs

ASSUME SmartPointersAssumption ==
  /\ Payload \subseteq Addr /\ Nothing \notin Payload
  /\ TArcs \subseteq Var /\ InitPayload \in [TArcs -> Payload]
  /\ DOMAIN Target \subseteq TWeaks /\ Target \in [DOMAIN Target -> TArcs]
  /\ Calls \in [Thread -> SUBSET (Reading \cup Writing \cup {"read", "read_atomic"})]
  /\ MaxOwned \in Nat

VARIABLES
  boxed,    \* boxed[a]: the Arc or Weak in cell a
  owned,    \* owned[t]: the payloads to which the closure or caller has an Arc
  calls     \* the operations that have read their variable and go on

(* History: the TWeaks whose upgrade has returned None on the path taken,  *)
(* and the value from which the one that t writes to v was computed.       *)
VARIABLES failed, based

pointers == <<boxed, owned, calls, failed, based>>

-----------------------------------------------------------------------------
Boxes == Live \ {Null}

(* Where an Arc to p is, next to the one that call c itself holds.         *)
HasArc(p, others) ==
  \/ \E a \in Boxes : boxed[a] = Arc(p)
  \/ \E t \in Thread : p \in owned[t]
  \/ \E c \in others : c.op # "upgrade" /\ c.ref = p

Alive(p) == HasArc(p, calls)

HasWeak(p) ==
  (\E a \in Boxes : boxed[a] = Weak(p)) \/ (\E c \in calls : c.op = "upgrade" /\ c.ref = p)

(* The memory of a value that has been dropped stays allocated while there *)
(* is a Weak to it.                                                        *)
NewPayload ==
  Alloc(Payload \ ({boxed[a].to : a \in Boxes} \cup (UNION {owned[t] : t \in Thread})
                     \cup {c.ref : c \in calls}))

(* Arc::make_mut: the value is changed in place if no other reference to   *)
(* it exists, and is copied, or moved away from the Weaks, if one does.    *)
MakeMut(c) ==
  IF HasArc(c.ref, calls \ {c}) \/ HasWeak(c.ref) THEN NewPayload ELSE {c.ref}

(* TArc::new and from_arc: two TArcs may be made of the same Arc.          *)
NewTArc(v) == {Arc(InitPayload[v])}

(* TWeak::new, from_weak, and downgrade, which takes what the TArc holds.  *)
NewTWeak(w) ==
  {Weak(Nothing)} \cup
    {Weak(InitPayload[v]) : v \in IF w \in DOMAIN Target THEN {Target[w]} ELSE TArcs}

PointersInit ==
  /\ Init
  /\ \E made \in [Var -> Ref] :
       /\ \A v \in Var : made[v] \in IF v \in TArcs THEN NewTArc(v) ELSE NewTWeak(v)
       /\ boxed = [a \in Addr |-> IF \E v \in Var : InitValue[v] = a
                                  THEN made[CHOOSE v \in Var : InitValue[v] = a]
                                  ELSE Weak(Nothing)]
  /\ owned = [t \in Thread |-> {}]
  /\ calls = {}
  /\ failed = [t \in Thread |-> {}]
  /\ based = [t \in Thread |-> [v \in Var |-> Nothing]]

HasRoom(t) == Cardinality(owned[t]) < MaxOwned

Free(t) == \A c \in calls : c.thread # t

(* A result belongs to the path on which the variable was read, and what   *)
(* is written to the log in which it is.                                   *)
KeepFailed(t) == failed' = [failed EXCEPT ![t] = {v \in @ : obs'[t][v] # Null}]

KeepBased(t, origin) ==
  based' = [based EXCEPT ![t] =
    [v \in Var |-> IF pc'[t] \in {"run", "lock"} /\ IsWrite(log'[t][v])
                   THEN origin[v] ELSE Nothing]]

KeepPath(t) == KeepFailed(t) /\ KeepBased(t, based[t])

-----------------------------------------------------------------------------
(* TVar::read: a clone of what the log now holds for the variable.         *)
Read(t, v) == (ReadShared(t, v) \/ ReadLogged(t, v)) /\ KeepPath(t)

Result(t, v) == boxed[ReadResult(log'[t][v])]

(* TArc::read.                                                             *)
ReadArc(t, v) ==
  /\ "read" \in Calls[t] /\ v \in TArcs /\ Free(t) /\ HasRoom(t)
  /\ Read(t, v)
  /\ owned' = [owned EXCEPT ![t] = @ \cup {Result(t, v).to}]
  /\ UNCHANGED <<boxed, calls>>

(* Bug: the operations begin with read_atomic, outside the log.            *)
ReadFirstAtomic(t, v, op) ==
  /\ op \in Calls[t] /\ Free(t) /\ (op = "upgrade" => HasRoom(t))
  /\ op = "upgrade" <=> v \in TWeaks
  /\ op = "replace" => owned[t] # {}
  /\ pc[t] = "run" /\ writer[v] = NoThread
  /\ calls' = calls \cup {[thread |-> t, op |-> op, var |-> v, ref |-> boxed[value[v]].to]}
  /\ UNCHANGED <<vars, boxed, owned, failed, based>>

(* The read that replace, update, modify_cow and upgrade begin with.       *)
ReadFirst(t, v, op) ==
  /\ op \in Calls[t] /\ Free(t) /\ (op = "upgrade" => HasRoom(t))
  /\ op = "upgrade" <=> v \in TWeaks
  /\ op = "replace" => owned[t] # {}
  /\ Read(t, v)
  /\ calls' = calls \cup {[thread |-> t, op |-> op, var |-> v, ref |-> Result(t, v).to]}
  /\ UNCHANGED <<boxed, owned>>

(* TVar::write: the reference is boxed in the new cell.                    *)
WriteRef(t, v, ref) ==
  /\ Write(t, v)
  /\ boxed' = [boxed EXCEPT ![log'[t][v].new] = ref]
  /\ KeepFailed(t)

(* TArc::write, of an Arc the closure has, and write_val.                  *)
WriteArc(t, v) ==
  /\ v \in TArcs /\ Free(t)
  /\ \E p \in (IF "write" \in Calls[t] THEN owned[t] ELSE {})
                \cup (IF "write_val" \in Calls[t] THEN NewPayload ELSE {}) :
       WriteRef(t, v, Arc(p))
  /\ KeepBased(t, based[t])
  /\ UNCHANGED <<owned, calls>>

(* TWeak::write, write_arc and clear.                                      *)
WriteWeak(t, w) ==
  /\ w \in TWeaks /\ Free(t)
  /\ \E p \in (IF "write_arc" \in Calls[t] THEN owned[t] ELSE {})
                \cup (IF "clear" \in Calls[t] THEN {Nothing} ELSE {}) :
       WriteRef(t, w, Weak(p))
  /\ KeepBased(t, based[t])
  /\ UNCHANGED <<owned, calls>>

(* The write that replace, update and modify_cow end with.  Its value is   *)
(* made from what the TArc held, or from a value that was.                 *)
WriteLast(c, p) ==
  /\ WriteRef(c.thread, c.var, Arc(p))
  /\ KeepBased(c.thread, IF IsWrite(log[c.thread][c.var]) THEN based[c.thread]
                         ELSE [based[c.thread] EXCEPT ![c.var] = c.ref])
  /\ calls' = calls \ {c}

(* replace returns the old Arc.                                            *)
Replace(c) ==
  /\ c.op = "replace"
  /\ \E p \in owned[c.thread] : WriteLast(c, p)
  /\ owned' = [owned EXCEPT ![c.thread] = @ \cup {c.ref}]

(* update computes another value.                                          *)
Update(c) ==
  /\ c.op = "update"
  /\ \E p \in NewPayload : WriteLast(c, p)
  /\ UNCHANGED owned

ModifyCow(c) ==
  /\ c.op = "modify_cow"
  /\ \E p \in MakeMut(c) : WriteLast(c, p)
  /\ UNCHANGED owned

(* Bug: the reference count is not looked at.                              *)
UpgradeUnchecked(c) ==
  /\ c.op = "upgrade"
  /\ owned' = [owned EXCEPT ![c.thread] = @ \cup {c.ref}]
  /\ calls' = calls \ {c}
  /\ UNCHANGED <<vars, boxed, failed, based>>

(* Weak::upgrade, some time after the Weak was read.  A result for a       *)
(* variable that the closure has written says nothing of the memory.       *)
Upgrade(c) ==
  /\ c.op = "upgrade"
  /\ owned' = IF Alive(c.ref) THEN [owned EXCEPT ![c.thread] = @ \cup {c.ref}] ELSE owned
  /\ failed' = IF Alive(c.ref) \/ intent[c.thread][c.var] # Null THEN failed
               ELSE [failed EXCEPT ![c.thread] = @ \cup {c.var}]
  /\ calls' = calls \ {c}
  /\ UNCHANGED <<vars, boxed, based>>

(* TVar::read_atomic: a clone of the value, taken under the read lock.     *)
LoadAtomic(v) == IF writer[v] = NoThread THEN {boxed[value[v]]} ELSE {}

(* TArc::read_atomic, outside a transaction.                               *)
ReadAtomic(t, v) ==
  /\ "read_atomic" \in Calls[t] /\ v \in TArcs /\ HasRoom(t)
  /\ pc[t] = "idle"
  /\ \E r \in LoadAtomic(v) : owned' = [owned EXCEPT ![t] = @ \cup {r.to}]
  /\ UNCHANGED <<vars, boxed, calls, failed, based>>

(* The closure or its caller drops an Arc.  It may keep one for as long as *)
(* it likes.                                                               *)
Release(t, p) ==
  /\ pc[t] \in {"run", "idle"} /\ Free(t) /\ p \in owned[t]
  /\ owned' = [owned EXCEPT ![t] = @ \ {p}]
  /\ UNCHANGED <<vars, boxed, calls, failed, based>>

-----------------------------------------------------------------------------
(* The closures that maintain back-edges commit only what keeps them: who  *)
(* writes the TArc writes the TWeak, and the TWeak refers to what the      *)
(* TArc is known to hold.                                                  *)
KeepsBackEdges(t) ==
  LET l == log[t]
      Known(v) == IF IsWrite(l[v]) \/ IsChecked(l[v])
                  THEN {boxed[ReadResult(l[v])].to} ELSE {}
  IN  \A w \in DOMAIN Target :
        /\ IsWrite(l[Target[w]]) => IsWrite(l[w])
        /\ IsWrite(l[w]) => boxed[l[w].new].to \in {Nothing} \cup Known(Target[w])

(* A closure panics, also in the function it gave to an operation.         *)
PanicInCall(t) == Panic(t) /\ calls' = {c \in calls : c.thread # t}

(* The steps of Transaction that neither read nor write a variable.        *)
Other(t) ==
  /\ \/ LibraryStep(t)
     \/ Free(t) /\ \/ Begin(t) \/ Or(t) \/ OrOk(t) \/ Retry(t)
                   \/ Abort(t) \/ Failure(t)
                   \/ KeepsBackEdges(t) /\ Commit(t)
  /\ UNCHANGED calls

PointersNext ==
  \/ \E t \in Thread :
       \/ (Other(t) \/ PanicInCall(t)) /\ KeepPath(t) /\ UNCHANGED <<boxed, owned>>
       \/ \E v \in Var : \/ ReadArc(t, v) \/ WriteArc(t, v) \/ WriteWeak(t, v)
                         \/ ReadAtomic(t, v)
                         \/ \E op \in Reading : ReadFirst(t, v, op)
       \/ \E p \in Payload : Release(t, p)
  \/ \E c \in calls : Replace(c) \/ Update(c) \/ ModifyCow(c) \/ Upgrade(c)

PointersSpec == PointersInit /\ [][PointersNext]_<<vars, pointers>>

(* The store of commit drops the last Arc to a value whose destructor      *)
(* panics: unwinding releases the locks and drops the rest of the log and  *)
(* the guard, and nothing more is stored and nobody is woken.              *)
DestructorPanics(t, v) ==
  /\ IsNext(t, v)
  /\ Goto(t, "writeback", "idle") /\ DropGuard(t)
  /\ Store(v, log[t][v].new)
  /\ writer' = [u \in Var |-> IF writer[u] = t THEN NoThread ELSE writer[u]]
  /\ log' = [log EXCEPT ![t] = EmptyLog]
  /\ todo' = [todo EXCEPT ![t] = {}]
  /\ obs' = [obs EXCEPT ![t] = EmptyView]
  /\ intent' = [intent EXCEPT ![t] = EmptyView]
  /\ UNCHANGED <<readers, frames, blocking, seen, pointers>>
  /\ \E p \in Payload :
       /\ boxed[value[v]] = Arc(p) /\ ~Alive(p)'
       /\ \A a \in Cells(log[t]) \ {Null} : boxed[a] # Arc(p)

DestructorSpec ==
  PointersInit /\ [][\/ PointersNext
                     \/ \E t \in Thread, v \in Var : DestructorPanics(t, v)]_<<vars, pointers>>

-----------------------------------------------------------------------------
(* Types.                                                                  *)
PointersTypeOK ==
  /\ TypeOK
  /\ boxed \in [Addr -> Ref]
  /\ owned \in [Thread -> SUBSET Payload]
  /\ calls \subseteq Call
  /\ failed \in [Thread -> SUBSET TWeaks]
  /\ based \in [Thread -> [Var -> Payload \cup {Nothing}]]
  /\ \A v \in Var : boxed[value[v]].strong <=> v \in TArcs

(* replace, update and modify_cow are atomic, although the read and the    *)
(* write are two operations on the log, with the user's function between   *)
(* them: what was computed from a value is committed over that value, and  *)
(* nobody else's change to the TArc is lost.                               *)
NoLostUpdate ==
  \A t \in Thread, v \in Var :
    pc[t] = "lock" /\ todo[t] = {} /\ based[t][v] # Nothing
      => boxed[value[v]] = Arc(based[t][v])

(* Back-edges that the closures maintain are intact in committed memory,   *)
(* with whatever mix of write_val, replace, update, modify_cow, write_arc  *)
(* and clear, although each transaction only knows what it has read.       *)
BackEdgesHold ==
  \A w \in DOMAIN Target :
    boxed[Committed[w]].to \in {Nothing, boxed[Committed[Target[w]]].to}

(* upgrade asks for a reference count that no log entry stands for, some   *)
(* time after the Weak was read; yet the None of a back-edge survives      *)
(* commit only if the TWeak is empty.  If the value was dropped because    *)
(* the TArc got another one, the TWeak has changed too and commit fails.   *)
UpgradesAtCommit ==
  \A t \in Thread :
    pc[t] = "lock" /\ todo[t] = {}
      => \A w \in failed[t] \cap DOMAIN Target : boxed[value[w]].to = Nothing

(* A thread that blocks because upgrade returned None (unwrap_or_retry)    *)
(* sleeps only as long as upgrade would still return None, although only   *)
(* a write to the TWeak wakes it.                                          *)
SleepsOnlyWhileDead ==
  \A t \in Thread, w \in Var :
    pc[t] = "park" /\ blocked[t] /\ w \in failed[t] /\ ~WakeUpPending(t, w)
      => ~Alive(boxed[value[w]].to)
=============================================================================
