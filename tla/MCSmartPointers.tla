-------------------------- MODULE MCSmartPointers --------------------------
(***************************************************************************)
(* Instances of SmartPointers for TLC: variable 1 is a TArc, variable 2 a  *)
(* TWeak that refers back to it.                                           *)
(***************************************************************************)
EXTENDS SmartPointers, MCTransaction

MCInitPayload == [v \in {1} |-> 1]

MCTarget == [w \in {2} |-> 1]

(* The places of a payload: those of the cells that box a reference to it. *)
PayloadPlaces(p, places) ==
  <<{t \in Thread : p \in owned[t]},
    {c.thread : c \in {c \in calls : c.ref = p}},
    {o \in Thread \X Var : based[o[1]][o[2]] = p},
    UNION {places[a] : a \in {a \in DOMAIN places : boxed[a].to = p}}>>

PointerShape ==
  LET places == Places
  IN  <<ShapeOf(places), failed, {[c EXCEPT !.ref = 0] : c \in calls},
        {PayloadPlaces(p, places) : p \in Payload}>>

-----------------------------------------------------------------------------
(* Both threads maintain the back-edge, and one of them follows it.        *)
FollowAndMaintain ==
  [t \in Thread |-> Closures(Var, Var, IF t = t1 THEN {"retry", "panic"} ELSE {})]

FollowAndMaintainCalls ==
  [t \in Thread |->
     IF t = t1 THEN {"upgrade", "replace", "update", "write_val", "clear"}
     ELSE {"read", "modify_cow", "write_arc", "read_atomic"}]
=============================================================================
