--------------------------- MODULE MCTransaction ---------------------------
(***************************************************************************)
(* Instances of Transaction for TLC.                                       *)
(***************************************************************************)
EXTENDS TransactionProperties

CONSTANTS t1, t2, t3

(* The allocator hands out the lowest free address, so that addresses are  *)
(* reused as early as they can be.                                         *)
LeastFree(free) == {a \in free : \A b \in free : a <= b}

MCInitValue == [v \in Var |-> v]

(* States that differ only in the names of the cells behave alike: of the  *)
(* addresses, the view keeps which places hold the same one, and of the    *)
(* history of a cell what it is for those whose log or copies have it: out *)
(* of date or not.  The other values that a thread saw and gave may have   *)
(* been freed; that there are any is all that a property asks of them.     *)
Given(t) == {v \in Var : intent[t][v] # Null}

SeenVars(t) == {v \in Var : seen[t][v] # {}}

StaleVars(t) == {v \in reads[t] : Outdated(t, v)}

Slot(t, i) ==
  IF i > 0 THEN frames[t][i]
  ELSE IF pc[t] \in {"wait", "check", "park", "dead"}
  THEN [stage |-> "", saved |-> log[t], obs |-> EmptyView, intent |-> EmptyView]
  ELSE [stage |-> "", saved |-> log[t], obs |-> obs[t], intent |-> intent[t]]

Pointers(s, v) == <<s.saved[v].orig, s.saved[v].new, s.obs[v], s.intent[v]>>

(* What each place of a thread's entries holds.                            *)
Held(t) ==
  [p \in (0..Len(frames[t])) \X Var \X (1..4) |-> Pointers(Slot(t, p[1]), p[2])[p[3]]]

Places ==
  LET held == [t \in Thread |-> Held(t)]
  IN  [a \in Live \ {Null} |->
        {<<NoThread, <<v>>>> : v \in {v \in Var : value[v] = a}}
          \cup (UNION {{<<t, p>> : p \in {p \in DOMAIN held[t] : held[t][p] = a}}
                        : t \in Thread})]

Past(a) ==
  {<<t, v>> \in Thread \X Var :
     a \in stale[t][v] /\ \E i \in 0..Len(frames[t]) : Slot(t, i).saved[v].orig = a}

ShapeOf(places) ==
  <<writer, readers, waiting, control, todo, reads, blocked, waking,
    [t \in Thread |-> <<Given(t), SeenVars(t), StaleVars(t)>>],
    [t \in Thread |-> [i \in 0..Len(frames[t]) |->
       <<Slot(t, i).stage, [v \in Var |-> Slot(t, i).saved[v].kind]>>]],
    {<<places[a], Past(a)>> : a \in DOMAIN places}>>

Shape == ShapeOf(Places)

-----------------------------------------------------------------------------
(* What the closures of the threads do in each run.                        *)
Closures(r, w, ops) == [reads |-> r, writes |-> w, ops |-> ops]

ReadWriteAll == [t \in Thread |-> Closures(Var, Var, {})]

ReadWriteOr ==
  [t \in Thread |-> IF t = t1 THEN Closures(Var, {1}, {"or", "retry", "rewrite"})
                             ELSE Closures({}, Var, {})]

WaitThree ==
  [t \in Thread |-> CASE t = t1 -> Closures(Var, {1}, {"retry"})
                      [] t = t2 -> Closures({}, {1}, {})
                      [] t = t3 -> Closures({}, {2}, {})]

SetterAndUser ==
  [t \in Thread |-> IF t = t1
     THEN Closures(Var, {1}, {"failure", "panic", "abort", "retry"})
     ELSE Closures({}, Var, {"write_atomic"})]

Producer ==
  [t \in Thread |-> IF t = t1 THEN Closures(Var, {2}, {"retry"})
                             ELSE Closures({}, Var, {})]

OneSetter ==
  [t \in Thread |-> IF t = t1 THEN Closures(Var, {}, {"retry"})
                             ELSE Closures({}, Var, {"write_atomic"})]
=============================================================================
