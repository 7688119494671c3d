------------------------- MODULE MCVarControlBlock -------------------------
(***************************************************************************)
(* An instance of VarControlBlock for TLC.                                 *)
(***************************************************************************)
EXTENDS VarControlBlock, TLC

ThreadSymmetry == Permutations(Waiter) \cup Permutations(Waker)

(* States that differ only in where the ControlBlocks were allocated       *)
(* behave alike: the view keeps who refers to how many of them.            *)
References(c) ==
  <<{w \in Waiter : owned[w] = c}, {w \in Waiter : temp[w] = c}, c \in list, c \in unvisited,
    {k \in Waker : c \in taken[k]}, {k \in Waker : held[k] = c}>>

Shape ==
  LET refs == [c \in Referred |-> References(c)]
  IN  <<mutex, dead, pc,
        [r \in {refs[c] : c \in DOMAIN refs} |->
           Cardinality({c \in DOMAIN refs : refs[c] = r})]>>
=============================================================================
