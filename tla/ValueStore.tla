----------------------------- MODULE ValueStore -----------------------------
(***************************************************************************)
(* What a class with value semantics promises: every object has a value of *)
(* its own, which only an operation on that object changes; a move may     *)
(* leave its source as it was or empty.                                    *)
(***************************************************************************)
CONSTANTS Obj, Val, Empty, Dead

VARIABLE val

ValueInit == val = [o \in Obj |-> Dead]

SetValue(o, v) == val' = [val EXCEPT ![o] = v]

CopyValue(o, p) == val[p] # Dead /\ val' = [val EXCEPT ![o] = val[p]]

MoveValue(o, p) ==
  /\ val[p] # Dead
  /\ val' = [val EXCEPT ![o] = val[p], ![p] = Empty]

\* Constructing, assigning, changing in place, moving and destroying.
ValueNext ==
  \E o \in Obj :
    \/ \E v \in Val \cup {Empty, Dead} : SetValue(o, v)
    \/ \E p \in Obj : CopyValue(o, p) \/ MoveValue(o, p)

ValueSpec == ValueInit /\ [][ValueNext]_val
=============================================================================
