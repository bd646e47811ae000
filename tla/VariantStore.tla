---------------------------- MODULE VariantStore ----------------------------
(***************************************************************************)
(* The storage of fc::variant (variant.cpp): a type tag and either a value *)
(* in place (null, the numbers, bool) or a pointer to a block the variant  *)
(* owns (string, blob, array, object).  The special members copy, take     *)
(* over or free blocks by hand; refined against ValueStore.                *)
(***************************************************************************)
EXTENDS FiniteSets, Naturals

CONSTANTS Var,         \* variants
          InPlace,     \* values kept in the variant itself
          Boxed,       \* values kept in a block
          Block,       \* blocks of the heap
          Nil, Gone    \* the null value; no variant

ASSUME StoreAssumption ==
  /\ InPlace \cap Boxed = {} /\ {Nil, Gone} \cap (InPlace \cup Boxed) = {}
  /\ Nil # Gone

VARIABLES slot,        \* variant -> [type, bits]; bits: a value or a block
          heap         \* block -> what it holds, or Gone when it is free

storeVars == <<slot, heap>>

None == [type |-> "gone", bits |-> Nil]
NullType == [type |-> "null", bits |-> Nil]
IsBoxed(s) == s.type = "boxed"

StoreInit == slot = [v \in Var |-> None] /\ heap = [b \in Block |-> Gone]

Alive(v) == slot[v].type # "gone"

\* clear(): the block of a boxed variant is freed.
Cleared(s, h) == IF IsBoxed(s) THEN [h EXCEPT ![s.bits] = Gone] ELSE h

Boxing(v, x, h) ==
  \E b \in {c \in Block : h[c] = Gone} :
    /\ slot' = [slot EXCEPT ![v] = [type |-> "boxed", bits |-> b]]
    /\ heap' = [h EXCEPT ![b] = x]

---------------------------------------------------------------------------
(* The special members. *)

\* variant( val ) of every type.
Construct(v, x) ==
  /\ ~Alive(v)
  /\ IF x \in Boxed THEN Boxing(v, x, heap)
     ELSE /\ slot' = [slot EXCEPT ![v] =
               IF x = Nil THEN NullType ELSE [type |-> "inplace", bits |-> x]]
          /\ UNCHANGED heap

\* Mutant: a copy takes over the pointer of the other variant.
CopyFrom_Pointer(v, w, h) ==
  slot' = [slot EXCEPT ![v] = slot[w]] /\ heap' = h
\* A boxed value is copied to a block of its own, any other bit by bit.
CopyFrom(v, w, h) ==
  IF IsBoxed(slot[w]) THEN Boxing(v, h[slot[w].bits], h)
  ELSE slot' = [slot EXCEPT ![v] = slot[w]] /\ heap' = h

CopyConstruct(v, w) == ~Alive(v) /\ Alive(w) /\ CopyFrom(v, w, heap)

Taken(v, w) == [slot EXCEPT ![v] = slot[w], ![w] = NullType]

\* variant( variant&& ): the bits move, the source becomes null.
MoveConstruct(v, w) ==
  /\ ~Alive(v) /\ Alive(w)
  /\ slot' = Taken(v, w) /\ UNCHANGED heap

AssignCopy(v, w) ==
  /\ Alive(v) /\ Alive(w)
  /\ IF v = w THEN UNCHANGED storeVars
     ELSE CopyFrom(v, w, Cleared(slot[v], heap))

AssignMove(v, w) ==
  /\ Alive(v) /\ Alive(w)
  /\ IF v = w THEN UNCHANGED storeVars
     ELSE /\ heap' = Cleared(slot[v], heap)
          /\ slot' = Taken(v, w)

\* get_string(), get_array() and get_object() give a reference to the block.
EditInPlace(v, x) ==
  /\ IsBoxed(slot[v])
  /\ heap' = [heap EXCEPT ![slot[v].bits] = x]
  /\ UNCHANGED slot

Destroy(v) ==
  /\ Alive(v)
  /\ heap' = Cleared(slot[v], heap)
  /\ slot' = [slot EXCEPT ![v] = None]

StoreNext ==
  \E v \in Var :
    \/ \E x \in InPlace \cup Boxed \cup {Nil} : Construct(v, x)
    \/ \E x \in Boxed : EditInPlace(v, x)
    \/ \E w \in Var : \/ CopyConstruct(v, w) \/ MoveConstruct(v, w)
                      \/ AssignCopy(v, w) \/ AssignMove(v, w)
    \/ Destroy(v)

StoreSpec == StoreInit /\ [][StoreNext]_storeVars

---------------------------------------------------------------------------
(* Properties *)

Owners(b) == {v \in Var : IsBoxed(slot[v]) /\ slot[v].bits = b}

\* Every block in use is owned by exactly one variant: nothing is freed
\* twice, read after it was freed, or lost.
OneOwner == \A b \in Block : Cardinality(Owners(b)) = IF heap[b] = Gone THEN 0 ELSE 1

\* The value a client reads out of a variant.
ValueIn(v) == CASE slot[v].type = "gone" -> Gone
                [] slot[v].type = "null" -> Nil
                [] slot[v].type = "inplace" -> slot[v].bits
                [] IsBoxed(slot[v]) -> heap[slot[v].bits]

Abstract == INSTANCE ValueStore WITH
  Obj <- Var, Val <- InPlace \cup Boxed, Empty <- Nil, Dead <- Gone,
  val <- [v \in Var |-> ValueIn(v)]

\* A variant behaves as a value: no operation on one changes another, but for
\* the source of a move, which becomes null; and every step leaves each block
\* with its owner.
IsValue == Abstract!ValueSpec /\ [][OneOwner']_storeVars
=============================================================================
