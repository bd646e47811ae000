---------------------------- MODULE ValuesProofs ----------------------------
(***************************************************************************)
(* Proofs about the parts that MCValues composes.                          *)
(* fc::variant and r1::public_key, which copy, take over and free what     *)
(* they point to by hand, behave as values: each implements ValueStore for *)
(* any number of objects, blocks and handles, and frees nothing twice; the *)
(* inductive invariants say who owns what.  fc::variant_object shares a    *)
(* vector among its copies, and still a call changes only the objects it   *)
(* names.  What goes through copies, unions and intersections of bloom     *)
(* filters is found again.                                                 *)
(* Through the datastreams and the buffered streams bytes keep their order *)
(* and their number, for every capacity, size of buffer and size of call.  *)
(* A rate limiter permits no more bytes than its bucket holds and earns,   *)
(* for every rate, burst and set of fibers.  Temporary files, renamed      *)
(* files, lock files and relative paths are safe for every set of objects, *)
(* processes and names, and a cfile holds what its calls say, for every    *)
(* size of block and file, whatever errors and power failures come.        *)
(***************************************************************************)
EXTENDS MCValues, NaturalsInduction, FiniteSetTheorems, SequenceTheorems, WellFoundedInduction, TLAPS

-----------------------------------------------------------------------------
(* fc::variant *)

\* What a variant object may hold.
SlotType == [type : {"gone", "null", "inplace", "boxed"}, bits : InPlace \cup Block \cup {Nil}]

\* The tag says what the bits are.
StoreTyped ==
  /\ slot \in [Var -> SlotType]
  /\ heap \in [Block -> Boxed \cup {Gone}]
  /\ \A v \in Var : slot[v].type = "inplace" => slot[v].bits \in InPlace
  /\ \A v \in Var : IsBoxed(slot[v]) => slot[v].bits \in Block

\* A boxed variant's block is in use, and it is the variant's alone.
Owning ==
  /\ \A v \in Var : IsBoxed(slot[v]) => heap[slot[v].bits] # Gone
  /\ \A v, w \in Var : IsBoxed(slot[v]) /\ IsBoxed(slot[w]) /\ slot[v].bits = slot[w].bits => v = w

\* A block in use is some variant's.
NotLeaked ==
  \A b \in Block : heap[b] # Gone => \E v \in Var : IsBoxed(slot[v]) /\ slot[v].bits = b

\* The inductive invariant.
StoreInv == StoreTyped /\ Owning /\ NotLeaked

\* The invariant is what OneOwner says with cardinalities.
LEMMA OwnersCounted == ASSUME StoreInv PROVE OneOwner
<1> SUFFICES ASSUME NEW b \in Block
             PROVE  Cardinality(Owners(b)) = IF heap[b] = Gone THEN 0 ELSE 1
  BY DEF OneOwner
<1>1. CASE heap[b] = Gone
  <2>1. Owners(b) = {}
    BY <1>1 DEF StoreInv, Owning, Owners
  <2> QED BY <1>1, <2>1, FS_EmptySet
<1>2. CASE heap[b] # Gone
  <2>1. PICK v \in Var : IsBoxed(slot[v]) /\ slot[v].bits = b
    BY <1>2 DEF StoreInv, NotLeaked
  <2>2. Owners(b) = {v}
    BY <2>1 DEF StoreInv, Owning, Owners
  <2> QED BY <1>2, <2>2, FS_Singleton
<1> QED BY <1>1, <1>2

\* It holds while no variant exists.
LEMMA StoreInitInv == StoreInit => StoreInv
  BY StoreAssumption
  DEF StoreInit, StoreInv, StoreTyped, Owning, NotLeaked, None, IsBoxed, SlotType

\* Clearing a variant frees its own block and no other variant's.
LEMMA ClearedHeap ==
  ASSUME StoreInv, NEW v \in Var
  PROVE  LET h == Cleared(slot[v], heap)
         IN  /\ h \in [Block -> Boxed \cup {Gone}]
             /\ \A w \in Var : w # v /\ IsBoxed(slot[w]) => h[slot[w].bits] = heap[slot[w].bits]
             /\ \A b \in Block : h[b] # Gone =>
                  h[b] = heap[b] /\ \E w \in Var : w # v /\ IsBoxed(slot[w]) /\ slot[w].bits = b
  BY DEF StoreInv, StoreTyped, Owning, NotLeaked, Cleared, IsBoxed

\* A variant that has no block of its own left is given one for a value.
LEMMA BoxingStep ==
  ASSUME StoreInv, NEW v \in Var, NEW x \in Boxed, NEW h \in [Block -> Boxed \cup {Gone}],
         \A w \in Var : w # v /\ IsBoxed(slot[w]) => h[slot[w].bits] = heap[slot[w].bits],
         \A b \in Block : h[b] # Gone => \E w \in Var : w # v /\ IsBoxed(slot[w]) /\ slot[w].bits = b,
         Boxing(v, x, h)
  PROVE  /\ StoreInv'
         /\ \A w \in Var \ {v} : ValueIn(w)' = ValueIn(w)
         /\ ValueIn(v)' = x
<1>1. PICK b \in Block : /\ h[b] = Gone
                         /\ slot' = [slot EXCEPT ![v] = [type |-> "boxed", bits |-> b]]
                         /\ heap' = [h EXCEPT ![b] = x]
  BY DEF Boxing
<1>2. x # Gone /\ Gone \notin Boxed
  BY StoreAssumption
<1>3. \A w \in Var : w # v => slot'[w] = slot[w] /\ (IsBoxed(slot[w]) => slot[w].bits # b)
  BY <1>1 DEF StoreInv, StoreTyped, Owning
<1>4. slot'[v] = [type |-> "boxed", bits |-> b] /\ heap'[b] = x
  BY <1>1 DEF StoreInv, StoreTyped
<1>5. \A w \in Var : w # v /\ IsBoxed(slot[w]) => heap'[slot[w].bits] = heap[slot[w].bits]
  BY <1>1, <1>3 DEF StoreInv, StoreTyped
<1>6. StoreTyped'
  BY <1>1, <1>3, <1>4 DEF StoreInv, StoreTyped, SlotType, IsBoxed
<1>7. Owning'
  BY <1>2, <1>3, <1>4, <1>5 DEF StoreInv, Owning, IsBoxed
<1>8. NotLeaked'
  BY <1>1, <1>3, <1>4 DEF StoreInv, StoreTyped, NotLeaked, IsBoxed
<1>9. ASSUME NEW w \in Var \ {v} PROVE ValueIn(w)' = ValueIn(w)
  BY <1>3, <1>5 DEF ValueIn, IsBoxed, StoreInv, StoreTyped, SlotType
<1>10. ValueIn(v)' = x
  BY <1>4 DEF ValueIn, IsBoxed
<1> QED BY <1>6, <1>7, <1>8, <1>9, <1>10 DEF StoreInv

\* A variant without a block of its own left is given a slot that needs none.
LEMMA SlotStep ==
  ASSUME StoreInv, NEW v \in Var, NEW s \in SlotType, ~IsBoxed(s), s.type = "inplace" => s.bits \in InPlace,
         NEW h \in [Block -> Boxed \cup {Gone}],
         \A w \in Var : w # v /\ IsBoxed(slot[w]) => h[slot[w].bits] = heap[slot[w].bits],
         \A b \in Block : h[b] # Gone => \E w \in Var : w # v /\ IsBoxed(slot[w]) /\ slot[w].bits = b,
         slot' = [slot EXCEPT ![v] = s], heap' = h
  PROVE  /\ StoreInv'
         /\ \A w \in Var \ {v} : ValueIn(w)' = ValueIn(w)
         /\ ValueIn(v)' = CASE s.type = "gone" -> Gone [] s.type = "null" -> Nil [] s.type = "inplace" -> s.bits
<1>1. \A w \in Var : w # v => slot'[w] = slot[w]
  BY DEF StoreInv, StoreTyped
<1>2. slot'[v] = s
  BY DEF StoreInv, StoreTyped
<1>3. StoreTyped'
  BY <1>1, <1>2 DEF StoreInv, StoreTyped, SlotType, IsBoxed
<1>4. Owning'
  BY <1>1, <1>2 DEF StoreInv, Owning
<1>5. NotLeaked'
  BY <1>1, <1>2 DEF StoreInv, NotLeaked
<1>6. ASSUME NEW w \in Var \ {v} PROVE ValueIn(w)' = ValueIn(w)
  BY <1>1 DEF ValueIn, IsBoxed, StoreInv, StoreTyped, SlotType
<1>7. ValueIn(v)' = CASE s.type = "gone" -> Gone [] s.type = "null" -> Nil [] s.type = "inplace" -> s.bits
  BY <1>2 DEF ValueIn, IsBoxed, SlotType
<1> QED BY <1>3, <1>4, <1>5, <1>6, <1>7 DEF StoreInv

\* The source's block becomes the target's, whose own block is free by now.
LEMMA TakenStep ==
  ASSUME StoreInv, NEW v \in Var, NEW w \in Var, v # w, Alive(w),
         slot' = Taken(v, w), heap' = Cleared(slot[v], heap)
  PROVE  /\ StoreInv'
         /\ \A u \in Var \ {v, w} : ValueIn(u)' = ValueIn(u)
         /\ ValueIn(v)' = ValueIn(w) /\ ValueIn(w)' = Nil
<1>1. /\ slot'[v] = slot[w] /\ slot'[w] = NullType
      /\ \A u \in Var \ {v, w} : slot'[u] = slot[u]
  BY DEF StoreInv, StoreTyped, Taken
<1>2. /\ heap' \in [Block -> Boxed \cup {Gone}]
      /\ \A u \in Var : u # v /\ IsBoxed(slot[u]) => heap'[slot[u].bits] = heap[slot[u].bits]
      /\ \A b \in Block : heap'[b] # Gone => \E u \in Var : u # v /\ IsBoxed(slot[u]) /\ slot[u].bits = b
  BY ClearedHeap
<1>3. slot' \in [Var -> SlotType]
  BY DEF StoreInv, StoreTyped, Taken, NullType, SlotType
<1>4. StoreTyped'
  BY <1>1, <1>2, <1>3 DEF StoreInv, StoreTyped, NullType, IsBoxed
<1>5. Owning'
  BY <1>1, <1>2 DEF StoreInv, Owning, NullType, IsBoxed
<1>6. NotLeaked'
  BY <1>1, <1>2 DEF StoreInv, NotLeaked, NullType, IsBoxed
<1>7. ASSUME NEW u \in Var \ {v, w} PROVE ValueIn(u)' = ValueIn(u)
  BY <1>1, <1>2 DEF ValueIn, IsBoxed, StoreInv, StoreTyped, SlotType
<1>8. ValueIn(v)' = ValueIn(w)
  BY <1>1, <1>2 DEF ValueIn, IsBoxed
<1>9. ValueIn(w)' = Nil
  BY <1>1 DEF ValueIn, NullType, IsBoxed
<1> QED BY <1>4, <1>5, <1>6, <1>7, <1>8, <1>9 DEF StoreInv

\* What a variant may read as; Gone when it does not exist.
Values == InPlace \cup Boxed \cup {Nil, Gone}

\* Every variant that exists reads as a value.
LEMMA ReadsValue ==
  ASSUME StoreInv, NEW v \in Var
  PROVE  /\ ValueIn(v) \in Values
         /\ Alive(v) => ValueIn(v) # Gone
         /\ IsBoxed(slot[v]) => ValueIn(v) = heap[slot[v].bits] /\ ValueIn(v) \in Boxed
<1>1. slot[v].type \in {"gone", "null", "inplace", "boxed"}
  BY DEF StoreInv, StoreTyped, SlotType
<1>2. CASE slot[v].type = "gone"
  BY <1>2 DEF ValueIn, Values, Alive, IsBoxed
<1>3. CASE slot[v].type = "null"
  BY <1>3, StoreAssumption DEF ValueIn, Values, Alive, IsBoxed
<1>4. CASE slot[v].type = "inplace"
  BY <1>4, StoreAssumption DEF ValueIn, Values, Alive, IsBoxed, StoreInv, StoreTyped
<1>5. CASE slot[v].type = "boxed"
  <2>1. heap[slot[v].bits] \in Boxed
    BY <1>5 DEF StoreInv, StoreTyped, Owning, IsBoxed
  <2> QED BY <1>5, <2>1, StoreAssumption DEF ValueIn, Values, Alive, IsBoxed
<1> QED BY <1>1, <1>2, <1>3, <1>4, <1>5

\* What one call does to the values of all variants.
ValueStep ==
  \/ \A u \in Var : ValueIn(u)' = ValueIn(u)
  \/ \E v \in Var : /\ ValueIn(v)' \in Values
                    /\ \A u \in Var \ {v} : ValueIn(u)' = ValueIn(u)
  \/ \E v, w \in Var : /\ v # w /\ ValueIn(w) # Gone
                       /\ ValueIn(v)' = ValueIn(w) /\ ValueIn(w)' = Nil
                       /\ \A u \in Var \ {v, w} : ValueIn(u)' = ValueIn(u)

\* A copy makes a block of its own and changes the value of its target only.
LEMMA CopyFromStep ==
  ASSUME StoreInv, NEW v \in Var, NEW w \in Var, v # w,
         NEW h, h = Cleared(slot[v], heap), CopyFrom(v, w, h)
  PROVE  StoreInv' /\ ValueStep
<1>1. /\ h \in [Block -> Boxed \cup {Gone}]
      /\ \A u \in Var : u # v /\ IsBoxed(slot[u]) => h[slot[u].bits] = heap[slot[u].bits]
      /\ \A b \in Block : h[b] # Gone => \E u \in Var : u # v /\ IsBoxed(slot[u]) /\ slot[u].bits = b
  BY ClearedHeap
<1>2. CASE IsBoxed(slot[w])
  <2>1. h[slot[w].bits] \in Boxed
    BY <1>1, <1>2, ReadsValue
  <2>2. Boxing(v, h[slot[w].bits], h)
    BY <1>2 DEF CopyFrom
  <2> QED BY <1>1, <2>1, <2>2, BoxingStep DEF ValueStep, Values
<1>3. CASE ~IsBoxed(slot[w])
  <2>1. slot' = [slot EXCEPT ![v] = slot[w]] /\ heap' = h
    BY <1>3 DEF CopyFrom
  <2>2. slot[w] \in SlotType /\ (slot[w].type = "inplace" => slot[w].bits \in InPlace)
    BY DEF StoreInv, StoreTyped
  <2>3. /\ StoreInv' /\ \A u \in Var \ {v} : ValueIn(u)' = ValueIn(u)
        /\ ValueIn(v)' = CASE slot[w].type = "gone" -> Gone [] slot[w].type = "null" -> Nil
                           [] slot[w].type = "inplace" -> slot[w].bits
    BY <1>1, <1>3, <2>1, <2>2, SlotStep
  <2>4. ValueIn(v)' \in Values
    BY <1>3, <2>2, <2>3 DEF Values, SlotType, IsBoxed
  <2> QED BY <2>3, <2>4 DEF ValueStep
<1> QED BY <1>2, <1>3

\* Every special member, and an edit through a reference, keeps the invariant
\* and changes the values as a value class may.
LEMMA StoreStepKeeps == ASSUME StoreInv, StoreNext PROVE StoreInv' /\ ValueStep
<1> DEFINE Kept(v, h) ==
      /\ h \in [Block -> Boxed \cup {Gone}]
      /\ \A w \in Var : w # v /\ IsBoxed(slot[w]) => h[slot[w].bits] = heap[slot[w].bits]
      /\ \A b \in Block : h[b] # Gone => \E w \in Var : w # v /\ IsBoxed(slot[w]) /\ slot[w].bits = b
<1>1. ASSUME NEW v \in Var, NEW x \in InPlace \cup Boxed \cup {Nil}, Construct(v, x)
      PROVE  StoreInv' /\ ValueStep
  <2>1. Cleared(slot[v], heap) = heap
    BY <1>1 DEF Construct, Alive, Cleared, IsBoxed
  <2>2. Kept(v, heap)
    BY <2>1, ClearedHeap
  <2>3. CASE x \in Boxed
    <3>1. Boxing(v, x, heap)
      BY <1>1, <2>3 DEF Construct
    <3> QED BY <2>2, <2>3, <3>1, BoxingStep DEF ValueStep, Values
  <2>4. CASE x \notin Boxed
    <3> DEFINE s == IF x = Nil THEN NullType ELSE [type |-> "inplace", bits |-> x]
    <3>1. slot' = [slot EXCEPT ![v] = s] /\ heap' = heap
      BY <1>1, <2>4 DEF Construct
    <3>2. s \in SlotType /\ ~IsBoxed(s) /\ (s.type = "inplace" => s.bits \in InPlace) /\ s.type # "gone"
      BY <1>1, <2>4 DEF SlotType, NullType, IsBoxed
    <3> HIDE DEF s
    <3>3. /\ StoreInv' /\ \A w \in Var \ {v} : ValueIn(w)' = ValueIn(w)
          /\ ValueIn(v)' = CASE s.type = "gone" -> Gone [] s.type = "null" -> Nil
                             [] s.type = "inplace" -> s.bits
      BY <2>2, <3>1, <3>2, SlotStep
    <3>4. ValueIn(v)' \in Values
      BY <3>2, <3>3 DEF Values, SlotType, IsBoxed
    <3> QED BY <3>3, <3>4 DEF ValueStep
  <2> QED BY <2>3, <2>4
<1>2. ASSUME NEW v \in Var, NEW x \in Boxed, EditInPlace(v, x)
      PROVE  StoreInv' /\ ValueStep
  <2> DEFINE b == slot[v].bits
  <2>1. /\ IsBoxed(slot[v]) /\ b \in Block /\ x # Gone
        /\ slot' = slot /\ heap' = [heap EXCEPT ![b] = x]
    BY <1>2, StoreAssumption DEF EditInPlace, StoreInv, StoreTyped
  <2>2. \A w \in Var : w # v /\ IsBoxed(slot[w]) => heap'[slot[w].bits] = heap[slot[w].bits]
    BY <2>1 DEF StoreInv, StoreTyped, Owning
  <2>3. StoreTyped'
    BY <2>1 DEF StoreInv, StoreTyped
  <2>4. Owning'
    BY <2>1, <2>2 DEF StoreInv, StoreTyped, Owning
  <2>5. NotLeaked'
    BY <2>1 DEF StoreInv, StoreTyped, NotLeaked
  <2>6. ASSUME NEW u \in Var \ {v} PROVE ValueIn(u)' = ValueIn(u)
    BY <2>1, <2>2 DEF ValueIn, IsBoxed, StoreInv, StoreTyped, SlotType
  <2>7. ValueIn(v)' = x
    BY <2>1 DEF ValueIn, IsBoxed, StoreInv, StoreTyped
  <2> QED BY <2>3, <2>4, <2>5, <2>6, <2>7 DEF StoreInv, ValueStep, Values
<1>3. ASSUME NEW v \in Var, NEW w \in Var, CopyConstruct(v, w)
      PROVE  StoreInv' /\ ValueStep
  <2>1. v # w /\ heap = Cleared(slot[v], heap) /\ CopyFrom(v, w, heap)
    BY <1>3 DEF CopyConstruct, Alive, Cleared, IsBoxed
  <2> QED BY <2>1, CopyFromStep
<1>4. ASSUME NEW v \in Var, NEW w \in Var, MoveConstruct(v, w)
      PROVE  StoreInv' /\ ValueStep
  <2>1. v # w /\ Alive(w) /\ slot' = Taken(v, w) /\ heap' = Cleared(slot[v], heap)
    BY <1>4 DEF MoveConstruct, Alive, Cleared, IsBoxed
  <2> QED BY <2>1, TakenStep, ReadsValue DEF ValueStep
<1>5. ASSUME NEW v \in Var, NEW w \in Var, AssignCopy(v, w)
      PROVE  StoreInv' /\ ValueStep
  <2>1. CASE v = w
    <3>1. UNCHANGED storeVars  BY <1>5, <2>1 DEF AssignCopy
    <3> QED BY <3>1 DEF storeVars, StoreInv, StoreTyped, Owning, NotLeaked, ValueStep, ValueIn
  <2>2. CASE v # w
    <3>1. CopyFrom(v, w, Cleared(slot[v], heap))  BY <1>5, <2>2 DEF AssignCopy
    <3> QED BY <2>2, <3>1, CopyFromStep
  <2> QED BY <2>1, <2>2
<1>6. ASSUME NEW v \in Var, NEW w \in Var, AssignMove(v, w)
      PROVE  StoreInv' /\ ValueStep
  <2>1. CASE v = w
    <3>1. UNCHANGED storeVars  BY <1>6, <2>1 DEF AssignMove
    <3> QED BY <3>1 DEF storeVars, StoreInv, StoreTyped, Owning, NotLeaked, ValueStep, ValueIn
  <2>2. CASE v # w
    <3>1. Alive(w) /\ slot' = Taken(v, w) /\ heap' = Cleared(slot[v], heap)
      BY <1>6, <2>2 DEF AssignMove
    <3> QED BY <2>2, <3>1, TakenStep, ReadsValue DEF ValueStep
  <2> QED BY <2>1, <2>2
<1>7. ASSUME NEW v \in Var, Destroy(v)
      PROVE  StoreInv' /\ ValueStep
  <2>1. slot' = [slot EXCEPT ![v] = None] /\ heap' = Cleared(slot[v], heap)
    BY <1>7 DEF Destroy
  <2>2. None \in SlotType /\ ~IsBoxed(None) /\ None.type = "gone"
    BY DEF None, SlotType, IsBoxed
  <2>3. Kept(v, heap')
    BY <2>1, ClearedHeap
  <2>4. StoreInv' /\ \A w \in Var \ {v} : ValueIn(w)' = ValueIn(w)
    BY <2>1, <2>2, <2>3, SlotStep
  <2>5. ValueIn(v)' = Gone
    BY <2>1 DEF StoreInv, StoreTyped, ValueIn, None, IsBoxed
  <2> QED BY <2>4, <2>5 DEF ValueStep, Values
<1> QED BY <1>1, <1>2, <1>3, <1>4, <1>5, <1>6, <1>7 DEF StoreNext

\* The invariant holds of every behaviour.
THEOREM StoreInvariance == StoreSpec => []StoreInv
<1>1. StoreInv /\ [StoreNext]_storeVars => StoreInv'
  <2>1. ASSUME StoreInv, UNCHANGED storeVars PROVE StoreInv'
    BY <2>1 DEF storeVars, StoreInv, StoreTyped, Owning, NotLeaked
  <2> QED BY <2>1, StoreStepKeeps
<1> QED BY StoreInitInv, <1>1, PTL DEF StoreSpec

\* Such a change of values is a step of ValueStore, or none.
LEMMA ValueStepRefines == ASSUME ValueStep PROVE [Abstract!ValueNext]_[v \in Var |-> ValueIn(v)]
<1> DEFINE val == [v \in Var |-> ValueIn(v)]
<1>1. CASE \A u \in Var : ValueIn(u)' = ValueIn(u)
  BY <1>1
<1>2. ASSUME NEW v \in Var, ValueIn(v)' \in Values,
             \A u \in Var \ {v} : ValueIn(u)' = ValueIn(u)
      PROVE  Abstract!ValueNext
  <2>1. val' = [val EXCEPT ![v] = ValueIn(v)']
    BY <1>2
  <2>2. Abstract!SetValue(v, ValueIn(v)')
    BY <2>1 DEF Abstract!SetValue
  <2> QED BY <1>2, <2>2 DEF Abstract!ValueNext, Values
<1>3. ASSUME NEW v \in Var, NEW w \in Var, v # w, ValueIn(w) # Gone,
             ValueIn(v)' = ValueIn(w), ValueIn(w)' = Nil,
             \A u \in Var \ {v, w} : ValueIn(u)' = ValueIn(u)
      PROVE  Abstract!ValueNext
  <2>1. val' = [val EXCEPT ![v] = val[w], ![w] = Nil] /\ val[w] # Gone
    BY <1>3
  <2>2. Abstract!MoveValue(v, w)
    BY <2>1 DEF Abstract!MoveValue
  <2> QED BY <1>3, <2>2 DEF Abstract!ValueNext
<1> QED BY <1>1, <1>2, <1>3 DEF ValueStep

\* fc::variant implements a store of values, and whatever sequence of copies,
\* moves, assignments and edits led there, every block of the heap in use is
\* owned by exactly one variant: none is freed twice, used after it was freed,
\* or leaked.
THEOREM VariantIsValue == StoreSpec => IsValue
<1>1. StoreInit => Abstract!ValueInit
  BY DEF StoreInit, Abstract!ValueInit, ValueIn, None, IsBoxed
<1>2. StoreInv /\ [StoreNext]_storeVars => [Abstract!ValueNext]_[v \in Var |-> ValueIn(v)]
  <2>1. ASSUME UNCHANGED storeVars PROVE ValueStep
    BY <2>1 DEF storeVars, ValueStep, ValueIn
  <2> QED BY <2>1, StoreStepKeeps, ValueStepRefines
<1>3. StoreInv => OneOwner
  BY OwnersCounted
<1> QED BY <1>1, <1>2, <1>3, StoreInvariance, PTL DEF StoreSpec, IsValue, Abstract!ValueSpec

-----------------------------------------------------------------------------
(* r1::public_key *)

\* The inductive invariant.
KeyInv ==
  /\ key \in [PublicKey -> EcKey \cup {NoKey, "gone"}]
  /\ ec \in [EcKey -> Point \cup {NoPoint, Free}]
  /\ HandleOwned

\* It holds while no key exists.
LEMMA KeyInitInv == KeyInit => KeyInv
  BY HandleAssumption DEF KeyInit, KeyInv, HandleOwned, Owned, Exists

\* What one call does to the points of all keys.
PointStep ==
  \/ \A l \in PublicKey : PointOf(l)' = PointOf(l)
  \/ \E k \in PublicKey : /\ PointOf(k)' \in Point \cup {NoPoint, Free}
                          /\ \A l \in PublicKey \ {k} : PointOf(l)' = PointOf(l)
  \/ \E k, l \in PublicKey : /\ k # l /\ PointOf(l) # Free
                             /\ PointOf(k)' = PointOf(l) /\ PointOf(l)' = NoPoint
                             /\ \A m \in PublicKey \ {k, l} : PointOf(m)' = PointOf(m)

\* Freeing the handle of a key leaves those of the others as they were.
LEMMA FreedHandles ==
  ASSUME KeyInv, NEW k \in PublicKey
  PROVE  LET e == EC_KEY_free(k, ec)
         IN  /\ e \in [EcKey -> Point \cup {NoPoint, Free}]
             /\ \A l \in PublicKey \ {k} : Owned(l) => e[key[l]] = ec[key[l]]
  BY DEF KeyInv, HandleOwned, EC_KEY_free, Owned, Exists

\* A key is given a handle that is free, or none, and the other keys keep
\* theirs and what they hold.
LEMMA HandleStep ==
  ASSUME KeyInv, NEW k \in PublicKey, NEW n \in EcKey \cup {NoKey, "gone"},
         key' = [key EXCEPT ![k] = n], ec' \in [EcKey -> Point \cup {NoPoint, Free}],
         n \in EcKey => ec'[n] \in Point /\ \A l \in PublicKey \ {k} : key[l] # n,
         \A l \in PublicKey \ {k} : Owned(l) => ec'[key[l]] = ec[key[l]]
  PROVE  KeyInv' /\ PointStep
<1>1. key'[k] = n /\ \A l \in PublicKey \ {k} : key'[l] = key[l]
  BY DEF KeyInv
<1>2. key' \in [PublicKey -> EcKey \cup {NoKey, "gone"}]
  BY DEF KeyInv
<1>3. HandleOwned'
  BY <1>1, HandleAssumption DEF KeyInv, HandleOwned, Owned, Exists
<1>4. ASSUME NEW l \in PublicKey \ {k} PROVE PointOf(l)' = PointOf(l)
  BY <1>1 DEF PointOf, Owned, Exists
<1>5. PointOf(k)' \in Point \cup {NoPoint, Free}
  BY <1>1 DEF PointOf, Owned, Exists
<1> QED BY <1>2, <1>3, <1>4, <1>5 DEF KeyInv, PointStep

\* Copying a key makes a handle of its own and changes the point of its target only.
LEMMA DuplicateStep ==
  ASSUME KeyInv, NEW k \in PublicKey, NEW l \in PublicKey, k # l,
         NEW e, e = EC_KEY_free(k, ec), Duplicate(k, l, e)
  PROVE  KeyInv' /\ PointStep
<1>1. /\ e \in [EcKey -> Point \cup {NoPoint, Free}]
      /\ \A m \in PublicKey \ {k} : Owned(m) => e[key[m]] = ec[key[m]]
  BY FreedHandles
<1>2. CASE Owned(l)
  <2>1. PICK h \in FreeHandles(e) : /\ key' = [key EXCEPT ![k] = h]
                                    /\ ec' = [e EXCEPT ![h] = e[key[l]]]
    BY <1>2 DEF Duplicate
  <2>2. h \in EcKey /\ e[h] = Free /\ e[key[l]] \in Point
    BY <1>1, <1>2, <2>1 DEF FreeHandles, KeyInv, HandleOwned
  <2>3. \A m \in PublicKey \ {k} : key[m] # h
    BY <1>1, <2>2, HandleAssumption DEF KeyInv, HandleOwned, Owned, Exists
  <2>4. /\ ec' \in [EcKey -> Point \cup {NoPoint, Free}] /\ ec'[h] \in Point
        /\ \A m \in PublicKey \ {k} : Owned(m) => ec'[key[m]] = ec[key[m]]
    BY <1>1, <2>1, <2>2, <2>3 DEF KeyInv, Owned, Exists
  <2> QED BY <2>1, <2>2, <2>3, <2>4, HandleStep
<1>3. CASE ~Owned(l)
  <2>1. key' = [key EXCEPT ![k] = NoKey] /\ ec' = e
    BY <1>3 DEF Duplicate
  <2> QED BY <1>1, <2>1, HandleStep, HandleAssumption
<1> QED BY <1>2, <1>3

\* Every special member keeps the invariant and changes the points of the keys
\* as a value class may.
LEMMA KeyStepKeeps == ASSUME KeyInv, KeyNext PROVE KeyInv' /\ PointStep
<1>1. ASSUME NEW k \in PublicKey, Default(k) PROVE KeyInv' /\ PointStep
  BY <1>1, HandleStep, HandleAssumption DEF Default, KeyInv
<1>2. ASSUME NEW k \in PublicKey, NEW p \in Point, FromData(k, p) PROVE KeyInv' /\ PointStep
  <2>1. CASE key' = [key EXCEPT ![k] = NoKey] /\ UNCHANGED ec
    BY <2>1, HandleStep, HandleAssumption DEF KeyInv
  <2>2. ASSUME NEW h \in FreeHandles(ec), ec' = [ec EXCEPT ![h] = p], key' = [key EXCEPT ![k] = h]
        PROVE  KeyInv' /\ PointStep
    <3>1. h \in EcKey /\ ec[h] = Free
      BY <2>2 DEF FreeHandles
    <3>2. \A m \in PublicKey \ {k} : key[m] # h
      BY <3>1, HandleAssumption DEF KeyInv, HandleOwned, Owned, Exists
    <3>3. /\ ec' \in [EcKey -> Point \cup {NoPoint, Free}] /\ ec'[h] \in Point
          /\ \A m \in PublicKey \ {k} : Owned(m) => ec'[key[m]] = ec[key[m]]
      BY <2>2, <3>1, <3>2 DEF KeyInv, Owned, Exists
    <3> QED BY <2>2, <3>1, <3>2, <3>3, HandleStep
  <2>3. ASSUME NEW h \in FreeHandles(ec), ec' = [ec EXCEPT ![h] = NoPoint], key' = key
        PROVE  KeyInv' /\ PointStep
    <3>1. h \in EcKey /\ ec[h] = Free
      BY <2>3 DEF FreeHandles
    <3>2. \A m \in PublicKey : key[m] # h
      BY <3>1, HandleAssumption DEF KeyInv, HandleOwned, Owned, Exists
    <3>3. /\ ec' \in [EcKey -> Point \cup {NoPoint, Free}]
          /\ \A m \in PublicKey : Owned(m) => ec'[key[m]] = ec[key[m]]
      BY <2>3, <3>1, <3>2 DEF KeyInv, Owned, Exists
    <3>4. KeyInv'
      BY <2>3, <3>3 DEF KeyInv, HandleOwned, Owned, Exists
    <3>5. ASSUME NEW m \in PublicKey PROVE PointOf(m)' = PointOf(m)
      BY <2>3, <3>3 DEF PointOf, Owned, Exists
    <3> QED BY <3>4, <3>5 DEF PointStep
  <2> QED BY <1>2, <2>1, <2>2, <2>3 DEF FromData
<1>3. ASSUME NEW k \in PublicKey, NEW l \in PublicKey, CopyConstructKey(k, l)
      PROVE  KeyInv' /\ PointStep
  <2>1. k # l /\ ec = EC_KEY_free(k, ec) /\ Duplicate(k, l, ec)
    BY <1>3 DEF CopyConstructKey, EC_KEY_free, Owned
  <2> QED BY <2>1, DuplicateStep
<1>4. ASSUME NEW k \in PublicKey, NEW l \in PublicKey, AssignCopyKey(k, l)
      PROVE  KeyInv' /\ PointStep
  BY <1>4, DuplicateStep DEF AssignCopyKey
<1>5. ASSUME NEW k \in PublicKey, NEW l \in PublicKey, AssignMoveKey(k, l)
      PROVE  KeyInv' /\ PointStep
  <2>1. /\ Exists(k) /\ Exists(l) /\ ec' = EC_KEY_free(k, ec)
        /\ key' = [key EXCEPT ![k] = key[l], ![l] = NoKey]
    BY <1>5 DEF AssignMoveKey
  <2>2. /\ ec' \in [EcKey -> Point \cup {NoPoint, Free}]
        /\ \A m \in PublicKey \ {k} : Owned(m) => ec'[key[m]] = ec[key[m]]
    BY <2>1, FreedHandles
  <2>3. CASE k = l
    <3>1. key' = [key EXCEPT ![k] = NoKey]
      BY <2>1, <2>3 DEF KeyInv
    <3> QED BY <2>2, <3>1, HandleStep, HandleAssumption
  <2>4. CASE k # l
    <3>1. /\ key'[k] = key[l] /\ key'[l] = NoKey
          /\ \A m \in PublicKey \ {k, l} : key'[m] = key[m]
      BY <2>1, <2>4 DEF KeyInv
    <3>2. key' \in [PublicKey -> EcKey \cup {NoKey, "gone"}]
      BY <2>1 DEF KeyInv
    <3>3. HandleOwned'
      BY <2>2, <2>4, <3>1, HandleAssumption DEF KeyInv, HandleOwned, Owned, Exists
    <3>4. PointOf(l) # Free
      BY <2>1, HandleAssumption DEF KeyInv, HandleOwned, PointOf
    <3>5. PointOf(k)' = PointOf(l) /\ PointOf(l)' = NoPoint
      BY <2>1, <2>2, <2>4, <3>1, HandleAssumption DEF PointOf, Owned, Exists
    <3>6. ASSUME NEW m \in PublicKey \ {k, l} PROVE PointOf(m)' = PointOf(m)
      BY <2>2, <3>1 DEF PointOf, Owned, Exists
    <3> QED BY <2>2, <2>4, <3>2, <3>3, <3>4, <3>5, <3>6 DEF KeyInv, PointStep
  <2> QED BY <2>3, <2>4
<1>6. ASSUME NEW k \in PublicKey, DestroyKey(k) PROVE KeyInv' /\ PointStep
  BY <1>6, FreedHandles, HandleStep, HandleAssumption DEF DestroyKey
<1> QED BY <1>1, <1>2, <1>3, <1>4, <1>5, <1>6 DEF KeyNext

\* Such a change of points is a step of ValueStore, or none.
LEMMA PointStepRefines ==
  ASSUME PointStep PROVE [AbstractKey!ValueNext]_[k \in PublicKey |-> PointOf(k)]
<1> DEFINE val == [k \in PublicKey |-> PointOf(k)]
<1>1. CASE \A l \in PublicKey : PointOf(l)' = PointOf(l)
  BY <1>1
<1>2. ASSUME NEW k \in PublicKey, PointOf(k)' \in Point \cup {NoPoint, Free},
             \A l \in PublicKey \ {k} : PointOf(l)' = PointOf(l)
      PROVE  AbstractKey!ValueNext
  <2>1. val' = [val EXCEPT ![k] = PointOf(k)']
    BY <1>2
  <2>2. AbstractKey!SetValue(k, PointOf(k)')
    BY <2>1 DEF AbstractKey!SetValue
  <2> QED BY <1>2, <2>2 DEF AbstractKey!ValueNext
<1>3. ASSUME NEW k \in PublicKey, NEW l \in PublicKey, k # l, PointOf(l) # Free,
             PointOf(k)' = PointOf(l), PointOf(l)' = NoPoint,
             \A m \in PublicKey \ {k, l} : PointOf(m)' = PointOf(m)
      PROVE  AbstractKey!ValueNext
  <2>1. val' = [val EXCEPT ![k] = val[l], ![l] = NoPoint] /\ val[l] # Free
    BY <1>3
  <2>2. AbstractKey!MoveValue(k, l)
    BY <2>1 DEF AbstractKey!MoveValue
  <2> QED BY <1>3, <2>2 DEF AbstractKey!ValueNext
<1> QED BY <1>1, <1>2, <1>3 DEF PointStep

\* r1::public_key implements a store of values: no operation on a key changes
\* another, and no two keys ever own one OpenSSL handle or a freed one, for any
\* number of keys and handles.
THEOREM PublicKeyIsValue == KeySpec => KeyIsValue
<1>1. KeyInit => AbstractKey!ValueInit
  BY DEF KeyInit, AbstractKey!ValueInit, PointOf, Exists
<1>2. ASSUME UNCHANGED keyVars PROVE PointStep /\ (KeyInv => KeyInv')
  BY <1>2 DEF keyVars, PointStep, PointOf, KeyInv, HandleOwned, Owned, Exists
<1>3. KeyInv /\ [KeyNext]_keyVars => KeyInv'
  BY <1>2, KeyStepKeeps
<1>4. KeyInv /\ [KeyNext]_keyVars => [AbstractKey!ValueNext]_[k \in PublicKey |-> PointOf(k)]
  BY <1>2, KeyStepKeeps, PointStepRefines
<1>5. KeyInv => HandleOwned
  BY DEF KeyInv
<1> QED BY KeyInitInv, <1>1, <1>3, <1>4, <1>5, PTL DEF KeySpec, KeyIsValue, AbstractKey!ValueSpec

-----------------------------------------------------------------------------
(* fc::bloom_filter *)

\* The seeds, and the number of the salts a filter may have.
Seeds == {p.seed : p \in Params}
FilterType ==
  [seed : Seeds, table_size : Nat, salt : SUBSET (Seeds \X (1..Salts)),
   bits : SUBSET (Int \X Int), inserted : Nat]

\* The salts are the first of the predefined ones.
WellMade(g) == \E n \in 0..Salts : g.salt = generate_unique_salt(n, g.seed)

\* The filter has the bits of the element that its table can hold.
HasBits(g, e) == BitsOf(g, e) \cap Table(g) \subseteq g.bits

\* The inductive invariant: filters are well made and have their elements' bits.
BloomInv ==
  /\ filter \in [Filter -> FilterType]
  /\ members \in [Filter -> SUBSET Element]
  /\ \A f \in Filter : WellMade(filter[f])
  /\ \A f \in Filter : \A e \in members[f] : HasBits(filter[f], e)

\* Rounding up to whole cells.
LEMMA WholeCells ==
  ASSUME NEW b \in Nat, NEW c \in Nat \ {0}
  PROVE  LET r == b + (IF b % c # 0 THEN c - (b % c) ELSE 0)
         IN  r \in Nat /\ r % c = 0 /\ r >= b
<1>1. CASE b % c = 0
  BY <1>1
<1>2. CASE b % c # 0
  <2> DEFINE q == b \div c
             r == b % c
  <2>1. r \in 0..(c - 1)
    OBVIOUS
  <2>2. q \in Nat
    OBVIOUS
  <2>3. b = q * c + r
    OBVIOUS
  <2>4. r # 0
    BY <1>2
  <2> HIDE DEF q, r
  <2>5. b + (c - r) = (q + 1) * c /\ b + (c - r) >= b
    BY <2>1, <2>2, <2>3
  <2>6. (q + 1) * c \in Nat /\ ((q + 1) * c) % c = 0
    BY <2>2
  <2>7. b + (IF r # 0 THEN c - r ELSE 0) = b + (c - r)
    BY <2>4
  <2> QED
    BY <2>5, <2>6, <2>7 DEF r
<1> QED
  BY <1>1, <1>2

\* compute_optimal_parameters: a size and a number of salts.
LEMMA OptimalParameters ==
  ASSUME NEW p \in Params
  PROVE  /\ compute_optimal_parameters(p).size \in Nat
         /\ compute_optimal_parameters(p).hashes \in 0..Salts
<1>1. Cell \in Nat \ {0} /\ Salts \in Nat
  BY BloomAssumption
<1>2. /\ p.best \in Nat /\ p.hashes \in Nat /\ p.min_size \in Nat /\ p.max_size \in Nat
      /\ p.min_hashes \in Nat /\ p.max_hashes \in Nat
      /\ Clamped(p.hashes, p.min_hashes, p.max_hashes) <= Salts
  BY BloomAssumption
<1> DEFINE size == Rounded(p.best)
<1>3. size \in Nat
  BY <1>1, <1>2, WholeCells DEF Rounded
<1>4. \/ /\ compute_optimal_parameters(p).size = 0 /\ compute_optimal_parameters(p).hashes = 0
      \/ /\ compute_optimal_parameters(p).size = Clamped(size, p.min_size, p.max_size)
         /\ compute_optimal_parameters(p).hashes = Clamped(p.hashes, p.min_hashes, p.max_hashes)
  BY DEF compute_optimal_parameters
<1> HIDE DEF size
<1>5. Clamped(size, p.min_size, p.max_size) \in Nat
  BY <1>2, <1>3 DEF Clamped
<1>6. Clamped(p.hashes, p.min_hashes, p.max_hashes) \in 0..Salts
  BY <1>1, <1>2 DEF Clamped
<1> QED
  BY <1>1, <1>4, <1>5, <1>6

\* A new filter is well made.
LEMMA BlankWellMade ==
  ASSUME NEW p \in Params
  PROVE  Blank(p) \in FilterType /\ WellMade(Blank(p)) /\ Blank(p).bits = {}
<1> DEFINE o == compute_optimal_parameters(p)
<1>1. o.size \in Nat /\ o.hashes \in 0..Salts /\ Salts \in Nat
  BY OptimalParameters, BloomAssumption
<1> DEFINE salts == generate_unique_salt(o.hashes, p.seed)
<1>2. Blank(p) = [seed |-> p.seed, table_size |-> o.size, salt |-> salts, bits |-> {}, inserted |-> 0]
  BY DEF Blank
<1>3. salts \subseteq Seeds \X (1..Salts)
  BY <1>1 DEF generate_unique_salt, Seeds
<1>4. p.seed \in Seeds
  BY DEF Seeds
<1> HIDE DEF o
<1>5. \E n \in 0..Salts : salts = generate_unique_salt(n, p.seed)
  BY <1>1
<1> HIDE DEF salts
<1> QED
  BY <1>1, <1>2, <1>3, <1>4, <1>5 DEF FilterType, WellMade

\* The cells of a table are numbered.
LEMMA TableNumbered ==
  ASSUME NEW g PROVE Table(g) \subseteq Int \X Int
BY DEF Table

\* The indices of an element fall into the table or, if the size is not whole
\* cells, into the cell behind it.
LEMMA BitsInTable ==
  ASSUME NEW g \in FilterType, Usable(g), NEW e \in Element, NEW x \in BitsOf(g, e)
  PROVE  /\ x[1] \in 0..raw_table_size(g)
         /\ g.table_size % Cell = 0 => x \in Table(g)
<1> DEFINE t == g.table_size
<1>1. PICK s \in g.salt : x = compute_indices(Hash(s, e), t)
  BY DEF BitsOf
<1>2. t \in Nat \ {0} /\ Cell \in Nat \ {0}
  BY <1>1, BloomAssumption DEF FilterType, Usable
<1>3. s \in Seeds \X (1..Salts)
  BY DEF FilterType
<1>4. PICK p \in Params : s[1] = p.seed
  BY <1>3 DEF Seeds
<1>5. Hash(s, e) \in Nat
  BY <1>3, <1>4, BloomAssumption DEF Hash
<1> DEFINE b == Hash(s, e) % t
<1>6. b \in 0..(t - 1)
  BY <1>2, <1>5
<1>7. x = <<b \div Cell, b % Cell>> /\ raw_table_size(g) = t \div Cell
  BY <1>1 DEF compute_indices, raw_table_size
<1> HIDE DEF b, t
<1> DEFINE q == t \div Cell
           m == t % Cell
           c == b \div Cell
           d == b % Cell
<1>8. q \in Nat /\ m \in 0..(Cell - 1) /\ t = Cell * q + m
  BY <1>2
<1>9. c \in Nat /\ d \in 0..(Cell - 1) /\ b = Cell * c + d
  BY <1>2, <1>6
<1>10. x = <<c, d>> /\ raw_table_size(g) = q
  BY <1>7
<1>11. (g.table_size % Cell = 0) = (m = 0)
  BY DEF t
<1>12. Table(g) = {<<u, v>> : u \in 0..(q - 1), v \in 0..(Cell - 1)}
  BY <1>10 DEF Table
<1> HIDE DEF q, m, c, d
<1>13. c <= q
  <2> SUFFICES ASSUME c >= q + 1 PROVE FALSE
    BY <1>8, <1>9
  <2>1. Cell * c >= Cell * (q + 1)
    BY <1>2, <1>8, <1>9
  <2>2. Cell * (q + 1) = Cell * q + Cell
    BY <1>2, <1>8
  <2> QED
    BY <1>2, <1>6, <1>8, <1>9, <2>1, <2>2
<1>14. ASSUME m = 0 PROVE c < q
  <2>1. Cell * c < Cell * q
    BY <1>2, <1>6, <1>8, <1>9, <1>14
  <2> SUFFICES ASSUME c = q PROVE FALSE
    BY <1>8, <1>9, <1>13
  <2> QED
    BY <1>2, <1>8, <2>1
<1>15. ASSUME m = 0 PROVE x \in Table(g)
  <2>1. c \in 0..(q - 1)
    BY <1>8, <1>9, <1>14, <1>15
  <2> QED
    BY <1>9, <1>10, <1>12, <2>1
<1> QED
  BY <1>8, <1>9, <1>10, <1>11, <1>13, <1>15

\* As many salts as hashes.
LEMMA SaltsCounted ==
  ASSUME NEW n \in Nat, NEW seed
  PROVE  Cardinality(generate_unique_salt(n, seed)) = n
<1> DEFINE h == [i \in 1..n |-> <<seed, i>>]
<1>1. generate_unique_salt(n, seed) = {<<seed, i>> : i \in 1..n}
  BY DEF generate_unique_salt
<1>2. h \in Bijection(1..n, generate_unique_salt(n, seed))
  BY <1>1 DEF Bijection, Injection, Surjection, IsInjective
<1>3. IsFiniteSet(1..n) /\ Cardinality(1..n) = n
  BY FS_Interval
<1> QED
  BY <1>2, <1>3, FS_Bijection DEF ExistsBijection

\* Filters that combine look an element up in the same bits.
LEMMA CompatibleBits ==
  ASSUME NEW g, NEW h, WellMade(g), WellMade(h), Compatible(g, h), NEW e
  PROVE  BitsOf(g, e) = BitsOf(h, e) /\ Table(g) = Table(h)
<1>1. PICK n \in 0..Salts : g.salt = generate_unique_salt(n, g.seed)
  BY DEF WellMade
<1>2. PICK m \in 0..Salts : h.salt = generate_unique_salt(m, h.seed)
  BY DEF WellMade
<1>3. n = m
  <2>1. n \in Nat /\ m \in Nat
    BY BloomAssumption
  <2>2. Cardinality(g.salt) = n /\ Cardinality(h.salt) = m
    BY ONLY <1>1, <1>2, <2>1, SaltsCounted
  <2>3. Cardinality(g.salt) = Cardinality(h.salt)
    BY DEF Compatible
  <2> QED
    BY ONLY <2>2, <2>3
<1> QED
  BY <1>1, <1>2, <1>3 DEF Compatible, BitsOf, Table, raw_table_size

\* A filter that is given other bits, which hold those of its elements.
LEMMA BitsStep ==
  ASSUME BloomInv, NEW f \in Filter, NEW bits \in SUBSET (Int \X Int), NEW kept \in SUBSET Element,
         NEW n \in Nat,
         filter' = [filter EXCEPT ![f] = [filter[f] EXCEPT !.bits = bits, !.inserted = n]],
         members' = [members EXCEPT ![f] = kept],
         \A e \in kept : BitsOf(filter[f], e) \cap Table(filter[f]) \subseteq bits
  PROVE  BloomInv'
<1> DEFINE g == [filter[f] EXCEPT !.bits = bits, !.inserted = n]
<1>1. filter[f] \in FilterType /\ WellMade(filter[f])
  BY DEF BloomInv
<1>2. g \in FilterType /\ g.bits = bits /\ g.seed = filter[f].seed /\ g.table_size = filter[f].table_size /\ g.salt = filter[f].salt
  BY <1>1 DEF FilterType
<1>3. WellMade(g) /\ Table(g) = Table(filter[f]) /\ \A e : BitsOf(g, e) = BitsOf(filter[f], e)
  BY <1>1, <1>2 DEF WellMade, BitsOf, Table, raw_table_size
<1> HIDE DEF g
<1>4. filter' = [filter EXCEPT ![f] = g]
  BY DEF g
<1>5. filter' \in [Filter -> FilterType] /\ members' \in [Filter -> SUBSET Element]
  BY <1>2, <1>4 DEF BloomInv
<1>6. \A h \in Filter : (h = f => filter'[h] = g /\ members'[h] = kept)
                        /\ (h # f => filter'[h] = filter[h] /\ members'[h] = members[h])
  BY <1>4 DEF BloomInv
<1>7. \A h \in Filter : WellMade(filter'[h])
  BY <1>3, <1>6 DEF BloomInv
<1>8. \A h \in Filter : \A e \in members'[h] : HasBits(filter'[h], e)
  BY <1>2, <1>3, <1>6 DEF BloomInv, HasBits
<1> QED
  BY <1>5, <1>7, <1>8 DEF BloomInv

\* operators &=, |= and ^= keep the bits of the elements they promise.
LEMMA CombineStep ==
  ASSUME BloomInv, NEW f \in Filter, NEW g \in Filter, Intersect(f, g) \/ Unite(f, g) \/ Differ(f, g)
  PROVE  BloomInv'
<1>1. /\ filter[f] \in FilterType /\ filter[g] \in FilterType /\ WellMade(filter[f]) /\ WellMade(filter[g])
      /\ members[f] \subseteq Element /\ members[g] \subseteq Element
  BY DEF BloomInv
<1>2. /\ \A e \in members[f] : BitsOf(filter[f], e) \cap Table(filter[f]) \subseteq filter[f].bits
      /\ \A e \in members[g] : BitsOf(filter[g], e) \cap Table(filter[g]) \subseteq filter[g].bits
  BY DEF BloomInv, HasBits
<1>3. CASE ~Compatible(filter[f], filter[g])
  <2>1. UNCHANGED bloomVars
    BY <1>3 DEF Intersect, Unite, Differ, Combine
  <2> QED
    BY <2>1 DEF bloomVars, BloomInv
<1>4. CASE Compatible(filter[f], filter[g])
  <2>1. (\A e : BitsOf(filter[f], e) = BitsOf(filter[g], e)) /\ Table(filter[f]) = Table(filter[g])
    BY <1>1, <1>4, CompatibleBits
  <2>2. filter[f].bits \subseteq Int \X Int /\ filter[g].bits \subseteq Int \X Int /\ filter[f].inserted \in Nat
    BY <1>1 DEF FilterType
  <2>3. \A b : [filter EXCEPT ![f].bits = b]
               = [filter EXCEPT ![f] = [filter[f] EXCEPT !.bits = b, !.inserted = filter[f].inserted]]
    BY <1>1 DEF BloomInv, FilterType
  <2>4. ASSUME NEW bits \in SUBSET (Int \X Int), NEW kept \in SUBSET Element, Combine(f, g, bits, kept),
               \A e \in kept : BitsOf(filter[f], e) \cap Table(filter[f]) \subseteq bits
        PROVE  BloomInv'
    <3>1. filter' = [filter EXCEPT ![f] = [filter[f] EXCEPT !.bits = bits, !.inserted = filter[f].inserted]]
      BY <1>4, <2>3, <2>4 DEF Combine
    <3>2. members' = [members EXCEPT ![f] = kept]
      BY <1>4, <2>4 DEF Combine
    <3> QED
      BY <2>2, <2>4, <3>1, <3>2, BitsStep
  <2>5. CASE Intersect(f, g)
    <3> DEFINE bits == filter[f].bits \cap filter[g].bits
               kept == members[f] \cap members[g]
    <3>1. /\ bits \in SUBSET (Int \X Int) /\ kept \in SUBSET Element
          /\ \A e \in kept : BitsOf(filter[f], e) \cap Table(filter[f]) \subseteq bits
      BY <1>1, <1>2, <2>1, <2>2
    <3>2. Combine(f, g, bits, kept)
      BY <2>5 DEF Intersect
    <3> HIDE DEF bits, kept
    <3> QED
      BY <2>4, <3>1, <3>2
  <2>6. CASE Unite(f, g)
    <3> DEFINE bits == filter[f].bits \cup filter[g].bits
               kept == members[f] \cup members[g]
    <3>1. /\ bits \in SUBSET (Int \X Int) /\ kept \in SUBSET Element
          /\ \A e \in kept : BitsOf(filter[f], e) \cap Table(filter[f]) \subseteq bits
      BY <1>1, <1>2, <2>1, <2>2
    <3>2. Combine(f, g, bits, kept)
      BY <2>6 DEF Unite
    <3> HIDE DEF bits, kept
    <3> QED
      BY <2>4, <3>1, <3>2
  <2>7. CASE Differ(f, g)
    <3> DEFINE bits == (filter[f].bits \cup filter[g].bits) \ (filter[f].bits \cap filter[g].bits)
    <3>1. bits \in SUBSET (Int \X Int)
      BY <2>2
    <3>2. Combine(f, g, bits, {})
      BY <2>7 DEF Differ
    <3> HIDE DEF bits
    <3> QED
      BY <2>4, <3>1, <3>2
  <2> QED
    BY <2>5, <2>6, <2>7
<1> QED
  BY <1>3, <1>4

\* insert, clear and assignment.
LEMMA FillStep ==
  ASSUME BloomInv, NEW f \in Filter,
         (\E e \in Element : insert(f, e)) \/ clear(f) \/ \E g \in Filter : Assign(f, g)
  PROVE  BloomInv'
<1>1. /\ filter[f] \in FilterType /\ WellMade(filter[f]) /\ members[f] \subseteq Element
      /\ filter[f].bits \subseteq Int \X Int /\ filter[f].inserted \in Nat
  BY DEF BloomInv, FilterType
<1>2. ASSUME NEW e \in Element, insert(f, e) PROVE BloomInv'
  <2> DEFINE bits == filter[f].bits \cup (BitsOf(filter[f], e) \cap Table(filter[f]))
             kept == members[f] \cup {e}
             n == filter[f].inserted + 1
  <2>1. filter' = [filter EXCEPT ![f] = [filter[f] EXCEPT !.bits = bits, !.inserted = n]]
    BY <1>1, <1>2 DEF insert, BloomInv, FilterType
  <2>2. members' = [members EXCEPT ![f] = kept]
    BY <1>2 DEF insert
  <2>3. bits \in SUBSET (Int \X Int) /\ kept \in SUBSET Element /\ n \in Nat
    BY <1>1, TableNumbered
  <2>4. \A x \in kept : BitsOf(filter[f], x) \cap Table(filter[f]) \subseteq bits
    BY DEF BloomInv, HasBits
  <2> HIDE DEF bits, kept, n
  <2> QED
    BY <2>1, <2>2, <2>3, <2>4, BitsStep
<1>3. CASE clear(f)
  <2>1. filter' = [filter EXCEPT ![f] = [filter[f] EXCEPT !.bits = {}, !.inserted = 0]]
    BY <1>1, <1>3 DEF clear, BloomInv, FilterType
  <2>2. members' = [members EXCEPT ![f] = {}]
    BY <1>3 DEF clear
  <2> DEFINE bits == {}
             kept == {}
             n == 0
  <2>3. /\ bits \in SUBSET (Int \X Int) /\ kept \in SUBSET Element /\ n \in Nat
        /\ \A e \in kept : BitsOf(filter[f], e) \cap Table(filter[f]) \subseteq bits
        /\ filter' = [filter EXCEPT ![f] = [filter[f] EXCEPT !.bits = bits, !.inserted = n]]
        /\ members' = [members EXCEPT ![f] = kept]
    BY <2>1, <2>2
  <2> HIDE DEF bits, kept, n
  <2> QED
    BY <2>3, BitsStep
<1>4. ASSUME NEW g \in Filter, Assign(f, g) PROVE BloomInv'
  <2>1. filter' = [filter EXCEPT ![f] = filter[g]] /\ members' = [members EXCEPT ![f] = members[g]]
    BY <1>4 DEF Assign
  <2>2. filter' \in [Filter -> FilterType] /\ members' \in [Filter -> SUBSET Element]
    BY <2>1 DEF BloomInv
  <2>3. \A h \in Filter : \E k \in Filter : filter'[h] = filter[k] /\ members'[h] = members[k]
    BY <2>1 DEF BloomInv
  <2>4. \A h \in Filter : WellMade(filter'[h]) /\ \A e \in members'[h] : HasBits(filter'[h], e)
    BY <2>3 DEF BloomInv
  <2> QED
    BY <2>2, <2>4 DEF BloomInv
<1> QED
  BY <1>2, <1>3, <1>4

\* The invariant holds of every set of filters.
THEOREM BloomInvariance == BloomSpec => []BloomInv
<1>1. BloomInit => BloomInv
  <2> SUFFICES ASSUME BloomInit PROVE BloomInv
    OBVIOUS
  <2>1. members \in [Filter -> SUBSET Element] /\ \A f \in Filter : members[f] = {}
    BY DEF BloomInit
  <2>2. filter \in [Filter -> FilterType] /\ \A f \in Filter : WellMade(filter[f])
    BY BlankWellMade DEF BloomInit
  <2> QED
    BY <2>1, <2>2 DEF BloomInv
<1>2. BloomInv /\ [BloomNext]_bloomVars => BloomInv'
  <2>1. ASSUME BloomInv, UNCHANGED bloomVars PROVE BloomInv'
    BY <2>1 DEF bloomVars, BloomInv
  <2> QED
    BY <2>1, CombineStep, FillStep DEF BloomNext
<1> QED
  BY <1>1, <1>2, PTL DEF BloomSpec

\* bloom_filter::contains never denies an element that was inserted, through
\* copies, unions and intersections of filters, unless it has a bit behind the
\* table; an index reaches at most one cell behind the table that was allocated,
\* and none when the size is whole cells, for any hashes, sizes and limits.
THEOREM FiltersAreSound == BloomSpec => []FilterSound
<1>1. BloomInv => FilterSound
  <2> SUFFICES ASSUME BloomInv PROVE NoFalseNegative /\ IndexInTable
    BY DEF FilterSound
  <2>1. NoFalseNegative
    <3> SUFFICES ASSUME NEW f \in Filter, NEW e \in members[f],
                        BitsOf(filter[f], e) \subseteq Table(filter[f])
                 PROVE  contains(filter[f], e) = {TRUE}
      BY DEF NoFalseNegative
    <3>1. BitsOf(filter[f], e) \subseteq filter[f].bits
      BY DEF BloomInv, HasBits
    <3>2. SUBSET (BitsOf(filter[f], e) \ Table(filter[f])) = {{}}
      OBVIOUS
    <3>3. contains(filter[f], e) = {BitsOf(filter[f], e) \ {} \subseteq filter[f].bits}
      BY <3>2 DEF contains
    <3> QED
      BY <3>1, <3>3
  <2>2. IndexInTable
    BY BitsInTable DEF BloomInv, IndexInTable
  <2> QED
    BY <2>1, <2>2
<1> QED
  BY <1>1, BloomInvariance, PTL

-----------------------------------------------------------------------------
(* fc::variant_object and fc::mutable_variant_object: entries. *)

\* A set of natural numbers that is not empty has a least member.
LEMMA LeastNumber ==
  ASSUME NEW S \in SUBSET Nat, S # {}
  PROVE  \E x \in S : \A y \in S : x <= y
<1> DEFINE R == {ss \in Nat \X Nat : ss[1] < ss[2]}
<1>1. IsWellFoundedOn(R, Nat)
  BY NatLessThanWellFounded, Zenon DEF OpToRel
<1>2. \A x, y \in Nat : <<y, x>> \in R <=> y < x
  OBVIOUS
<1> HIDE DEF R
<1>3. PICK x \in S : \A y \in S : ~(<<y, x>> \in R)
  BY <1>1, WFMin
<1>4. ASSUME NEW y \in S PROVE x <= y
  <2>1. x \in Nat /\ y \in Nat
    OBVIOUS
  <2>2. ~(y < x)
    BY <1>2, <1>3, <2>1
  <2> QED
    BY <2>1, <2>2
<1> QED
  BY <1>4

\* find gives the position of an entry with the key, or 0 when there is none.
LEMMA FoundEntry ==
  ASSUME NEW s \in Seq(Entry), NEW k
  PROVE  /\ find(s, k) # 0 => find(s, k) \in 1..Len(s) /\ s[find(s, k)].key = k
         /\ find(s, k) = 0 => \A i \in 1..Len(s) : s[i].key # k
<1> DEFINE I == {i \in 1..Len(s) : s[i].key = k}
<1>1. find(s, k) = IF I # {} THEN Min(I) ELSE 0
  BY DEF find, SelectInSeq
<1>2. I \in SUBSET Nat
  OBVIOUS
<1>3. CASE I # {}
  <2>1. \E x \in I : \A y \in I : x <= y
    <3> HIDE DEF I
    <3> QED
      BY <1>2, <1>3, LeastNumber
  <2>2. Min(I) \in I
    BY <2>1 DEF Min
  <2>3. Min(I) \in 1..Len(s) /\ s[Min(I)].key = k
    BY <2>2
  <2> HIDE DEF I
  <2> QED
    BY <1>1, <1>3, <2>3
<1>4. CASE I = {}
  BY <1>1, <1>4
<1> QED
  BY <1>3, <1>4

\* t has the keys of s in their order, and then keys that occur once.
Extends(s, t) ==
  /\ Len(s) <= Len(t)
  /\ \A i \in 1..Len(s) : t[i].key = s[i].key
  /\ \A i, j \in 1..Len(t) : i # j /\ t[i].key = t[j].key => j <= Len(s)

\* Nothing was added.
LEMMA ExtendsItself ==
  ASSUME NEW s \in Seq(Entry)
  PROVE  Extends(s, s)
  BY DEF Extends

\* set, on entries: a key that is there stays where it is, another one is appended.
LEMMA SetExtends ==
  ASSUME NEW s \in Seq(Entry), NEW t \in Seq(Entry), Extends(s, t), NEW k \in Key, NEW v \in Val
  PROVE  SetIn(t, k, v) \in Seq(Entry) /\ Extends(s, SetIn(t, k, v))
<1> DEFINE f == find(t, k)
           e == [key |-> k, value |-> v]
           n == Len(t)
<1>0. n \in Nat /\ Len(s) \in Nat /\ t \in [1..n -> Entry]
  BY LenProperties
<1>1. /\ f # 0 => f \in 1..n /\ t[f].key = k
      /\ f = 0 => \A i \in 1..n : t[i].key # k
  BY FoundEntry
<1>2. e \in Entry /\ e.key = k
  BY DEF Entry
<1>3. /\ f = 0 => SetIn(t, k, v) = Append(t, e)
      /\ f # 0 => SetIn(t, k, v) = [t EXCEPT ![f].value = v]
  BY DEF SetIn
<1> HIDE DEF f, e
<1>4. CASE f = 0
  <2> DEFINE u == Append(t, e)
  <2>1. u \in Seq(Entry) /\ Len(u) = n + 1 /\ u[n + 1] = e /\ \A i \in 1..n : u[i] = t[i]
    BY <1>2, AppendProperties
  <2> HIDE DEF u, n
  <2>2. Len(s) <= n /\ \A i \in 1..Len(s) : t[i].key = s[i].key
    BY DEF Extends, n
  <2>3. \A i \in 1..Len(s) : u[i].key = s[i].key
    BY <1>0, <2>1, <2>2
  <2>4. ASSUME NEW i \in 1..(n + 1), NEW j \in 1..(n + 1), i # j, u[i].key = u[j].key PROVE j <= Len(s)
    <3>1. i \in 1..n /\ j \in 1..n
      <4>1. i \in 1..n \/ i = n + 1
        BY <1>0
      <4>2. j \in 1..n \/ j = n + 1
        BY <1>0
      <4>3. \A x \in 1..n : u[x].key # k
        BY <1>1, <1>4, <2>1
      <4>4. u[n + 1].key = k
        BY <1>2, <2>1
      <4> QED
        BY <2>4, <4>1, <4>2, <4>3, <4>4
    <3>2. u[i] = t[i] /\ u[j] = t[j]
      BY <2>1, <3>1
    <3> QED
      BY <2>4, <3>1, <3>2 DEF Extends, n
  <2>5. Extends(s, u)
    BY <1>0, <2>1, <2>2, <2>3, <2>4 DEF Extends
  <2> QED
    BY <1>3, <1>4, <2>1, <2>5 DEF u
<1>5. CASE f # 0
  <2> DEFINE u == [t EXCEPT ![f].value = v]
  <2>1. f \in 1..n /\ t[f] \in Entry
    BY <1>0, <1>1, <1>5
  <2>2. [t[f] EXCEPT !.value = v] \in Entry /\ [t[f] EXCEPT !.value = v].key = t[f].key
    BY <2>1 DEF Entry
  <2>3. u \in [1..n -> Entry] /\ \A i \in 1..n : u[i].key = t[i].key
    BY <1>0, <2>1, <2>2
  <2>4. u \in Seq(Entry) /\ Len(u) = n
    <3> HIDE DEF u, n
    <3> QED
      BY <1>0, <2>3, IsASeq, LenProperties
  <2> HIDE DEF u
  <2>5. Extends(s, u)
    BY <1>0, <2>3, <2>4 DEF Extends
  <2> QED
    BY <1>3, <1>5, <2>4, <2>5 DEF u
<1> QED
  BY <1>4, <1>5

\* The equation of Merged's recursion, up to entry m.
SetUpTo(g, s, t, m) == g = [i \in 0..m |-> IF i = 0 THEN s ELSE SetIn(g[i - 1], t[i].key, t[i].value)]
Grown(s) == {u \in Seq(Entry) : Extends(s, u)}

\* One entry more.
LEMMA OneMore ==
  ASSUME NEW s \in Seq(Entry), NEW t \in Seq(Entry), NEW i \in 1..Len(t), NEW u \in Grown(s)
  PROVE  SetIn(u, t[i].key, t[i].value) \in Grown(s)
<1>1. t[i].key \in Key /\ t[i].value \in Val
  <2>1. t[i] \in Entry
    BY ElementOfSeq
  <2> QED
    BY <2>1 DEF Entry
<1>2. u \in Seq(Entry) /\ Extends(s, u)
  BY DEF Grown
<1> QED
  BY <1>1, <1>2, SetExtends DEF Grown

\* The entries can be set up to every one of them.
LEMMA MergeRuns ==
  ASSUME NEW s \in Seq(Entry), NEW t \in Seq(Entry)
  PROVE  \A m \in 0..Len(t) : \E g : g \in [0..m -> Grown(s)] /\ SetUpTo(g, s, t, m)
<1> DEFINE n == Len(t)
           G == Grown(s)
           Runs(m) == \E g : g \in [0..m -> G] /\ SetUpTo(g, s, t, m)
           B == {m \in 0..n : ~Runs(m)}
<1>0. n \in Nat /\ s \in G
  BY ExtendsItself, LenProperties DEF Grown
<1> SUFFICES ASSUME B # {} PROVE FALSE
  OBVIOUS
<1> HIDE DEF n, G
<1>1. PICK m \in B : \A k \in B : m <= k
  <2>1. B \in SUBSET Nat
    BY <1>0
  <2> HIDE DEF B
  <2> QED
    BY <2>1, LeastNumber
<1>2. m \in 0..n /\ m \in Nat /\ ~Runs(m)
  BY <1>0, <1>1
<1>3. CASE m = 0
  <2> DEFINE g == [i \in 0..0 |-> s]
  <2>1. g \in [0..0 -> G] /\ SetUpTo(g, s, t, 0)
    BY <1>0 DEF SetUpTo
  <2> QED
    BY <1>2, <1>3, <2>1
<1>4. CASE m # 0
  <2>1. m - 1 \in 0..n /\ ~(m <= m - 1) /\ m \in 1..n
    BY <1>0, <1>2, <1>4
  <2>2. Runs(m - 1)
    BY <1>1, <2>1
  <2>3. PICK g : g \in [0..(m - 1) -> G] /\ SetUpTo(g, s, t, m - 1)
    BY <2>2
  <2> DEFINE last == SetIn(g[m - 1], t[m].key, t[m].value)
             h == [i \in 0..m |-> IF i = m THEN last ELSE g[i]]
  <2>4. g[m - 1] \in G
    BY <2>1, <2>3
  <2>5. last \in G
    BY <2>1, <2>4, OneMore DEF n, G
  <2> HIDE DEF last
  <2>6. h \in [0..m -> G]
    BY <1>2, <2>3, <2>5
  <2>7. \A i \in 0..(m - 1) : h[i] = g[i] /\ g[i] = IF i = 0 THEN s ELSE SetIn(g[i - 1], t[i].key, t[i].value)
    BY <1>2, <2>3 DEF SetUpTo
  <2>8. h[m] = SetIn(h[m - 1], t[m].key, t[m].value)
    BY <1>2, <2>1 DEF last
  <2> HIDE DEF h
  <2>9. ASSUME NEW i \in 0..m PROVE h[i] = IF i = 0 THEN s ELSE SetIn(h[i - 1], t[i].key, t[i].value)
    <3>1. CASE i = m
      BY <1>4, <2>8, <3>1
    <3>2. CASE i # m
      <4>1. i \in 0..(m - 1) /\ (i # 0 => i - 1 \in 0..(m - 1))
        BY <1>2, <3>2
      <4> QED
        BY <2>7, <4>1
    <3> QED
      BY <3>1, <3>2
  <2>10. SetUpTo(h, s, t, m)
    BY <2>6, <2>9 DEF SetUpTo
  <2> QED
    BY <1>2, <2>6, <2>10
<1> QED
  BY <1>3, <1>4

\* What the recursion gives grows from s.
LEMMA MergeGrows ==
  ASSUME NEW s \in Seq(Entry), NEW t \in Seq(Entry), NEW g, SetUpTo(g, s, t, Len(t))
  PROVE  g[Len(t)] \in Grown(s)
<1> DEFINE n == Len(t)
           B == {m \in 0..n : ~(g[m] \in Grown(s))}
<1>0. n \in Nat /\ s \in Grown(s)
  BY ExtendsItself, LenProperties DEF Grown
<1>1. \A i \in 0..n : g[i] = IF i = 0 THEN s ELSE SetIn(g[i - 1], t[i].key, t[i].value)
  BY DEF SetUpTo
<1> HIDE DEF n
<1>2. ASSUME B # {} PROVE FALSE
  <2>1. PICK m \in B : \A k \in B : m <= k
    <3>1. B \in SUBSET Nat
      BY <1>0
    <3> HIDE DEF B
    <3> QED
      BY <1>2, <3>1, LeastNumber
  <2>2. CASE m = 0
    BY <1>0, <1>1, <2>1, <2>2
  <2>3. CASE m # 0
    <3>1. m \in 1..n /\ m - 1 \in 0..n /\ ~(m <= m - 1)
      BY <1>0, <2>1, <2>3
    <3>2. g[m - 1] \in Grown(s)
      BY <2>1, <3>1
    <3>3. g[m] = SetIn(g[m - 1], t[m].key, t[m].value)
      BY <1>1, <2>3, <3>1
    <3>4. g[m] \in Grown(s)
      BY <3>1, <3>2, <3>3, OneMore DEF n
    <3> QED
      BY <2>1, <3>4
  <2> QED
    BY <2>2, <2>3
<1>3. n \in 0..n
  BY <1>0
<1> QED
  BY <1>2, <1>3 DEF n

\* operator()( object ), on entries: the keys there were stay where they are, and
\* the new ones follow, each once.
LEMMA MergedExtends ==
  ASSUME NEW s \in Seq(Entry), NEW t \in Seq(Entry)
  PROVE  Merged(s, t) \in Seq(Entry) /\ Extends(s, Merged(s, t))
<1> DEFINE Loop(g) == g = [i \in 0..Len(t) |-> IF i = 0 THEN s ELSE SetIn(g[i - 1], t[i].key, t[i].value)]
           after == CHOOSE g : Loop(g)
<1>1. Merged(s, t) = after[Len(t)]
  BY DEF Merged
<1>2. \A g : Loop(g) <=> SetUpTo(g, s, t, Len(t))
  BY DEF SetUpTo
<1> HIDE DEF Loop
<1>3. SetUpTo(after, s, t, Len(t))
  <2>1. Len(t) \in 0..Len(t)
    BY LenProperties
  <2>2. \E g : SetUpTo(g, s, t, Len(t))
    BY <2>1, MergeRuns
  <2> QED
    BY <1>2, <2>2
<1> HIDE DEF after
<1>4. after[Len(t)] \in Grown(s)
  BY <1>3, MergeGrows
<1> QED
  BY <1>1, <1>4 DEF Grown

\* erase, on entries.
LEMMA ErasedEntries ==
  ASSUME NEW s \in Seq(Entry), NEW i \in 1..Len(s)
  PROVE  RemoveAt(s, i) \in Seq(Entry)
<1> DEFINE a == SubSeq(s, 1, i - 1)
           b == SubSeq(s, i + 1, Len(s))
<1>1. Len(s) \in Nat /\ i \in Nat /\ i <= Len(s) /\ \A j \in 1..Len(s) : s[j] \in Entry
  BY LenProperties, ElementOfSeq
<1>2. a \in Seq(Entry)
  <2>1. \A j \in 1..(i - 1) : s[j] \in Entry
    BY <1>1
  <2>2. i - 1 \in Int /\ 1 \in Int
    BY <1>1
  <2> QED
    BY ONLY <2>1, <2>2, SubSeqProperties
<1>3. b \in Seq(Entry)
  <2>1. \A j \in (i + 1)..Len(s) : s[j] \in Entry
    BY <1>1
  <2>2. i + 1 \in Int /\ Len(s) \in Int
    BY <1>1
  <2> QED
    BY ONLY <2>1, <2>2, SubSeqProperties
<1> HIDE DEF a, b
<1>4. a \o b \in Seq(Entry)
  BY <1>2, <1>3, ConcatProperties
<1> QED
  BY <1>4 DEF RemoveAt, a, b

-----------------------------------------------------------------------------
(* Handles and vectors. *)

Handles == [Handle -> Addr \cup {Null}]

\* The inductive invariant: every object has a vector, and no other handle has the
\* one of a mutable object.
ObjectInv == ObjectTypeOK /\ MutableUnshared

\* When a handle has no vector, one is free: there are as many as handles.
LEMMA FreshVector ==
  ASSUME NEW k \in Handles, NEW g \in Handle, k[g] = Null
  PROVE  Fresh(k) \in Addr /\ Fresh(k) \notin Live(k)
<1> SUFFICES ASSUME Addr \subseteq Live(k) PROVE FALSE
  <2>1. ~(Addr \subseteq Live(k)) => \E a \in Addr : a \notin Live(k)
    OBVIOUS
  <2> QED
    BY <2>1 DEF Fresh
<1> DEFINE H == Handle \ {g}
           of == [a \in Addr |-> CHOOSE h \in H : k[h] = a]
<1>1. ASSUME NEW a \in Addr PROVE of[a] \in H /\ k[of[a]] = a
  <2>1. \E h \in H : k[h] = a
    BY NullAssumption DEF Live
  <2> QED
    BY <2>1
<1>2. of \in [Addr -> H]
  BY <1>1
<1>3. IsFiniteSet(Handle)
  BY ObjectAssumption, FS_Union DEF Handle
<1>4. IsFiniteSet(H) /\ Cardinality(H) < Cardinality(Handle)
  <2>1. Cardinality(Handle) \in Nat
    BY <1>3, FS_CardinalityType
  <2>2. IsFiniteSet(Handle \ {g}) /\ Cardinality(Handle \ {g}) = Cardinality(Handle) - 1
    BY <1>3, FS_RemoveElement
  <2> QED
    BY <2>1, <2>2
<1> HIDE DEF of, H
<1>5. PICK x \in Addr, y \in Addr : x # y /\ of[x] = of[y]
  BY <1>2, <1>3, <1>4, FS_PigeonHole DEF Addr
<1> QED
  BY <1>1, <1>5

\* A vector is given content and handles move; the vectors in use keep theirs.
LEMMA StoredVectors ==
  ASSUME ObjectInv, NEW k \in Handles, NEW a \in Addr \cup {Null}, NEW c \in Seq(Entry), Store(k, a, c)
  PROVE  /\ vec' \in [Addr -> Seq(Entry)]
         /\ a \in Addr => vec'[a] = c
         /\ \A h \in Handle : k[h] # Null /\ k[h] # a => vec'[k[h]] = vec[k[h]]
<1>1. vec \in [Addr -> Seq(Entry)] /\ << >> \in Seq(Entry)
  BY DEF ObjectInv, ObjectTypeOK
<1>2. vec' = [x \in Addr |-> IF x = a THEN c ELSE IF x \in Live(k) THEN vec[x] ELSE << >>]
  BY DEF Store
<1>3. \A h \in Handle : k[h] # Null => k[h] \in Addr /\ k[h] \in Live(k)
  BY DEF Live, Handles
<1>4. vec' \in [Addr -> Seq(Entry)]
  BY <1>1, <1>2
<1> QED
  BY <1>2, <1>3, <1>4

\* Handles outside T keep what they hold.
KeptOutside(T) == \A h \in Handle \ T : kv[h] # Null => vec'[kv'[h]] = vec[kv[h]]

\* The operations that hand vectors around.
LEMMA VectorsHandedOver ==
  ASSUME ObjectInv, NEW k \in Handles, kv' = k, NEW a \in Addr \cup {Null}, NEW c \in Seq(Entry), Store(k, a, c),
         NEW T, \A h \in Handle \ T : k[h] = kv[h] /\ (kv[h] # Null => kv[h] # a),
         \A o \in Obj : k[o] # Null,
         \A m \in Mut, h \in Handle : k[m] # Null /\ h # m => k[h] # k[m]
  PROVE  ObjectInv' /\ KeptOutside(T)
<1>1. /\ vec' \in [Addr -> Seq(Entry)]
      /\ \A h \in Handle : k[h] # Null /\ k[h] # a => vec'[k[h]] = vec[k[h]]
  BY StoredVectors
<1>2. KeptOutside(T)
  BY <1>1 DEF KeptOutside
<1>3. ObjectTypeOK'
  BY <1>1 DEF ObjectTypeOK, Handles
<1>4. MutableUnshared'
  BY DEF MutableUnshared, usable
<1> QED
  BY <1>2, <1>3, <1>4 DEF ObjectInv

\* An edit of a vector in place.
LEMMA EditedVector ==
  ASSUME ObjectInv, NEW h \in Handle, kv[h] # Null, NEW c \in Seq(Entry), Edit(h, c)
  PROVE  /\ ObjectInv' /\ kv' = kv /\ vec'[kv[h]] = c
         /\ \A g \in Handle : kv[g] # Null /\ kv[g] # kv[h] => vec'[kv[g]] = vec[kv[g]]
<1>1. vec \in [Addr -> Seq(Entry)] /\ kv \in [Handle -> Addr \cup {Null}] /\ kv[h] \in Addr
  BY DEF ObjectInv, ObjectTypeOK
<1>2. vec' = [vec EXCEPT ![kv[h]] = c] /\ kv' = kv
  BY DEF Edit
<1>3. ObjectTypeOK'
  BY <1>1, <1>2 DEF ObjectInv, ObjectTypeOK
<1>4. MutableUnshared'
  BY <1>2 DEF ObjectInv, MutableUnshared, usable
<1> QED
  BY <1>1, <1>2, <1>3, <1>4 DEF ObjectInv

\* A handle that has let go of its vector is given a new one.
LEMMA GivenNew ==
  ASSUME ObjectInv, NEW k \in Handles, NEW g \in Handle, k[g] = Null, NEW c \in Seq(Entry),
         kv' = [k EXCEPT ![g] = Fresh(k)], Store(kv', Fresh(k), c),
         NEW T, g \in T, \A h \in Handle \ T : k[h] = kv[h],
         \A o \in Obj \ {g} : k[o] # Null,
         \A m \in Mut, h \in Handle : k[m] # Null /\ h # m => k[h] # k[m]
  PROVE  ObjectInv' /\ KeptOutside(T)
<1> DEFINE a == Fresh(k)
           j == [k EXCEPT ![g] = a]
<1>1. a \in Addr /\ a # Null /\ \A h \in Handle : k[h] # a
  BY FreshVector, NullAssumption DEF Live
<1>2. kv' = j /\ Store(j, a, c)
  OBVIOUS
<1> HIDE DEF a
<1>3. j \in Handles /\ j[g] = a /\ \A h \in Handle : h # g => j[h] = k[h]
  BY <1>1 DEF Handles
<1> HIDE DEF j
<1>4. \A h \in Handle \ T : j[h] = kv[h] /\ (kv[h] # Null => kv[h] # a)
  BY <1>1, <1>3
<1>5. \A o \in Obj : j[o] # Null
  BY <1>1, <1>3 DEF Handle
<1>6. \A m \in Mut, h \in Handle : j[m] # Null /\ h # m => j[h] # j[m]
  <2> SUFFICES ASSUME NEW m \in Mut, NEW h \in Handle, j[m] # Null, h # m PROVE j[h] # j[m]
    OBVIOUS
  <2>0. m \in Handle
    BY DEF Handle
  <2>1. CASE m = g
    BY <1>1, <1>3, <2>1
  <2>2. CASE h = g
    BY <1>1, <1>3, <2>0, <2>2
  <2>3. CASE m # g /\ h # g
    BY <1>3, <2>0, <2>3
  <2> QED
    BY <2>1, <2>2, <2>3
<1> QED
  BY <1>1, <1>2, <1>3, <1>4, <1>5, <1>6, VectorsHandedOver

\* What a call keeps: the invariant, what other handles hold, and the order of keys.
SetInOrder == \A m \in Mut : usable(m) /\ m \in touched' /\ kv'[m] = kv[m] => Extends(vec[kv[m]], vec'[kv'[m]])
CallKeeps ==
  /\ ObjectInv'
  /\ method' # "assign_mutable" => KeptOutside(touched')
  /\ method' = "set" => SetInOrder

\* Types of the state.
LEMMA ObjectTypes ==
  ASSUME ObjectInv
  PROVE  /\ vec \in [Addr -> Seq(Entry)] /\ kv \in Handles /\ \A o \in Obj : kv[o] # Null
         /\ \A h \in Handle : kv[h] # Null => Content(h) \in Seq(Entry)
         /\ \A m \in Mut, h \in Handle : kv[m] # Null /\ h # m => kv[h] # kv[m]
         /\ Obj \subseteq Handle /\ Mut \subseteq Handle /\ Obj \cap Mut = {}
  BY ObjectAssumption DEF ObjectInv, ObjectTypeOK, Handles, Content, MutableUnshared, usable, Handle

\* The special members of objects.
LEMMA ObjectMembers ==
  ASSUME ObjectInv, NEW o \in Obj, NEW src \in Obj,
         CopyObject(o, src) \/ MoveObject(o, src) \/ SwapObject(o, src)
  PROVE  CallKeeps
<1> USE ObjectTypes
<1>0. << >> \in Seq(Entry)
  OBVIOUS
<1>1. CASE CopyObject(o, src)
  <2> DEFINE k == [kv EXCEPT ![o] = kv[src]]
  <2>1. kv' = k /\ Store(k, Null, << >>) /\ method' = "copy" /\ touched' = {o, src}
    BY <1>1 DEF CopyObject, Call
  <2>2. k \in Handles /\ \A h \in Handle : k[h] = IF h = o THEN kv[src] ELSE kv[h]
    BY DEF Handles
  <2> HIDE DEF k
  <2>3. \A h \in Handle \ {o, src} : k[h] = kv[h] /\ (kv[h] # Null => kv[h] # Null)
    BY <2>2
  <2>4. \A p \in Obj : k[p] # Null
    BY <2>2
  <2>5. \A m \in Mut, h \in Handle : k[m] # Null /\ h # m => k[h] # k[m]
    BY <2>2
  <2>6. ObjectInv' /\ KeptOutside({o, src})
    BY <1>0, <2>1, <2>2, <2>3, <2>4, <2>5, VectorsHandedOver
  <2> QED
    BY <2>1, <2>6 DEF CallKeeps
<1>2. CASE MoveObject(o, src)
  <2> DEFINE k == [kv EXCEPT ![o] = kv[src], ![src] = Null]
  <2>1. /\ kv' = [k EXCEPT ![src] = Fresh(k)] /\ Store(kv', Fresh(k), << >>)
        /\ method' = "move" /\ touched' = {o, src} /\ o # src
    BY <1>2 DEF MoveObject, Call
  <2>2. k \in Handles /\ \A h \in Handle : k[h] = IF h = src THEN Null ELSE IF h = o THEN kv[src] ELSE kv[h]
    BY <2>1 DEF Handles
  <2> HIDE DEF k
  <2>3. k[src] = Null /\ \A h \in Handle \ {o, src} : k[h] = kv[h]
    BY <2>2
  <2>4. \A p \in Obj \ {src} : k[p] # Null
    BY <2>2
  <2>5. \A m \in Mut, h \in Handle : k[m] # Null /\ h # m => k[h] # k[m]
    BY <2>2
  <2>6. ObjectInv' /\ KeptOutside({o, src})
    BY <1>0, <2>1, <2>2, <2>3, <2>4, <2>5, GivenNew
  <2> QED
    BY <2>1, <2>6 DEF CallKeeps
<1>3. CASE SwapObject(o, src)
  <2>1. /\ kv' = [kv EXCEPT ![o] = kv[src], ![src] = kv[o]] /\ vec' = vec
        /\ method' = "swap" /\ touched' = {o, src}
    BY <1>3 DEF SwapObject, Call
  <2>2. kv' \in Handles /\ \A h \in Handle : kv'[h] = IF h = src THEN kv[o] ELSE IF h = o THEN kv[src] ELSE kv[h]
    BY <2>1 DEF Handles
  <2>3. ObjectTypeOK'
    BY <2>1, <2>2 DEF ObjectTypeOK, Handles
  <2>4. MutableUnshared'
    BY <2>2 DEF MutableUnshared, usable
  <2>5. KeptOutside({o, src})
    BY <2>1, <2>2 DEF KeptOutside
  <2> QED
    BY <2>1, <2>3, <2>4, <2>5 DEF CallKeeps, ObjectInv
<1> QED
  BY <1>1, <1>2, <1>3

\* Objects that take over what a mutable object has.
LEMMA ObjectTakes ==
  ASSUME ObjectInv, NEW o \in Obj, NEW m \in Mut, ObjectFromMoved(o, m) \/ AssignMoved(o, m)
  PROVE  CallKeeps
<1> USE ObjectTypes
<1> DEFINE k == [kv EXCEPT ![o] = kv[m], ![m] = Null]
<1>0. << >> \in Seq(Entry) /\ kv[m] # Null /\ method' = "move" /\ touched' = {o, m}
  BY DEF ObjectFromMoved, AssignMoved, usable, Call
<1>1. k \in Handles /\ \A h \in Handle : k[h] = IF h = m THEN Null ELSE IF h = o THEN kv[m] ELSE kv[h]
  BY DEF Handles
<1>2. /\ ObjectFromMoved(o, m) => kv' = k /\ Store(k, Null, << >>)
      /\ AssignMoved(o, m) => kv' = [k EXCEPT ![m] = Fresh(k)] /\ Store(kv', Fresh(k), << >>)
  BY DEF ObjectFromMoved, AssignMoved
<1> HIDE DEF k
<1>3. k[m] = Null /\ \A h \in Handle \ {o, m} : k[h] = kv[h] /\ (kv[h] # Null => kv[h] # Null)
  BY <1>1
<1>4. \A p \in Obj : k[p] # Null
  BY <1>0, <1>1
<1>5. \A n \in Mut, h \in Handle : k[n] # Null /\ h # n => k[h] # k[n]
  BY <1>0, <1>1
<1>6. CASE ObjectFromMoved(o, m)
  <2>1. ObjectInv' /\ KeptOutside({o, m})
    BY <1>0, <1>1, <1>2, <1>3, <1>4, <1>5, <1>6, VectorsHandedOver
  <2> QED
    BY <1>0, <2>1 DEF CallKeeps
<1>7. CASE AssignMoved(o, m)
  <2>1. ObjectInv' /\ KeptOutside({o, m})
    BY <1>0, <1>1, <1>2, <1>3, <1>4, <1>5, <1>7, GivenNew
  <2> QED
    BY <1>0, <2>1 DEF CallKeeps
<1> QED
  BY <1>6, <1>7

\* Mutable objects that are moved.
LEMMA MutableMoves ==
  ASSUME ObjectInv, NEW m \in Mut, NEW src \in Mut, MoveMutable(m, src)
  PROVE  CallKeeps
<1> USE ObjectTypes
<1> DEFINE k == [kv EXCEPT ![m] = kv[src], ![src] = Null]
<1>0. /\ << >> \in Seq(Entry) /\ kv[src] # Null /\ method' = "move" /\ touched' = {m, src} /\ m # src
      /\ kv' = k /\ Store(k, Null, << >>)
  BY DEF MoveMutable, usable, Call
<1>1. k \in Handles /\ \A h \in Handle : k[h] = IF h = src THEN Null ELSE IF h = m THEN kv[src] ELSE kv[h]
  BY <1>0 DEF Handles
<1> HIDE DEF k
<1>2. \A h \in Handle \ {m, src} : k[h] = kv[h] /\ (kv[h] # Null => kv[h] # Null)
  BY <1>1
<1>3. \A p \in Obj : k[p] # Null
  BY <1>0, <1>1
<1>4. \A n \in Mut, h \in Handle : k[n] # Null /\ h # n => k[h] # k[n]
  BY <1>0, <1>1
<1>5. ObjectInv' /\ KeptOutside({m, src})
  BY <1>0, <1>1, <1>2, <1>3, <1>4, VectorsHandedOver
<1> QED
  BY <1>0, <1>5 DEF CallKeeps

\* Constructors that make a vector.
LEMMA Renewed ==
  ASSUME ObjectInv, NEW g \in Handle, NEW c \in Seq(Entry), Renew(g, c), NEW T, g \in T, touched' = T,
         method' \in {"copy", "construct"}
  PROVE  CallKeeps
<1> USE ObjectTypes
<1> DEFINE k == [kv EXCEPT ![g] = Null]
<1>1. kv' = [k EXCEPT ![g] = Fresh(k)] /\ Store(kv', Fresh(k), c)
  BY DEF Renew
<1>2. k \in Handles /\ \A h \in Handle : k[h] = IF h = g THEN Null ELSE kv[h]
  BY DEF Handles
<1> HIDE DEF k
<1>3. k[g] = Null /\ \A h \in Handle \ T : k[h] = kv[h]
  BY <1>2
<1>4. \A p \in Obj \ {g} : k[p] # Null
  BY <1>2
<1>5. \A m \in Mut, h \in Handle : k[m] # Null /\ h # m => k[h] # k[m]
  BY NullAssumption, <1>2
<1>6. ObjectInv' /\ KeptOutside(T)
  BY <1>1, <1>2, <1>3, <1>4, <1>5, GivenNew
<1> QED
  BY <1>6 DEF CallKeeps

\* The constructors that copy the entries of another object.
LEMMA CopyMade ==
  ASSUME ObjectInv, NEW h \in Handle, NEW src \in Handle, CopyToNew(h, src)
  PROVE  CallKeeps
<1> USE ObjectTypes
<1>1. kv[src] # Null
  BY DEF CopyToNew, usable, Handle
<1>2. Content(src) \in Seq(Entry) /\ Renew(h, Content(src)) /\ method' = "copy" /\ touched' = {h, src}
  BY <1>1 DEF CopyToNew, Call
<1> QED
  BY <1>2, Renewed

\* The default constructor, and the one with a first entry.
LEMMA Constructed ==
  ASSUME ObjectInv, NEW h \in Handle, ConstructEmpty(h) \/ \E k \in Key, v \in Val : ConstructWith(h, k, v)
  PROVE  CallKeeps
<1>1. CASE ConstructEmpty(h)
  <2>1. << >> \in Seq(Entry) /\ Renew(h, << >>) /\ method' = "construct" /\ touched' = {h}
    BY <1>1 DEF ConstructEmpty, Call
  <2> QED
    BY <2>1, Renewed
<1>2. ASSUME NEW k \in Key, NEW v \in Val, ConstructWith(h, k, v) PROVE CallKeeps
  <2> DEFINE c == <<[key |-> k, value |-> v]>>
  <2>1. c \in Seq(Entry) /\ Renew(h, c) /\ method' = "construct" /\ touched' = {h}
    BY <1>2 DEF ConstructWith, Call, Entry
  <2> HIDE DEF c
  <2> QED
    BY <2>1, Renewed
<1> QED
  BY <1>1, <1>2

\* Edits of a mutable object's own vector.
LEMMA MutableEdits ==
  ASSUME ObjectInv, NEW m \in Mut, kv[m] # Null, NEW c \in Seq(Entry), Edit(m, c), m \in touched',
         method' = "set" => Extends(Content(m), c)
  PROVE  CallKeeps
<1> USE ObjectTypes
<1>1. /\ ObjectInv' /\ kv' = kv /\ vec'[kv[m]] = c
      /\ \A g \in Handle : kv[g] # Null /\ kv[g] # kv[m] => vec'[kv[g]] = vec[kv[g]]
  BY EditedVector
<1>2. \A g \in Handle : g # m /\ kv[g] # Null => vec'[kv'[g]] = vec[kv[g]]
  BY <1>1
<1>3. KeptOutside(touched')
  BY <1>2 DEF KeptOutside
<1>4. ASSUME method' = "set" PROVE SetInOrder
  <2> SUFFICES ASSUME NEW n \in Mut, kv[n] # Null PROVE Extends(vec[kv[n]], vec'[kv'[n]])
    BY DEF SetInOrder, usable
  <2>1. CASE n = m
    BY <1>1, <1>4, <2>1 DEF Content
  <2>2. CASE n # m
    <3>1. vec'[kv'[n]] = vec[kv[n]] /\ vec[kv[n]] \in Seq(Entry)
      BY <1>2, <2>2 DEF Content
    <3> QED
      BY <3>1, ExtendsItself
  <2> QED
    BY <2>1, <2>2
<1> QED
  BY <1>1, <1>3, <1>4 DEF CallKeeps

\* Assignments that copy the entries.
LEMMA MutableAssigned ==
  ASSUME ObjectInv, NEW m \in Mut, NEW h \in Handle, AssignToMutable(m, h)
  PROVE  CallKeeps
<1> USE ObjectTypes
<1>1. kv[m] # Null /\ kv[h] # Null
  BY DEF AssignToMutable, usable, Handle
<1>2. Content(h) \in Seq(Entry) /\ Edit(m, Content(h)) /\ method' = "assign" /\ m \in touched'
  BY <1>1 DEF AssignToMutable, Call
<1> QED
  BY <1>1, <1>2, MutableEdits

\* The assignment that reaches the copies of an object: only the invariant is claimed.
LEMMA ObjectAssigned ==
  ASSUME ObjectInv, NEW o \in Obj, NEW m \in Mut, AssignMutable(o, m)
  PROVE  CallKeeps
<1> USE ObjectTypes
<1>1. kv[m] # Null /\ kv[o] # Null
  BY DEF AssignMutable, usable
<1>2. Content(m) \in Seq(Entry) /\ Edit(o, Content(m)) /\ method' = "assign_mutable"
  BY <1>1 DEF AssignMutable, Call
<1>3. ObjectInv'
  BY <1>1, <1>2, EditedVector
<1> QED
  BY <1>2, <1>3 DEF CallKeeps

\* The calls that edit one entry, and erase.
LEMMA EntryEdits ==
  ASSUME ObjectInv, NEW m \in Mut, NEW k \in Key, NEW v \in Val,
         Set(m, k, v) \/ Subscript(m, k) \/ AppendEntry(m, k, v) \/ Erase(m, k)
  PROVE  CallKeeps
<1> USE ObjectTypes
<1>0. kv[m] # Null /\ m \in touched' /\ Content(m) \in Seq(Entry)
  BY DEF Set, Subscript, AppendEntry, Erase, usable, Call
<1>1. Extends(Content(m), Content(m))
  BY <1>0, ExtendsItself
<1>2. \A w \in Val : SetIn(Content(m), k, w) \in Seq(Entry) /\ Extends(Content(m), SetIn(Content(m), k, w))
  BY <1>0, <1>1, SetExtends
<1>3. CASE Set(m, k, v)
  <2>1. Edit(m, SetIn(Content(m), k, v))
    BY <1>3 DEF Set
  <2> QED
    BY <1>0, <1>2, <2>1, MutableEdits
<1>4. CASE Subscript(m, k)
  <2> DEFINE c == IF find(Content(m), k) = 0 THEN SetIn(Content(m), k, NullVal) ELSE Content(m)
  <2>1. c \in Seq(Entry) /\ Extends(Content(m), c)
    BY <1>0, <1>1, <1>2, ObjectAssumption
  <2>2. Edit(m, c)
    BY <1>4 DEF Subscript
  <2> HIDE DEF c
  <2> QED
    BY <1>0, <2>1, <2>2, MutableEdits
<1>5. CASE AppendEntry(m, k, v)
  <2> DEFINE c == Append(Content(m), [key |-> k, value |-> v])
  <2>1. [key |-> k, value |-> v] \in Entry
    BY DEF Entry
  <2>2. c \in Seq(Entry)
    BY <1>0, <2>1, AppendProperties
  <2>3. Edit(m, c) /\ method' = "append"
    BY <1>5 DEF AppendEntry, Call
  <2> HIDE DEF c
  <2> QED
    BY <1>0, <2>2, <2>3, MutableEdits
<1>6. CASE Erase(m, k)
  <2> DEFINE f == find(Content(m), k)
             c == IF f = 0 THEN Content(m) ELSE RemoveAt(Content(m), f)
  <2>1. f # 0 => f \in 1..Len(Content(m))
    BY <1>0, FoundEntry
  <2>2. c \in Seq(Entry)
    <3> HIDE DEF f
    <3> QED
      BY <1>0, <2>1, ErasedEntries
  <2>3. Edit(m, c) /\ method' = "erase"
    BY <1>6 DEF Erase, Call
  <2> HIDE DEF c
  <2> QED
    BY <1>0, <2>2, <2>3, MutableEdits
<1> QED
  BY <1>3, <1>4, <1>5, <1>6

\* The call that sets every entry of another object.
LEMMA MergeEdit ==
  ASSUME ObjectInv, NEW m \in Mut, NEW src \in Handle, Merge(m, src)
  PROVE  CallKeeps
<1> USE ObjectTypes
<1>1. kv[m] # Null /\ kv[src] # Null /\ m \in touched'
  BY DEF Merge, usable, Handle, Call
<1>2. Content(m) \in Seq(Entry) /\ Content(src) \in Seq(Entry) /\ Edit(m, Merged(Content(m), Content(src)))
  BY <1>1 DEF Merge
<1>3. Merged(Content(m), Content(src)) \in Seq(Entry) /\ Extends(Content(m), Merged(Content(m), Content(src)))
  BY <1>2, MergedExtends
<1> QED
  BY <1>1, <1>2, <1>3, MutableEdits

\* Every call keeps what a call keeps.
LEMMA ObjectStepKeeps ==
  ASSUME ObjectInv, ObjectNext
  PROVE  CallKeeps
<1>0. Obj \subseteq Handle /\ Mut \subseteq Handle
  BY DEF Handle
<1>1. CASE \E o, p \in Obj : CopyObject(o, p) \/ MoveObject(o, p) \/ SwapObject(o, p)
  BY <1>1, ObjectMembers
<1>2. CASE \E o \in Obj, m \in Mut : ObjectFromMoved(o, m) \/ AssignMoved(o, m) \/ AssignMutable(o, m)
  BY <1>0, <1>2, ObjectTakes, ObjectAssigned
<1>3. CASE \E m, n \in Mut : MoveMutable(m, n)
  BY <1>3, MutableMoves
<1>4. CASE \E o \in Obj, m \in Mut : CopyToNew(o, m)
  BY <1>0, <1>4, CopyMade
<1>5. CASE \E m \in Mut, h \in Handle : (m # h /\ CopyToNew(m, h)) \/ AssignToMutable(m, h)
  BY <1>0, <1>5, CopyMade, MutableAssigned
<1>6. CASE \E h \in Handle : ConstructEmpty(h) \/ \E k \in Key, v \in Val : ConstructWith(h, k, v)
  BY <1>6, Constructed
<1>7. CASE \E m \in Mut, k \in Key : Subscript(m, k) \/ Erase(m, k)
  BY <1>7, ObjectAssumption, EntryEdits
<1>8. CASE \E m \in Mut, k \in Key, v \in Val : Set(m, k, v) \/ AppendEntry(m, k, v)
  BY <1>8, EntryEdits
<1>9. CASE \E m \in Mut, h \in Handle : Merge(m, h)
  BY <1>9, MergeEdit
<1> QED
  BY <1>1, <1>2, <1>3, <1>4, <1>5, <1>6, <1>7, <1>8, <1>9 DEF ObjectNext

\* Every handle starts with an empty vector of its own.
LEMMA ObjectStarts == ASSUME ObjectInit PROVE ObjectInv
  BY ObjectAssumption, NullAssumption
  DEF ObjectInit, ObjectInv, ObjectTypeOK, MutableUnshared, usable, Addr, Handle

\* Keys as EditKeepsOrder says it.
LEMMA KeysInOrder ==
  ASSUME NEW s \in Seq(Entry), NEW t \in Seq(Entry), Extends(s, t)
  PROVE  /\ IsPrefix(Keys(s), Keys(t))
         /\ \A i, j \in DOMAIN Keys(t) : i # j /\ Keys(t)[i] = Keys(t)[j] => j \in DOMAIN Keys(s)
<1> DEFINE x == Keys(s)
           y == Keys(t)
<1>1. Len(s) \in Nat /\ Len(t) \in Nat /\ Len(s) <= Len(t) /\ DOMAIN s = 1..Len(s) /\ DOMAIN t = 1..Len(t)
  BY LenProperties DEF Extends
<1>2. x \in Seq(Key) /\ Len(x) = Len(s) /\ \A i \in 1..Len(s) : x[i] = s[i].key
  <2>1. x \in [1..Len(s) -> Key] /\ \A i \in 1..Len(s) : x[i] = s[i].key
    <3>1. \A i \in 1..Len(s) : s[i] \in Entry
      BY ElementOfSeq
    <3>2. \A i \in 1..Len(s) : s[i].key \in Key
      BY <3>1 DEF Entry
    <3> QED
      BY <1>1, <3>2 DEF Keys
  <2> HIDE DEF x
  <2> QED
    BY <1>1, <2>1, IsASeq, LenProperties
<1>3. y \in Seq(Key) /\ Len(y) = Len(t) /\ \A i \in 1..Len(t) : y[i] = t[i].key
  <2>1. y \in [1..Len(t) -> Key] /\ \A i \in 1..Len(t) : y[i] = t[i].key
    <3>1. \A i \in 1..Len(t) : t[i] \in Entry
      BY ElementOfSeq
    <3>2. \A i \in 1..Len(t) : t[i].key \in Key
      BY <3>1 DEF Entry
    <3> QED
      BY <1>1, <3>2 DEF Keys
  <2> HIDE DEF y
  <2> QED
    BY <1>1, <2>1, IsASeq, LenProperties
<1> HIDE DEF x, y
<1>4. DOMAIN x = 1..Len(s) /\ DOMAIN y = 1..Len(t)
  BY <1>2, <1>3, LenProperties
<1>5. IsPrefix(x, y)
  <2> DEFINE n == Len(s)
             p == SubSeq(x, 1, n)
             q == SubSeq(y, 1, n)
  <2>1. n \in Int /\ 1 \in Int /\ (\A i \in 1..n : x[i] \in Key) /\ (\A i \in 1..n : y[i] \in Key)
        /\ \A i \in 1..n : x[i] = y[i]
    BY <1>1, <1>2, <1>3, ElementOfSeq DEF Extends
  <2>2. (IF 1 <= n THEN n - 1 + 1 ELSE 0) = n /\ n - 1 + 1 = n /\ \A i \in 1..n : 1 + i - 1 = i
    BY <1>1
  <2> HIDE DEF n
  <2>3. /\ p \in Seq(Key) /\ Len(p) = (IF 1 <= n THEN n - 1 + 1 ELSE 0)
        /\ \A i \in 1..(n - 1 + 1) : p[i] = x[1 + i - 1]
    BY ONLY <2>1, SubSeqProperties
  <2>4. /\ q \in Seq(Key) /\ Len(q) = (IF 1 <= n THEN n - 1 + 1 ELSE 0)
        /\ \A i \in 1..(n - 1 + 1) : q[i] = y[1 + i - 1]
    BY ONLY <2>1, SubSeqProperties
  <2> HIDE DEF p, q
  <2>5. Len(p) = n /\ Len(q) = n /\ \A i \in 1..n : p[i] = q[i]
    BY <2>1, <2>2, <2>3, <2>4
  <2>6. p = q
    BY <2>3, <2>4, <2>5, SeqEqual
  <2> QED
    BY <1>1, <1>2, <1>3, <2>6 DEF IsPrefix, n, p, q
<1>6. ASSUME NEW i \in DOMAIN y, NEW j \in DOMAIN y, i # j, y[i] = y[j] PROVE j \in DOMAIN x
  <2>1. i \in 1..Len(t) /\ j \in 1..Len(t) /\ t[i].key = t[j].key
    BY <1>3, <1>4, <1>6
  <2>2. j <= Len(s)
    BY <1>6, <2>1 DEF Extends
  <2> QED
    BY <1>1, <1>4, <2>1, <2>2
<1> QED
  BY <1>5, <1>6 DEF x, y

\* ObjectInv is an invariant of the two classes of objects.
THEOREM ObjectInvariance == ObjectSpec => []ObjectInv
<1>1. ObjectInit => ObjectInv
  BY ObjectStarts
<1>2. ObjectInv /\ [ObjectNext]_objectVars => ObjectInv'
  <2> SUFFICES ASSUME ObjectInv, [ObjectNext]_objectVars PROVE ObjectInv'
    OBVIOUS
  <2>1. CASE ObjectNext
    BY <2>1, ObjectStepKeeps DEF CallKeeps
  <2>2. CASE UNCHANGED objectVars
    BY <2>2 DEF objectVars, ObjectInv, ObjectTypeOK, MutableUnshared, usable
  <2> QED
    BY <2>1, <2>2
<1> QED
  BY <1>1, <1>2, PTL DEF ObjectSpec

\* For any number of objects, keys and entries: a mutable object's vector is its
\* alone, a call changes nothing that only other objects hold (but for
\* operator=( const mutable_variant_object& )), and edits keep the keys in order.
THEOREM ObjectsAreIndependent == ObjectSpec => ObjectsIndependent
<1> DEFINE Independent == method' # "assign_mutable" =>
             \A h \in Handle \ touched' : kv[h] # Null => vec'[kv'[h]] = Content(h)
           InOrder == method' = "set" =>
             \A m \in Mut : usable(m) =>
               LET old == Keys(Content(m))
                   new == Keys(vec'[kv'[m]])
               IN  m \in touched' /\ kv'[m] = kv[m] =>
                     /\ IsPrefix(old, new)
                     /\ \A i, j \in DOMAIN new : i # j /\ new[i] = new[j] => j \in DOMAIN old
<1>1. ObjectInv => ObjectTypeOK /\ MutableUnshared
  BY DEF ObjectInv
<1>2. ObjectInv /\ ObjectNext => Independent
  BY ObjectStepKeeps DEF CallKeeps, KeptOutside, Content
<1>3. ASSUME ObjectInv, ObjectNext, method' = "set", NEW m \in Mut, usable(m), m \in touched', kv'[m] = kv[m]
      PROVE  /\ IsPrefix(Keys(Content(m)), Keys(vec'[kv'[m]]))
             /\ \A i, j \in DOMAIN Keys(vec'[kv'[m]]) :
                  i # j /\ Keys(vec'[kv'[m]])[i] = Keys(vec'[kv'[m]])[j] => j \in DOMAIN Keys(Content(m))
  <2>1. ObjectInv' /\ SetInOrder
    BY <1>3, ObjectStepKeeps DEF CallKeeps
  <2>2. Content(m) \in Seq(Entry) /\ Extends(Content(m), vec'[kv'[m]])
    BY <1>3, <2>1, ObjectTypes DEF SetInOrder, Content, usable
  <2>3. vec'[kv'[m]] \in Seq(Entry)
    BY <1>3, <2>1 DEF ObjectInv, ObjectTypeOK, usable, Handle
  <2> QED
    BY <2>2, <2>3, KeysInOrder
<1>4. ObjectInv /\ ObjectNext => InOrder
  BY <1>3
<1>5. ObjectSpec => [][(ObjectTypeOK /\ MutableUnshared)']_objectVars
  BY <1>1, ObjectInvariance, PTL
<1>6. ObjectSpec => CopiesIndependent
  BY <1>2, ObjectInvariance, PTL DEF ObjectSpec, CopiesIndependent
<1>7. ObjectSpec => EditKeepsOrder
  BY <1>4, ObjectInvariance, PTL DEF ObjectSpec, EditKeepsOrder
<1> QED
  BY <1>5, <1>6, <1>7 DEF ObjectsIndependent

-----------------------------------------------------------------------------
(* The datastreams. *)

\* The bytes the client writes, and the one there is before.
DataByte == {0, 1, 2}

\* The inductive invariant of the datastreams: where nothing was written, neither
\* by the client nor when the vector grew, the region is as it was.
DataInv ==
  /\ region \in [1..Capacity -> DataByte] /\ contents \in Seq(DataByte)
  /\ pos \in Nat /\ count \in Nat /\ cur \in Nat /\ threw \in BOOLEAN
  /\ ~threw => \A i \in 1..Capacity : i > Len(contents) => region[i] = 0
  /\ SizePredicts /\ SameBytes

\* A new datastream.
LEMMA DataInit == ASSUME StreamsInit PROVE DataInv
<1>1. contents \in Seq(DataByte) /\ Len(contents) = 0
  BY EmptySeq DEF StreamsInit
<1>2. region \in [1..Capacity -> DataByte] /\ \A i \in 1..Capacity : region[i] = 0
  BY DEF StreamsInit, DataByte
<1>3. pos = 0 /\ count = 0 /\ cur = 0 /\ threw = FALSE
  BY DEF StreamsInit
<1>4. SizePredicts
  BY <1>3 DEF SizePredicts
<1>5. SameBytes
  BY <1>1, StreamsAssumption DEF SameBytes, Lesser
<1> QED
  BY <1>1, <1>2, <1>3, <1>4, <1>5 DEF DataInv

\* What a vector holds after n bytes b were written at k.
Byte(c, k, n, b, i) == IF i \in (k + 1)..(k + n) THEN b ELSE IF i <= Len(c) THEN c[i] ELSE 0
AfterWrite(c, k, n, b) == [i \in 1..(IF k + n > Len(c) THEN k + n ELSE Len(c)) |-> Byte(c, k, n, b, i)]

\* What a vector datastream holds after a write, byte by byte.
LEMMA VectorWritten ==
  ASSUME NEW c \in Seq(DataByte), NEW k \in Nat, NEW n \in Nat, NEW b \in {1, 2},
         NEW d, d = AfterWrite(c, k, n, b)
  PROVE  /\ d \in Seq(DataByte) /\ Len(d) >= Len(c) /\ Len(d) >= k + n
         /\ \A i \in 1..Len(d) : d[i] = Byte(c, k, n, b, i)
<1> DEFINE m == IF k + n > Len(c) THEN k + n ELSE Len(c)
<1>1. Len(c) \in Nat /\ \A i \in 1..Len(c) : c[i] \in DataByte
  BY ElementOfSeq, LenProperties
<1>2. m \in Nat /\ m >= Len(c) /\ m >= k + n
  BY <1>1
<1>3. \A i \in 1..m : Byte(c, k, n, b, i) \in DataByte
  BY <1>1, <1>2 DEF DataByte, Byte
<1> HIDE DEF m
<1>4. d = [i \in 1..m |-> Byte(c, k, n, b, i)]
  BY DEF m, AfterWrite
<1>5. d \in [1..m -> DataByte]
  BY <1>3, <1>4
<1>6. d \in Seq(DataByte) /\ Len(d) = m
  BY <1>2, <1>5, IsASeq, LenProperties
<1> QED
  BY <1>2, <1>4, <1>6

\* Writing, reading, skipping and seeking keep the two datastreams alike.
LEMMA DataStep == ASSUME DataInv, DataNext PROVE DataInv'
<1> USE StreamsAssumption
<1>0. ~threw /\ pos <= Capacity /\ pos = count /\ cur = count
  BY DEF DataInv, DataNext, valid, SizePredicts
<1>a. Len(contents) \in Nat
  BY LenProperties DEF DataInv
<1>1. ASSUME NEW n \in 0..MaxChunk, NEW b \in {1, 2}, write(n, b)
      PROVE  DataInv'
  <2>1. /\ count' = count + n /\ cur' = cur + n
        /\ contents' \in Seq(DataByte) /\ Len(contents') >= Len(contents) /\ Len(contents') >= cur + n
        /\ \A i \in 1..Len(contents') : contents'[i] = Byte(contents, cur, n, b, i)
    <3>1. n \in Nat /\ cur \in Nat /\ contents \in Seq(DataByte)
      BY DEF DataInv
    <3>2. contents' = AfterWrite(contents, cur, n, b)
      BY <1>1 DEF write, vector_write, AfterWrite, Byte
    <3>3. count' = count + n /\ cur' = cur + n
      BY <1>1 DEF write, size_write, vector_write
    <3> QED
      BY <3>1, <3>2, <3>3, VectorWritten
  <2>2. CASE RegionHas(n)
    <3>1. /\ region' = [i \in 1..Capacity |-> IF i \in (pos + 1)..(pos + n) THEN b ELSE region[i]]
          /\ pos' = pos + n /\ threw' = FALSE
      BY <1>1, <2>2 DEF write, region_write
    <3>2. region' \in [1..Capacity -> DataByte]
      BY <3>1 DEF DataInv, DataByte
    <3>3. Len(contents') \in Nat
      BY <2>1, LenProperties
    <3>4. \A i \in 1..Capacity : i > Len(contents') => region'[i] = 0
      BY <1>0, <1>a, <2>1, <3>1, <3>3 DEF DataInv
    <3>5. SameBytes'
      <4> SUFFICES ASSUME NEW i \in 1..Capacity, i <= Len(contents') PROVE region'[i] = contents'[i]
        BY <3>3 DEF SameBytes, Lesser
      <4>1. CASE i \in (cur + 1)..(cur + n)
        BY <4>1, <1>0, <2>1, <3>1, <3>3 DEF Byte
      <4>2. CASE i \notin (cur + 1)..(cur + n) /\ i <= Len(contents)
        <5>1. region[i] = contents[i]
          BY <4>2, <1>0, <1>a DEF DataInv, SameBytes, Lesser
        <5> QED
          BY <4>2, <5>1, <1>0, <2>1, <3>1, <3>3 DEF Byte
      <4>3. CASE i \notin (cur + 1)..(cur + n) /\ i > Len(contents)
        <5>1. region[i] = 0
          BY <4>3, <1>0, <1>a DEF DataInv
        <5> QED
          BY <4>3, <5>1, <1>0, <1>a, <2>1, <3>1, <3>3 DEF Byte
      <4> QED
        BY <4>1, <4>2, <4>3, <1>a
    <3>6. SizePredicts'
      BY <1>0, <2>1, <3>1 DEF SizePredicts
    <3>7. pos' \in Nat /\ count' \in Nat /\ cur' \in Nat
      BY <2>1, <3>1 DEF DataInv
    <3> QED
      BY <2>1, <3>1, <3>2, <3>4, <3>5, <3>6, <3>7 DEF DataInv
  <2>3. CASE ~RegionHas(n)
    <3>1. threw' = TRUE /\ region' = region /\ pos' = pos
      BY <1>1, <2>3 DEF write, region_write
    <3>2. count' > Capacity
      BY <1>0, <2>1, <2>3 DEF RegionHas, DataInv
    <3> QED
      BY <2>1, <3>1, <3>2 DEF DataInv, SizePredicts, SameBytes
  <2> QED
    BY <2>2, <2>3
<1>2. ASSUME NEW p \in Nat, pos' = p, count' = p, cur' = p, UNCHANGED <<region, contents, threw>>
      PROVE  DataInv'
  BY <1>2, <1>0 DEF DataInv, SizePredicts, SameBytes, Lesser
<1>3. ASSUME NEW n \in 0..MaxChunk, skip(n)
      PROVE  DataInv'
  BY <1>0, <1>2, <1>3 DEF skip, size_write, DataInv
<1>4. ASSUME NEW p \in 0..Capacity, seekp(p)
      PROVE  DataInv'
  BY <1>2, <1>4 DEF seekp
<1> QED
  BY <1>1, <1>3, <1>4 DEF DataNext

-----------------------------------------------------------------------------
(* buffered_istream. *)

\* The sequence holds the bytes that come after the first k.
After(s, k) == \A i \in 1..Len(s) : s[i] = k + i

\* The inductive invariant of buffered_istream, byte by byte: what was delivered
\* starts with the first byte of the source and the buffer goes on from there.
ReadInv ==
  /\ delivered \in Seq(Nat) /\ rdbuf \in Seq(Nat)
  /\ next \in Nat \ {0} /\ next = Len(delivered) + Len(rdbuf) + 1
  /\ After(delivered, 0) /\ After(rdbuf, Len(delivered))
  /\ peeked # 0 => peeked = Len(delivered) + 1

\* The bytes of a source.
LEMMA BytesOfSource ==
  ASSUME NEW k \in Nat, NEW n \in Nat
  PROVE  Bytes(k + 1, n) \in Seq(Nat) /\ Len(Bytes(k + 1, n)) = n /\ After(Bytes(k + 1, n), k)
<1> DEFINE s == Bytes(k + 1, n)
<1>1. s \in [1..n -> Nat] /\ \A i \in 1..n : s[i] = k + i
  BY DEF Bytes
<1> HIDE DEF s
<1>2. s \in Seq(Nat) /\ Len(s) = n
  BY <1>1, IsASeq, LenProperties
<1> QED
  BY <1>1, <1>2 DEF s, After

\* Two sequences of consecutive bytes, one after the other.
LEMMA Joined ==
  ASSUME NEW s \in Seq(Nat), NEW t \in Seq(Nat), NEW k \in Nat, After(s, k), After(t, k + Len(s))
  PROVE  s \o t \in Seq(Nat) /\ Len(s \o t) = Len(s) + Len(t) /\ After(s \o t, k)
<1> DEFINE d == s \o t
<1>1. Len(s) \in Nat /\ Len(t) \in Nat
  BY LenProperties
<1>2. /\ d \in Seq(Nat) /\ Len(d) = Len(s) + Len(t)
      /\ \A i \in 1..(Len(s) + Len(t)) : d[i] = IF i <= Len(s) THEN s[i] ELSE t[i - Len(s)]
  BY ConcatProperties
<1> HIDE DEF d
<1>3. ASSUME NEW i \in 1..Len(d) PROVE d[i] = k + i
  <2>1. CASE i <= Len(s)
    <3>1. i \in 1..Len(s)
      BY <1>1, <1>2, <2>1
    <3> QED
      BY <1>2, <2>1, <3>1 DEF After
  <2>2. CASE i > Len(s)
    <3>1. i - Len(s) \in 1..Len(t)
      BY <1>1, <1>2, <2>2
    <3>2. t[i - Len(s)] = (k + Len(s)) + (i - Len(s))
      BY <3>1 DEF After
    <3> QED
      BY <1>1, <1>2, <2>2, <3>2
  <2> QED
    BY <1>1, <1>2, <2>1, <2>2
<1> QED
  BY <1>2, <1>3 DEF After, d

\* Consecutive bytes, cut in two.
LEMMA Cut ==
  ASSUME NEW s \in Seq(Nat), NEW k \in Nat, After(s, k), NEW n \in 0..Len(s)
  PROVE  /\ SubSeq(s, 1, n) \in Seq(Nat) /\ Len(SubSeq(s, 1, n)) = n /\ After(SubSeq(s, 1, n), k)
         /\ SubSeq(s, n + 1, Len(s)) \in Seq(Nat) /\ Len(SubSeq(s, n + 1, Len(s))) = Len(s) - n
         /\ After(SubSeq(s, n + 1, Len(s)), k + n)
<1> DEFINE h == SubSeq(s, 1, n)
           r == SubSeq(s, n + 1, Len(s))
<1>1. Len(s) \in Nat /\ n \in Nat
  BY LenProperties
<1>2. h \in Seq(Nat) /\ Len(h) = n /\ \A i \in 1..n : h[i] = s[i]
  BY <1>1, SubSeqProperties
<1>3. r \in Seq(Nat) /\ Len(r) = Len(s) - n /\ \A i \in 1..Len(r) : r[i] = s[n + i]
  <2> DEFINE f == n + 1
             l == Len(s)
  <2>1. f \in Int /\ l \in Int /\ (\A i \in f..l : s[i] \in Nat)
    BY <1>1, ElementOfSeq
  <2>2. (IF f <= l THEN l - f + 1 ELSE 0) = l - n /\ l - f + 1 = l - n /\ \A i \in 1..(l - n) : f + i - 1 = n + i
    BY <1>1
  <2> HIDE DEF f, l
  <2>3. /\ SubSeq(s, f, l) \in Seq(Nat) /\ Len(SubSeq(s, f, l)) = IF f <= l THEN l - f + 1 ELSE 0
        /\ \A i \in 1..(l - f + 1) : SubSeq(s, f, l)[i] = s[f + i - 1]
    BY ONLY <2>1, SubSeqProperties
  <2> QED
    BY <2>2, <2>3 DEF f, l
<1> HIDE DEF h, r
<1>4. After(h, k)
  <2>1. \A i \in 1..n : i \in 1..Len(s)
    BY <1>1
  <2> QED
    BY <1>2, <2>1 DEF After
<1>5. ASSUME NEW i \in 1..Len(r) PROVE r[i] = (k + n) + i
  <2>1. n + i \in 1..Len(s) /\ i \in Nat
    BY <1>1, <1>3
  <2>2. r[i] = s[n + i] /\ s[n + i] = k + (n + i)
    BY <1>3, <2>1 DEF After
  <2> QED
    BY ONLY <1>1, <2>1, <2>2, k \in Nat
<1>6. After(r, k + n)
  BY <1>5 DEF After
<1> QED
  BY <1>2, <1>3, <1>4, <1>6 DEF h, r

\* A new buffered istream.
LEMMA ReadInit == ASSUME StreamsInit PROVE ReadInv
<1>1. << >> \in Seq(Nat) /\ Len(<< >>) = 0
  BY EmptySeq
<1> QED
  BY <1>1 DEF StreamsInit, ReadInv, After

\* Reading, peeking and refilling keep the bytes in order.
LEMMA ReadStep == ASSUME ReadInv, ReadNext PROVE ReadInv'
<1> USE StreamsAssumption
<1>0. Len(delivered) \in Nat /\ Len(rdbuf) \in Nat
  BY LenProperties DEF ReadInv
\* The buffer got, at the end of what was delivered, is passed on up to k.
<1>1. ASSUME NEW got \in Seq(Nat), NEW k \in 0..Len(got), After(got, Len(delivered)),
             next' = Len(delivered) + Len(got) + 1,
             delivered' = delivered \o SubSeq(got, 1, k), rdbuf' = SubSeq(got, k + 1, Len(got)),
             peeked' = 0
      PROVE  ReadInv'
  <2> DEFINE h == SubSeq(got, 1, k)
  <2>1. /\ h \in Seq(Nat) /\ Len(h) = k /\ After(h, Len(delivered))
        /\ rdbuf' \in Seq(Nat) /\ Len(rdbuf') = Len(got) - k /\ After(rdbuf', Len(delivered) + k)
    BY <1>0, <1>1, Cut
  <2> HIDE DEF h
  <2>2. delivered \in Seq(Nat) /\ After(delivered, 0) /\ delivered' = delivered \o h
    BY <1>1 DEF ReadInv, h
  <2>3. 0 \in Nat /\ 0 + Len(delivered) = Len(delivered)
    BY <1>0
  <2>4. delivered' \in Seq(Nat) /\ Len(delivered') = Len(delivered) + k /\ After(delivered', 0)
    BY <2>1, <2>2, <2>3, Joined
  <2>5. Len(got) \in Nat /\ k \in Nat
    BY <1>1, LenProperties
  <2>6. next' \in Nat \ {0} /\ next' = Len(delivered') + Len(rdbuf') + 1
    <3>1. next' = Len(delivered) + Len(got) + 1
      BY <1>1
    <3> QED
      BY ONLY <1>0, <2>1, <2>4, <2>5, <3>1
  <2> QED
    BY <1>1, <2>1, <2>4, <2>6 DEF ReadInv
<1>2. ASSUME NEW n \in Nat, rdbuf = << >>
      PROVE  /\ Bytes(next, n) \in Seq(Nat) /\ Len(Bytes(next, n)) = n /\ After(Bytes(next, n), Len(delivered))
             /\ next = Len(delivered) + 1
  <2>1. next = Len(delivered) + 1
    BY <1>0, <1>2, EmptySeq DEF ReadInv
  <2> QED
    BY <1>0, <1>2, <2>1, BytesOfSource
<1>3. ASSUME peek PROVE ReadInv'
  <2>1. ASSUME next' = Len(delivered) + Len(rdbuf') + 1, rdbuf' \in Seq(Nat), rdbuf' # << >>,
               After(rdbuf', Len(delivered))
        PROVE  ReadInv'
    <3>1. peeked' = Head(rdbuf') /\ delivered' = delivered
      BY <1>3 DEF peek
    <3>2. Len(rdbuf') \in Nat /\ Len(rdbuf') # 0 /\ Head(rdbuf') = rdbuf'[1]
      BY <2>1, HeadTailProperties, EmptySeq, LenProperties
    <3>3. rdbuf'[1] = Len(delivered) + 1
      BY <2>1, <3>2 DEF After
    <3>4. next' \in Nat \ {0}
      BY <1>0, <2>1, <3>2
    <3> QED
      BY <2>1, <3>1, <3>2, <3>3, <3>4 DEF ReadInv
  <2>2. CASE rdbuf # << >> /\ UNCHANGED <<next, rdbuf>>
    BY <2>1, <2>2 DEF ReadInv
  <2>3. ASSUME rdbuf = << >>, NEW n \in 1..MinRead, next' = next + n, rdbuf' = Bytes(next, n)
        PROVE  ReadInv'
    <3>1. n \in Nat
      BY <2>3
    <3>2. rdbuf' \in Seq(Nat) /\ Len(rdbuf') = n /\ After(rdbuf', Len(delivered)) /\ next = Len(delivered) + 1
      BY <1>2, <2>3, <3>1
    <3>3. rdbuf' # << >>
      BY <2>3, <3>2, EmptySeq
    <3>4. next' = Len(delivered) + Len(rdbuf') + 1
      BY <1>0, <2>3, <3>1, <3>2
    <3> QED
      BY <2>1, <3>2, <3>3, <3>4
  <2> QED
    BY <1>3, <2>2, <2>3 DEF peek
<1>4. ASSUME NEW len \in 0..(MinRead + 1), readsome(len) PROVE ReadInv'
  <2>0. peeked' = 0
    BY <1>4 DEF readsome
  <2>1. ASSUME rdbuf # << >>, NEW n, n = Lesser(len, Len(rdbuf)), next' = next,
               delivered' = delivered \o SubSeq(rdbuf, 1, n), rdbuf' = SubSeq(rdbuf, n + 1, Len(rdbuf))
        PROVE  ReadInv'
    <3>1. n \in 0..Len(rdbuf)
      BY <1>0, <2>1 DEF Lesser
    <3> QED
      BY <1>1, <2>0, <2>1, <3>1 DEF ReadInv
  <2>2. ASSUME rdbuf = << >>, NEW n \in 1..(IF len > MinRead THEN len ELSE MinRead), next' = next + n,
               NEW got, got = Bytes(next, n),
               delivered' = delivered \o SubSeq(got, 1, Lesser(n, len)), Keep(got, len)
        PROVE  ReadInv'
    <3>1. n \in Nat
      BY <2>2
    <3>2. got \in Seq(Nat) /\ Len(got) = n /\ After(got, Len(delivered)) /\ next = Len(delivered) + 1
      BY <1>2, <2>2, <3>1
    <3>3. rdbuf' = SubSeq(got, len + 1, Len(got))
      BY <2>2 DEF Keep
    <3>4. next' = Len(delivered) + Len(got) + 1
      BY <1>0, <2>2, <3>1, <3>2
    <3>5. CASE len <= n
      <4>1. Lesser(n, len) = len /\ len \in 0..Len(got)
        BY <3>1, <3>2, <3>5 DEF Lesser
      <4> QED
        BY <1>1, <2>0, <2>2, <3>2, <3>3, <3>4, <4>1
    <3>6. CASE len > n
      <4>1. Lesser(n, len) = n /\ n \in 0..Len(got)
        BY <3>1, <3>2, <3>6 DEF Lesser
      <4>2. SubSeq(got, len + 1, Len(got)) = << >> /\ SubSeq(got, n + 1, Len(got)) = << >>
        BY <3>1, <3>2, <3>6, SubSeqEmpty
      <4> QED
        BY <1>1, <2>0, <2>2, <3>2, <3>3, <3>4, <4>1, <4>2
    <3> QED
      BY <3>1, <3>5, <3>6
  <2> QED
    BY <1>4, <2>1, <2>2 DEF readsome
<1> QED
  BY <1>3, <1>4 DEF ReadNext

\* What the reader has and what waits for it are the source's bytes.
LEMMA ReadIsInOrder == ASSUME ReadInv PROVE ReadInOrder
<1>1. Len(delivered) \in Nat /\ Len(rdbuf) \in Nat
  BY LenProperties DEF ReadInv
<1> DEFINE d == delivered \o rdbuf
           n == next - 1
           b == Bytes(1, n)
<1>2. n \in Nat /\ n = Len(delivered) + Len(rdbuf)
  BY <1>1 DEF ReadInv
<1>3. d \in Seq(Nat) /\ Len(d) = Len(delivered) + Len(rdbuf) /\ After(d, 0)
  <2>1. 0 \in Nat /\ 0 + Len(delivered) = Len(delivered)
    BY <1>1
  <2> QED
    BY <2>1, Joined DEF ReadInv
<1> HIDE DEF d, n
<1>4. b \in Seq(Nat) /\ Len(b) = n /\ After(b, 0)
  <2>1. 0 \in Nat /\ 0 + 1 = 1
    OBVIOUS
  <2> QED
    BY <1>2, <2>1, BytesOfSource
<1> HIDE DEF b
<1>5. d = b
  <2>1. \A i \in 1..Len(d) : d[i] = b[i]
    BY <1>2, <1>3, <1>4 DEF After
  <2> QED
    BY <1>2, <1>3, <1>4, <2>1, SeqEqual
<1> QED
  BY <1>5 DEF ReadInOrder, ReadInv, d, b, n

-----------------------------------------------------------------------------
(* buffered_ostream. *)

\* The bytes that left the buffers, by being written or lost.
Sent == accepted - Len(wrbuf) - Len(flushing)

\* What was written and what was lost is, without overlap, the first bytes.
SinkInv ==
  /\ sink \in Seq(Nat) /\ IsFiniteSet(lost)
  /\ \A i, j \in 1..Len(sink) : i < j => sink[i] < sink[j]
  /\ ToSet(sink) \cap lost = {} /\ ToSet(sink) \cup lost = 1..Sent
  /\ Len(sink) + Cardinality(lost) = Sent

\* The inductive invariant of buffered_ostream: the buffers go on where the sink
\* and the lost bytes end.
WriteInv ==
  /\ accepted \in Nat /\ wrbuf \in Seq(Nat) /\ flushing \in Seq(Nat)
  /\ Sent \in Nat
  /\ After(flushing, Sent) /\ After(wrbuf, Sent + Len(flushing))
  /\ SinkInv
  /\ closed = "yes" => wrbuf = << >> /\ flushing = << >>

\* A new buffered ostream.
LEMMA WriteInit == ASSUME StreamsInit PROVE WriteInv
<1>1. << >> \in Seq(Nat) /\ Len(<< >>) = 0
  BY EmptySeq
<1>2. Sent = 0
  <2>1. accepted = 0 /\ Len(wrbuf) = 0 /\ Len(flushing) = 0
    BY <1>1 DEF StreamsInit
  <2> QED
    BY <2>1 DEF Sent
<1>3. ToSet(sink) = {} /\ 1..0 = {}
  BY <1>1 DEF StreamsInit, ToSet
<1>4. IsFiniteSet({}) /\ Cardinality({}) = 0
  BY FS_EmptySet
<1>5. SinkInv
  BY <1>1, <1>2, <1>3, <1>4 DEF StreamsInit, SinkInv
<1> QED
  BY <1>1, <1>2, <1>5 DEF StreamsInit, WriteInv, After

\* An interval from 1 in two parts.
LEMMA SplitInterval ==
  ASSUME NEW a \in Nat, NEW b \in Nat, a <= b
  PROVE  1..b = 1..a \cup (a + 1)..b /\ 1..a \cap (a + 1)..b = {}
<1>1. \A x \in Int : x \in 1..b <=> x \in 1..a \/ x \in (a + 1)..b
  OBVIOUS
<1>2. 1..a \cap (a + 1)..b = {}
  OBVIOUS
<1> QED
  BY <1>1, <1>2

\* The bytes of a buffer as a set.
LEMMA SetOfBytes ==
  ASSUME NEW s \in Seq(Nat), NEW k \in Nat, After(s, k)
  PROVE  ToSet(s) = (k + 1)..(k + Len(s))
<1>1. Len(s) \in Nat /\ DOMAIN s = 1..Len(s)
  BY LenProperties
<1>2. ASSUME NEW b \in ToSet(s) PROVE b \in (k + 1)..(k + Len(s))
  <2>1. PICK i \in 1..Len(s) : b = s[i]
    BY <1>1 DEF ToSet
  <2> QED
    BY <1>1, <2>1 DEF After
<1>3. ASSUME NEW b \in (k + 1)..(k + Len(s)) PROVE b \in ToSet(s)
  <2>1. b - k \in 1..Len(s) /\ b = k + (b - k)
    BY <1>1
  <2>2. s[b - k] = b
    BY <2>1 DEF After
  <2> QED
    BY <1>1, <2>1, <2>2 DEF ToSet
<1> QED
  BY <1>2, <1>3

\* A sequence joined to another has the elements of both.
LEMMA SetOfJoined ==
  ASSUME NEW s \in Seq(Nat), NEW t \in Seq(Nat)
  PROVE  ToSet(s \o t) = ToSet(s) \cup ToSet(t)
<1> DEFINE d == s \o t
<1>1. /\ Len(s) \in Nat /\ Len(t) \in Nat /\ DOMAIN s = 1..Len(s) /\ DOMAIN t = 1..Len(t)
  BY LenProperties
<1>2. /\ d \in Seq(Nat) /\ Len(d) = Len(s) + Len(t)
      /\ \A i \in 1..(Len(s) + Len(t)) : d[i] = IF i <= Len(s) THEN s[i] ELSE t[i - Len(s)]
  BY ConcatProperties
<1>3. DOMAIN d = 1..(Len(s) + Len(t))
  BY <1>2, LenProperties
<1> HIDE DEF d
<1>4. ASSUME NEW x \in ToSet(d) PROVE x \in ToSet(s) \cup ToSet(t)
  <2>1. PICK i \in 1..(Len(s) + Len(t)) : x = d[i]
    BY <1>3 DEF ToSet
  <2>2. CASE i <= Len(s)
    <3>1. i \in 1..Len(s) /\ x = s[i]
      BY <1>1, <1>2, <2>1, <2>2
    <3> QED
      BY <1>1, <3>1 DEF ToSet
  <2>3. CASE i > Len(s)
    <3>1. i - Len(s) \in 1..Len(t) /\ x = t[i - Len(s)]
      BY <1>1, <1>2, <2>1, <2>3
    <3> QED
      BY <1>1, <3>1 DEF ToSet
  <2> QED
    BY <1>1, <2>2, <2>3
<1>5. ASSUME NEW x \in ToSet(s) PROVE x \in ToSet(d)
  <2>1. PICK i \in 1..Len(s) : x = s[i]
    BY <1>1 DEF ToSet
  <2>2. i \in 1..(Len(s) + Len(t)) /\ i <= Len(s)
    BY <1>1
  <2>3. d[i] = x
    BY <1>2, <2>1, <2>2
  <2> QED
    BY <1>3, <2>2, <2>3 DEF ToSet
<1>6. ASSUME NEW x \in ToSet(t) PROVE x \in ToSet(d)
  <2>1. PICK i \in 1..Len(t) : x = t[i]
    BY <1>1 DEF ToSet
  <2>2. Len(s) + i \in 1..(Len(s) + Len(t)) /\ ~(Len(s) + i <= Len(s)) /\ (Len(s) + i) - Len(s) = i
    BY <1>1
  <2>3. d[Len(s) + i] = x
    BY <1>2, <2>1, <2>2
  <2> QED
    BY <1>3, <2>2, <2>3 DEF ToSet
<1>7. ToSet(d) = ToSet(s) \cup ToSet(t)
  BY <1>4, <1>5, <1>6
<1> QED
  BY <1>7 DEF d

\* An increasing sequence of the first bytes goes on with the ones after them.
LEMMA IncreasingJoined ==
  ASSUME NEW s \in Seq(Nat), NEW t \in Seq(Nat), NEW k \in Nat, After(t, k),
         \A i, j \in 1..Len(s) : i < j => s[i] < s[j], ToSet(s) \subseteq 1..k
  PROVE  /\ s \o t \in Seq(Nat) /\ Len(s \o t) = Len(s) + Len(t)
         /\ \A i, j \in 1..Len(s \o t) : i < j => (s \o t)[i] < (s \o t)[j]
<1> DEFINE d == s \o t
<1>1. Len(s) \in Nat /\ Len(t) \in Nat /\ DOMAIN s = 1..Len(s)
  BY LenProperties
<1>2. /\ d \in Seq(Nat) /\ Len(d) = Len(s) + Len(t)
      /\ \A i \in 1..(Len(s) + Len(t)) : d[i] = IF i <= Len(s) THEN s[i] ELSE t[i - Len(s)]
  BY ConcatProperties
<1> HIDE DEF d
<1>3. ASSUME NEW i \in 1..Len(d), i <= Len(s) PROVE i \in 1..Len(s) /\ d[i] = s[i] /\ d[i] \in 1..k
  <2>1. i \in 1..Len(s) /\ d[i] = s[i]
    BY <1>1, <1>2, <1>3
  <2> QED
    BY <1>1, <2>1 DEF ToSet
<1>4. ASSUME NEW i \in 1..Len(d), i > Len(s) PROVE d[i] = k + (i - Len(s))
  <2>1. i - Len(s) \in 1..Len(t) /\ d[i] = t[i - Len(s)]
    BY <1>1, <1>2, <1>4
  <2> QED
    BY <2>1 DEF After
<1>5. ASSUME NEW i \in 1..Len(d), NEW j \in 1..Len(d), i < j PROVE d[i] < d[j]
  <2>1. i \in Nat /\ j \in Nat
    BY <1>1, <1>2
  <2>2. CASE j <= Len(s)
    BY <1>1, <1>3, <1>5, <2>1, <2>2
  <2>3. CASE i <= Len(s) /\ j > Len(s)
    BY <1>1, <1>3, <1>4, <2>1, <2>3
  <2>4. CASE i > Len(s)
    BY <1>1, <1>4, <1>5, <2>1, <2>4
  <2> QED
    BY <1>1, <1>5, <2>1, <2>2, <2>3, <2>4
<1> QED
  BY <1>2, <1>5 DEF d

\* Writing, flushing and closing keep the bytes in order.
LEMMA WriteStep == ASSUME WriteInv, WriteNext PROVE WriteInv'
<1> USE StreamsAssumption
<1>0. /\ Len(wrbuf) \in Nat /\ Len(flushing) \in Nat /\ Len(sink) \in Nat /\ accepted \in Nat
      /\ Sent \in Nat /\ accepted = (Sent + Len(flushing)) + Len(wrbuf)
  BY LenProperties DEF WriteInv, Sent, SinkInv
<1>a. ASSUME UNCHANGED <<sink, lost>>, Sent' = Sent PROVE SinkInv'
  BY <1>a DEF WriteInv, SinkInv
<1>1. ASSUME NEW n \in 1..MaxChunk, writesome(n) PROVE WriteInv'
  <2> DEFINE b == Bytes(accepted + 1, n)
  <2>1. n \in Nat
    OBVIOUS
  <2>2. b \in Seq(Nat) /\ Len(b) = n /\ After(b, accepted)
    BY <1>0, <2>1, BytesOfSource
  <2> HIDE DEF b
  <2>3. wrbuf' = wrbuf \o b /\ accepted' = accepted + n /\ UNCHANGED <<flushing, sink, lost, closed>> /\ closed = "no"
    BY <1>1 DEF writesome, b
  <2>4. wrbuf' \in Seq(Nat) /\ Len(wrbuf') = Len(wrbuf) + n /\ After(wrbuf', Sent + Len(flushing))
    <3>1. Sent + Len(flushing) \in Nat /\ wrbuf \in Seq(Nat) /\ After(wrbuf, Sent + Len(flushing))
      BY <1>0 DEF WriteInv
    <3> QED
      BY <1>0, <2>2, <2>3, <3>1, Joined
  <2>5. Sent' = Sent /\ accepted' \in Nat
    <3>1. Sent' = accepted' - Len(wrbuf') - Len(flushing') /\ Len(flushing') = Len(flushing)
      BY <2>3 DEF Sent
    <3>2. accepted' = accepted + n
      BY <2>3
    <3> QED
      BY ONLY <1>0, <2>1, <2>4, <3>1, <3>2
  <2>6. SinkInv'
    BY <1>a, <2>3, <2>5
  <2> QED
    BY <2>3, <2>4, <2>5, <2>6 DEF WriteInv
<1>2. ASSUME flush PROVE WriteInv'
  <2> DEFINE n == Lesser(WriteBuffer, Len(wrbuf))
  <2>1. n \in 0..Len(wrbuf)
    BY <1>0 DEF Lesser
  <2> HIDE DEF n
  <2>2. /\ wrbuf # << >> /\ flushing = << >> /\ closed # "yes" /\ UNCHANGED <<accepted, sink, lost, closed>>
        /\ flushing' = SubSeq(wrbuf, 1, n) /\ wrbuf' = SubSeq(wrbuf, n + 1, Len(wrbuf))
    BY <1>2 DEF flush, TakeChunk, n
  <2>3. Len(flushing) = 0 /\ Sent + Len(flushing) = Sent
    BY <1>0, <2>2, EmptySeq
  <2>4. /\ flushing' \in Seq(Nat) /\ Len(flushing') = n /\ After(flushing', Sent)
        /\ wrbuf' \in Seq(Nat) /\ Len(wrbuf') = Len(wrbuf) - n /\ After(wrbuf', Sent + n)
    <3>1. wrbuf \in Seq(Nat) /\ After(wrbuf, Sent)
      BY <2>3 DEF WriteInv
    <3> QED
      BY <1>0, <2>1, <2>2, <3>1, Cut
  <2>5. Sent' = Sent
    <3>1. Sent' = accepted - Len(wrbuf') - Len(flushing')
      BY <2>2 DEF Sent
    <3>2. n \in Nat
      BY <1>0, <2>1
    <3> QED
      BY ONLY <1>0, <2>3, <2>4, <3>1, <3>2
  <2>6. SinkInv'
    BY <1>a, <2>2, <2>5
  <2> QED
    BY <1>0, <2>2, <2>4, <2>5, <2>6 DEF WriteInv
<1>3. ASSUME FlushWrites PROVE WriteInv'
  <2>0. flushing # << >> /\ flushing' = << >> /\ UNCHANGED <<accepted, wrbuf>>
    BY <1>3 DEF FlushWrites
  <2>1. << >> \in Seq(Nat) /\ Len(<< >>) = 0 /\ After(<< >>, Sent')
    BY EmptySeq DEF After
  <2>2. Sent' = Sent + Len(flushing) /\ Sent' \in Nat /\ Len(flushing') = 0 /\ Sent' + Len(flushing') = Sent'
    <3>1. Len(flushing') = 0
      BY <2>0, <2>1
    <3> QED
      BY <1>0, <2>0, <3>1 DEF Sent
  <2>3. /\ ToSet(flushing) = (Sent + 1)..Sent'
        /\ flushing \in Seq(Nat) /\ After(flushing, Sent)
    BY <1>0, <2>2, SetOfBytes DEF WriteInv
  <2>4. closed' # "yes"
    BY <1>3, <2>0 DEF FlushWrites, WriteInv
  <2>5. 1..Sent' = 1..Sent \cup (Sent + 1)..Sent' /\ 1..Sent \cap (Sent + 1)..Sent' = {}
    <3>1. Sent \in Nat /\ Sent' \in Nat /\ Sent <= Sent'
      BY <1>0, <2>2
    <3> QED
      BY <3>1, SplitInterval
  <2>6. ASSUME sink' = sink \o flushing, lost' = lost PROVE SinkInv'
    <3>1. sink \in Seq(Nat) /\ (\A i, j \in 1..Len(sink) : i < j => sink[i] < sink[j]) /\ ToSet(sink) \subseteq 1..Sent
      BY DEF WriteInv, SinkInv
    <3>2. /\ sink' \in Seq(Nat) /\ Len(sink') = Len(sink) + Len(flushing)
          /\ \A i, j \in 1..Len(sink') : i < j => sink'[i] < sink'[j]
      BY <1>0, <2>3, <2>6, <3>1, IncreasingJoined
    <3>3. ToSet(sink') = ToSet(sink) \cup ToSet(flushing)
      BY <2>3, <2>6, <3>1, SetOfJoined
    <3>4. ToSet(sink') \cap lost' = {} /\ ToSet(sink') \cup lost' = 1..Sent'
      BY <2>3, <2>5, <2>6, <3>3 DEF WriteInv, SinkInv
    <3>5. IsFiniteSet(lost) /\ Len(sink) + Cardinality(lost) = Sent
      BY DEF WriteInv, SinkInv
    <3>6. Cardinality(lost) \in Nat
      BY <3>5, FS_CardinalityType
    <3>7. Len(sink') + Cardinality(lost') = Sent'
      <4>1. Cardinality(lost') = Cardinality(lost)
        BY <2>6
      <4> QED
        BY ONLY <1>0, <2>2, <3>2, <3>5, <3>6, <4>1
    <3> QED
      BY <2>6, <3>2, <3>4, <3>5, <3>7 DEF SinkInv
  <2>7. ASSUME sink' = sink, lost' = lost \cup ToSet(flushing) PROVE SinkInv'
    <3>1. /\ IsFiniteSet(lost) /\ Len(sink) + Cardinality(lost) = Sent
          /\ ToSet(sink) \cap lost = {} /\ ToSet(sink) \cup lost = 1..Sent
      BY DEF WriteInv, SinkInv
    <3>2. /\ IsFiniteSet((Sent + 1)..Sent')
          /\ Cardinality((Sent + 1)..Sent') = IF Sent + 1 > Sent' THEN 0 ELSE Sent' - (Sent + 1) + 1
      <4>1. Sent + 1 \in Int /\ Sent' \in Int
        BY <1>0, <2>2
      <4> QED
        BY <4>1, FS_Interval
    <3>3. Cardinality((Sent + 1)..Sent') = Len(flushing)
      BY <1>0, <2>2, <3>2
    <3>4. lost \cap (Sent + 1)..Sent' = {}
      BY <2>5, <3>1
    <3>5. Cardinality(lost) \in Nat /\ Cardinality(lost \cap (Sent + 1)..Sent') = 0
      BY <3>1, <3>4, FS_CardinalityType, FS_EmptySet
    <3>6. /\ IsFiniteSet(lost') /\ Cardinality(lost') =
             Cardinality(lost) + Cardinality((Sent + 1)..Sent') - Cardinality(lost \cap (Sent + 1)..Sent')
      BY <2>3, <2>7, <3>1, <3>2, FS_Union
    <3>7. Len(sink') + Cardinality(lost') = Sent'
      <4>1. Cardinality(lost') = Cardinality(lost) + Len(flushing)
        BY ONLY <1>0, <3>3, <3>5, <3>6
      <4>2. Len(sink') = Len(sink)
        BY <2>7
      <4> QED
        BY ONLY <1>0, <2>2, <3>1, <3>5, <4>1, <4>2
    <3>8. ToSet(sink') \cap lost' = {} /\ ToSet(sink') \cup lost' = 1..Sent'
      BY <2>3, <2>5, <2>7, <3>1
    <3> QED
      BY <2>7, <3>6, <3>7, <3>8 DEF WriteInv, SinkInv
  <2>8. SinkInv'
    BY <1>3, <2>6, <2>7 DEF FlushWrites
  <2> QED
    BY <2>0, <2>1, <2>2, <2>4, <2>8 DEF WriteInv
<1>4. ASSUME close PROVE WriteInv'
  <2>1. UNCHANGED <<accepted, wrbuf, flushing, sink, lost>>
    BY <1>4 DEF close
  <2>2. Sent' = Sent
    BY <2>1 DEF Sent
  <2>3. closed' = "yes" => wrbuf = << >> /\ flushing = << >>
    BY <1>4 DEF close
  <2>4. SinkInv'
    BY <1>a, <2>1, <2>2
  <2> QED
    BY <2>1, <2>2, <2>3, <2>4 DEF WriteInv
<1> QED
  BY <1>1, <1>2, <1>3, <1>4 DEF WriteNext

\* The sink and the buffers hold, in order, what was not lost.
LEMMA WrittenIsInOrder == ASSUME WriteInv PROVE WrittenInOrder
<1>1. /\ Len(wrbuf) \in Nat /\ Len(flushing) \in Nat /\ Len(sink) \in Nat /\ accepted \in Nat
      /\ Sent \in Nat /\ accepted = Sent + Len(flushing) + Len(wrbuf)
  BY LenProperties DEF WriteInv, Sent, SinkInv
<1>2. /\ sink \in Seq(Nat) /\ flushing \in Seq(Nat) /\ wrbuf \in Seq(Nat)
      /\ After(flushing, Sent) /\ After(wrbuf, Sent + Len(flushing))
      /\ \A i, j \in 1..Len(sink) : i < j => sink[i] < sink[j]
      /\ ToSet(sink) \cap lost = {} /\ ToSet(sink) \cup lost = 1..Sent
  BY DEF WriteInv, SinkInv
<1> DEFINE n == Sent + Len(flushing)
           s == sink \o flushing
           all == s \o wrbuf
<1>3. n \in Nat /\ accepted = n + Len(wrbuf)
  BY <1>1
<1>4. /\ s \in Seq(Nat) /\ \A i, j \in 1..Len(s) : i < j => s[i] < s[j]
  BY <1>1, <1>2, IncreasingJoined
<1>5. ToSet(s) = ToSet(sink) \cup (Sent + 1)..n
  BY <1>1, <1>2, SetOfJoined, SetOfBytes
<1> HIDE DEF n, s
<1>6. ToSet(s) = 1..n \ lost
  <2>1. 1..n = 1..Sent \cup (Sent + 1)..n /\ 1..Sent \cap (Sent + 1)..n = {}
    BY <1>1, <1>3 DEF n
  <2> QED
    BY <1>2, <1>5, <2>1
<1>7. After(wrbuf, n)
  BY <1>2 DEF n
<1>8. /\ all \in Seq(Nat) /\ \A i, j \in 1..Len(all) : i < j => all[i] < all[j]
  BY <1>2, <1>3, <1>4, <1>6, <1>7, IncreasingJoined
<1>9. ToSet(all) = ToSet(s) \cup (n + 1)..accepted
  BY <1>2, <1>3, <1>4, <1>7, SetOfJoined, SetOfBytes
<1> HIDE DEF all
<1>10. ToSet(all) = 1..accepted \ lost
  <2>1. 1..accepted = 1..n \cup (n + 1)..accepted /\ 1..Sent \cap (n + 1)..accepted = {}
    BY <1>1, <1>3 DEF n
  <2> QED
    BY <1>2, <1>6, <1>9, <2>1
<1>11. closed = "yes" => Len(sink) + Cardinality(lost) = accepted
  <2>1. closed = "yes" => Len(wrbuf) = 0 /\ Len(flushing) = 0
    BY EmptySeq DEF WriteInv
  <2>2. closed = "yes" => Sent = accepted
    BY <1>1, <2>1
  <2> QED
    BY <2>2 DEF WriteInv, SinkInv
<1>12. DOMAIN all = 1..Len(all) /\ all = (sink \o flushing) \o wrbuf
  BY <1>8, LenProperties DEF all, s
<1> QED
  BY <1>8, <1>10, <1>11, <1>12 DEF WrittenInOrder

-----------------------------------------------------------------------------
(* All streams. *)

\* The inductive invariant.
StreamsInv == DataInv /\ ReadInv /\ WriteInv

\* What each kind of stream keeps true, for every size of region, buffer and call.
THEOREM StreamsInvariance == StreamsSpec => []StreamsInv
<1>1. StreamsInit => StreamsInv
  BY DataInit, ReadInit, WriteInit DEF StreamsInv
<1>2. StreamsInv /\ [DataNext \/ ReadNext \/ WriteNext]_streamVars => StreamsInv'
  <2> SUFFICES ASSUME StreamsInv, [DataNext \/ ReadNext \/ WriteNext]_streamVars PROVE StreamsInv'
    OBVIOUS
  <2>1. ASSUME UNCHANGED dataVars PROVE DataInv'
    BY <2>1 DEF StreamsInv, DataInv, dataVars, SizePredicts, SameBytes
  <2>2. ASSUME UNCHANGED inVars PROVE ReadInv'
    BY <2>2 DEF StreamsInv, ReadInv, inVars, After
  <2>3. ASSUME UNCHANGED outVars PROVE WriteInv'
    BY <2>3 DEF StreamsInv, WriteInv, outVars, SinkInv, Sent, After
  <2>4. CASE DataNext
    BY <2>2, <2>3, <2>4, DataStep DEF StreamsInv, DataNext
  <2>5. CASE ReadNext
    <3>1. UNCHANGED <<dataVars, outVars>>
      BY <2>5 DEF ReadNext, peek, readsome
    <3> QED
      BY <2>1, <2>3, <2>5, <3>1, ReadStep DEF StreamsInv
  <2>6. CASE WriteNext
    <3>1. UNCHANGED <<dataVars, inVars>>
      BY <2>6 DEF WriteNext, flush, FlushWrites, close, writesome
    <3> QED
      BY <2>1, <2>2, <2>6, <3>1, WriteStep DEF StreamsInv
  <2>7. CASE UNCHANGED streamVars
    BY <2>1, <2>2, <2>3, <2>7 DEF StreamsInv, streamVars
  <2> QED
    BY <2>4, <2>5, <2>6, <2>7
<1> QED
  BY <1>1, <1>2, PTL DEF StreamsSpec

\* The counting pass and the writing pass of a serialisation agree, a reader gets the
\* source's bytes and a sink the writer's, in order and once, whatever the sizes of
\* the calls, how the streams below cut them and which of their writes fail.
THEOREM StreamsKeepOrder == StreamsSpec => []StreamsInOrder
<1>1. StreamsInv => StreamsInOrder
  BY ReadIsInOrder, WrittenIsInOrder DEF StreamsInv, StreamsInOrder, DataInv
<1> QED
  BY <1>1, StreamsInvariance, PTL

-----------------------------------------------------------------------------
(* The rate limiter: arithmetic. *)

\* Division rounds down.
LEMMA RoundedDown ==
  ASSUME NEW x \in Nat, NEW c \in Nat \ {0}
  PROVE  x \div c \in 0..x /\ c * (x \div c) <= x
<1> DEFINE q == x \div c
           r == x % c
<1>1. q \in Int /\ r \in 0..(c - 1) /\ x = c * q + r
  OBVIOUS
<1> HIDE DEF q, r
<1>2. c * q <= x
  BY <1>1
<1>3. q >= 0
  <2>1. q < 0 => c * q <= -c
    BY <1>1
  <2> QED
    BY <1>1, <2>1
<1>4. q <= c * q
  BY <1>1, <1>3
<1> QED
  BY <1>1, <1>2, <1>3, <1>4 DEF q

\* Products grow with their factors.
LEMMA Products ==
  ASSUME NEW r \in Nat, NEW a \in Int, NEW b \in Int, a <= b
  PROVE  r * a \in Int /\ r * a <= r * b /\ r * (a + 1) = r * a + r
  OBVIOUS

\* What is taken out of r and what is left make r.
LEMMA Spent ==
  ASSUME NEW r \in Nat, NEW g \in Int, NEW left \in 0..r, NEW h, h = g + r - left
  PROVE  left \in Nat /\ h \in Int /\ h + left = g + r
  OBVIOUS

-----------------------------------------------------------------------------
(* The loop that gives out the tokens. *)

\* The equation of Left, for the tokens there were and the lengths asked for.
Rest(x, len, n, i) == x - Least(len[i], x \div (n - i + 1))
GivenOut(g, R, len, n, m) == g = [i \in 0..m |-> IF i = 0 THEN R ELSE Rest(g[i - 1], len, n, i)]

\* An operation gets a part of what is left.
LEMMA PartOfRest ==
  ASSUME NEW n \in Nat, NEW len \in [1..n -> Nat], NEW i \in 1..n, NEW x \in Nat
  PROVE  Rest(x, len, n, i) \in 0..x
<1> DEFINE c == n - i + 1
           q == x \div c
<1>1. c \in Nat \ {0} /\ len[i] \in Nat
  OBVIOUS
<1> HIDE DEF c
<1>2. q \in 0..x
  BY <1>1, RoundedDown
<1> HIDE DEF q
<1>3. Least(len[i], q) \in 0..x
  BY <1>1, <1>2 DEF Least
<1> QED
  BY <1>3 DEF Rest, c, q

\* The loop can be run to every point.
LEMMA LoopRuns ==
  ASSUME NEW n \in Nat, NEW len \in [1..n -> Nat], NEW R \in Nat
  PROVE  \A m \in 0..n : \E g : g \in [0..m -> 0..R] /\ GivenOut(g, R, len, n, m)
<1> DEFINE Runs(m) == \E g : g \in [0..m -> 0..R] /\ GivenOut(g, R, len, n, m)
           B == {m \in 0..n : ~Runs(m)}
<1> SUFFICES ASSUME B # {} PROVE FALSE
  OBVIOUS
<1>1. PICK m \in B : \A k \in B : m <= k
  <2>1. B \in SUBSET Nat
    OBVIOUS
  <2> HIDE DEF B
  <2> QED
    BY <2>1, LeastNumber
<1>2. m \in 0..n /\ m \in Nat /\ ~Runs(m)
  BY <1>1
<1>3. CASE m = 0
  <2> DEFINE g == [i \in 0..0 |-> R]
  <2>1. g \in [0..0 -> 0..R] /\ GivenOut(g, R, len, n, 0)
    BY DEF GivenOut
  <2> QED
    BY <1>2, <1>3, <2>1
<1>4. CASE m # 0
  <2>1. m - 1 \in 0..n /\ ~(m <= m - 1) /\ m \in 1..n
    BY <1>2, <1>4
  <2>2. Runs(m - 1)
    BY <1>1, <2>1
  <2>3. PICK g : g \in [0..(m - 1) -> 0..R] /\ GivenOut(g, R, len, n, m - 1)
    BY <2>2
  <2> DEFINE h == [i \in 0..m |-> IF i = m THEN Rest(g[m - 1], len, n, m) ELSE g[i]]
  <2>4. g[m - 1] \in Nat /\ g[m - 1] \in 0..R
    BY <2>1, <2>3
  <2>5. Rest(g[m - 1], len, n, m) \in 0..R
    <3>1. Rest(g[m - 1], len, n, m) \in 0..g[m - 1]
      BY ONLY <2>1, <2>4, n \in Nat, len \in [1..n -> Nat], PartOfRest
    <3> QED
      BY <2>4, <3>1
  <2>6. h \in [0..m -> 0..R]
    BY <1>2, <2>3, <2>5
  <2>7. \A i \in 0..(m - 1) : h[i] = g[i] /\ g[i] = IF i = 0 THEN R ELSE Rest(g[i - 1], len, n, i)
    BY <1>2, <2>3 DEF GivenOut
  <2>8. h[m] = Rest(h[m - 1], len, n, m)
    BY <1>2, <2>1
  <2> HIDE DEF h
  <2>9. ASSUME NEW i \in 0..m PROVE h[i] = IF i = 0 THEN R ELSE Rest(h[i - 1], len, n, i)
    <3>1. CASE i = m
      BY <1>4, <2>8, <3>1
    <3>2. CASE i # m
      <4>1. i \in 0..(m - 1) /\ (i # 0 => i - 1 \in 0..(m - 1))
        BY <1>2, <3>2
      <4> QED
        BY <2>7, <4>1
    <3> QED
      BY <3>1, <3>2
  <2>10. GivenOut(h, R, len, n, m)
    BY <2>6, <2>9 DEF GivenOut
  <2> QED
    BY <1>2, <2>6, <2>10
<1> QED
  BY <1>3, <1>4

\* The loop gives out no more than there is, and what is left never grows.
LEMMA LoopTakes ==
  ASSUME NEW n \in Nat, NEW len \in [1..n -> Nat], NEW R \in Nat, NEW g, GivenOut(g, R, len, n, n)
  PROVE  g \in [0..n -> 0..R] /\ \A i \in 1..n : g[i] <= g[i - 1]
<1> DEFINE B == {m \in 0..n : ~(g[m] \in 0..R)}
<1>0. \A i \in 0..n : g[i] = IF i = 0 THEN R ELSE Rest(g[i - 1], len, n, i)
  BY DEF GivenOut
<1>1. ASSUME B # {} PROVE FALSE
  <2>1. PICK m \in B : \A k \in B : m <= k
    <3>1. B \in SUBSET Nat
      OBVIOUS
    <3> HIDE DEF B
    <3> QED
      BY <1>1, <3>1, LeastNumber
  <2>2. CASE m = 0
    BY <1>0, <2>1, <2>2
  <2>3. CASE m # 0
    <3>1. m \in 1..n /\ m - 1 \in 0..n /\ ~(m <= m - 1)
      BY <2>1, <2>3
    <3>2. g[m - 1] \in 0..R /\ g[m - 1] \in Nat
      BY <2>1, <3>1
    <3>3. g[m] = Rest(g[m - 1], len, n, m)
      BY <1>0, <2>3, <3>1
    <3>4. g[m] \in 0..R
      <4>1. Rest(g[m - 1], len, n, m) \in 0..g[m - 1]
        BY ONLY <3>1, <3>2, n \in Nat, len \in [1..n -> Nat], PartOfRest
      <4> QED
        BY <3>2, <3>3, <4>1
    <3> QED
      BY <2>1, <3>4
  <2> QED
    BY <2>2, <2>3
<1>2. \A m \in 0..n : g[m] \in 0..R
  BY <1>1
<1>3. g \in [0..n -> 0..R]
  BY <1>2 DEF GivenOut
<1>4. ASSUME NEW i \in 1..n PROVE g[i] <= g[i - 1]
  <2>1. g[i - 1] \in Nat /\ g[i] = Rest(g[i - 1], len, n, i)
    BY <1>0, <1>2
  <2>2. Rest(g[i - 1], len, n, i) \in 0..g[i - 1]
    BY ONLY <2>1, i \in 1..n, n \in Nat, len \in [1..n -> Nat], PartOfRest
  <2> QED
    BY <2>1, <2>2
<1> QED
  BY <1>3, <1>4

-----------------------------------------------------------------------------
(* The inductive invariant of the limiter. *)

Operations == [pc : {"idle", "queued", "performed", "direct"}, length : Nat, permitted : Nat]

\* Types.
LimiterType ==
  /\ limit \in {0, Rate} /\ tokens \in Nat /\ unused \in Nat
  /\ waiting \in [Op -> Nat] /\ progress \in [Op -> Nat] /\ op \in [Op -> Operations]
  /\ ticks \in Nat /\ elapsed \in Nat /\ granted \in Int /\ switches \in Nat

\* Nothing was permitted yet.
NothingGranted == granted = 0 /\ unused = 0 /\ \A o \in Op : op[o].pc # "performed"

\* What was permitted, what can be permitted and what the next iteration earns is
\* no more than a bucket and what was earned since.
Budget == Second * (granted + tokens + unused) + Rate * elapsed <= Second * (Rate * Burst) + Rate * ticks

LimiterInv ==
  /\ LimiterType
  /\ switches = 0 => limit = Rate /\ (NothingGranted \/ Budget)
  /\ QueuedOnce /\ AsleepMeansIdle

\* The constants.
LEMMA LimiterConstants ==
  /\ Rate \in Nat \ {0} /\ Burst \in Nat \ {0} /\ Second \in Nat \ {0}
  /\ Rate * Burst \in Nat /\ Second * (Rate * Burst) \in Nat
<1>1. Rate \in Nat \ {0} /\ Burst \in Nat \ {0} /\ Second \in Nat \ {0}
  BY LimiterAssumption
<1>2. Rate * Burst \in Nat
  BY <1>1
<1> QED
  BY <1>1, <1>2

\* A new limiter.
LEMMA LimiterStarts == ASSUME LimiterInit PROVE LimiterInv
<1> USE LimiterConstants
<1>1. op \in [Op -> Operations]
  BY DEF LimiterInit, NoOp, Operations
<1>2. waiting = NoOps /\ progress = NoOps /\ NoOps \in [Op -> Nat]
  BY DEF LimiterInit, NoOps
<1>3. LimiterType
  BY <1>1, <1>2 DEF LimiterInit, LimiterType
<1>4. QueuedOnce
  BY <1>2 DEF LimiterInit, QueuedOnce, NoOps, NoOp
<1>5. NothingGranted
  BY DEF LimiterInit, NothingGranted, NoOp
<1> QED
  BY <1>2, <1>3, <1>4, <1>5 DEF LimiterInit, LimiterInv, AsleepMeansIdle

\* The bucket after the tokens that were earned and given back.
LEMMA BucketFilled ==
  ASSUME LimiterInv, limit = Rate
  PROVE  /\ Earned \in Nat /\ Refilled \in Nat
         /\ Refilled <= tokens + Earned + unused /\ Refilled <= Rate * Burst
         /\ Second * Earned <= Rate * elapsed
<1> USE LimiterConstants
<1> DEFINE m == Least(elapsed, Second)
           x == Rate * m
           cap == Rate * Burst
<1>1. m \in Nat /\ m <= elapsed /\ tokens \in Nat /\ unused \in Nat /\ elapsed \in Nat
  BY DEF Least, LimiterInv, LimiterType
<1>2. x \in Nat /\ x <= Rate * elapsed
  <2> HIDE DEF m
  <2>1. x \in Nat
    BY <1>1
  <2> QED
    BY <1>1, <2>1, Products
<1> HIDE DEF m
<1>3. Earned = x \div Second
  BY DEF Earned, m
<1> HIDE DEF x
<1>4. Earned \in Nat /\ Second * Earned <= x
  BY <1>2, <1>3, RoundedDown
<1>5. cap \in Nat /\ Refilled = Least(tokens + Earned + unused, cap)
  BY DEF Refilled
<1> HIDE DEF cap
<1>6. Refilled \in Nat /\ Refilled <= tokens + Earned + unused /\ Refilled <= cap
  BY <1>1, <1>4, <1>5 DEF Least
<1>7. Second * Earned <= Rate * elapsed
  <2>1. Second * Earned \in Int /\ Rate * elapsed \in Int
    BY <1>1, <1>4
  <2> QED
    BY <1>2, <1>4, <2>1
<1> QED
  BY <1>4, <1>6, <1>7 DEF cap

\* What an order of the operations makes of the bucket.
LEMMA SharesOfBucket ==
  ASSUME LimiterInv, limit = Rate, NEW ops \in [Op -> Nat], NEW order \in Orders(ops)
  PROVE  /\ Left(order)[Len(order)] \in 0..Refilled
         /\ Share(order) \in [Op -> Nat]
         /\ \A o \in Op : ops[o] = 0 => Share(order)[o] = 0
<1> DEFINE S == {o \in Op : ops[o] > 0}
           n == Cardinality(S)
           R == Refilled
<1>1. IsFiniteSet(S) /\ S \subseteq Op
  BY LimiterAssumption, FS_Subset
<1>2. n \in Nat
  BY <1>1, FS_CardinalityType
<1>3. order \in [1..n -> S]
  BY DEF Orders, SetToSeqs
<1>4. R \in Nat
  BY BucketFilled
<1> HIDE DEF n, R
<1>5. Len(order) = n /\ DOMAIN order = 1..n
  <2>1. order \in Seq(S)
    BY <1>2, <1>3, IsASeq
  <2> QED
    BY <1>2, <1>3, <2>1, LenProperties
<1> DEFINE len == [i \in 1..n |-> op[order[i]].length]
<1>6. len \in [1..n -> Nat]
  BY <1>1, <1>3 DEF LimiterInv, LimiterType, Operations
<1> DEFINE Loop(g) ==
             g = [i \in 0..Len(order) |->
                    IF i = 0 THEN Refilled
                    ELSE g[i - 1] - Least(op[order[i]].length, g[i - 1] \div (Len(order) - i + 1))]
           left == Left(order)
<1>7. \A g : Loop(g) <=> GivenOut(g, R, len, n, n)
  <2> SUFFICES ASSUME NEW g PROVE Loop(g) <=> GivenOut(g, R, len, n, n)
    OBVIOUS
  <2> DEFINE a(i) == IF i = 0 THEN Refilled
                     ELSE g[i - 1] - Least(op[order[i]].length, g[i - 1] \div (Len(order) - i + 1))
             b(i) == IF i = 0 THEN R ELSE Rest(g[i - 1], len, n, i)
  <2>1. ASSUME NEW i \in 0..n PROVE a(i) = b(i)
    <3>1. CASE i = 0
      BY <3>1 DEF R
    <3>2. CASE i # 0
      <4>1. i \in 1..n
        BY <1>2, <3>2
      <4>2. len[i] = op[order[i]].length
        BY <4>1
      <4> QED
        BY <1>5, <3>2, <4>2 DEF Rest
    <3> QED
      BY <3>1, <3>2
  <2> HIDE DEF a, b
  <2>2. [i \in 0..n |-> a(i)] = [i \in 0..n |-> b(i)]
    BY <2>1
  <2> QED
    BY <1>5, <2>2 DEF GivenOut, a, b
<1> HIDE DEF len
<1>8. GivenOut(left, R, len, n, n)
  <2>1. left = CHOOSE g : Loop(g)
    BY DEF Left
  <2> HIDE DEF Loop, left
  <2>2. n \in 0..n
    BY <1>2
  <2>3. \E g : GivenOut(g, R, len, n, n)
    BY <1>2, <1>4, <1>6, <2>2, LoopRuns
  <2> QED
    BY <1>7, <2>1, <2>3
<1>9. left \in [0..n -> 0..R] /\ \A i \in 1..n : left[i] <= left[i - 1]
  BY <1>2, <1>4, <1>6, <1>8, LoopTakes
<1>10. left[n] \in 0..R
  BY <1>2, <1>9
<1> HIDE DEF left
<1>11. ASSUME NEW o \in Op PROVE Share(order)[o] \in Nat /\ (ops[o] = 0 => Share(order)[o] = 0)
  <2> DEFINE at == {i \in DOMAIN order : order[i] = o}
             i == CHOOSE i \in at : TRUE
  <2>1. Share(order)[o] = IF at = {} THEN 0 ELSE left[i - 1] - left[i]
    BY DEF Share, left
  <2>2. CASE at = {}
    BY <2>1, <2>2
  <2>3. CASE at # {}
    <3>1. i \in at
      BY <2>3
    <3>2. i \in 1..n /\ order[i] = o
      BY <1>5, <3>1
    <3> HIDE DEF i
    <3>3. left[i] \in 0..R /\ left[i - 1] \in 0..R /\ left[i] <= left[i - 1]
      BY <1>2, <1>9, <3>2
    <3>4. ops[o] > 0
      BY <1>3, <3>2
    <3> QED
      BY <1>4, <2>1, <2>3, <3>3, <3>4
  <2> QED
    BY <2>2, <2>3
<1>12. Share(order) \in [Op -> Nat]
  <2>1. Share(order) = [o \in Op |-> Share(order)[o]]
    BY DEF Share
  <2> QED
    BY <1>11, <2>1
<1> QED
  BY <1>5, <1>10, <1>11, <1>12 DEF left, R

\* The lists' part of the invariant is about these variables only.
LEMMA ListsKept ==
  ASSUME LimiterInv, UNCHANGED <<waiting, progress, op, loop>>
  PROVE  QueuedOnce' /\ AsleepMeansIdle'
  BY DEF LimiterInv, QueuedOnce, AsleepMeansIdle, NoOps

\* readsome_impl and writesome_impl: an operation that was in no list is now in one.
LEMMA SubmitOK ==
  ASSUME LimiterInv, NEW o \in Op, NEW len \in Length, Submit(o, len)
  PROVE  LimiterInv'
<1> USE LimiterConstants
<1>0. /\ op \in [Op -> Operations] /\ waiting \in [Op -> Nat] /\ progress \in [Op -> Nat] /\ len \in Nat
      /\ op[o].pc = "idle" /\ waiting[o] + progress[o] = 0
  BY LimiterAssumption DEF LimiterInv, LimiterType, QueuedOnce, Submit
<1>1. UNCHANGED <<limit, tokens, unused, progress, ticks, elapsed, granted, switches>>
  BY DEF Submit
<1>2. PICK c \in Operations : /\ op' = [op EXCEPT ![o] = c] /\ c.pc \in {"queued", "direct"}
                              /\ c.pc = "queued" => waiting' = [waiting EXCEPT ![o] = @ + 1] /\ loop' = "ready"
                              /\ c.pc = "direct" => UNCHANGED <<waiting, loop>>
  <2>1. CASE limit > 0
    <3> DEFINE c == [pc |-> "queued", length |-> len, permitted |-> 0]
    <3>1. c \in Operations
      BY <1>0 DEF Operations
    <3> QED
      BY <2>1, <3>1 DEF Submit, Signal
  <2>2. CASE ~(limit > 0)
    <3> DEFINE c == [pc |-> "direct", length |-> len, permitted |-> len]
    <3>1. c \in Operations
      BY <1>0 DEF Operations
    <3> QED
      BY <2>2, <3>1 DEF Submit
  <2> QED
    BY <2>1, <2>2
<1>3. op' \in [Op -> Operations] /\ waiting' \in [Op -> Nat]
  BY <1>0, <1>2
<1>4. LimiterType'
  BY <1>1, <1>3 DEF LimiterInv, LimiterType
<1>5. switches' = 0 => limit' = Rate /\ (NothingGranted' \/ Budget')
  <2>1. NothingGranted => NothingGranted'
    BY <1>0, <1>1, <1>2 DEF NothingGranted
  <2>2. Budget => Budget'
    BY <1>1 DEF Budget
  <2> QED
    BY <1>1, <2>1, <2>2 DEF LimiterInv
<1>6. QueuedOnce'
  <2> SUFFICES ASSUME NEW p \in Op PROVE waiting'[p] + progress'[p] = (IF op'[p].pc = "queued" THEN 1 ELSE 0)
    BY DEF QueuedOnce
  <2>1. waiting[p] + progress[p] = (IF op[p].pc = "queued" THEN 1 ELSE 0)
    BY DEF LimiterInv, QueuedOnce
  <2>2. CASE p = o
    BY <1>0, <1>1, <1>2, <2>2
  <2>3. CASE p # o
    BY <1>0, <1>1, <1>2, <2>1, <2>3
  <2> QED
    BY <2>2, <2>3
<1>7. AsleepMeansIdle'
  BY <1>1, <1>2 DEF LimiterInv, AsleepMeansIdle, NoOps
<1> QED
  BY <1>4, <1>5, <1>6, <1>7 DEF LimiterInv

\* The tokens that come back are no longer counted as permitted.
LEMMA CompleteOK ==
  ASSUME LimiterInv, NEW o \in Op, NEW n \in 0..op[o].permitted, Complete(o, n)
  PROVE  LimiterInv'
<1> USE LimiterConstants
<1>0. /\ op \in [Op -> Operations] /\ op[o].permitted \in Nat /\ op[o].pc \in {"performed", "direct"}
      /\ unused \in Nat /\ granted \in Int /\ tokens \in Nat
  BY DEF LimiterInv, LimiterType, Operations, Complete
<1>1. op' = [op EXCEPT ![o] = NoOp] /\ UNCHANGED <<limit, tokens, waiting, progress, loop, ticks, elapsed, switches>>
  BY DEF Complete
<1>2. NoOp \in Operations /\ NoOp.pc = "idle"
  BY DEF NoOp, Operations
<1>3. op' \in [Op -> Operations]
  BY <1>0, <1>1, <1>2
<1>4. unused' \in Nat /\ granted' \in Int /\ granted' + tokens + unused' = granted + tokens + unused
  BY <1>0 DEF Complete
<1>5. LimiterType'
  BY <1>1, <1>3, <1>4 DEF LimiterInv, LimiterType
<1>6. switches' = 0 => limit' = Rate /\ (NothingGranted' \/ Budget')
  <2>1. NothingGranted => NothingGranted'
    BY <1>0, <1>1, <1>2 DEF NothingGranted, Complete
  <2>2. Budget => Budget'
    BY <1>1, <1>4 DEF Budget
  <2> QED
    BY <1>1, <2>1, <2>2 DEF LimiterInv
<1>7. QueuedOnce'
  BY <1>0, <1>1, <1>2 DEF LimiterInv, QueuedOnce
<1>8. AsleepMeansIdle'
  BY <1>1 DEF LimiterInv, AsleepMeansIdle, NoOps
<1> QED
  BY <1>5, <1>6, <1>7, <1>8 DEF LimiterInv

\* An operation that failed is in no list.
LEMMA FailOK ==
  ASSUME LimiterInv, NEW o \in Op, Fail(o)
  PROVE  LimiterInv'
<1> USE LimiterConstants
<1>0. op \in [Op -> Operations] /\ waiting \in [Op -> Nat] /\ progress \in [Op -> Nat]
  BY DEF LimiterInv, LimiterType
<1>1. /\ op' = [op EXCEPT ![o] = NoOp] /\ UNCHANGED <<limit, tokens, unused, loop, ticks, elapsed, granted, switches>>
      /\ waiting' = [waiting EXCEPT ![o] = 0] /\ progress' = [progress EXCEPT ![o] = 0]
  BY DEF Fail, Removed
<1>2. NoOp \in Operations /\ NoOp.pc = "idle"
  BY DEF NoOp, Operations
<1>3. op' \in [Op -> Operations] /\ waiting' \in [Op -> Nat] /\ progress' \in [Op -> Nat]
  BY <1>0, <1>1, <1>2
<1>4. LimiterType'
  BY <1>1, <1>3 DEF LimiterInv, LimiterType
<1>5. switches' = 0 => limit' = Rate /\ (NothingGranted' \/ Budget')
  <2>1. NothingGranted => NothingGranted'
    BY <1>0, <1>1, <1>2 DEF NothingGranted
  <2>2. Budget => Budget'
    BY <1>1 DEF Budget
  <2> QED
    BY <1>1, <2>1, <2>2 DEF LimiterInv
<1>6. QueuedOnce'
  BY <1>0, <1>1, <1>2 DEF LimiterInv, QueuedOnce
<1>7. AsleepMeansIdle'
  BY <1>0, <1>1 DEF LimiterInv, AsleepMeansIdle, NoOps
<1> QED
  BY <1>4, <1>5, <1>6, <1>7 DEF LimiterInv

\* One iteration of the loop spends from the bucket, and earns what the time
\* since the last one is worth.
LEMMA IterationOK ==
  ASSUME LimiterInv, process_pending_operations
  PROVE  LimiterInv'
<1> USE LimiterConstants
<1> DEFINE ops == [o \in Op |-> progress[o] + waiting[o]]
<1>0. /\ op \in [Op -> Operations] /\ waiting \in [Op -> Nat] /\ progress \in [Op -> Nat]
      /\ tokens \in Nat /\ unused \in Nat /\ granted \in Int /\ elapsed \in Nat /\ ticks \in Nat
  BY DEF LimiterInv, LimiterType
<1>1. ops \in [Op -> Nat] /\ \A o \in Op : ops[o] = (IF op[o].pc = "queued" THEN 1 ELSE 0)
  BY <1>0 DEF LimiterInv, QueuedOnce
<1>2. /\ waiting' = NoOps /\ elapsed' = 0 /\ UNCHANGED <<limit, ticks, switches>>
      /\ loop' = IF progress' = NoOps THEN "asleep" ELSE "timed"
      /\ limit > 0 => Limited(ops)
      /\ ~(limit > 0) => Unlimited(ops)
  BY DEF process_pending_operations
<1> HIDE DEF ops
<1>3. waiting' \in [Op -> Nat] /\ \A o \in Op : waiting'[o] = 0
  BY <1>2 DEF NoOps
<1>4. AsleepMeansIdle'
  <2>1. NoOps' = NoOps
    BY DEF NoOps
  <2> QED
    BY <1>2, <2>1 DEF AsleepMeansIdle
<1>5. CASE limit > 0
  <2>1. limit = Rate
    BY <1>5 DEF LimiterInv, LimiterType
  <2>2. PICK order \in Orders(ops) :
          /\ tokens' = Left(order)[Len(order)] /\ unused' = 0
          /\ progress' = [o \in Op |-> IF Share(order)[o] > 0 THEN 0 ELSE ops[o]]
          /\ op' = [o \in Op |-> IF Share(order)[o] > 0
                                THEN [op[o] EXCEPT !.pc = "performed", !.permitted = Share(order)[o]] ELSE op[o]]
          /\ granted' = granted + Refilled - Left(order)[Len(order)]
    BY <1>2, <1>5 DEF Limited
  <2> DEFINE share == Share(order)
             R == Refilled
  <2>3. tokens' \in 0..R /\ share \in [Op -> Nat] /\ \A o \in Op : ops[o] = 0 => share[o] = 0
    BY <1>1, <2>1, <2>2, SharesOfBucket
  <2>4. /\ Earned \in Nat /\ R \in Nat /\ R <= tokens + Earned + unused /\ R <= Rate * Burst
        /\ Second * Earned <= Rate * elapsed
    BY <2>1, BucketFilled
  <2> HIDE DEF share, R
  <2>5. /\ progress' = [o \in Op |-> IF share[o] > 0 THEN 0 ELSE ops[o]]
        /\ op' = [o \in Op |-> IF share[o] > 0
                               THEN [op[o] EXCEPT !.pc = "performed", !.permitted = share[o]] ELSE op[o]]
        /\ granted' = granted + R - tokens' /\ unused' = 0
    BY <2>2 DEF share, R
  <2>6. progress' \in [Op -> Nat]
    BY <1>1, <2>5
  <2>7. op' \in [Op -> Operations]
    BY <1>0, <2>3, <2>5 DEF Operations
  <2>8. tokens' \in Nat /\ granted' \in Int /\ granted' + tokens' + unused' = granted + R
    <3>1. R \in Nat /\ granted \in Int /\ tokens' \in 0..R /\ granted' = granted + R - tokens' /\ unused' = 0
      BY <1>0, <2>3, <2>4, <2>5
    <3>2. tokens' \in Nat /\ granted' \in Int /\ granted' + tokens' = granted + R
      BY ONLY <3>1, Spent
    <3>3. granted' + tokens' + unused' = granted' + tokens'
      <4>1. unused' = 0
        BY <3>1
      <4>2. granted' + tokens' \in Int
        BY ONLY <3>2
      <4> QED
        BY ONLY <4>1, <4>2
    <3> QED
      BY ONLY <3>2, <3>3
  <2>9. LimiterType'
    BY <1>2, <1>3, <2>5, <2>6, <2>7, <2>8 DEF LimiterInv, LimiterType
  <2>10. QueuedOnce'
    <3> SUFFICES ASSUME NEW o \in Op PROVE waiting'[o] + progress'[o] = (IF op'[o].pc = "queued" THEN 1 ELSE 0)
      BY DEF QueuedOnce
    <3>1. CASE share[o] > 0
      <4>1. progress'[o] = 0 /\ op'[o].pc = "performed"
        BY <1>0, <2>5, <3>1 DEF Operations
      <4> QED
        BY <1>3, <4>1
    <3>2. CASE ~(share[o] > 0)
      <4>1. progress'[o] = ops[o] /\ op'[o] = op[o]
        BY <2>5, <3>2
      <4>2. ops[o] = (IF op[o].pc = "queued" THEN 1 ELSE 0) /\ waiting'[o] = 0
        BY <1>1, <1>3
      <4> QED
        BY ONLY <4>1, <4>2
    <3> QED
      BY <3>1, <3>2
  <2>11. switches' = 0 => limit' = Rate /\ Budget'
    <3>1. granted' + tokens' + unused' = granted + R
      BY <2>8
    <3>2. Rate * elapsed' = 0 /\ Rate * ticks \in Nat
      BY <1>0, <1>2
    <3>3. CASE NothingGranted
      <4>1. granted + R <= Rate * Burst /\ granted + R \in Int
        BY <2>4, <3>3 DEF NothingGranted
      <4>2. Second * (granted + R) <= Second * (Rate * Burst) /\ Second * (granted + R) \in Int
        BY <4>1, Products
      <4>3. Second * (granted' + tokens' + unused') + Rate * elapsed' <= Second * (Rate * Burst) + Rate * ticks
        <5> DEFINE u == Second * (granted + R)
                   v == Second * (Rate * Burst)
                   w == Rate * ticks
        <5>1. u \in Int /\ v \in Nat /\ w \in Nat /\ u <= v
          BY <3>2, <4>2
        <5>2. Second * (granted' + tokens' + unused') = u /\ Rate * elapsed' = 0
          BY <3>1, <3>2
        <5> HIDE DEF u, v, w
        <5>3. u + 0 <= v + w
          BY <5>1
        <5> QED
          BY <5>2, <5>3 DEF v, w
      <4> QED
        BY <1>2, <2>1, <4>3 DEF Budget
    <3>4. CASE Budget
      <4>1. granted + R <= (granted + tokens + unused) + Earned /\ granted + R \in Int
        BY <1>0, <2>4
      <4> DEFINE a == granted + tokens + unused
                 u == Second * (granted + R)
                 v == Second * (Rate * Burst)
                 w == Rate * ticks
                 x == Rate * elapsed
      <4>2. a \in Int /\ v \in Nat /\ w \in Nat /\ x \in Nat /\ Second * a \in Int /\ Second * Earned \in Int
        BY <1>0, <2>4
      <4> HIDE DEF a
      <4>3. u <= Second * (a + Earned) /\ u \in Int
        BY <2>4, <4>1, <4>2, Products DEF a
      <4>4. Second * (a + Earned) = Second * a + Second * Earned
        BY <2>4, <4>2
      <4>5. Second * a + x <= v + w
        BY <3>4 DEF Budget, a
      <4>6. Second * (granted' + tokens' + unused') = u /\ Rate * elapsed' = 0
        BY <3>1, <3>2
      <4>7. Second * Earned <= x
        BY <2>4
      <4> HIDE DEF u, v, w, x
      <4>8. u + 0 <= v + w
        BY <4>2, <4>3, <4>4, <4>5, <4>7
      <4>9. Second * (granted' + tokens' + unused') + Rate * elapsed' <= Second * (Rate * Burst) + Rate * ticks
        BY <4>6, <4>8 DEF v, w
      <4> QED
        BY <1>2, <2>1, <4>9 DEF Budget
    <3> QED
      BY <1>2, <3>3, <3>4 DEF LimiterInv
  <2> QED
    BY <1>4, <2>9, <2>10, <2>11 DEF LimiterInv
<1>6. CASE ~(limit > 0)
  <2>1. limit # Rate /\ switches # 0
    BY <1>6 DEF LimiterInv
  <2>2. /\ progress' = NoOps /\ UNCHANGED <<tokens, unused, granted>>
        /\ op' = [o \in Op |-> IF ops[o] > 0 THEN [op[o] EXCEPT !.pc = "performed", !.permitted = op[o].length] ELSE op[o]]
    BY <1>2, <1>6 DEF Unlimited
  <2>3. progress' \in [Op -> Nat] /\ \A o \in Op : progress'[o] = 0
    BY <2>2 DEF NoOps
  <2>4. op' \in [Op -> Operations]
    BY <1>0, <2>2 DEF Operations
  <2>5. LimiterType'
    BY <1>2, <1>3, <2>2, <2>3, <2>4 DEF LimiterInv, LimiterType
  <2>6. QueuedOnce'
    <3> SUFFICES ASSUME NEW o \in Op PROVE op'[o].pc # "queued"
      BY <1>3, <2>3 DEF QueuedOnce
    <3>1. CASE ops[o] > 0
      BY <1>0, <2>2, <3>1 DEF Operations
    <3>2. CASE ~(ops[o] > 0)
      <4>1. op'[o] = op[o]
        BY <2>2, <3>2
      <4>2. ops[o] = (IF op[o].pc = "queued" THEN 1 ELSE 0)
        BY <1>1
      <4> QED
        BY ONLY <3>2, <4>1, <4>2
    <3> QED
      BY <3>1, <3>2
  <2> QED
    BY <1>2, <1>4, <2>1, <2>5, <2>6 DEF LimiterInv
<1> QED
  BY <1>5, <1>6

\* Time that goes by is worth what the next iteration will earn for it.
LEMMA TickOK ==
  ASSUME LimiterInv, Tick
  PROVE  LimiterInv'
<1> USE LimiterConstants
<1>1. /\ ticks \in Nat /\ elapsed \in Nat /\ tokens \in Nat /\ unused \in Nat /\ granted \in Int
      /\ ticks' = ticks + 1 /\ elapsed' = elapsed + 1
      /\ UNCHANGED <<limit, tokens, unused, waiting, progress, op, loop, granted, switches>>
  BY DEF LimiterInv, LimiterType, Tick
<1>2. LimiterType'
  BY <1>1 DEF LimiterInv, LimiterType
<1>3. QueuedOnce' /\ AsleepMeansIdle'
  BY <1>1, ListsKept
<1>4. NothingGranted => NothingGranted'
  BY <1>1 DEF NothingGranted
<1>5. Budget => Budget'
  <2> DEFINE a == Second * (granted + tokens + unused)
             v == Second * (Rate * Burst)
             x == Rate * elapsed
             w == Rate * ticks
  <2>1. a \in Int /\ v \in Nat /\ x \in Nat /\ w \in Nat
    BY <1>1
  <2>2. Rate * elapsed' = x + Rate /\ Rate * ticks' = w + Rate
    BY <1>1
  <2>3. Budget <=> a + x <= v + w
    BY DEF Budget
  <2>4. Budget' <=> a + Rate * elapsed' <= v + Rate * ticks'
    BY <1>1 DEF Budget
  <2> HIDE DEF a, v, x, w
  <2>5. a + x <= v + w => a + (x + Rate) <= v + (w + Rate)
    BY ONLY <2>1, LimiterConstants
  <2> QED
    BY <2>2, <2>3, <2>4, <2>5
<1> QED
  BY <1>1, <1>2, <1>3, <1>4, <1>5 DEF LimiterInv

\* The loop's timer changes no list; nor does a change of the limit, after which
\* the rate is not claimed.
LEMMA TimeoutAndLimitOK ==
  ASSUME LimiterInv, Timeout \/ SetLimit \/ UNCHANGED limiterVars
  PROVE  LimiterInv'
<1> USE LimiterConstants
<1>1. CASE Timeout
  <2>1. /\ UNCHANGED <<limit, tokens, unused, waiting, progress, op, ticks, elapsed, granted, switches>>
        /\ loop' = "ready"
    BY <1>1 DEF Timeout
  <2>2. LimiterType' /\ (NothingGranted => NothingGranted') /\ (Budget => Budget')
    BY <2>1 DEF LimiterInv, LimiterType, NothingGranted, Budget
  <2>3. QueuedOnce' /\ AsleepMeansIdle'
    BY <2>1 DEF LimiterInv, QueuedOnce, AsleepMeansIdle
  <2> QED
    BY <2>1, <2>2, <2>3 DEF LimiterInv
<1>2. CASE SetLimit
  <2>1. /\ UNCHANGED <<tokens, unused, waiting, progress, op, loop, ticks, elapsed, granted>>
        /\ limit' \in {0, Rate} /\ switches' = switches + 1
    BY <1>2 DEF SetLimit, set_limit
  <2>2. LimiterType' /\ switches' # 0
    BY <2>1 DEF LimiterInv, LimiterType
  <2>3. QueuedOnce' /\ AsleepMeansIdle'
    BY <2>1, ListsKept
  <2> QED
    BY <2>2, <2>3 DEF LimiterInv
<1>3. CASE UNCHANGED limiterVars
  BY <1>3 DEF limiterVars, LimiterInv, LimiterType, NothingGranted, Budget, QueuedOnce, AsleepMeansIdle, NoOps
<1> QED
  BY <1>1, <1>2, <1>3

\* Every step of the limiter keeps its invariant.
LEMMA LimiterKeep ==
  ASSUME LimiterInv, [LimiterNext]_limiterVars
  PROVE  LimiterInv'
<1>1. ASSUME NEW o \in Op, NEW len \in Length, readsome_impl(o, len) \/ writesome_impl(o, len) PROVE LimiterInv'
  BY <1>1, SubmitOK DEF readsome_impl, writesome_impl
<1>2. CASE Read \/ Write
  BY <1>1, <1>2 DEF Read, Write
<1>3. CASE Finish
  BY <1>3, CompleteOK DEF Finish
<1>4. CASE Failure
  BY <1>4, FailOK DEF Failure
<1>5. CASE process_pending_operations
  BY <1>5, IterationOK
<1>6. CASE Tick
  BY <1>6, TickOK
<1>7. CASE Timeout \/ SetLimit \/ UNCHANGED limiterVars
  BY <1>7, TimeoutAndLimitOK
<1> QED
  BY <1>2, <1>3, <1>4, <1>5, <1>6, <1>7 DEF LimiterNext

\* The bytes that were permitted are within the bucket and what was earned.
LEMMA WithinRate == ASSUME LimiterInv PROVE RateKept
<1> USE LimiterConstants
<1> SUFFICES ASSUME switches = 0 PROVE Second * granted <= Second * Rate * Burst + Rate * ticks
  BY DEF RateKept
<1> DEFINE v == Second * Rate * Burst
           w == Rate * ticks
           x == Rate * elapsed
           a == granted + tokens + unused
<1>1. /\ ticks \in Nat /\ elapsed \in Nat /\ tokens \in Nat /\ unused \in Nat /\ granted \in Int
  BY DEF LimiterInv, LimiterType
<1>2. v = Second * (Rate * Burst) /\ v \in Nat /\ w \in Nat /\ x \in Nat
  BY <1>1
<1>3. CASE NothingGranted
  <2>1. granted = 0
    BY <1>3 DEF NothingGranted
  <2>2. Second * granted = 0
    BY <2>1
  <2> HIDE DEF v, w
  <2>3. 0 <= v + w
    BY <1>2
  <2> QED
    BY <2>2, <2>3 DEF v, w
<1>4. CASE Budget
  <2>1. a \in Int /\ granted <= a
    BY <1>1
  <2>2. Second * a + x <= v + w
    BY <1>2, <1>4 DEF Budget
  <2> HIDE DEF a
  <2>3. Second * granted <= Second * a /\ Second * granted \in Int /\ Second * a \in Int
    BY <1>1, <2>1, Products
  <2> DEFINE g == Second * granted
             t == Second * a
  <2>4. g <= t /\ g \in Int /\ t \in Int /\ t + x <= v + w
    BY <2>2, <2>3
  <2> HIDE DEF v, w, x, g, t
  <2>5. g <= v + w
    BY <1>2, <2>4
  <2> QED
    BY <2>5 DEF g, v, w
<1> QED
  BY <1>3, <1>4 DEF LimiterInv

\* LimiterInv is an invariant of the limiter (rate_limiting_group).
THEOREM LimiterInvariance == LimiterSpec => []LimiterInv
<1>1. LimiterInit => LimiterInv
  BY LimiterStarts
<1>2. LimiterInv /\ [LimiterNext]_limiterVars => LimiterInv'
  BY LimiterKeep
<1> QED
  BY <1>1, <1>2, PTL DEF LimiterSpec

\* For every set of fibers, rate and burst: until the limit is changed no more is
\* permitted than a full bucket and what was earned, every queued operation is in
\* one list once, and the loop never sleeps for good over a queued operation
\* (process_pending_operations).
THEOREM LimiterIsSound == LimiterSpec => []LimiterSound
<1>1. LimiterInv => LimiterSound
  BY WithinRate DEF LimiterInv, LimiterSound
<1> QED
  BY <1>1, LimiterInvariance, PTL

-----------------------------------------------------------------------------
(* Induction up to a number, and recursion *)

\* Induction up to a number, over a set instead of a predicate.
LEMMA UpTo ==
  ASSUME NEW n \in Nat, NEW T, 0 \in T, \A i \in 1..n : i - 1 \in T => i \in T
  PROVE  0..n \subseteq T
<1> DEFINE B == {i \in 0..n : i \notin T}
<1> SUFFICES ASSUME B # {} PROVE FALSE
  OBVIOUS
<1>1. PICK m \in B : \A k \in B : m <= k
  <2>1. B \in SUBSET Nat
    OBVIOUS
  <2> HIDE DEF B
  <2> QED
    BY <2>1, LeastNumber
<1>2. m \in 0..n /\ m \notin T /\ m # 0
  BY <1>1
<1>3. m \in 1..n /\ m - 1 \in 0..n /\ ~(m <= m - 1)
  BY <1>2
<1>4. m - 1 \in T
  BY <1>1, <1>3
<1> QED
  BY <1>2, <1>3, <1>4

\* g is the run of n steps F from s, in the set S.
Runs(g, n, S, s, F) == g \in [0..n -> S] /\ g[0] = s /\ \A i \in 1..n : g[i] = F[i][g[i - 1]]

\* A recursion over 0..n whose steps stay in a set can be run.
LEMMA StepsRun ==
  ASSUME NEW S, NEW n \in Nat, NEW s \in S, NEW F \in [1..n -> [S -> S]]
  PROVE  \E g : Runs(g, n, S, s, F)
<1> DEFINE Run(m) == \E g \in [0..m -> S] : g[0] = s /\ \A i \in 1..m : g[i] = F[i][g[i - 1]]
           T == {m \in 0..n : Run(m)}
<1>1. 0 \in T
  <2> DEFINE g == [i \in 0..0 |-> s]
  <2>1. g \in [0..0 -> S] /\ g[0] = s /\ \A i \in 1..0 : g[i] = F[i][g[i - 1]]
    OBVIOUS
  <2> HIDE DEF g
  <2> QED
    BY <2>1
<1>2. ASSUME NEW m \in 1..n, m - 1 \in T PROVE m \in T
  <2>1. PICK g \in [0..(m - 1) -> S] : g[0] = s /\ \A i \in 1..(m - 1) : g[i] = F[i][g[i - 1]]
    BY <1>2
  <2> DEFINE h == [i \in 0..m |-> IF i = m THEN F[m][g[m - 1]] ELSE g[i]]
  <2>2. g[m - 1] \in S /\ F[m][g[m - 1]] \in S
    <3>1. g[m - 1] \in S
      BY <2>1
    <3> QED
      BY <3>1
  <2>3. h \in [0..m -> S] /\ h[0] = s
    BY <2>1, <2>2
  <2>4. ASSUME NEW i \in 1..m PROVE h[i] = F[i][h[i - 1]]
    <3>1. CASE i = m
      <4>1. h[m - 1] = g[m - 1] /\ h[m] = F[m][g[m - 1]]
        OBVIOUS
      <4> HIDE DEF h
      <4> QED
        BY <3>1, <4>1
    <3>2. CASE i # m
      BY <2>1, <3>2
    <3> QED
      BY <3>1, <3>2
  <2> HIDE DEF h
  <2>5. Run(m)
    BY <2>3, <2>4
  <2> HIDE DEF Run
  <2> QED
    BY <2>5
<1> HIDE DEF T
<1>3. 0..n \subseteq T
  BY <1>1, <1>2, UpTo
<1>4. n \in T
  BY <1>3
<1> QED
  BY <1>4 DEF T, Runs

-----------------------------------------------------------------------------
(* Files *)

\* Temporaries have names of their own, and what is on disk has one of them.
TempInv ==
  /\ alive \in SUBSET Temp /\ path \in [Temp -> Path \cup {NoPath}] /\ disk \in SUBSET Path
  /\ NoLeak

\* Where the contents are at each point of rename.
MoveInv ==
  /\ mover \in {"start", "copy", "copying", "remove", "done", "failed", "crashed"}
  /\ mover \in {"start", "copy", "copying"} => from = "data"
  /\ mover \in {"remove", "done"} => to = "data"
  /\ NothingLost

\* An object that believes it has the lock has it.
LockInv ==
  /\ held \in [Process -> [Lock -> BOOLEAN]] /\ holder \in {Nobody} \cup (Process \X Lock)
  /\ \A p \in Process, l \in Lock : held[p][l] => holder = <<p, l>>

AskInv == asked = <<>> \/ asked \in Below \X Below

FilesInv == TempInv /\ MoveInv /\ LockInv /\ AskInv

\* At first there is no temporary, no lock, and the contents are under the old name.
LEMMA FilesStart == ASSUME FilesInit PROVE FilesInv
<1>1. TempInv
  BY DEF FilesInit, TempInv, NoLeak
<1>2. MoveInv
  BY DEF FilesInit, MoveInv, NothingLost
<1>3. LockInv
  BY DEF FilesInit, LockInv
<1> QED
  BY <1>1, <1>2, <1>3 DEF FilesInv, FilesInit, AskInv

\* Objects are made, moved, released and destroyed, removals may fail.
LEMMA TempStep == ASSUME TempInv, TempNext PROVE TempInv'
<1>0. NoPath \notin Path
  BY FilesAssumption
<1>1. ASSUME NEW t \in Temp, CreateTemp(t) PROVE TempInv'
  <2>1. CASE disk' \subseteq disk /\ UNCHANGED <<alive, path, released>>
    BY <2>1 DEF TempInv, NoLeak
  <2>2. ASSUME NEW p \in Path, alive' = alive \cup {t}, path' = [path EXCEPT ![t] = p],
               disk' = disk \/ disk' = disk \cup {p}, released' = released \ {p}, t \notin alive
        PROVE  TempInv'
    <3>1. alive' \in SUBSET Temp /\ path' \in [Temp -> Path \cup {NoPath}] /\ disk' \in SUBSET Path
      BY <2>2 DEF TempInv
    <3>2. \A u \in Temp : path'[u] = IF u = t THEN p ELSE path[u]
      BY <2>2 DEF TempInv
    <3>3. ASSUME NEW d \in disk' PROVE d \in {path'[u] : u \in alive'} \cup released'
      <4>1. CASE d = p
        BY <4>1, <2>2, <3>2
      <4>2. CASE d # p
        <5>1. d \in released \/ \E u \in alive : d = path[u]
          BY <2>2, <3>3, <4>2 DEF TempInv, NoLeak
        <5>2. \A u \in alive : u \in alive' /\ path'[u] = path[u]
          BY <2>2, <3>2 DEF TempInv
        <5> QED
          BY <2>2, <4>2, <5>1, <5>2
      <4> QED
        BY <4>1, <4>2
    <3> QED
      BY <3>1, <3>3 DEF TempInv, NoLeak
  <2> QED
    BY <1>1, <2>1, <2>2 DEF CreateTemp
<1>2. ASSUME NEW t \in Temp, Fill(t) PROVE TempInv'
  BY <1>2 DEF Fill, TempInv, NoLeak
<1>3. ASSUME NEW t \in Temp, NEW name \in Path \cup {NoPath}, t \in alive, Dropped(path[t]), path' = [path EXCEPT ![t] = name],
             alive' = alive \/ (alive' = alive \ {t})
      PROVE  TempInv'
  <2>1. alive' \in SUBSET Temp /\ path' \in [Temp -> Path \cup {NoPath}] /\ disk' \in SUBSET Path
    BY <1>3 DEF TempInv, Dropped
  <2>2. \A u \in Temp : path'[u] = IF u = t THEN name ELSE path[u]
    BY <1>3 DEF TempInv
  <2>3. ASSUME NEW d \in disk' PROVE d \in {path'[u] : u \in alive'} \cup released'
    <3>1. d \in disk /\ d \in Path /\ d # NoPath
      BY <1>0, <1>3, <2>3 DEF Dropped, TempInv
    <3>2. CASE d = path[t]
      BY <1>3, <2>3, <3>1, <3>2 DEF Dropped
    <3>3. CASE d # path[t]
      <4>1. d \in released \/ \E u \in alive : u # t /\ d = path[u]
        BY <3>1, <3>3 DEF TempInv, NoLeak
      <4>2. released \subseteq released' /\ \A u \in alive : u # t => u \in alive' /\ path'[u] = path[u]
        BY <1>3, <2>2 DEF Dropped, TempInv
      <4> QED
        BY <4>1, <4>2
    <3> QED
      BY <3>2, <3>3
  <2> QED
    BY <2>1, <2>3 DEF TempInv, NoLeak
<1>4. ASSUME NEW t \in Temp, remove(t) PROVE TempInv'
  BY <1>3, <1>4 DEF remove
<1>5. ASSUME NEW t \in Temp, DestroyTemp(t) PROVE TempInv'
  BY <1>3, <1>5 DEF DestroyTemp
<1>6. ASSUME NEW t \in Temp, release(t) PROVE TempInv'
  <2>1. /\ alive' = alive /\ disk' = disk /\ released' = released \cup {path[t]} /\ path' = [path EXCEPT ![t] = NoPath]
    BY <1>6 DEF release
  <2>2. \A u \in Temp : path'[u] = IF u = t THEN NoPath ELSE path[u]
    BY <2>1 DEF TempInv
  <2>3. path' \in [Temp -> Path \cup {NoPath}]
    BY <2>1 DEF TempInv
  <2> QED
    BY <2>1, <2>2, <2>3 DEF TempInv, NoLeak
<1>7. ASSUME NEW t \in Temp, NEW s \in Temp, MoveTemp(t, s) PROVE TempInv'
  <2>1. /\ t \notin alive /\ s \in alive /\ alive' = alive \cup {t} /\ path' = [path EXCEPT ![t] = path[s]]
        /\ disk' = disk /\ released' = released
    BY <1>7 DEF MoveTemp
  <2>2. \A u \in Temp : path'[u] = IF u = t THEN path[s] ELSE path[u]
    BY <2>1 DEF TempInv
  <2>3. path' \in [Temp -> Path \cup {NoPath}] /\ alive' \in SUBSET Temp
    BY <2>1 DEF TempInv
  <2> QED
    BY <2>1, <2>2, <2>3 DEF TempInv, NoLeak
<1>8. ASSUME NEW t \in Temp, NEW s \in Temp, MoveAssign(t, s) PROVE TempInv'
  <2>1. path[s] \in Path \cup {NoPath}
    BY DEF TempInv
  <2> QED
    BY <1>3, <1>8, <2>1 DEF MoveAssign
<1> QED
  BY <1>1, <1>2, <1>4, <1>5, <1>6, <1>7, <1>8 DEF TempNext

\* rename, its errors and a crash.
LEMMA RenameStep == ASSUME MoveInv, RenameNext PROVE MoveInv'
<1>1. CASE rename
  BY <1>1 DEF rename, MoveInv, NothingLost
<1>2. CASE Crash
  BY <1>2 DEF Crash, MoveInv, NothingLost
<1> QED
  BY <1>1, <1>2 DEF RenameNext

\* Locks are taken, refused and let go, and processes die.
LEMMA LockStep == ASSUME LockInv, LockNext PROVE LockInv'
<1>1. ASSUME NEW p \in Process, NEW l \in Lock, try_lock(p, l) PROVE LockInv'
  <2>1. CASE holder = Nobody
    <3>1. held' = [held EXCEPT ![p][l] = TRUE] /\ holder' = <<p, l>>
      BY <1>1, <2>1 DEF try_lock
    <3>2. \A q \in Process, m \in Lock : ~held[q][m]
      BY <2>1 DEF LockInv, Nobody
    <3>3. held' \in [Process -> [Lock -> BOOLEAN]] /\ \A q \in Process, m \in Lock : held'[q][m] => q = p /\ m = l
      BY <3>1, <3>2 DEF LockInv
    <3> QED
      BY <3>1, <3>3 DEF LockInv
  <2>2. CASE holder # Nobody
    BY <1>1, <2>2 DEF try_lock, LockInv
  <2> QED
    BY <2>1, <2>2
<1>2. ASSUME NEW p \in Process, NEW l \in Lock, unlock(p, l) PROVE LockInv'
  <2>1. held' = [held EXCEPT ![p][l] = FALSE] /\ holder' = IF holder = <<p, l>> THEN Nobody ELSE holder
    BY <1>2 DEF unlock
  <2>2. held' \in [Process -> [Lock -> BOOLEAN]]
    BY <2>1 DEF LockInv
  <2>3. \A q \in Process, m \in Lock : held'[q][m] => held[q][m] /\ ~(q = p /\ m = l)
    BY <2>1 DEF LockInv
  <2> QED
    BY <2>1, <2>2, <2>3 DEF LockInv
<1>3. ASSUME NEW p \in Process, Die(p) PROVE LockInv'
  <2>1. held' = [held EXCEPT ![p] = [l \in Lock |-> FALSE]] /\ holder' = IF holder # Nobody /\ Head(holder) = p THEN Nobody ELSE holder
    BY <1>3 DEF Die
  <2>2. held' \in [Process -> [Lock -> BOOLEAN]]
    BY <2>1 DEF LockInv
  <2>3. \A q \in Process, m \in Lock : held'[q][m] => held[q][m] /\ q # p
    BY <2>1 DEF LockInv
  <2>4. ASSUME NEW q \in Process, NEW m \in Lock, held'[q][m] PROVE holder' = <<q, m>>
    <3>1. holder = <<q, m>> /\ q # p
      BY <2>3, <2>4 DEF LockInv
    <3>2. Head(holder) = q
      BY <3>1
    <3> QED
      BY <2>1, <3>1, <3>2
  <2>5. holder' \in {Nobody} \cup (Process \X Lock)
    BY <2>1 DEF LockInv
  <2> QED
    BY <2>2, <2>4, <2>5 DEF LockInv
<1> QED
  BY <1>1, <1>2, <1>3 DEF LockNext

\* Every call of the filesystem keeps the invariant.
LEMMA FilesKeep == ASSUME FilesInv, [FilesNext]_fileVars PROVE FilesInv'
<1>1. CASE TempNext
  <2>1. UNCHANGED <<moveVars, lockVars, asked>>
    BY <1>1 DEF TempNext
  <2> QED
    BY <1>1, <2>1, TempStep DEF FilesInv, MoveInv, LockInv, AskInv, NothingLost, moveVars, lockVars
<1>2. CASE RenameNext
  <2>1. UNCHANGED <<tempVars, lockVars, asked>>
    BY <1>2 DEF RenameNext
  <2> QED
    BY <1>2, <2>1, RenameStep DEF FilesInv, TempInv, LockInv, AskInv, NoLeak, tempVars, lockVars
<1>3. CASE LockNext
  <2>1. UNCHANGED <<tempVars, moveVars, asked>>
    BY <1>3 DEF LockNext
  <2> QED
    BY <1>3, <2>1, LockStep DEF FilesInv, TempInv, MoveInv, AskInv, NoLeak, NothingLost, tempVars, moveVars
<1>4. CASE AskRelative
  <2>1. UNCHANGED <<tempVars, moveVars, lockVars>> /\ asked' \in Below \X Below
    BY <1>4 DEF AskRelative
  <2> QED
    BY <2>1 DEF FilesInv, TempInv, MoveInv, LockInv, AskInv, NoLeak, NothingLost, tempVars, moveVars, lockVars
<1>5. CASE UNCHANGED fileVars
  BY <1>5 DEF FilesInv, TempInv, MoveInv, LockInv, AskInv, NoLeak, NothingLost, fileVars, tempVars, moveVars, lockVars
<1> QED
  BY <1>1, <1>2, <1>3, <1>4, <1>5 DEF FilesNext

-----------------------------------------------------------------------------
(* make_relative *)

Steps == Dir \cup {".", ".."}

\* One step of a path, and the places it comes by.
Moved(x, n) ==
  CASE n = "." -> x
    [] n = ".." -> (IF x = << >> THEN << >> ELSE SubSeq(x, 1, Len(x) - 1))
    [] OTHER -> Append(x, n)
Walk(g, s) == g = [i \in 0..Len(s) |-> IF i = 0 THEN << >> ELSE Moved(g[i - 1], s[i])]

\* A step leads from a place to a place.
LEMMA MovedIsPlace == ASSUME NEW x \in Seq(Dir), NEW n \in Steps PROVE Moved(x, n) \in Seq(Dir)
<1>1. CASE n = "."
  BY <1>1 DEF Moved
<1>2. CASE n = ".." /\ x = << >>
  BY <1>2 DEF Moved
<1>3. CASE n = ".." /\ x # << >>
  <2>1. SubSeq(x, 1, Len(x) - 1) \in Seq(Dir)
    BY <1>3, SubSeqProperties, LenProperties, EmptySeq
  <2> QED
    BY <1>3, <2>1 DEF Moved
<1>4. CASE n # "." /\ n # ".."
  <2>1. n \in Dir /\ Moved(x, n) = Append(x, n)
    BY <1>4 DEF Steps, Moved
  <2> QED
    BY <2>1, AppendProperties
<1> QED
  BY <1>1, <1>2, <1>3, <1>4

\* The places a path comes by.
LEMMA PathWalks ==
  ASSUME NEW s \in Seq(Steps)
  PROVE  \E g \in [0..Len(s) -> Seq(Dir)] :
           g[0] = << >> /\ (\A i \in 1..Len(s) : g[i] = Moved(g[i - 1], s[i])) /\ Resolved(s) = g[Len(s)]
<1> DEFINE n == Len(s)
           S == Seq(Dir)
           F == [i \in 1..n |-> [x \in S |-> Moved(x, s[i])]]
<1>0. n \in Nat /\ << >> \in S /\ \A i \in 1..n : s[i] \in Steps
  BY LenProperties, ElementOfSeq
<1> HIDE DEF n, S
<1>1. F \in [1..n -> [S -> S]] /\ \A i \in 1..n, x \in S : F[i][x] = Moved(x, s[i])
  <2>1. \A i \in 1..n, x \in S : Moved(x, s[i]) \in S
    BY <1>0, MovedIsPlace DEF S
  <2> QED
    BY <2>1
<1> HIDE DEF F
<1>2. PICK g \in [0..n -> S] : g[0] = << >> /\ \A i \in 1..n : g[i] = F[i][g[i - 1]]
  <2> DEFINE e == << >>
  <2>1. n \in Nat /\ e \in S /\ F \in [1..n -> [S -> S]]
    BY <1>0, <1>1
  <2> HIDE DEF e
  <2>2. \E g : Runs(g, n, S, e, F)
    BY <2>1, StepsRun
  <2> QED
    BY <2>2 DEF e, Runs
<1>3. ASSUME NEW i \in 1..n PROVE g[i] = Moved(g[i - 1], s[i])
  <2>1. g[i - 1] \in S
    BY <1>0, <1>2
  <2> QED
    BY <1>1, <1>2, <2>1
<1>4. Walk(g, s)
  <2>1. \A i \in 0..n : g[i] = IF i = 0 THEN << >> ELSE Moved(g[i - 1], s[i])
    BY <1>0, <1>2, <1>3
  <2> QED
    BY <2>1 DEF Walk, n
<1> DEFINE h == CHOOSE h : Walk(h, s)
<1>5. Walk(h, s)
  BY <1>4
<1>6. Resolved(s) = h[n]
  BY DEF Resolved, Walk, Moved, n
<1> HIDE DEF h
<1>7. \A i \in 0..n : h[i] = IF i = 0 THEN << >> ELSE Moved(h[i - 1], s[i])
  BY <1>5 DEF Walk, n
<1>8. 0..n \subseteq {i \in 0..n : h[i] = g[i]}
  <2> DEFINE T == {i \in 0..n : h[i] = g[i]}
  <2>1. 0 \in T
    BY <1>0, <1>2, <1>7
  <2>2. ASSUME NEW i \in 1..n, i - 1 \in T PROVE i \in T
    BY <1>0, <1>3, <1>7, <2>2
  <2> HIDE DEF T
  <2>3. 0..n \subseteq T
    BY <1>0, <2>1, <2>2, UpTo
  <2> QED
    BY <2>3 DEF T
<1>9. h[n] = g[n]
  BY <1>0, <1>8
<1> QED
  BY <1>2, <1>3, <1>6, <1>9 DEF n, S

\* n steps of s from i on are those of t from j on, and g and h take them.
Alike(g, i, s, h, j, t, n) ==
  \A k \in 1..n : /\ g[i + k] = Moved(g[i + k - 1], s[i + k]) /\ h[j + k] = Moved(h[j + k - 1], t[j + k])
                  /\ s[i + k] = t[j + k]
Meet(g, i, h, j) == g[i] = h[j]

\* Two paths that take the same steps from the same place come to the same place.
LEMMA SameWalk ==
  ASSUME NEW g, NEW h, NEW s, NEW t, NEW i \in Nat, NEW j \in Nat, NEW n \in Nat,
         Alike(g, i, s, h, j, t, n), Meet(g, i, h, j)
  PROVE  Meet(g, i + n, h, j + n)
<1> DEFINE T == {k \in 0..n : g[i + k] = h[j + k]}
<1>1. 0 \in T
  BY DEF Meet
<1>2. ASSUME NEW k \in 1..n, k - 1 \in T PROVE k \in T
  <2>1. g[i + (k - 1)] = h[j + (k - 1)]
    BY <1>2
  <2>2. i + (k - 1) = i + k - 1 /\ j + (k - 1) = j + k - 1
    OBVIOUS
  <2> QED
    BY <2>1, <2>2 DEF Alike
<1> HIDE DEF T
<1>3. 0..n \subseteq T
  BY <1>1, <1>2, UpTo
<1>4. n \in T
  BY <1>3
<1> QED
  BY <1>4 DEF T, Meet

\* Names lead down: the place stays below, as deep as there are names.
LEMMA WalkDown ==
  ASSUME NEW a \in Seq(Dir \cup {"."}), NEW k \in 0..Len(a), NEW g, \A i \in 0..Len(a) : g[i] \in Seq(Dir),
         \A i \in 1..Len(a) : g[i] = Moved(g[i - 1], a[i])
  PROVE  /\ Ups(a, k) \in Nat /\ Len(g[Len(a)]) = Len(g[k]) + Ups(a, k)
         /\ SubSeq(g[Len(a)], 1, Len(g[k])) = g[k]
<1> DEFINE m == Len(a) - k
           x == g[k]
           Named == [j \in 0..m |-> {i \in (k + 1)..(k + j) : a[i] # "."}]
           Deep(j) == /\ IsFiniteSet(Named[j]) /\ Cardinality(Named[j]) \in Nat
                      /\ Len(g[k + j]) = Len(x) + Cardinality(Named[j]) /\ SubSeq(g[k + j], 1, Len(x)) = x
           T == {j \in 0..m : Deep(j)}
<1>0. Len(a) \in Nat /\ m \in Nat /\ x \in Seq(Dir) /\ Len(x) \in Nat /\ \A i \in 1..Len(a) : a[i] \in Dir \cup {"."}
  BY LenProperties, ElementOfSeq
<1>1. 0 \in T
  <2>1. Named[0] = {} /\ k + 0 = k
    BY <1>0
  <2>2. SubSeq(x, 1, Len(x)) = x
    BY <1>0, SubSeqProperties
  <2>3. IsFiniteSet({}) /\ Cardinality({}) = 0
    BY FS_EmptySet
  <2>4. g[k + 0] = x /\ 0 \in 0..m /\ Len(x) = Len(x) + 0
    BY <1>0, <2>1
  <2> HIDE DEF x, Named, m
  <2>5. Deep(0)
    BY <2>1, <2>2, <2>3, <2>4
  <2> QED
    BY <2>4, <2>5
<1>2. ASSUME NEW j \in 1..m, j - 1 \in T PROVE j \in T
  <2> DEFINE i == k + j
             y == g[i - 1]
  <2>1. i \in 1..Len(a) /\ i - 1 = k + (j - 1) /\ i - 1 \in 0..Len(a) /\ y \in Seq(Dir) /\ g[i] = Moved(y, a[i])
    BY <1>0
  <2>2. /\ IsFiniteSet(Named[j - 1]) /\ Cardinality(Named[j - 1]) \in Nat
        /\ Len(y) = Len(x) + Cardinality(Named[j - 1]) /\ SubSeq(y, 1, Len(x)) = x
    BY <1>2, <2>1
  <2>3. j \in 0..m /\ j - 1 \in 0..m
    BY <1>0
  <2>4. /\ Named[j] = {q \in (k + 1)..(k + j) : a[q] # "."}
        /\ Named[j - 1] = {q \in (k + 1)..(k + (j - 1)) : a[q] # "."}
    BY <2>3
  <2>a. (k + 1)..(k + j) = ((k + 1)..(k + (j - 1))) \cup {i} /\ i \notin (k + 1)..(k + (j - 1))
    BY <1>0
  <2> HIDE DEF y, x, Named, m
  <2>5. CASE a[i] = "."
    <3>1. Named[j] = Named[j - 1]
      BY <2>4, <2>5, <2>a
    <3>2. g[k + j] = y
      BY <2>1, <2>5 DEF Moved
    <3> QED
      BY <2>2, <2>3, <3>1, <3>2
  <2>6. CASE a[i] # "."
    <3>1. a[i] \in Dir /\ a[i] # ".."
      BY <1>0, <2>1, <2>6, FilesAssumption
    <3>2. Named[j] = Named[j - 1] \cup {i} /\ i \notin Named[j - 1]
      BY <2>4, <2>6, <2>a
    <3>3. g[k + j] = Append(y, a[i])
      BY <2>1, <2>6, <3>1 DEF Moved
    <3> HIDE DEF i
    <3>4. IsFiniteSet(Named[j]) /\ Cardinality(Named[j]) = Cardinality(Named[j - 1]) + 1
      <4>1. IsFiniteSet(Named[j - 1])
        BY <2>2
      <4>2. /\ IsFiniteSet(Named[j - 1] \cup {i})
            /\ Cardinality(Named[j - 1] \cup {i}) = IF i \in Named[j - 1] THEN Cardinality(Named[j - 1]) ELSE Cardinality(Named[j - 1]) + 1
        BY <4>1, FS_AddElement
      <4> QED
        BY <3>2, <4>2
    <3>5. Len(Append(y, a[i])) = Len(y) + 1 /\ SubSeq(Append(y, a[i]), 1, Len(x)) = SubSeq(y, 1, Len(x))
      <4>1. Len(x) <= Len(y) /\ Len(y) \in Nat
        BY <1>0, <2>2
      <4> QED
        BY <1>0, <2>1, <3>1, <4>1
    <3>6. Cardinality(Named[j]) \in Nat /\ Len(y) + 1 = Len(x) + Cardinality(Named[j])
      BY <1>0, <2>2, <3>4
    <3>7. Deep(j)
      BY <2>2, <3>3, <3>4, <3>5, <3>6
    <3> QED
      BY <2>3, <3>7
  <2> QED
    BY <2>5, <2>6
<1> HIDE DEF T
<1>3. 0..m \subseteq T
  BY <1>0, <1>1, <1>2, UpTo
<1>4. m \in 0..m /\ m \in T
  <2>1. m \in 0..m
    BY <1>0
  <2> HIDE DEF m
  <2> QED
    BY <1>3, <2>1
<1>5. k + m = Len(a) /\ Ups(a, k) = Cardinality(Named[m])
  BY <1>0, <1>4 DEF Ups
<1>6. Deep(m)
  BY <1>4 DEF T
<1> HIDE DEF Named, m, x
<1>7. Len(g[Len(a)]) = Len(x) + Ups(a, k) /\ SubSeq(g[Len(a)], 1, Len(x)) = x /\ Ups(a, k) \in Nat
  BY <1>5, <1>6
<1> QED
  BY <1>7 DEF x

\* Steps up from deep enough take the last names away.
LEMMA WalkUp ==
  ASSUME NEW g, NEW i \in Nat, NEW u \in Nat, g[i] \in Seq(Dir), u <= Len(g[i]),
         \A j \in 1..u : g[i + j] = Moved(g[i + j - 1], "..")
  PROVE  g[i + u] = SubSeq(g[i], 1, Len(g[i]) - u)
<1> DEFINE x == g[i]
           T == {j \in 0..u : g[i + j] = SubSeq(x, 1, Len(x) - j)}
<1>0. x \in Seq(Dir) /\ Len(x) \in Nat /\ u <= Len(x)
  BY LenProperties
<1>1. 0 \in T
  <2>1. SubSeq(x, 1, Len(x)) = x /\ Len(x) - 0 = Len(x) /\ i + 0 = i
    BY <1>0, SubSeqProperties
  <2> QED
    BY <2>1
<1>2. ASSUME NEW j \in 1..u, j - 1 \in T PROVE j \in T
  <2> DEFINE y == SubSeq(x, 1, Len(x) - (j - 1))
  <2>1. i + (j - 1) = i + j - 1
    OBVIOUS
  <2>2. g[i + j - 1] = y
    BY <1>2, <2>1
  <2> HIDE DEF x
  <2>3. y \in Seq(Dir) /\ Len(y) = Len(x) - (j - 1) /\ y # << >> /\ \A q \in 1..(Len(x) - (j - 1)) : y[q] = x[q]
    <3> DEFINE e == Len(x) - (j - 1)
    <3>1. e \in 1..Len(x)
      BY <1>0
    <3> HIDE DEF e
    <3>2. /\ SubSeq(x, 1, e) \in Seq(Dir) /\ Len(SubSeq(x, 1, e)) = e
          /\ \A q \in 1..e : SubSeq(x, 1, e)[q] = x[q]
      BY <1>0, <3>1
    <3>3. SubSeq(x, 1, e) # << >>
      BY <3>1, <3>2
    <3> QED
      BY <3>2, <3>3 DEF e
  <2>4. SubSeq(y, 1, Len(y) - 1) = SubSeq(x, 1, Len(x) - j)
    <3> HIDE DEF y
    <3>1. Len(y) - 1 = Len(x) - j
      BY <1>0, <2>3
    <3> QED
      BY <1>0, <2>3, <3>1
  <2>5. g[i + j] = SubSeq(y, 1, Len(y) - 1)
    <3> HIDE DEF y
    <3> QED
      BY <2>2, <2>3 DEF Moved
  <2> QED
    BY <2>4, <2>5
<1> HIDE DEF T
<1>3. 0..u \subseteq T
  BY <1>1, <1>2, UpTo
<1>4. u \in T
  BY <1>3
<1> QED
  BY <1>4 DEF T

\* The common beginning of two paths.
LEMMA CommonBeginning ==
  ASSUME NEW a \in Seq(Dir \cup {"."}), NEW b \in Seq(Dir \cup {"."})
  PROVE  /\ Common(a, b) \in 0..Len(a) /\ Common(a, b) <= Len(b)
         /\ \A i \in 1..Common(a, b) : a[i] = b[i]
<1> DEFINE K == {k \in 0..Len(a) : k = Len(a) \/ k = Len(b) \/ a[k + 1] # b[k + 1]}
           P(k) == /\ k <= Len(b) /\ SubSeq(a, 1, k) = SubSeq(b, 1, k)
                   /\ (k < Len(a) /\ k < Len(b)) => a[k + 1] # b[k + 1]
<1>0. Len(a) \in Nat /\ Len(b) \in Nat
  BY LenProperties
<1>1. PICK k \in K : \A j \in K : k <= j
  <2>1. K \in SUBSET Nat /\ Len(a) \in K
    BY <1>0
  <2> HIDE DEF K
  <2> QED
    BY <2>1, LeastNumber
<1>2. k \in 0..Len(a) /\ \A j \in 0..(k - 1) : j # Len(b) /\ a[j + 1] = b[j + 1]
  <2>1. k \in 0..Len(a)
    OBVIOUS
  <2>2. ASSUME NEW j \in 0..(k - 1) PROVE j # Len(b) /\ a[j + 1] = b[j + 1]
    <3>1. j \in 0..Len(a) /\ ~(k <= j)
      BY <1>0, <2>1
    <3>2. j \notin K
      BY <1>1, <3>1
    <3> QED
      BY <3>1, <3>2
  <2> QED
    BY <2>1, <2>2
<1>3. k <= Len(b)
  BY <1>0, <1>2
<1>4. SubSeq(a, 1, k) = SubSeq(b, 1, k)
  <2>1. \A i \in 1..k : a[i] = b[i]
    <3> TAKE i \in 1..k
    <3>1. i - 1 \in 0..(k - 1) /\ (i - 1) + 1 = i
      BY <1>0, <1>2
    <3> QED
      BY <1>2, <3>1
  <2> QED
    BY <1>0, <1>2, <1>3, <2>1
<1>5. P(k)
  BY <1>3, <1>4
<1>6. Common(a, b) \in 0..Len(a) /\ P(Common(a, b))
  <2>1. \E q \in 0..Len(a) : P(q)
    BY <1>2, <1>5
  <2>2. Common(a, b) = CHOOSE q \in 0..Len(a) : P(q)
    BY DEF Common
  <2> HIDE DEF P
  <2> QED
    BY <2>1, <2>2, Zenon
<1>7. \A i \in 1..Common(a, b) : a[i] = b[i]
  <2> DEFINE c == Common(a, b)
  <2>1. c \in 0..Len(a) /\ c <= Len(b) /\ SubSeq(a, 1, c) = SubSeq(b, 1, c)
    BY <1>6
  <2> HIDE DEF c
  <2>2. \A i \in 1..c : SubSeq(a, 1, c)[i] = a[i] /\ SubSeq(b, 1, c)[i] = b[i]
    BY <1>0, <2>1
  <2> QED
    BY <2>1, <2>2 DEF c
<1> QED
  BY <1>6, <1>7

\* Appended to a path without steps up, the relative path leads to the other one.
LEMMA RelativePath ==
  ASSUME NEW a \in Seq(Dir \cup {"."}), NEW b \in Seq(Dir \cup {"."})
  PROVE  Resolved(a \o make_relative(a, b)) = Resolved(b)
<1> DEFINE k == Common(a, b)
           u == Ups(a, k)
           ups == [i \in 1..u |-> ".."]
           rest == SubSeq(b, k + 1, Len(b))
           r == make_relative(a, b)
           s == a \o r
<1>1. k \in 0..Len(a) /\ k <= Len(b) /\ \A i \in 1..k : a[i] = b[i]
  BY CommonBeginning
<1>2. Len(a) \in Nat /\ Len(b) \in Nat /\ k \in Nat
  BY <1>1, LenProperties
<1>3. r = ups \o rest
  BY DEF make_relative
<1> HIDE DEF k, r
<1>4. u \in Nat
  <2> DEFINE N == {i \in (k + 1)..Len(a) : a[i] # "."}
  <2>1. IsFiniteSet((k + 1)..Len(a))
    BY <1>2, FS_Interval
  <2>2. IsFiniteSet(N)
    BY <2>1, FS_Subset
  <2> HIDE DEF N
  <2>3. Cardinality(N) \in Nat
    BY <2>2, FS_CardinalityType
  <2> QED
    BY <2>3 DEF N, Ups
<1> HIDE DEF u
<1>5. /\ rest \in Seq(Dir \cup {"."}) /\ Len(rest) = Len(b) - k /\ \A i \in 1..(Len(b) - k) : rest[i] = b[k + i]
  BY <1>1, <1>2
<1> HIDE DEF rest
<1>6. ups \in Seq({".."}) /\ Len(ups) = u /\ \A i \in 1..u : ups[i] = ".."
  BY <1>4
<1> HIDE DEF ups
<1>7. /\ r \in Seq(Steps) /\ Len(r) = u + (Len(b) - k) /\ (\A i \in 1..u : r[i] = "..")
      /\ \A i \in 1..(Len(b) - k) : r[u + i] = b[k + i]
  <2>1. ups \in Seq(Steps) /\ rest \in Seq(Steps)
    BY <1>5, <1>6 DEF Steps
  <2>2. r \in Seq(Steps) /\ Len(r) = u + (Len(b) - k)
    BY <1>3, <1>5, <1>6, <2>1, ConcatProperties
  <2>3. \A i \in 1..u : r[i] = ".."
    BY <1>2, <1>3, <1>4, <1>5, <1>6, <2>1
  <2>4. \A i \in 1..(Len(b) - k) : r[u + i] = rest[i]
    BY <1>1, <1>2, <1>3, <1>4, <1>5, <1>6, <2>1
  <2> QED
    BY <1>5, <2>2, <2>3, <2>4
<1>8. /\ s \in Seq(Steps) /\ Len(s) = Len(a) + Len(r) /\ (\A i \in 1..Len(a) : s[i] = a[i])
      /\ \A i \in 1..Len(r) : s[Len(a) + i] = r[i]
  <2>1. a \in Seq(Steps)
    BY DEF Steps
  <2> QED
    BY <1>7, <2>1
<1> HIDE DEF s
<1>9. PICK g \in [0..Len(s) -> Seq(Dir)] :
        g[0] = << >> /\ (\A i \in 1..Len(s) : g[i] = Moved(g[i - 1], s[i])) /\ Resolved(s) = g[Len(s)]
  BY <1>8, PathWalks
<1>10. PICK h \in [0..Len(b) -> Seq(Dir)] :
        h[0] = << >> /\ (\A i \in 1..Len(b) : h[i] = Moved(h[i - 1], b[i])) /\ Resolved(b) = h[Len(b)]
  <2>1. b \in Seq(Steps)
    BY DEF Steps
  <2> QED
    BY <2>1, PathWalks
<1>a. Len(s) = Len(a) + u + (Len(b) - k) /\ Len(b) - k \in Nat
  BY <1>1, <1>2, <1>4, <1>7, <1>8
<1>11. g[k] = h[k]
  <2>1. ASSUME NEW q \in 1..k
        PROVE  g[0 + q] = Moved(g[0 + q - 1], s[0 + q]) /\ h[0 + q] = Moved(h[0 + q - 1], b[0 + q]) /\ s[0 + q] = b[0 + q]
    <3>1. 0 + q = q /\ q \in 1..Len(s) /\ q \in 1..Len(b) /\ q \in 1..Len(a)
      BY <1>1, <1>2, <1>4, <1>a
    <3> QED
      BY <1>1, <1>8, <1>9, <1>10, <3>1
  <2>2. g[0] = h[0]
    BY <1>9, <1>10
  <2>3. g[0 + k] = h[0 + k]
    <3>1. Alike(g, 0, s, h, 0, b, k)
      BY <2>1 DEF Alike
    <3>2. 0 \in Nat /\ Meet(g, 0, h, 0)
      BY <2>2 DEF Meet
    <3>3. Meet(g, 0 + k, h, 0 + k)
      BY <1>2, <3>1, <3>2, SameWalk
    <3> QED
      BY <3>3 DEF Meet
  <2> QED
    BY <1>2, <2>3
<1>12. Len(g[Len(a)]) = Len(g[k]) + u /\ SubSeq(g[Len(a)], 1, Len(g[k])) = g[k]
  <2>1. \A i \in 0..Len(a) : g[i] \in Seq(Dir)
    <3>1. \A i \in 0..Len(a) : i \in 0..Len(s)
      BY <1>2, <1>4, <1>a
    <3> QED
      BY <1>9, <3>1
  <2>2. \A i \in 1..Len(a) : g[i] = Moved(g[i - 1], a[i])
    BY <1>2, <1>4, <1>8, <1>9, <1>a
  <2> QED
    BY <1>1, <2>1, <2>2, WalkDown DEF u
<1>13. g[Len(a) + u] = g[k]
  <2>1. g[Len(a)] \in Seq(Dir) /\ Len(g[k]) \in Nat
    <3>1. g[Len(a)] \in Seq(Dir) /\ g[k] \in Seq(Dir)
      <4>1. Len(a) \in 0..Len(s) /\ k \in 0..Len(s)
        BY <1>1, <1>2, <1>4, <1>a
      <4> QED
        BY <1>9, <4>1
    <3> QED
      BY <3>1, LenProperties
  <2>2. u <= Len(g[Len(a)]) /\ Len(g[Len(a)]) - u = Len(g[k])
    BY <1>4, <1>12, <2>1
  <2>3. ASSUME NEW j \in 1..u PROVE g[Len(a) + j] = Moved(g[Len(a) + j - 1], "..")
    <3>1. Len(a) + j \in 1..Len(s) /\ j \in 1..Len(r)
      BY <1>2, <1>4, <1>7, <1>a
    <3>2. s[Len(a) + j] = ".."
      BY <1>7, <1>8, <3>1
    <3> QED
      BY <1>9, <3>1, <3>2
  <2>4. g[Len(a) + u] = SubSeq(g[Len(a)], 1, Len(g[Len(a)]) - u)
    BY <1>2, <1>4, <2>1, <2>2, <2>3, WalkUp
  <2> QED
    BY <1>12, <2>2, <2>4
<1>14. g[Len(s)] = h[Len(b)]
  <2> DEFINE i == Len(a) + u
             n == Len(b) - k
  <2>1. ASSUME NEW q \in 1..n
        PROVE  g[i + q] = Moved(g[i + q - 1], s[i + q]) /\ h[k + q] = Moved(h[k + q - 1], b[k + q]) /\ s[i + q] = b[k + q]
    <3>1. i + q \in 1..Len(s) /\ k + q \in 1..Len(b) /\ u + q \in 1..Len(r) /\ Len(a) + (u + q) = i + q
      BY <1>1, <1>2, <1>4, <1>7, <1>a
    <3>2. s[i + q] = b[k + q]
      <4>1. s[Len(a) + (u + q)] = r[u + q]
        BY <1>8, <3>1
      <4> QED
        BY <1>7, <3>1, <4>1
    <3>3. g[i + q] = Moved(g[i + q - 1], s[i + q])
      <4> DEFINE z == i + q
      <4>1. z \in 1..Len(s) /\ z - 1 = i + q - 1
        BY <1>1, <1>2, <1>4, <3>1
      <4> HIDE DEF z
      <4>2. g[z] = Moved(g[z - 1], s[z])
        BY <1>9, <4>1
      <4> QED
        BY <4>1, <4>2 DEF z
    <3>4. h[k + q] = Moved(h[k + q - 1], b[k + q])
      <4> DEFINE z == k + q
      <4>1. z \in 1..Len(b) /\ z - 1 = k + q - 1
        BY <1>1, <1>2, <1>4, <3>1
      <4> HIDE DEF z
      <4>2. h[z] = Moved(h[z - 1], b[z])
        BY <1>10, <4>1
      <4> QED
        BY <4>1, <4>2 DEF z
    <3> QED
      BY <3>2, <3>3, <3>4
  <2>2. i \in Nat /\ n \in Nat /\ i + n = Len(s) /\ k + n = Len(b) /\ g[i] = h[k]
    BY <1>2, <1>4, <1>11, <1>13, <1>a
  <2> HIDE DEF i, n
  <2>3. g[i + n] = h[k + n]
    <3>1. Alike(g, i, s, h, k, b, n)
      BY <2>1 DEF Alike
    <3>2. Meet(g, i, h, k)
      BY <2>2 DEF Meet
    <3>3. Meet(g, i + n, h, k + n)
      BY <1>2, <2>2, <3>1, <3>2, SameWalk
    <3> QED
      BY <3>3 DEF Meet
  <2> QED
    BY <2>2, <2>3
<1> QED
  BY <1>9, <1>10, <1>14 DEF s, r

\* What is kept is what is promised.
LEMMA FilesSafety == ASSUME FilesInv PROVE FilesSafe
<1>1. NoLeak /\ NothingLost
  BY DEF FilesInv, TempInv, MoveInv
<1>2. LockExclusive
  <2> SUFFICES ASSUME NEW p \in Process, NEW q \in Process, NEW l \in Lock, NEW m \in Lock, held[p][l], held[q][m]
               PROVE  p = q /\ l = m
    BY DEF LockExclusive
  <2>1. <<p, l>> = <<q, m>>
    BY DEF FilesInv, LockInv
  <2> QED
    BY <2>1
<1>3. RelativeLeads
  <2> SUFFICES ASSUME asked # <<>> PROVE Resolved(asked[1] \o make_relative(asked[1], asked[2])) = Resolved(asked[2])
    BY DEF RelativeLeads
  <2>1. asked[1] \in Below /\ asked[2] \in Below
    BY DEF FilesInv, AskInv
  <2>2. \A x \in Below : x \in Seq(Dir \cup {"."})
    BY FilesAssumption DEF Below
  <2> QED
    BY <2>1, <2>2, RelativePath
<1> QED
  BY <1>1, <1>2, <1>3 DEF FilesSafe

\* The inductive invariant of temporary files, rename, lock files and make_relative.
THEOREM FilesInvariance == FilesSpec => []FilesInv
<1>1. FilesInit => FilesInv
  BY FilesStart
<1>2. FilesInv /\ [FilesNext]_fileVars => FilesInv'
  BY FilesKeep
<1> QED
  BY <1>1, <1>2, PTL DEF FilesSpec

\* No temporary file is leaked, no contents are lost by fc::rename or a crash in it,
\* no lock file is held twice and every relative path leads where it should: FilesSafe,
\* for every set of objects, processes, locks and names and every depth.
THEOREM FilesAreSafe == FilesSpec => []FilesSafe
<1>1. FilesInv => FilesSafe
  BY FilesSafety
<1> QED
  BY <1>1, FilesInvariance, PTL

-----------------------------------------------------------------------------
(* cfile: the bytes of the buffer laid over the file *)

Contents == {s \in Seq(Nat) : Len(s) <= MaxSize}
Buffers == Seq((1..MaxSize) \X Nat)

\* The content c with the first n bytes of the buffer p.
Laid(c, p, n) ==
  LET after[k \in 0..n] == IF k = 0 THEN c ELSE PutAt(after[k - 1], p[k][1], p[k][2])
  IN  after[n]

\* One byte.
LEMMA BytePut ==
  ASSUME NEW s \in Contents, NEW p \in 1..MaxSize, NEW b \in Nat
  PROVE  /\ PutAt(s, p, b) \in Contents /\ Len(PutAt(s, p, b)) = IF p > Len(s) THEN p ELSE Len(s)
         /\ \A i \in 1..(IF p > Len(s) THEN p ELSE Len(s)) :
              PutAt(s, p, b)[i] = IF i = p THEN b ELSE IF i <= Len(s) THEN s[i] ELSE 0
<1> DEFINE m == IF p > Len(s) THEN p ELSE Len(s)
           v(i) == IF i = p THEN b ELSE IF i <= Len(s) THEN s[i] ELSE 0
<1>1. Len(s) \in Nat /\ Len(s) <= MaxSize /\ MaxSize \in Nat /\ \A i \in 1..Len(s) : s[i] \in Nat
  BY ElementOfSeq, LenProperties, CFileAssumption DEF Contents
<1>2. m \in Nat /\ m <= MaxSize
  BY <1>1
<1>3. \A i \in 1..m : v(i) \in Nat
  BY <1>1, <1>2
<1>4. PutAt(s, p, b) = [i \in 1..m |-> v(i)]
  BY DEF PutAt
<1> HIDE DEF m
<1>5. PutAt(s, p, b) \in [1..m -> Nat] /\ \A i \in 1..m : PutAt(s, p, b)[i] = v(i)
  BY <1>3, <1>4
<1>6. PutAt(s, p, b) \in Seq(Nat) /\ Len(PutAt(s, p, b)) = m
  BY <1>2, <1>5, IsASeq, LenProperties
<1> QED
  BY <1>2, <1>5, <1>6 DEF Contents, m

\* g is what the file holds after each of the bytes.
Lays(g, c, p) ==
  /\ g \in [0..Len(p) -> Contents] /\ g[0] = c
  /\ \A i \in 1..Len(p) : g[i] = PutAt(g[i - 1], p[i][1], p[i][2])
  /\ \A n \in 0..Len(p) : Laid(c, p, n) = g[n]

\* The recursion of Given runs.
LEMMA BufferLays == ASSUME NEW c \in Contents, NEW p \in Buffers PROVE \E g : Lays(g, c, p)
<1> DEFINE n == Len(p)
           S == Contents
           F == [i \in 1..n |-> [s \in S |-> PutAt(s, p[i][1], p[i][2])]]
<1>0. n \in Nat /\ c \in S /\ \A i \in 1..n : p[i][1] \in 1..MaxSize /\ p[i][2] \in Nat
  <2>1. n \in Nat /\ \A i \in 1..n : p[i] \in (1..MaxSize) \X Nat
    BY LenProperties, ElementOfSeq DEF Buffers
  <2> QED
    BY <2>1
<1> HIDE DEF n, S
<1>1. F \in [1..n -> [S -> S]] /\ \A i \in 1..n, s \in S : F[i][s] = PutAt(s, p[i][1], p[i][2])
  <2>1. \A i \in 1..n, s \in S : PutAt(s, p[i][1], p[i][2]) \in S
    BY <1>0, BytePut DEF S
  <2> QED
    BY <2>1
<1> HIDE DEF F
<1>2. PICK g : Runs(g, n, S, c, F)
  BY <1>0, <1>1, StepsRun
<1>3. g \in [0..n -> S] /\ g[0] = c
  BY <1>2 DEF Runs
<1>4. ASSUME NEW i \in 1..n PROVE g[i] = PutAt(g[i - 1], p[i][1], p[i][2])
  <2>1. g[i - 1] \in S
    BY <1>0, <1>3
  <2> QED
    BY <1>1, <1>2, <2>1 DEF Runs
<1>5. ASSUME NEW m \in 0..n PROVE Laid(c, p, m) = g[m]
  <2> DEFINE Rec(h) == h = [k \in 0..m |-> IF k = 0 THEN c ELSE PutAt(h[k - 1], p[k][1], p[k][2])]
             h == CHOOSE h : Rec(h)
             r == [k \in 0..m |-> g[k]]
  <2>1. Rec(r)
    <3>1. ASSUME NEW k \in 0..m PROVE r[k] = IF k = 0 THEN c ELSE PutAt(r[k - 1], p[k][1], p[k][2])
      <4>1. CASE k = 0
        BY <1>3, <4>1
      <4>2. CASE k # 0
        <5>1. k \in 1..n /\ k - 1 \in 0..m
          BY <1>0, <4>2
        <5>2. r[k] = g[k] /\ r[k - 1] = g[k - 1]
          BY <5>1
        <5> HIDE DEF r
        <5> QED
          BY <1>4, <4>2, <5>1, <5>2
      <4> QED
        BY <4>1, <4>2
    <3>2. r = [k \in 0..m |-> r[k]]
      OBVIOUS
    <3> HIDE DEF r
    <3> QED
      BY <3>1, <3>2
  <2>2. Rec(h)
    <3> HIDE DEF r, Rec
    <3> QED
      BY <2>1
  <2>3. Laid(c, p, m) = h[m]
    BY DEF Laid
  <2> HIDE DEF h
  <2>4. \A k \in 0..m : h[k] = IF k = 0 THEN c ELSE PutAt(h[k - 1], p[k][1], p[k][2])
    BY <2>2
  <2> HIDE DEF Rec
  <2> DEFINE T == {k \in 0..m : h[k] = g[k]}
  <2>5. m \in Nat /\ \A k \in 1..m : k \in 0..m /\ k \in 1..n /\ k - 1 \in 0..m /\ k # 0
    BY <1>0
  <2>6. 0 \in T
    BY <1>0, <1>3, <2>4
  <2>7. ASSUME NEW k \in 1..m, k - 1 \in T PROVE k \in T
    <3>1. h[k - 1] = g[k - 1] /\ k \in 1..n /\ k \in 0..m /\ k # 0
      BY <2>5, <2>7
    <3>2. h[k] = PutAt(h[k - 1], p[k][1], p[k][2])
      BY <2>4, <3>1
    <3> QED
      BY <1>4, <3>1, <3>2
  <2> HIDE DEF T
  <2>8. 0..m \subseteq T
    BY <2>5, <2>6, <2>7, UpTo
  <2>9. h[m] = g[m]
    BY <2>5, <2>8 DEF T
  <2> QED
    BY <2>3, <2>9
<1>6. Lays(g, c, p)
  BY <1>3, <1>4, <1>5 DEF Lays, n, S
<1> QED
  BY <1>6

\* The buffer is laid over the file byte by byte.
LEMMA LaidSteps ==
  ASSUME NEW c \in Contents, NEW p \in Buffers
  PROVE  /\ Len(p) \in Nat /\ \A i \in 1..Len(p) : p[i][1] \in 1..MaxSize /\ p[i][2] \in Nat
         /\ Laid(c, p, 0) = c /\ \A n \in 0..Len(p) : Laid(c, p, n) \in Contents
         /\ \A n \in 1..Len(p) : Laid(c, p, n) = PutAt(Laid(c, p, n - 1), p[n][1], p[n][2])
<1>0. Len(p) \in Nat /\ \A i \in 1..Len(p) : p[i] \in (1..MaxSize) \X Nat
  BY LenProperties, ElementOfSeq DEF Buffers
<1>1. \A i \in 1..Len(p) : p[i][1] \in 1..MaxSize /\ p[i][2] \in Nat
  BY <1>0
<1>2. PICK g : Lays(g, c, p)
  BY BufferLays
<1>3. g \in [0..Len(p) -> Contents] /\ g[0] = c /\ \A n \in 0..Len(p) : Laid(c, p, n) = g[n]
  BY <1>2 DEF Lays
<1>4. Laid(c, p, 0) = c /\ \A n \in 0..Len(p) : Laid(c, p, n) \in Contents
  BY <1>0, <1>3
<1>5. ASSUME NEW n \in 1..Len(p) PROVE Laid(c, p, n) = PutAt(Laid(c, p, n - 1), p[n][1], p[n][2])
  <2>1. n \in 0..Len(p) /\ n - 1 \in 0..Len(p)
    BY <1>0
  <2>2. g[n] = PutAt(g[n - 1], p[n][1], p[n][2])
    BY <1>2 DEF Lays
  <2> QED
    BY <1>3, <2>1, <2>2
<1> QED
  BY <1>0, <1>1, <1>4, <1>5

\* What is left in the buffer goes on top of what was handed over.
LEMMA LaidInParts ==
  ASSUME NEW c \in Contents, NEW p \in Buffers, NEW n \in 0..Len(p)
  PROVE  /\ SubSeq(p, n + 1, Len(p)) \in Buffers
         /\ \A i \in 1..Len(SubSeq(p, n + 1, Len(p))) : n + i \in 1..Len(p) /\ SubSeq(p, n + 1, Len(p))[i] = p[n + i]
         /\ Laid(Laid(c, p, n), SubSeq(p, n + 1, Len(p)), Len(SubSeq(p, n + 1, Len(p)))) = Laid(c, p, Len(p))
<1> DEFINE d == Laid(c, p, n)
           q == SubSeq(p, n + 1, Len(p))
           T == {m \in 0..Len(q) : Laid(d, q, m) = Laid(c, p, n + m)}
<1>0. Len(p) \in Nat /\ d \in Contents
  BY LaidSteps
<1>1. q \in Buffers /\ Len(q) = Len(p) - n /\ \A i \in 1..Len(q) : q[i] = p[n + i]
  BY <1>0 DEF Buffers
<1> HIDE DEF d, q
<1>2. 0 \in T
  <2>1. Laid(d, q, 0) = d /\ n + 0 = n /\ 0 \in 0..Len(q)
    BY <1>0, <1>1, LaidSteps
  <2> QED
    BY <2>1 DEF d
<1>3. ASSUME NEW m \in 1..Len(q), m - 1 \in T PROVE m \in T
  <2>1. n + m \in 1..Len(p) /\ (n + m) - 1 = n + (m - 1) /\ m \in 0..Len(q)
    BY <1>0, <1>1
  <2>2. Laid(d, q, m) = PutAt(Laid(d, q, m - 1), q[m][1], q[m][2])
    BY <1>0, <1>1, LaidSteps
  <2>3. Laid(c, p, n + m) = PutAt(Laid(c, p, (n + m) - 1), p[n + m][1], p[n + m][2])
    BY <2>1, LaidSteps
  <2>4. Laid(d, q, m - 1) = Laid(c, p, n + (m - 1)) /\ q[m] = p[n + m]
    BY <1>1, <1>3
  <2> QED
    BY <2>1, <2>2, <2>3, <2>4
<1> HIDE DEF T
<1>4. Len(q) \in Nat /\ n + Len(q) = Len(p)
  BY <1>0, <1>1
<1>5. 0..Len(q) \subseteq T
  BY <1>2, <1>3, <1>4, UpTo
<1>6. Laid(d, q, Len(q)) = Laid(c, p, n + Len(q))
  BY <1>4, <1>5 DEF T
<1>7. \A i \in 1..Len(q) : n + i \in 1..Len(p)
  BY <1>0, <1>1
<1> QED
  BY <1>1, <1>4, <1>6, <1>7 DEF d, q

\* A byte more.
LEMMA LaidAppend ==
  ASSUME NEW c \in Contents, NEW p \in Buffers, NEW e \in (1..MaxSize) \X Nat
  PROVE  /\ Append(p, e) \in Buffers
         /\ Laid(c, Append(p, e), Len(Append(p, e))) = PutAt(Laid(c, p, Len(p)), e[1], e[2])
<1> DEFINE q == Append(p, e)
           T == {m \in 0..Len(p) : Laid(c, q, m) = Laid(c, p, m)}
<1>0. /\ Len(p) \in Nat /\ q \in Buffers /\ Len(q) = Len(p) + 1 /\ (\A i \in 1..Len(p) : q[i] = p[i]) /\ q[Len(p) + 1] = e
  BY AppendProperties, LenProperties DEF Buffers
<1> HIDE DEF q
<1>1. 0 \in T
  BY <1>0, LaidSteps
<1>2. ASSUME NEW m \in 1..Len(p), m - 1 \in T PROVE m \in T
  <2>1. m \in 1..Len(q) /\ m \in 0..Len(p) /\ q[m] = p[m] /\ Laid(c, q, m - 1) = Laid(c, p, m - 1)
    BY <1>0, <1>2
  <2>2. Laid(c, q, m) = PutAt(Laid(c, q, m - 1), q[m][1], q[m][2])
    BY <1>0, <2>1, LaidSteps
  <2>3. Laid(c, p, m) = PutAt(Laid(c, p, m - 1), p[m][1], p[m][2])
    BY LaidSteps
  <2> QED
    BY <2>1, <2>2, <2>3
<1> HIDE DEF T
<1>3. 0..Len(p) \subseteq T
  BY <1>0, <1>1, <1>2, UpTo
<1>4. Laid(c, q, Len(p)) = Laid(c, p, Len(p))
  BY <1>0, <1>3 DEF T
<1>5. Laid(c, q, Len(p) + 1) = PutAt(Laid(c, q, Len(p)), e[1], e[2])
  <2> DEFINE m == Len(p) + 1
  <2>1. m \in 1..Len(q) /\ m - 1 = Len(p) /\ q[m] = e
    BY <1>0
  <2> HIDE DEF m
  <2>2. Laid(c, q, m) = PutAt(Laid(c, q, m - 1), q[m][1], q[m][2])
    BY <1>0, <2>1, LaidSteps
  <2> QED
    BY <2>1, <2>2 DEF m
<1> QED
  BY <1>0, <1>4, <1>5 DEF q

\* A cleared content.
LEMMA ContentCleared ==
  ASSUME NEW s \in Contents, NEW H
  PROVE  /\ Clear(s, H) \in Contents /\ Len(Clear(s, H)) = Len(s) /\ Len(s) \in Nat
         /\ \A i \in 1..Len(s) : Clear(s, H)[i] = IF i \in H THEN 0 ELSE s[i]
<1>1. s \in Seq(Nat) /\ Len(s) \in Nat /\ DOMAIN s = 1..Len(s) /\ Len(s) <= MaxSize /\ \A i \in 1..Len(s) : s[i] \in Nat
  BY ElementOfSeq, LenProperties DEF Contents
<1>2. Clear(s, H) \in [1..Len(s) -> Nat] /\ \A i \in 1..Len(s) : Clear(s, H)[i] = IF i \in H THEN 0 ELSE s[i]
  BY <1>1 DEF Clear
<1>3. Clear(s, H) \in Seq(Nat) /\ Len(Clear(s, H)) = Len(s)
  BY <1>1, <1>2, IsASeq, LenProperties
<1> QED
  BY <1>1, <1>2, <1>3 DEF Contents

\* Contents are equal that have the same bytes.
LEMMA SameContents ==
  ASSUME NEW s \in Contents, NEW t \in Contents, Len(s) = Len(t), \A i \in 1..Len(s) : s[i] = t[i]
  PROVE  s = t
<1>1. s \in Seq(Nat) /\ t \in Seq(Nat)
  BY DEF Contents
<1> QED
  BY <1>1, SeqEqual

\* A byte outside of a hole does not care whether it is written before or after.
LEMMA PutOutside ==
  ASSUME NEW s \in Contents, NEW H, NEW p \in 1..MaxSize, NEW b \in Nat, p \notin H
  PROVE  PutAt(Clear(s, H), p, b) = Clear(PutAt(s, p, b), H)
<1> DEFINE x == PutAt(Clear(s, H), p, b)
           y == Clear(PutAt(s, p, b), H)
           m == IF p > Len(s) THEN p ELSE Len(s)
<1>1. /\ Clear(s, H) \in Contents /\ Len(Clear(s, H)) = Len(s) /\ Len(s) \in Nat
      /\ \A i \in 1..Len(s) : Clear(s, H)[i] = IF i \in H THEN 0 ELSE s[i]
  BY ContentCleared
<1>2. x \in Contents /\ Len(x) = m /\ \A i \in 1..m : x[i] = IF i = p THEN b ELSE IF i <= Len(s) THEN Clear(s, H)[i] ELSE 0
  BY <1>1, BytePut
<1>3. /\ PutAt(s, p, b) \in Contents /\ Len(PutAt(s, p, b)) = m
      /\ \A i \in 1..m : PutAt(s, p, b)[i] = IF i = p THEN b ELSE IF i <= Len(s) THEN s[i] ELSE 0
  BY BytePut
<1>4. y \in Contents /\ Len(y) = m /\ \A i \in 1..m : y[i] = IF i \in H THEN 0 ELSE PutAt(s, p, b)[i]
  BY <1>3, ContentCleared
<1>5. m \in Nat /\ \A i \in 1..m : i <= Len(s) => i \in 1..Len(s)
  BY <1>1
<1> HIDE DEF x, y, m
<1>6. \A i \in 1..m : x[i] = y[i]
  BY <1>1, <1>2, <1>3, <1>4, <1>5
<1>7. x = y
  BY <1>2, <1>4, <1>6, SameContents
<1> QED
  BY <1>7 DEF x, y

\* The places of the first n bytes of a buffer.
Places(p, n) == {p[k][1] : k \in 1..n}

\* Nor does a buffer none of whose bytes lies in the hole.
LEMMA LaidOutside ==
  ASSUME NEW c \in Contents, NEW p \in Buffers, NEW H, Places(p, Len(p)) \cap H = {}
  PROVE  \A n \in 0..Len(p) : Laid(Clear(c, H), p, n) = Clear(Laid(c, p, n), H)
<1> DEFINE T == {m \in 0..Len(p) : Laid(Clear(c, H), p, m) = Clear(Laid(c, p, m), H)}
<1>0. Clear(c, H) \in Contents /\ Len(p) \in Nat
  BY ContentCleared, LaidSteps
<1>1. 0 \in T
  BY <1>0, LaidSteps
<1>2. ASSUME NEW m \in 1..Len(p), m - 1 \in T PROVE m \in T
  <2> DEFINE s == Laid(c, p, m - 1)
  <2>1. m \in 0..Len(p) /\ m - 1 \in 0..Len(p)
    BY <1>0
  <2>2. s \in Contents /\ Laid(c, p, m) = PutAt(s, p[m][1], p[m][2]) /\ p[m][1] \in 1..MaxSize /\ p[m][2] \in Nat
    BY <2>1, LaidSteps
  <2>3. Laid(Clear(c, H), p, m) = PutAt(Laid(Clear(c, H), p, m - 1), p[m][1], p[m][2])
    BY <1>0, LaidSteps
  <2>4. Laid(Clear(c, H), p, m - 1) = Clear(s, H)
    BY <1>2
  <2>5. p[m][1] \notin H
    BY DEF Places
  <2> HIDE DEF s
  <2>6. PutAt(Clear(s, H), p[m][1], p[m][2]) = Clear(PutAt(s, p[m][1], p[m][2]), H)
    BY <2>2, <2>5, PutOutside
  <2> QED
    BY <2>1, <2>2, <2>3, <2>4, <2>6
<1> HIDE DEF T
<1>3. 0..Len(p) \subseteq T
  BY <1>0, <1>1, <1>2, UpTo
<1> QED
  BY <1>3 DEF T

\* A place that no byte of the buffer is for keeps its byte.
LEMMA LaidElsewhere ==
  ASSUME NEW c \in Contents, NEW p \in Buffers, NEW i \in 1..Len(c), i \notin Places(p, Len(p))
  PROVE  \A n \in 0..Len(p) : i \in 1..Len(Laid(c, p, n)) /\ Laid(c, p, n)[i] = c[i]
<1> DEFINE T == {m \in 0..Len(p) : i \in 1..Len(Laid(c, p, m)) /\ Laid(c, p, m)[i] = c[i]}
<1>0. Len(p) \in Nat
  BY LaidSteps
<1>1. 0 \in T
  BY <1>0, LaidSteps
<1>2. ASSUME NEW m \in 1..Len(p), m - 1 \in T PROVE m \in T
  <2> DEFINE s == Laid(c, p, m - 1)
             q == p[m][1]
  <2>1. m \in 0..Len(p) /\ m - 1 \in 0..Len(p)
    BY <1>0
  <2>2. s \in Contents /\ Laid(c, p, m) = PutAt(s, q, p[m][2]) /\ q \in 1..MaxSize /\ p[m][2] \in Nat
    BY <2>1, LaidSteps
  <2>3. i \in 1..Len(s) /\ s[i] = c[i]
    BY <1>2
  <2>4. i # q
    BY DEF Places
  <2> HIDE DEF s, q
  <2>5. Len(s) \in Nat
    BY <2>2, LenProperties DEF Contents
  <2>6. /\ Len(PutAt(s, q, p[m][2])) = IF q > Len(s) THEN q ELSE Len(s)
        /\ \A j \in 1..(IF q > Len(s) THEN q ELSE Len(s)) :
              PutAt(s, q, p[m][2])[j] = IF j = q THEN p[m][2] ELSE IF j <= Len(s) THEN s[j] ELSE 0
    BY <2>2, BytePut
  <2>7. i \in 1..(IF q > Len(s) THEN q ELSE Len(s))
    BY <2>2, <2>3, <2>5
  <2>8. PutAt(s, q, p[m][2])[i] = c[i]
    BY <2>3, <2>4, <2>6, <2>7
  <2> QED
    BY <2>1, <2>2, <2>6, <2>7, <2>8
<1> HIDE DEF T
<1>3. 0..Len(p) \subseteq T
  BY <1>0, <1>1, <1>2, UpTo
<1> QED
  BY <1>3 DEF T

-----------------------------------------------------------------------------
(* cfile: the blocks of a hole *)

\* Multiples of the size of a block are as far apart as their factors.
LEMMA Blocks ==
  ASSUME NEW B \in Nat \ {0}, NEW x \in Int, NEW y \in Int
  PROVE  /\ B * x \in Int /\ x * B = B * x /\ B * (x + 1) = B * x + B
         /\ (x <= y => B * x <= B * y) /\ (x > y => B * x >= B * y + B)
<1>1. B * x \in Int /\ x * B = B * x /\ B * (x + 1) = B * x + B
  OBVIOUS
<1>2. ASSUME NEW u \in Int, NEW v \in Int, u <= v PROVE B * u <= B * v
  <2>1. B * (v - u) >= 0
    BY <1>2
  <2>2. B * (v - u) = B * v - B * u
    OBVIOUS
  <2> QED
    BY <2>1, <2>2
<1>3. x > y => B * x >= B * y + B
  <2>1. x > y => B * (y + 1) <= B * x
    BY <1>2
  <2>2. B * (y + 1) = B * y + B
    OBVIOUS
  <2> QED
    BY <2>1, <2>2
<1> QED
  BY <1>1, <1>2, <1>3

\* The hole is the blocks that lie whole in the range.
LEMMA HoleIsBlocks ==
  ASSUME NEW begin \in Nat, NEW end \in Nat, NEW i \in 1..MaxSize
  PROVE  i \in (Up(begin) + 1)..Down(end) <=> i \in Whole(begin, end)
<1> DEFINE B == BlockSize
           b == (i - 1) \div B
           r == (i - 1) % B
           q == begin \div B
           f == begin % B
           d == end \div B
           t == end % B
           u == IF f # 0 THEN q + 1 ELSE q
<1>0. B \in Nat \ {0} /\ MaxSize \in Nat
  BY CFileAssumption
<1>1. b \in Int /\ r \in 0..(B - 1) /\ i - 1 = B * b + r
  BY <1>0
<1>2. q \in Int /\ f \in 0..(B - 1) /\ begin = B * q + f
  BY <1>0
<1>3. d \in Int /\ t \in 0..(B - 1) /\ end = B * d + t
  BY <1>0
<1>4. i \in Whole(begin, end) <=> begin <= b * B /\ (b + 1) * B <= end
  BY DEF Whole
<1>5. Down(end) = d * B
  BY DEF Down
<1>6. Up(begin) = IF f # 0 THEN q * B + B ELSE begin
  BY DEF Up
<1> HIDE DEF B, b, r, q, f, d, t
<1>7. u \in Int /\ Up(begin) = B * u
  BY <1>0, <1>2, <1>6, Blocks
<1>8. begin <= b * B <=> u <= b
  <2>1. CASE f = 0
    BY <1>0, <1>1, <1>2, <2>1, Blocks
  <2>2. CASE f # 0
    <3>1. u = q + 1
      BY <2>2
    <3>2. B * b \in Int /\ b * B = B * b /\ B * q \in Int /\ (b <= q => B * b <= B * q) /\ (b > q => B * b >= B * q + B)
      BY <1>0, <1>1, <1>2, Blocks
    <3> QED
      BY <1>0, <1>1, <1>2, <2>2, <3>1, <3>2
  <2> QED
    BY <2>1, <2>2
<1> HIDE DEF u
<1>9. B * u <= i - 1 <=> u <= b
  <2>1. B * u \in Int /\ B * b \in Int /\ (u <= b => B * u <= B * b) /\ (u > b => B * u >= B * b + B)
    BY <1>0, <1>1, <1>7, Blocks
  <2> QED
    BY <1>0, <1>1, <1>7, <2>1
<1>10. (b + 1) * B <= end <=> b + 1 <= d
  <2>1. (b + 1) * B = B * b + B /\ B * b \in Int /\ B * d \in Int
    BY <1>0, <1>1, <1>3, Blocks
  <2>2. (b >= d => B * b >= B * d) /\ (d > b => B * d >= B * b + B)
    BY <1>0, <1>1, <1>3, Blocks
  <2> QED
    BY <1>0, <1>1, <1>3, <2>1, <2>2
<1>11. i <= d * B <=> b + 1 <= d
  <2>1. d * B = B * d /\ B * b \in Int /\ B * d \in Int
    BY <1>0, <1>1, <1>3, Blocks
  <2>2. (b >= d => B * b >= B * d) /\ (d > b => B * d >= B * b + B)
    BY <1>0, <1>1, <1>3, Blocks
  <2> QED
    BY <1>0, <1>1, <1>3, <2>1, <2>2
<1>12. d * B \in Int /\ B * u \in Int
  BY <1>0, <1>3, <1>7, Blocks
<1>13. i \in (Up(begin) + 1)..Down(end) <=> B * u <= i - 1 /\ i <= d * B
  BY <1>0, <1>5, <1>7, <1>12
<1> QED
  BY <1>4, <1>8, <1>9, <1>10, <1>11, <1>13

-----------------------------------------------------------------------------
(* cfile: the invariant *)

CFileType ==
  /\ pend \in Buffers /\ data \in Contents /\ device \in Contents /\ told \in Contents
  /\ writes \in Nat /\ isOpen \in BOOLEAN /\ careless \in BOOLEAN
  /\ file = null \/ file \in [mode : Mode, pos : Nat]
  /\ outcome \in [call : {"other", "flush", "read"}, ok : BOOLEAN, got : Seq(Nat)]

\* The file with its buffer is as told, and a flush that returned left no buffer.
BufferInv ==
  /\ ~careless => Seen = told
  /\ outcome.call = "flush" /\ outcome.ok => pend = << >>

\* Synced bytes are in the kernel and on the device, and no byte of the buffer is for their places.
SafeInv ==
  \A p \in DOMAIN safe : /\ p \in 1..Len(data) /\ data[p] = safe[p] /\ p \in 1..Len(device) /\ device[p] = safe[p]
                         /\ p \notin Places(pend, Len(pend))

CFileInv == CFileType /\ BufferInv /\ SafeInv /\ ReadsAreTold /\ (file # null => isOpen)

\* Given is what the buffer lays.
LEMMA GivenIsLaid == \A c, n : Given(c, n) = Laid(c, pend, n)
  BY DEF Given, Laid
\* So is what a reader of the file sees,
LEMMA SeenIsLaid == Seen = Laid(data, pend, Len(pend))
  BY GivenIsLaid DEF Seen, Handed
\* in the next state too.
LEMMA SeenIsLaidNext == Seen' = Laid(data', pend', Len(pend'))
  BY DEF Seen, Handed, Given, Laid

\* From d and the buffer p to e and the buffer q only places of p change.
Elsewhere(d, p, e, q) ==
  /\ Places(q, Len(q)) \subseteq Places(p, Len(p))
  /\ \A i \in 1..Len(d) : i \notin Places(p, Len(p)) => i \in 1..Len(e) /\ e[i] = d[i]

\* No buffer.
LEMMA NoBuffer ==
  << >> \in Buffers /\ Len(<< >>) = 0 /\ Places(<< >>, Len(<< >>)) = {} /\ \A c \in Contents : Laid(c, << >>, 0) = c
<1>1. << >> \in Buffers /\ Len(<< >>) = 0
  BY EmptySeq DEF Buffers
<1>2. Places(<< >>, 0) = {}
  BY DEF Places
<1> QED
  BY <1>1, <1>2, LaidSteps

\* A part of the buffer is handed over, and the rest dropped or kept.
LEMMA PartHanded ==
  ASSUME CFileType, NEW d \in Contents, NEW n \in 0..Len(pend), data' = Given(d, n),
         pend' = << >> \/ pend' = SubSeq(pend, n + 1, Len(pend))
  PROVE  /\ data' \in Contents /\ pend' \in Buffers /\ Elsewhere(d, pend, data', pend')
         /\ pend' = << >> => Seen' = data'
         /\ (pend' = SubSeq(pend, n + 1, Len(pend)) => Seen' = Given(d, Len(pend)))
<1>0. pend \in Buffers /\ Len(pend) \in Nat
  BY LaidSteps DEF CFileType
<1>1. data' = Laid(d, pend, n)
  BY GivenIsLaid
<1>2. data' \in Contents
  BY <1>0, <1>1, LaidSteps
<1>3. \A i \in 1..Len(d) : i \notin Places(pend, Len(pend)) => i \in 1..Len(data') /\ data'[i] = d[i]
  BY <1>0, <1>1, LaidElsewhere
<1>4. CASE pend' = << >>
  <2>1. pend' \in Buffers /\ Places(pend', Len(pend')) = {} /\ Seen' = data'
    BY <1>2, <1>4, NoBuffer, SeenIsLaidNext
  <2>2. pend' = SubSeq(pend, n + 1, Len(pend)) => Seen' = Given(d, Len(pend))
    BY <1>0, <1>1, GivenIsLaid, LaidInParts, SeenIsLaidNext
  <2> QED
    BY <1>2, <1>3, <2>1, <2>2 DEF Elsewhere
<1>5. CASE pend' = SubSeq(pend, n + 1, Len(pend))
  <2> DEFINE q == SubSeq(pend, n + 1, Len(pend))
  <2>1. /\ q \in Buffers /\ (\A i \in 1..Len(q) : n + i \in 1..Len(pend) /\ q[i] = pend[n + i])
        /\ Laid(data', q, Len(q)) = Laid(d, pend, Len(pend))
    BY <1>0, <1>1, LaidInParts
  <2> HIDE DEF q
  <2>2. pend' = q
    BY <1>5 DEF q
  <2>3. Places(q, Len(q)) \subseteq Places(pend, Len(pend))
    BY <2>1 DEF Places
  <2>4. Seen' = Given(d, Len(pend))
    BY <2>1, <2>2, GivenIsLaid, SeenIsLaidNext
  <2>5. pend' = << >> => Seen' = data'
    BY <1>2, NoBuffer, SeenIsLaidNext
  <2> QED
    BY <1>2, <1>3, <2>1, <2>2, <2>3, <2>4, <2>5 DEF Elsewhere
<1> QED
  BY <1>4, <1>5

\* fflush and what does the same: the file with its buffer stays as it was.
LEMMA HandedOver ==
  ASSUME CFileType, NEW ok \in BOOLEAN, HandOver(ok)
  PROVE  /\ data' \in Contents /\ pend' \in Buffers /\ Elsewhere(data, pend, data', pend') /\ Seen' = Seen
         /\ (ok => pend' = << >> /\ data' = Seen)
<1>0. data \in Contents /\ pend \in Buffers /\ Len(pend) \in Nat
  BY LaidSteps DEF CFileType
<1>1. CASE ok
  <2>1. data' = Given(data, Len(pend)) /\ pend' = << >> /\ data' = Seen
    BY <1>1 DEF HandOver, Seen, Handed
  <2>2. Len(pend) \in 0..Len(pend)
    BY <1>0
  <2>3. data' \in Contents /\ pend' \in Buffers /\ Elsewhere(data, pend, data', pend') /\ Seen' = data'
    BY <1>0, <2>1, <2>2, PartHanded
  <2> QED
    BY <2>1, <2>3
<1>2. CASE ~ok
  <2>1. PICK n \in 0..(Len(pend) - 1) : data' = Given(data, n) /\ pend' = SubSeq(pend, n + 1, Len(pend))
    BY <1>2 DEF HandOver, Handed
  <2>2. n \in 0..Len(pend)
    BY <1>0
  <2>3. data' \in Contents /\ pend' \in Buffers /\ Elsewhere(data, pend, data', pend') /\ Seen' = Given(data, Len(pend))
    BY <1>0, <2>1, <2>2, PartHanded
  <2> QED
    BY <1>2, <2>3 DEF Seen, Handed
<1> QED
  BY <1>1, <1>2

\* Bytes that were synced stay synced when only places of the buffer change, and
\* the places that the step gives up.
LEMMA SafeKept ==
  ASSUME SafeInv, device' = device, Elsewhere(data, pend, data', pend'),
         DOMAIN safe' \subseteq DOMAIN safe, \A p \in DOMAIN safe' : safe'[p] = safe[p]
  PROVE  SafeInv'
  BY DEF SafeInv, Elsewhere

\* A call of no outcome, or one without a file.
LEMMA QuietType ==
  ASSUME Quiet
  PROVE  /\ outcome' \in [call : {"other", "flush", "read"}, ok : BOOLEAN, got : Seq(Nat)]
         /\ outcome'.call = "other" /\ ReadsAreTold'
<1>1. << >> \in Seq(Nat)
  BY EmptySeq
<1>2. outcome' \in [call : {"other", "flush", "read"}, ok : BOOLEAN, got : Seq(Nat)] /\ outcome'.call = "other"
  BY <1>1 DEF Quiet, Nothing
<1> QED
  BY <1>2 DEF ReadsAreTold

\* A cfile that was not opened yet.
LEMMA CFileStart == ASSUME CFileInit PROVE CFileInv
<1>1. << >> \in Contents /\ << >> \in Buffers /\ << >> \in Seq(Nat)
  BY EmptySeq, CFileAssumption DEF Contents, Buffers
<1>2. /\ isOpen = FALSE /\ file = null /\ pend = << >> /\ data = << >> /\ device = << >> /\ writes = 0
      /\ told = << >> /\ careless = FALSE /\ safe = << >> /\ outcome = Nothing
  BY DEF CFileInit
<1>3. CFileType
  BY <1>1, <1>2 DEF CFileType, Nothing
<1>4. Seen = told
  BY <1>1, <1>2, NoBuffer, SeenIsLaid
<1>5. SafeInv
  BY <1>2 DEF SafeInv
<1> QED
  BY <1>2, <1>3, <1>4, <1>5 DEF CFileInv, BufferInv, ReadsAreTold, Nothing

\* A call that hands the buffer over, moves the position and has no other effect.
LEMMA HandOverOK ==
  ASSUME CFileInv, NEW ok \in BOOLEAN, HandOver(ok), Quiet, file # null,
         file' = file \/ \E p \in Nat : file' = [file EXCEPT !.pos = p],
         UNCHANGED <<isOpen, device, writes, told, careless, safe>>
  PROVE  CFileInv'
<1>1. /\ data' \in Contents /\ pend' \in Buffers /\ Elsewhere(data, pend, data', pend') /\ Seen' = Seen
  BY HandedOver DEF CFileInv
<1>2. /\ outcome' \in [call : {"other", "flush", "read"}, ok : BOOLEAN, got : Seq(Nat)]
      /\ outcome'.call = "other" /\ ReadsAreTold'
  BY QuietType
<1>3. file' \in [mode : Mode, pos : Nat]
  BY DEF CFileInv, CFileType
<1>4. CFileType'
  BY <1>1, <1>2, <1>3 DEF CFileInv, CFileType
<1>5. BufferInv'
  BY <1>1, <1>2 DEF CFileInv, BufferInv
<1>6. SafeInv'
  BY <1>1, SafeKept DEF CFileInv
<1>7. isOpen'
  BY DEF CFileInv
<1> QED
  BY <1>2, <1>4, <1>5, <1>6, <1>7 DEF CFileInv

\* seek, seek_end and skip.
LEMMA MoveToOK == ASSUME CFileInv, NEW loc \in Int, MoveTo(loc) PROVE CFileInv'
<1>1. /\ file # null /\ Quiet /\ UNCHANGED <<isOpen, device, writes, told, careless, safe>>
      /\ \/ loc >= 0 /\ HandOver(TRUE) /\ file' = [file EXCEPT !.pos = loc]
         \/ HandOver(TRUE) /\ file' = file
         \/ HandOver(FALSE) /\ file' = file
  BY DEF MoveTo
<1>2. CASE loc >= 0 /\ HandOver(TRUE) /\ file' = [file EXCEPT !.pos = loc]
  <2>1. \E p \in Nat : file' = [file EXCEPT !.pos = p]
    BY <1>2
  <2> QED
    BY <1>1, <1>2, <2>1, HandOverOK
<1>3. CASE HandOver(TRUE) /\ file' = file
  BY <1>1, <1>3, HandOverOK
<1>4. CASE HandOver(FALSE) /\ file' = file
  BY <1>1, <1>4, HandOverOK
<1> QED
  BY <1>1, <1>2, <1>3, <1>4

\* A write that could not make room in the buffer.
LEMMA WriteThrowsOK == ASSUME CFileInv, cfile_write_throws PROVE CFileInv'
  BY HandOverOK DEF cfile_write_throws

\* read: what it gets is the end of what it has passed.
LEMMA ReadOK == ASSUME CFileInv, NEW n \in Nat \ {0}, cfile_read(n) PROVE CFileInv'
<1>0. UNCHANGED <<isOpen, device, writes, told, careless, safe>> /\ file # null
  BY DEF cfile_read
<1>a. CASE HandOver(FALSE) /\ file' = file /\ Quiet
  BY <1>0, <1>a, HandOverOK
<1>b. CASE HandOver(TRUE) /\ ~(HandOver(FALSE) /\ file' = file /\ Quiet)
  <2> DEFINE last == IF file.pos + n <= Len(Seen) THEN file.pos + n ELSE Len(Seen)
             got == SubSeq(Seen, file.pos + 1, last)
  <2>1. /\ file' = [file EXCEPT !.pos = IF last > file.pos THEN last ELSE file.pos]
        /\ outcome' = IF file.pos + n > Len(Seen) THEN Nothing ELSE [call |-> "read", ok |-> TRUE, got |-> got]
    BY <1>b DEF cfile_read
  <2>2. /\ data' \in Contents /\ pend' \in Buffers /\ Elsewhere(data, pend, data', pend') /\ Seen' = Seen
        /\ pend' = << >> /\ data' = Seen
    BY <1>b, HandedOver DEF CFileInv
  <2>3. Seen \in Seq(Nat) /\ Len(Seen) \in Nat /\ file \in [mode : Mode, pos : Nat] /\ file.pos \in Nat
    BY <1>0, <2>2, LenProperties DEF CFileInv, CFileType, Contents
  <2> HIDE DEF got
  <2>4. last \in Nat
    BY <2>3
  <2>5. file' \in [mode : Mode, pos : Nat]
    BY <2>1, <2>3, <2>4
  <2>6. CASE file.pos + n > Len(Seen)
    <3>1. Quiet
      BY <2>1, <2>6 DEF Quiet
    <3>2. \E p \in Nat : file' = [file EXCEPT !.pos = p]
      BY <2>1, <2>3, <2>4
    <3> QED
      BY <1>0, <1>b, <3>1, <3>2, HandOverOK
  <2>7. CASE ~(file.pos + n > Len(Seen))
    <3>1. last = file.pos + n /\ last \in 1..Len(Seen) /\ last > file.pos
      BY <2>3, <2>7
    <3>2. file'.pos = file.pos + n
      BY <2>1, <2>3, <3>1
    <3>3. outcome' = [call |-> "read", ok |-> TRUE, got |-> got]
      BY <2>1, <2>7
    <3>4. got = SubSeq(Seen, file.pos + 1, file.pos + n)
      BY <3>1 DEF got
    <3>5. got \in Seq(Nat) /\ Len(got) = n
      BY <2>3, <2>7, <3>4
    <3>6. ReadsAreTold'
      <4> SUFFICES ASSUME ~careless' PROVE outcome'.got = SubSeq(told', file'.pos - Len(outcome'.got) + 1, file'.pos)
        BY DEF ReadsAreTold
      <4>1. told' = Seen
        BY <1>0 DEF CFileInv, BufferInv
      <4>2. outcome'.got = got
        BY <3>3
      <4>3. file'.pos - Len(got) + 1 = file.pos + 1
        BY <2>3, <3>2, <3>5
      <4> QED
        BY <3>2, <3>4, <4>1, <4>2, <4>3
    <3>7. CFileType'
      BY <1>0, <2>2, <2>5, <3>3, <3>5 DEF CFileInv, CFileType
    <3>8. BufferInv'
      BY <1>0, <2>2 DEF CFileInv, BufferInv
    <3>9. SafeInv'
      BY <1>0, <2>2, SafeKept DEF CFileInv
    <3>10. isOpen'
      BY <1>0 DEF CFileInv
    <3> QED
      BY <3>6, <3>7, <3>8, <3>9, <3>10 DEF CFileInv
  <2> QED
    BY <2>6, <2>7
<1> QED
  BY <1>a, <1>b DEF cfile_read

\* flush.
LEMMA FlushOK == ASSUME CFileInv, cfile_flush PROVE CFileInv'
<1>1. PICK ok \in BOOLEAN : HandOver(ok) /\ outcome' = [Nothing EXCEPT !.call = "flush", !.ok = ok]
  BY DEF cfile_flush
<1>2. UNCHANGED <<isOpen, file, device, writes, told, careless, safe>>
  BY DEF cfile_flush
<1>3. /\ data' \in Contents /\ pend' \in Buffers /\ Elsewhere(data, pend, data', pend') /\ Seen' = Seen
      /\ (ok => pend' = << >>)
  BY <1>1, HandedOver DEF CFileInv
<1>4. outcome' = [call |-> "flush", ok |-> ok, got |-> << >>]
  BY <1>1 DEF Nothing
<1>5. << >> \in Seq(Nat)
  BY EmptySeq
<1>6. CFileType'
  BY <1>2, <1>3, <1>4, <1>5 DEF CFileInv, CFileType
<1>7. BufferInv'
  BY <1>2, <1>3, <1>4 DEF CFileInv, BufferInv
<1>8. SafeInv'
  BY <1>2, <1>3, SafeKept DEF CFileInv
<1> QED
  BY <1>2, <1>4, <1>6, <1>7, <1>8 DEF CFileInv, ReadsAreTold

\* A full buffer.
LEMMA SpillOK == ASSUME CFileInv, Spill PROVE CFileInv'
<1>1. pend # << >> /\ data' = Given(data, 1) /\ pend' = Tail(pend)
  BY DEF Spill, Handed
<1>2. UNCHANGED <<isOpen, file, device, writes, told, careless, safe, outcome>>
  BY DEF Spill
<1>3. data \in Contents /\ pend \in Buffers /\ Len(pend) \in Nat
  BY LaidSteps DEF CFileInv, CFileType
<1>4. 1 \in 0..Len(pend) /\ pend' = SubSeq(pend, 1 + 1, Len(pend))
  <2>1. pend \in Seq((1..MaxSize) \X Nat)
    BY <1>3 DEF Buffers
  <2>2. Len(pend) > 0
    BY <1>1, <1>3, <2>1, EmptySeq
  <2> QED
    BY <1>1, <1>3, <2>1, <2>2
<1>5. data' \in Contents /\ pend' \in Buffers /\ Elsewhere(data, pend, data', pend') /\ Seen' = Seen
  BY <1>1, <1>3, <1>4, PartHanded DEF CFileInv, Seen, Handed
<1>6. CFileType'
  BY <1>2, <1>5 DEF CFileInv, CFileType
<1>7. BufferInv'
  BY <1>1, <1>2, <1>5 DEF CFileInv, BufferInv
<1>8. SafeInv'
  BY <1>2, <1>5, SafeKept DEF CFileInv
<1> QED
  BY <1>2, <1>6, <1>7, <1>8 DEF CFileInv, ReadsAreTold

\* The FILE is closed: a part of its buffer reaches the file, the rest is lost.
LEMMA ClosedOK ==
  ASSUME CFileInv, NEW n \in 0..Len(pend), data' = Given(data, n), pend' = << >>, Quiet,
         careless' = (careless \/ n < Len(pend)), UNCHANGED <<device, writes, told, safe>>,
         isOpen' \in BOOLEAN, file' = null \/ (isOpen' /\ file' \in [mode : Mode, pos : Nat])
  PROVE  CFileInv'
<1>1. data \in Contents /\ pend \in Buffers /\ Len(pend) \in Nat
  BY LaidSteps DEF CFileInv, CFileType
<1>2. data' \in Contents /\ pend' \in Buffers /\ Elsewhere(data, pend, data', pend') /\ Seen' = data'
  BY <1>1, PartHanded DEF CFileInv
<1>3. /\ outcome' \in [call : {"other", "flush", "read"}, ok : BOOLEAN, got : Seq(Nat)]
      /\ outcome'.call = "other" /\ ReadsAreTold'
  BY QuietType
<1>4. careless' \in BOOLEAN
  OBVIOUS
<1>5. CFileType'
  BY <1>2, <1>3, <1>4 DEF CFileInv, CFileType
<1>6. ~careless' => Seen' = told'
  <2> SUFFICES ASSUME ~careless' PROVE Seen' = told'
    OBVIOUS
  <2>1. ~careless /\ n = Len(pend)
    <3>1. ~careless /\ ~(n < Len(pend))
      BY Zenon
    <3> QED
      BY <1>1, <3>1
  <2> QED
    BY <1>2, <2>1 DEF CFileInv, BufferInv, Seen, Handed
<1>7. SafeInv'
  BY <1>2, SafeKept DEF CFileInv
<1> QED
  BY <1>3, <1>5, <1>6, <1>7 DEF CFileInv, BufferInv

\* close, whose errors are dropped.
LEMMA CloseOK == ASSUME CFileInv, cfile_close PROVE CFileInv'
<1>1. PICK n \in 0..Len(pend) : data' = Given(data, n) /\ careless' = (careless \/ n < Len(pend))
  BY DEF cfile_close
<1> QED
  BY <1>1, ClosedOK DEF cfile_close

\* open: the file is emptied before the old buffer comes, or opened as it is, or not at all.
LEMMA OpenOK == ASSUME CFileInv, NEW mode \in Mode, cfile_open(mode) PROVE CFileInv'
<1>1. ASSUME NEW n \in 0..Len(pend), data' = Given(data, n), pend' = << >>, file' = null,
             careless' = (careless \/ n < Len(pend)), Quiet, UNCHANGED <<isOpen, told, safe, device, writes>>
      PROVE  CFileInv'
  <2>1. isOpen' \in BOOLEAN
    BY <1>1 DEF CFileInv, CFileType
  <2> QED
    BY <1>1, <2>1, ClosedOK
<1>2. ASSUME NEW n \in 0..Len(pend), data' = Given(IF mode = "wb+" THEN << >> ELSE data, n), pend' = << >>,
             file' = [mode |-> mode, pos |-> 0], isOpen' = TRUE, told' = (IF mode = "wb+" THEN << >> ELSE told),
             careless' = (careless \/ (mode = "wb+" /\ n > 0) \/ (mode # "wb+" /\ n < Len(pend))),
             safe' = (IF mode = "wb+" THEN << >> ELSE safe), Quiet, UNCHANGED <<device, writes>>
      PROVE  CFileInv'
  <2>0. file' \in [mode : Mode, pos : Nat]
    BY <1>2
  <2>1. CASE mode # "wb+"
    BY <1>2, <2>0, <2>1, ClosedOK
  <2>2. CASE mode = "wb+"
    <3>1. << >> \in Contents /\ pend \in Buffers /\ Len(pend) \in Nat
      <4>1. << >> \in Contents
        BY EmptySeq, CFileAssumption DEF Contents
      <4> QED
        BY <4>1, LaidSteps DEF CFileInv, CFileType
    <3>2. data' = Given(<< >>, n) /\ told' = << >> /\ safe' = << >>
      BY <1>2, <2>2
    <3>3. data' \in Contents /\ pend' \in Buffers /\ Seen' = data'
      BY <1>2, <3>1, <3>2, PartHanded DEF CFileInv
    <3>4. /\ outcome' \in [call : {"other", "flush", "read"}, ok : BOOLEAN, got : Seq(Nat)]
          /\ outcome'.call = "other" /\ ReadsAreTold'
      BY <1>2, QuietType
    <3>5. careless' \in BOOLEAN /\ device' \in Contents /\ writes' \in Nat
      BY <1>2 DEF CFileInv, CFileType
    <3>6. CFileType'
      BY <1>2, <2>0, <3>1, <3>2, <3>3, <3>4, <3>5 DEF CFileType
    <3>7. ~careless' => Seen' = told'
      <4> SUFFICES ASSUME ~careless' PROVE data' = << >>
        BY <3>2, <3>3
      <4>1. n = 0
        <5>1. ~(n > 0)
          BY <1>2, <2>2, Zenon
        <5> QED
          BY <3>1, <5>1
      <4> QED
        BY <3>1, <3>2, <4>1, GivenIsLaid, LaidSteps
    <3>8. SafeInv'
      BY <3>2 DEF SafeInv
    <3> QED
      BY <1>2, <3>4, <3>6, <3>7, <3>8 DEF CFileInv, BufferInv
  <2> QED
    BY <2>1, <2>2
<1> QED
  BY <1>1, <1>2 DEF cfile_open

\* write: the byte is the last of the buffer, and told.
LEMMA WriteByteOK == ASSUME CFileInv, cfile_write PROVE CFileInv'
<1> DEFINE at == (IF file.mode = "ab+" THEN Len(Seen) ELSE file.pos) + 1
           e == <<at, writes + 1>>
<1>1. /\ file # null /\ at <= MaxSize /\ writes' = writes + 1 /\ pend' = Append(pend, e) /\ file' = [file EXCEPT !.pos = at]
      /\ told' = PutAt(told, at, writes + 1) /\ safe' = [p \in DOMAIN safe \ {at} |-> safe[p]] /\ Quiet
      /\ UNCHANGED <<isOpen, data, device, careless>>
  BY DEF cfile_write
<1>2. data \in Contents /\ pend \in Buffers /\ Len(pend) \in Nat /\ file \in [mode : Mode, pos : Nat] /\ writes \in Nat /\ told \in Contents
  BY <1>1, LaidSteps DEF CFileInv, CFileType
<1>3. Seen \in Contents /\ Len(Seen) \in Nat
  <2>1. Seen \in Contents
    BY <1>2, SeenIsLaid, LaidSteps
  <2> QED
    BY <2>1, LenProperties DEF Contents
<1>4. at \in 1..MaxSize /\ MaxSize \in Nat
  BY <1>1, <1>2, <1>3, CFileAssumption
<1> HIDE DEF at
<1>5. e \in (1..MaxSize) \X Nat /\ e[1] = at /\ e[2] = writes + 1
  BY <1>2, <1>4
<1> HIDE DEF e
<1>6. pend' \in Buffers /\ Seen' = PutAt(Seen, at, writes + 1)
  BY <1>1, <1>2, <1>5, LaidAppend, SeenIsLaid, SeenIsLaidNext
<1>7. told' \in Contents
  <2>1. writes + 1 \in Nat
    BY <1>2
  <2> QED
    BY <1>1, <1>2, <1>4, <2>1, BytePut
<1>8. /\ outcome' \in [call : {"other", "flush", "read"}, ok : BOOLEAN, got : Seq(Nat)]
      /\ outcome'.call = "other" /\ ReadsAreTold'
  BY <1>1, QuietType
<1>9. file' \in [mode : Mode, pos : Nat] /\ writes' \in Nat
  BY <1>1, <1>2, <1>4
<1>10. CFileType'
  BY <1>1, <1>2, <1>6, <1>7, <1>8, <1>9 DEF CFileInv, CFileType
<1>11. BufferInv'
  BY <1>1, <1>6, <1>8 DEF CFileInv, BufferInv
<1>12. SafeInv'
  <2>1. Places(pend', Len(pend')) = Places(pend, Len(pend)) \cup {at}
    <3>1. Len(pend') = Len(pend) + 1 /\ (\A i \in 1..Len(pend) : pend'[i] = pend[i]) /\ pend'[Len(pend) + 1] = e
      BY <1>1, <1>2, <1>5, AppendProperties DEF Buffers
    <3>2. 1..(Len(pend) + 1) = (1..Len(pend)) \cup {Len(pend) + 1}
      BY <1>2
    <3> QED
      BY <1>5, <3>1, <3>2 DEF Places
  <2>2. \A p \in DOMAIN safe' : p \in DOMAIN safe /\ p # at /\ safe'[p] = safe[p]
    BY <1>1
  <2> QED
    BY <1>1, <2>1, <2>2 DEF CFileInv, SafeInv
<1>13. isOpen'
  BY <1>1 DEF CFileInv
<1> QED
  BY <1>8, <1>10, <1>11, <1>12, <1>13 DEF CFileInv

\* sync: what no byte of the buffer is for is safe from now on.
LEMMA SyncOK == ASSUME CFileInv, cfile_sync PROVE CFileInv'
<1>1. UNCHANGED <<isOpen, file, pend, data, writes, told, careless>> /\ Quiet
  BY DEF cfile_sync
<1>2. Seen' = Seen
  BY <1>1, SeenIsLaid, SeenIsLaidNext
<1>3. /\ outcome' \in [call : {"other", "flush", "read"}, ok : BOOLEAN, got : Seq(Nat)]
      /\ outcome'.call = "other" /\ ReadsAreTold'
  BY <1>1, QuietType
<1>4. device' \in Contents /\ SafeInv'
  <2>1. CASE device' = data /\ safe' = [p \in {i \in DOMAIN data : ~ \E w \in DOMAIN pend : pend[w][1] = i} |-> data[p]]
    <3>1. DOMAIN data = 1..Len(data) /\ DOMAIN pend = 1..Len(pend) /\ data \in Contents
      BY LenProperties DEF CFileInv, CFileType, Contents, Buffers
    <3>2. \A p \in DOMAIN safe' : p \in 1..Len(data) /\ safe'[p] = data[p] /\ ~ \E w \in 1..Len(pend) : pend[w][1] = p
      BY <2>1, <3>1
    <3> QED
      BY <1>1, <2>1, <3>1, <3>2 DEF SafeInv, Places
  <2>2. CASE device' = device /\ safe' = safe
    BY <1>1, <2>2 DEF CFileInv, CFileType, SafeInv
  <2> QED
    BY <2>1, <2>2 DEF cfile_sync
<1>5. CFileType'
  BY <1>1, <1>3, <1>4 DEF CFileInv, CFileType
<1>6. BufferInv'
  BY <1>1, <1>2, <1>3 DEF CFileInv, BufferInv
<1> QED
  BY <1>1, <1>3, <1>4, <1>5, <1>6 DEF CFileInv

\* A power failure: safe bytes are the same in the kernel and on the device.
LEMMA PowerFailureOK == ASSUME CFileInv, PowerFailure PROVE CFileInv'
<1>1. /\ data' \in Remains /\ device' = data' /\ told' = data' /\ careless' = FALSE
      /\ pend' = << >> /\ file' = null /\ isOpen' = FALSE /\ Quiet /\ UNCHANGED <<writes, safe>>
  BY DEF PowerFailure
<1> DEFINE From(i, late) == IF (i - 1) \div BlockSize \in late THEN data ELSE device
           Torn(n, late) == [i \in 1..n |-> IF i <= Len(From(i, late)) THEN From(i, late)[i] ELSE 0]
           Late == SUBSET (0..((MaxSize - 1) \div BlockSize))
<1>2. PICK n \in {Len(device), Len(data)}, late \in Late : data' = Torn(n, late)
  <2>1. Remains = {Torn(n, late) : n \in {Len(device), Len(data)}, late \in Late}
    BY DEF Remains
  <2> HIDE DEF Torn, Late
  <2> QED
    BY <1>1, <2>1
<1>3. /\ data \in Contents /\ device \in Contents /\ Len(data) \in Nat /\ Len(device) \in Nat
      /\ Len(data) <= MaxSize /\ Len(device) <= MaxSize
      /\ (\A i \in 1..Len(data) : data[i] \in Nat) /\ \A i \in 1..Len(device) : device[i] \in Nat
  BY LenProperties, ElementOfSeq DEF CFileInv, CFileType, Contents
<1>4. n \in Nat /\ n <= MaxSize
  BY <1>3
<1>5. \A i \in 1..n : /\ data'[i] \in Nat
                      /\ i \in 1..Len(data) /\ i \in 1..Len(device) /\ data[i] = device[i] => data'[i] = data[i]
  BY <1>2, <1>3
<1>6. data' \in [1..n -> Nat]
  BY <1>2, <1>5
<1>7. data' \in Contents /\ Len(data') = n
  BY <1>4, <1>6, IsASeq, LenProperties DEF Contents
<1>8. /\ outcome' \in [call : {"other", "flush", "read"}, ok : BOOLEAN, got : Seq(Nat)]
      /\ outcome'.call = "other" /\ ReadsAreTold'
  BY <1>1, QuietType
<1>9. pend' \in Buffers /\ Places(pend', Len(pend')) = {} /\ Seen' = data'
  BY <1>1, <1>7, NoBuffer, SeenIsLaidNext
<1>10. CFileType'
  BY <1>1, <1>7, <1>8, <1>9 DEF CFileInv, CFileType
<1>11. BufferInv'
  BY <1>1, <1>8, <1>9 DEF BufferInv
<1>12. SafeInv'
  <2> SUFFICES ASSUME NEW p \in DOMAIN safe PROVE p \in 1..Len(data') /\ data'[p] = safe[p]
    BY <1>1, <1>9 DEF SafeInv
  <2>1. p \in 1..Len(data) /\ data[p] = safe[p] /\ p \in 1..Len(device) /\ device[p] = safe[p]
    BY DEF CFileInv, SafeInv
  <2> QED
    BY <1>5, <1>7, <2>1
<1> QED
  BY <1>1, <1>8, <1>10, <1>11, <1>12 DEF CFileInv

\* A hole is made under the buffer, which is then handed over.
LEMMA PunchedOK ==
  ASSUME CFileInv, NEW begin \in Nat, NEW end \in Nat, NEW n \in 0..Len(pend), NEW H, NEW W,
         \/ H = {} /\ W = {}
         \/ H = (Up(begin) + 1)..Down(end) /\ W = Whole(begin, end),
         data' = Given(Clear(data, H), n),
         (pend' = << >> /\ n = Len(pend)) \/ pend' = SubSeq(pend, n + 1, Len(pend)),
         told' = Clear(told, W), careless' = (careless \/ \E w \in DOMAIN pend : pend[w][1] \in W),
         safe' = [p \in DOMAIN safe \ W |-> safe[p]], Quiet, UNCHANGED <<isOpen, file, device, writes>>
  PROVE  CFileInv'
<1> DEFINE d == Clear(data, H)
<1>1. data \in Contents /\ told \in Contents /\ pend \in Buffers /\ Len(pend) \in Nat /\ DOMAIN pend = 1..Len(pend)
  BY LaidSteps, LenProperties DEF CFileInv, CFileType, Buffers
<1>2. \A i \in 1..MaxSize : i \in H <=> i \in W
  BY HoleIsBlocks
<1>3. d \in Contents /\ Len(d) = Len(data) /\ Len(data) \in Nat /\ \A i \in 1..Len(data) : d[i] = IF i \in H THEN 0 ELSE data[i]
  BY <1>1, ContentCleared
<1>4. told' \in Contents
  BY <1>1, ContentCleared
<1> HIDE DEF d
<1>5. data' = Given(d, n)
  BY DEF d
<1>6. data' \in Contents /\ pend' \in Buffers /\ Elsewhere(d, pend, data', pend') /\ Seen' = Given(d, Len(pend))
  BY <1>3, <1>5, PartHanded DEF CFileInv
<1>7. /\ outcome' \in [call : {"other", "flush", "read"}, ok : BOOLEAN, got : Seq(Nat)]
      /\ outcome'.call = "other" /\ ReadsAreTold'
  BY QuietType
<1>8. careless' \in BOOLEAN
  OBVIOUS
<1>9. CFileType'
  BY <1>4, <1>6, <1>7, <1>8 DEF CFileInv, CFileType
<1>10. ~careless' => Seen' = told'
  <2> SUFFICES ASSUME ~careless' PROVE Seen' = told'
    OBVIOUS
  <2>1. ~careless /\ ~ \E w \in 1..Len(pend) : pend[w][1] \in W
    BY <1>1, Zenon
  <2>2. Seen = told
    BY <2>1 DEF CFileInv, BufferInv
  <2>3. Places(pend, Len(pend)) \cap H = {}
    <3>1. \A w \in 1..Len(pend) : pend[w][1] \in 1..MaxSize
      BY <1>1, LaidSteps
    <3> QED
      BY <1>2, <2>1, <3>1 DEF Places
  <2>4. Seen' = Clear(told, H)
    <3>1. Len(pend) \in 0..Len(pend)
      <4>1. \A x \in Nat : x \in 0..x
        OBVIOUS
      <4> QED
        BY <1>1, <4>1, Zenon
    <3>2. Laid(d, pend, Len(pend)) = Clear(Laid(data, pend, Len(pend)), H)
      <4>1. \A m \in 0..Len(pend) : Laid(Clear(data, H), pend, m) = Clear(Laid(data, pend, m), H)
        BY <1>1, <2>3, LaidOutside
      <4> QED
        BY <3>1, <4>1, Zenon DEF d
    <3> QED
      BY <1>6, <2>2, <3>2, GivenIsLaid, SeenIsLaid
  <2>5. Clear(told, H) = told'
    <3>1. /\ Clear(told, H) \in Contents /\ Len(Clear(told, H)) = Len(told) /\ Len(told) \in Nat
          /\ \A i \in 1..Len(told) : Clear(told, H)[i] = IF i \in H THEN 0 ELSE told[i]
      BY <1>1, ContentCleared
    <3>2. Clear(told, W) \in Contents /\ Len(Clear(told, W)) = Len(told) /\ \A i \in 1..Len(told) : Clear(told, W)[i] = IF i \in W THEN 0 ELSE told[i]
      BY <1>1, ContentCleared
    <3>3. \A i \in 1..Len(told) : i \in H <=> i \in W
      <4>1. MaxSize \in Nat /\ Len(told) <= MaxSize
        BY <1>1, CFileAssumption DEF Contents
      <4> QED
        BY <1>2, <3>1, <4>1
    <3>4. \A i \in 1..Len(told) : Clear(told, H)[i] = Clear(told, W)[i]
      BY <3>1, <3>2, <3>3
    <3> QED
      BY <3>1, <3>2, <3>4, SameContents
  <2> QED
    BY <2>4, <2>5
<1>11. SafeInv'
  <2> SUFFICES ASSUME NEW p \in DOMAIN safe'
               PROVE  /\ p \in 1..Len(data') /\ data'[p] = safe'[p] /\ p \in 1..Len(device') /\ device'[p] = safe'[p]
                      /\ p \notin Places(pend', Len(pend'))
    BY DEF SafeInv
  <2>1. p \in DOMAIN safe /\ p \notin W /\ safe'[p] = safe[p]
    OBVIOUS
  <2>2. /\ p \in 1..Len(data) /\ data[p] = safe[p] /\ p \in 1..Len(device) /\ device[p] = safe[p]
        /\ p \notin Places(pend, Len(pend))
    BY <2>1 DEF CFileInv, SafeInv
  <2>3. p \notin H
    <3>1. MaxSize \in Nat /\ Len(data) <= MaxSize
      BY <1>1, CFileAssumption DEF Contents
    <3> QED
      BY <1>2, <1>3, <2>1, <2>2, <3>1
  <2>4. p \in 1..Len(d) /\ d[p] = safe[p]
    BY <1>3, <2>2, <2>3
  <2> QED
    BY <1>6, <2>1, <2>2, <2>4 DEF Elsewhere
<1> QED
  BY <1>7, <1>9, <1>10, <1>11 DEF CFileInv, BufferInv

\* punch_hole, which may have no block to clear, fail to clear or fail to flush.
LEMMA PunchHoleOK ==
  ASSUME CFileInv, NEW begin \in Nat, NEW end \in Nat, cfile_punch_hole(begin, end)
  PROVE  CFileInv'
<1>0. UNCHANGED <<isOpen, file, device, writes>> /\ Quiet
  BY DEF cfile_punch_hole
<1>1. CASE Up(begin) >= Down(end)
  <2>1. UNCHANGED <<data, pend, told, careless, safe>>
    BY <1>1 DEF cfile_punch_hole
  <2>2. Seen' = Seen
    BY <2>1, SeenIsLaid, SeenIsLaidNext
  <2>3. /\ outcome' \in [call : {"other", "flush", "read"}, ok : BOOLEAN, got : Seq(Nat)]
        /\ outcome'.call = "other" /\ ReadsAreTold'
    BY <1>0, QuietType
  <2> QED
    BY <1>0, <2>1, <2>2, <2>3 DEF CFileInv, CFileType, BufferInv, SafeInv
<1>2. CASE ~(Up(begin) >= Down(end))
  <2>1. PICK ok \in BOOLEAN, punched \in BOOLEAN :
          LET hole == IF punched THEN (Up(begin) + 1)..Down(end) ELSE {}
              wanted == IF punched THEN Whole(begin, end) ELSE {}
              full == Clear(data, hole)
          IN  /\ \/ ok /\ data' = Given(full, Len(pend)) /\ pend' = << >>
                 \/ /\ ~ ok /\ pend # << >>
                    /\ \E n \in 0..(Len(pend) - 1) : data' = Given(full, n) /\ pend' = SubSeq(pend, n + 1, Len(pend))
              /\ told' = Clear(told, wanted)
              /\ careless' = (careless \/ \E w \in DOMAIN pend : pend[w][1] \in wanted)
              /\ safe' = [p \in DOMAIN safe \ wanted |-> safe[p]]
              /\ Quiet
    BY <1>2, Zenon DEF cfile_punch_hole
  <2> DEFINE H == IF punched THEN (Up(begin) + 1)..Down(end) ELSE {}
             W == IF punched THEN Whole(begin, end) ELSE {}
  <2>2. \/ H = {} /\ W = {}
        \/ H = (Up(begin) + 1)..Down(end) /\ W = Whole(begin, end)
    OBVIOUS
  <2>3. /\ \/ data' = Given(Clear(data, H), Len(pend)) /\ pend' = << >>
           \/ \E n \in 0..(Len(pend) - 1) : data' = Given(Clear(data, H), n) /\ pend' = SubSeq(pend, n + 1, Len(pend))
        /\ told' = Clear(told, W)
        /\ careless' = (careless \/ \E w \in DOMAIN pend : pend[w][1] \in W)
        /\ safe' = [p \in DOMAIN safe \ W |-> safe[p]]
    BY <2>1, Zenon
  <2> HIDE DEF H, W
  <2>4. Len(pend) \in Nat
    BY LaidSteps DEF CFileInv, CFileType
  <2>5. PICK n \in 0..Len(pend) : /\ data' = Given(Clear(data, H), n)
                                  /\ (pend' = << >> /\ n = Len(pend)) \/ pend' = SubSeq(pend, n + 1, Len(pend))
    <3>1. Len(pend) \in 0..Len(pend) /\ \A n \in 0..(Len(pend) - 1) : n \in 0..Len(pend)
      BY <2>4
    <3> QED
      BY <2>3, <3>1
  <2> QED
    BY <1>0, <2>2, <2>3, <2>5, PunchedOK
<1> QED
  BY <1>1, <1>2

\* Every call of cfile, the buffer that spills and a power failure keep the invariant.
LEMMA CFileKeep == ASSUME CFileInv, [CFileNext]_cfileVars PROVE CFileInv'
<1>0. Len(Seen) \in Nat /\ MaxSize \in Nat \ {0} /\ BlockSize \in Nat
  <2>1. Seen \in Contents
    <3>1. Len(pend) \in 0..Len(pend) /\ data \in Contents /\ pend \in Buffers
      BY LaidSteps DEF CFileInv, CFileType
    <3> QED
      BY <3>1, SeenIsLaid, LaidSteps
  <2> QED
    BY <2>1, LenProperties, CFileAssumption DEF Contents
<1>1. ASSUME NEW mode \in Mode, cfile_open(mode) PROVE CFileInv'
  BY <1>1, OpenOK
<1>2. ASSUME NEW loc \in {-1, 0, BlockSize}, ds_seekp(loc) \/ cfile_seek_end(loc) \/ cfile_skip(loc) PROVE CFileInv'
  <2>1. loc \in Int /\ Len(Seen) + loc \in Int
    BY <1>0
  <2>2. CASE ds_seekp(loc)
    BY <2>1, <2>2, MoveToOK DEF ds_seekp, cfile_seek
  <2>3. CASE cfile_seek_end(loc)
    BY <2>1, <2>3, MoveToOK DEF cfile_seek_end
  <2>4. CASE cfile_skip(loc)
    <3>1. file # null
      BY <2>4 DEF cfile_skip, MoveTo
    <3>2. file.pos + loc \in Int
      BY <2>1, <3>1 DEF CFileInv, CFileType
    <3> QED
      BY <2>4, <3>2, MoveToOK DEF cfile_skip
  <2> QED
    BY <1>2, <2>2, <2>3, <2>4
<1>3. CASE ds_skip(2)
  BY <1>3, ReadOK DEF ds_skip
<1>4. CASE ds_get
  BY <1>4, ReadOK DEF ds_get, cfile_getc
<1>5. ASSUME NEW begin \in 0..1, NEW end \in (MaxSize - 1)..MaxSize, cfile_punch_hole(begin, end) PROVE CFileInv'
  <2>1. begin \in Nat /\ end \in Nat
    BY <1>0
  <2> QED
    BY <1>5, <2>1, PunchHoleOK
<1>6. CASE UNCHANGED cfileVars
  <2>1. UNCHANGED <<isOpen, file, pend, data, device, writes, told, careless, safe, outcome>>
    BY <1>6 DEF cfileVars
  <2>2. Seen' = Seen
    BY <2>1, SeenIsLaid, SeenIsLaidNext
  <2> QED
    BY <2>1, <2>2 DEF CFileInv, CFileType, BufferInv, SafeInv, ReadsAreTold
<1> QED
  BY <1>1, <1>2, <1>3, <1>4, <1>5, <1>6, WriteByteOK, WriteThrowsOK, SpillOK, FlushOK, SyncOK, CloseOK, PowerFailureOK
  DEF CFileNext

\* What is kept is what is promised.
LEMMA CFileSafety == ASSUME CFileInv PROVE CFileSound
<1>1. data \in Contents /\ DOMAIN data = 1..Len(data)
  BY LenProperties DEF CFileInv, CFileType, Contents
<1>2. pend = << >> => Seen = data
  BY <1>1, NoBuffer, SeenIsLaid
<1>3. ContentsAsTold
  BY <1>2 DEF CFileInv, BufferInv, ContentsAsTold
<1>4. SyncedSurvives
  BY <1>1 DEF CFileInv, SafeInv, SyncedSurvives
<1> QED
  BY <1>3, <1>4 DEF CFileInv, CFileSound

\* The inductive invariant of cfile.
THEOREM CFileInvariance == CFileSpec => []CFileInv
<1>1. CFileInit => CFileInv
  BY CFileStart
<1>2. CFileInv /\ [CFileNext]_cfileVars => CFileInv'
  BY CFileKeep
<1> QED
  BY <1>1, <1>2, PTL DEF CFileSpec

\* A cfile holds what its calls say, what was flushed and synced survives every power
\* failure, a read returns what was told and is_open() is true of an open file:
\* CFileSound, for every size of block and of file and any number of writes.
THEOREM CFileIsSound == CFileSpec => []CFileSound
<1>1. CFileInv => CFileSound
  BY CFileSafety
<1> QED
  BY <1>1, CFileInvariance, PTL

-----------------------------------------------------------------------------
(* The files of MCValues *)

\* The theorems above hold of the specification that the run of MCValues checks,
\* in which the other parts of the library are next to the files.
THEOREM FilesAreKept == Spec => []FilesKept
<1>1. Init => FilesInv /\ CFileInv
  BY FilesStart, CFileStart DEF Init
<1>2. ASSUME FilesInv, CFileInv, [Next]_vars PROVE FilesInv' /\ CFileInv'
  <2>1. [FilesNext]_fileVars
    <3>1. CASE FileStep
      BY <3>1 DEF FileStep, FilesNext
    <3>2. CASE ~FileStep
      BY <1>2, <3>2 DEF Next, vars, ObjectStep, StoreStep, KeyStep, CFileStep, StreamStep, LimiterStep, BloomStep
    <3> QED
      BY <3>1, <3>2
  <2>2. [CFileNext]_cfileVars
    <3>1. CASE CFileStep
      BY <3>1 DEF CFileStep
    <3>2. CASE ~CFileStep
      BY <1>2, <3>2 DEF Next, vars, ObjectStep, StoreStep, KeyStep, FileStep, StreamStep, LimiterStep, BloomStep
    <3> QED
      BY <3>1, <3>2
  <2> QED
    BY <1>2, <2>1, <2>2, FilesKeep, CFileKeep
<1>3. FilesInv /\ CFileInv => FilesKept
  BY FilesSafety, CFileSafety DEF FilesKept
<1> QED
  BY <1>1, <1>2, <1>3, PTL DEF Spec
=============================================================================
