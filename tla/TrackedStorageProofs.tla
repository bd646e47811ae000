------------------------ MODULE TrackedStorageProofs ------------------------
(***************************************************************************)
(* The safety of fc::tracked_storage and its persistence for any keys, any *)
(* sizes, any number of objects and any limit: the tracked size is the sum *)
(* of the objects' sizes, a save that reported success is whole, a load    *)
(* brings in nothing but objects of the last save, and read() returns true *)
(* only when every one of them was considered.                             *)
(*                                                                         *)
(* The first part proves what SizeOf, a fold over a set, has to satisfy:   *)
(* induction is by a minimal counterexample among the subsets of a finite  *)
(* set, ordered by inclusion.  The second part is the inductive invariant. *)
(***************************************************************************)
EXTENDS TrackedStorage, FiniteSetTheorems, SequenceTheorems, TLAPS

-----------------------------------------------------------------------------
(* The sum of the sizes of a finite set of objects. *)

\* The element a fold over a set takes first.
First(s) == CHOOSE x \in s : TRUE

\* The equation of the function that SizeOf(S) applies to S.
Table(g, S) ==
  g = [s \in SUBSET S |-> IF s = {} THEN 0 ELSE First(s).size + g[s \ {First(s)}]]

\* SizeOf is an application of that function.
LEMMA SizeOfIsTable == \A S : SizeOf(S) = (CHOOSE g : Table(g, S))[S]
  BY DEF SizeOf, MapThenSumSet, MapThenFoldSet, Table, First

\* The element a fold takes first is one of the set.
LEMMA FirstIsIn == \A s : s # {} => First(s) \in s
  BY DEF First

\* A set of subsets of a finite set that is not empty has a minimal member.
LEMMA MinimalSubset ==
  ASSUME NEW S, IsFiniteSet(S), NEW B, B \subseteq SUBSET S, B # {}
  PROVE  \E T \in B : \A U \in B : U \subseteq T => U = T
<1>1. IsWellFoundedOn(StrictSubsetOrdering(S), SUBSET S)
  BY FS_StrictSubsetOrderingWellFounded, FS_FiniteSubsetsOfFinite
<1>2. PICK T \in B : \A U \in B : <<U, T>> \notin StrictSubsetOrdering(S)
  BY <1>1, WFMin
<1> SUFFICES ASSUME NEW U \in B, U \subseteq T PROVE U = T
  BY <1>2
<1>3. <<U, T>> \in (SUBSET S) \X (SUBSET S)
  OBVIOUS
<1> QED
  BY <1>2, <1>3 DEF StrictSubsetOrdering

\* Two tables agree where both are defined.
LEMMA TablesAgree ==
  ASSUME NEW S, NEW T, IsFiniteSet(S), NEW g, NEW h, Table(g, S), Table(h, T),
         NEW s, s \subseteq S, s \subseteq T
  PROVE  g[s] = h[s]
<1> DEFINE B == {u \in SUBSET S : u \subseteq T /\ g[u] # h[u]}
<1> SUFFICES B = {}
  OBVIOUS
<1> SUFFICES ASSUME B # {} PROVE FALSE
  OBVIOUS
<1>1. PICK u \in B : \A v \in B : v \subseteq u => v = u
  <2>1. B \subseteq SUBSET S
    OBVIOUS
  <2> HIDE DEF B
  <2> QED
    BY <2>1, MinimalSubset
<1>2. CASE u = {}
  BY <1>2 DEF Table
<1>3. CASE u # {}
  <2> DEFINE v == u \ {First(u)}
  <2>1. First(u) \in u
    BY <1>3, FirstIsIn
  <2>2. g[v] = h[v]
    <3>1. v \subseteq u /\ v # u /\ v \in SUBSET S /\ v \subseteq T
      BY <2>1
    <3>2. v \notin B
      BY <1>1, <3>1
    <3> QED
      BY <3>1, <3>2
  <2>3. g[u] = First(u).size + g[v] /\ h[u] = First(u).size + h[v]
    BY <1>3 DEF Table
  <2> QED
    BY <2>2, <2>3
<1> QED
  BY <1>2, <1>3

\* There is a table for every finite set of objects, and its values are sizes.
LEMMA TableExists ==
  ASSUME NEW S, S \subseteq Obj, IsFiniteSet(S)
  PROVE  \E g \in [SUBSET S -> Nat] : Table(g, S)
<1> DEFINE Has(T) == \E g \in [SUBSET T -> Nat] : Table(g, T)
           B == {T \in SUBSET S : ~Has(T)}
<1> SUFFICES ASSUME B # {} PROVE FALSE
  OBVIOUS
<1>1. PICK T \in B : \A U \in B : U \subseteq T => U = T
  <2>1. B \subseteq SUBSET S
    OBVIOUS
  <2> HIDE DEF B
  <2> QED
    BY <2>1, MinimalSubset
<1>2. \A U \in SUBSET T : U # T => Has(U)
  BY <1>1
<1> DEFINE G == [U \in SUBSET T |-> CHOOSE g \in [SUBSET U -> Nat] : Table(g, U)]
<1>3. \A U \in SUBSET T : U # T => G[U] \in [SUBSET U -> Nat] /\ Table(G[U], U)
  BY <1>2
<1>4. \A U \in SUBSET T : \A V \in SUBSET U : U # T => G[U][V] = G[V][V]
  <2> SUFFICES ASSUME NEW U \in SUBSET T, NEW V \in SUBSET U, U # T PROVE G[U][V] = G[V][V]
    OBVIOUS
  <2>1. V \in SUBSET T /\ V # T
    OBVIOUS
  <2>2. IsFiniteSet(U)
    BY FS_Subset
  <2>3. Table(G[U], U) /\ Table(G[V], V) /\ V \subseteq U /\ V \subseteq V
    BY <1>3, <2>1
  <2> HIDE DEF G
  <2> QED
    BY <2>2, <2>3, TablesAgree
<1> DEFINE Rest(s) == s \ {First(s)}
           h == [s \in SUBSET T |-> IF s = {} THEN 0 ELSE First(s).size + G[Rest(s)][Rest(s)]]
<1> HIDE DEF G
<1>5. \A s \in SUBSET T : s # {} => First(s) \in s /\ Rest(s) \in SUBSET T /\ Rest(s) # T
  BY FirstIsIn
<1>6. \A x \in Obj : x.size \in Nat
  BY StorageAssumption DEF Obj
<1>7. \A s \in SUBSET T : s # {} => First(s).size \in Nat /\ G[Rest(s)][Rest(s)] \in Nat
  <2> SUFFICES ASSUME NEW s \in SUBSET T, s # {}
               PROVE  First(s).size \in Nat /\ G[Rest(s)][Rest(s)] \in Nat
    OBVIOUS
  <2>1. First(s) \in Obj
    BY <1>5
  <2>2. G[Rest(s)] \in [SUBSET Rest(s) -> Nat]
    BY <1>3, <1>5
  <2> QED
    BY <1>6, <2>1, <2>2
<1>8. h \in [SUBSET T -> Nat]
  <2>1. \A s \in SUBSET T : (IF s = {} THEN 0 ELSE First(s).size + G[Rest(s)][Rest(s)]) \in Nat
    <3> HIDE DEF Rest
    <3> QED
      BY <1>7
  <2> QED
    BY <2>1
<1>9. \A s \in SUBSET T : s # T => h[s] = G[s][s]
  <2> SUFFICES ASSUME NEW s \in SUBSET T, s # T PROVE h[s] = G[s][s]
    OBVIOUS
  <2>1. Table(G[s], s)
    BY <1>3
  <2>2. CASE s = {}
    BY <2>1, <2>2 DEF Table
  <2>3. CASE s # {}
    <3>1. G[s][s] = First(s).size + G[s][Rest(s)]
      BY <2>1, <2>3 DEF Table
    <3>2. G[s][Rest(s)] = G[Rest(s)][Rest(s)]
      BY <1>4
    <3> QED
      BY <2>3, <3>1, <3>2
  <2> QED
    BY <2>2, <2>3
<1>10. Table(h, T)
  <2>1. \A s \in SUBSET T : s # {} => h[Rest(s)] = G[Rest(s)][Rest(s)]
    <3> HIDE DEF h, Rest
    <3> QED
      BY <1>5, <1>9
  <2>2. h = [s \in SUBSET T |-> IF s = {} THEN 0 ELSE First(s).size + h[Rest(s)]]
    BY <2>1
  <2> QED
    BY <2>2 DEF Table
<1> QED
  BY <1>1, <1>8, <1>10

\* The function SizeOf(S) applies satisfies its equation.
LEMMA SizeOfTable ==
  ASSUME NEW S, S \subseteq Obj, IsFiniteSet(S)
  PROVE  \E g \in [SUBSET S -> Nat] : Table(g, S) /\ \A T \in SUBSET S : SizeOf(T) = g[T]
<1>1. PICK g \in [SUBSET S -> Nat] : Table(g, S)
  BY TableExists
<1>2. ASSUME NEW T \in SUBSET S PROVE SizeOf(T) = g[T]
  <2>1. IsFiniteSet(T) /\ T \subseteq Obj
    BY FS_Subset
  <2>2. \E h : Table(h, T)
    BY <2>1, TableExists
  <2> DEFINE c == CHOOSE h : Table(h, T)
  <2>3. Table(c, T)
    BY <2>2
  <2>4. SizeOf(T) = c[T]
    BY SizeOfIsTable
  <2> HIDE DEF c
  <2>5. c[T] = g[T]
    BY <1>1, <2>1, <2>3, TablesAgree
  <2> QED
    BY <2>4, <2>5
<1> QED
  BY <1>1, <1>2

\* The empty container takes no memory.
LEMMA SizeOfEmpty == SizeOf({}) = 0
<1>1. PICK g \in [SUBSET {} -> Nat] : Table(g, {}) /\ \A T \in SUBSET {} : SizeOf(T) = g[T]
  BY SizeOfTable, FS_EmptySet
<1> QED
  BY <1>1 DEF Table

\* The size of a set is that of any of its objects and of the rest.
LEMMA SizeOfRemove ==
  ASSUME NEW S, S \subseteq Obj, IsFiniteSet(S), NEW x \in S
  PROVE  /\ SizeOf(S) \in Nat /\ SizeOf(S \ {x}) \in Nat
         /\ SizeOf(S) = x.size + SizeOf(S \ {x})
<1>1. PICK g \in [SUBSET S -> Nat] : Table(g, S) /\ \A T \in SUBSET S : SizeOf(T) = g[T]
  BY SizeOfTable
<1>2. \A y \in S : y.size \in Nat
  BY StorageAssumption DEF Obj
<1> DEFINE B == {T \in SUBSET S : \E y \in T : g[T] # y.size + g[T \ {y}]}
<1>3. B = {}
  <2> SUFFICES ASSUME B # {} PROVE FALSE
    OBVIOUS
  <2>1. PICK T \in B : \A U \in B : U \subseteq T => U = T
    <3>1. B \subseteq SUBSET S
      OBVIOUS
    <3> HIDE DEF B
    <3> QED
      BY <3>1, MinimalSubset
  <2>2. PICK y \in T : g[T] # y.size + g[T \ {y}]
    OBVIOUS
  <2> DEFINE z == First(T)
  <2>3. z \in T
    BY FirstIsIn
  <2>4. g[T] = z.size + g[T \ {z}]
    BY <1>1 DEF Table
  <2> HIDE DEF z
  <2>5. y # z
    BY <2>2, <2>4
  <2>6. T \ {z} \notin B /\ T \ {y} \notin B
    BY <2>1, <2>3
  <2>7. g[T \ {z}] = y.size + g[(T \ {z}) \ {y}]
    BY <2>5, <2>6
  <2>8. g[T \ {y}] = z.size + g[(T \ {y}) \ {z}]
    BY <2>3, <2>5, <2>6
  <2>9. (T \ {z}) \ {y} = (T \ {y}) \ {z}
    OBVIOUS
  <2> DEFINE r == g[(T \ {y}) \ {z}]
  <2>10. r \in Nat /\ y.size \in Nat /\ z.size \in Nat
    BY <1>2, <2>3
  <2>11. g[T] = z.size + (y.size + r) /\ g[T \ {y}] = z.size + r
    BY <2>4, <2>7, <2>8, <2>9
  <2> HIDE DEF r
  <2> QED
    BY <2>2, <2>10, <2>11
<1>4. S \notin B
  BY <1>3
<1>5. g[S] = x.size + g[S \ {x}]
  BY <1>4
<1> QED
  BY <1>1, <1>5

\* What a new object adds.
LEMMA SizeOfAdd ==
  ASSUME NEW S, S \subseteq Obj, IsFiniteSet(S), NEW x \in Obj, x \notin S
  PROVE  SizeOf(S \cup {x}) = SizeOf(S) + x.size
<1>1. IsFiniteSet(S \cup {x}) /\ S \cup {x} \subseteq Obj /\ (S \cup {x}) \ {x} = S
  BY FS_AddElement
<1>2. x.size \in Nat
  BY StorageAssumption DEF Obj
<1> DEFINE T == S \cup {x}
<1>3. T \subseteq Obj /\ IsFiniteSet(T) /\ x \in T /\ T \ {x} = S
  BY <1>1
<1> HIDE DEF T
<1>4. SizeOf(T) = x.size + SizeOf(T \ {x}) /\ SizeOf(T \ {x}) \in Nat
  BY <1>3, SizeOfRemove
<1>5. SizeOf(T) = x.size + SizeOf(S) /\ SizeOf(S) \in Nat
  BY <1>3, <1>4, Zenon
<1>6. SizeOf(T) = SizeOf(S) + x.size
  BY <1>2, <1>5
<1> QED
  BY <1>6 DEF T
-----------------------------------------------------------------------------
(* The inductive invariant. *)

\* No two objects share a key in either unique index.
Unique(S) == \A x, y \in S : x.key = y.key \/ x.uniq = y.uniq => x = y

\* A container holds the objects of S and tracks the size n.
Holds(S, n) == S \subseteq Obj /\ IsFiniteSet(S) /\ Unique(S) /\ n = SizeOf(S)

\* The words of d are the first of w.
StartsWith(d, w) == Len(d) <= Len(w) /\ \A i \in 1..Len(d) : d[i] = w[i]

\* d, b and t, one after the other, are w.
Splits(d, b, t, w) ==
  /\ Len(d) + Len(b) + Len(t) = Len(w)
  /\ \A i \in 1..Len(d) : d[i] = w[i]
  /\ \A i \in 1..Len(b) : b[i] = w[Len(d) + i]
  /\ \A i \in 1..Len(t) : t[i] = w[Len(d) + Len(b) + i]

\* The container, and the one the last save was made of.
Containers == Holds(_index, _memory_size) /\ Unique(saved) /\ IsFiniteSet(saved)

\* While a save runs, what the kernel has, what stdio holds and what is still
\* to be written are together the file of the container as the save began.
SaveGoes ==
  /\ todo \in Seq(Words)
  /\ step \in {"saving", "flushed"} =>
       /\ disk \in Seq(Words)
       /\ \E order \in SetToSeqs(saved) : Splits(disk, buf, todo, FileOf(order))
  /\ step = "flushed" => buf = << >> /\ todo = << >>

\* A file is another program's or version's, or starts like the last save.
Foreign(d) ==
  /\ Len(d) >= 2
  /\ d[1].n # magic_number \/ d[2].n \notin min_supported_version..max_supported_version

\* Nothing else is ever on the disk.
DiskKnown ==
  \/ disk = NoFile
  \/ /\ disk \in Seq(Words)
     /\ Foreign(disk) \/ \E order \in SetToSeqs(saved) : StartsWith(disk, FileOf(order))

\* While a load runs, every object it has passed is in the container or was
\* refused for one that was there before, and it has added no others.
LoadGoes ==
  step = "loading" =>
    /\ disk \in Seq(Words) /\ result = "none"
    /\ base \subseteq _index /\ _index \subseteq base \cup saved
    /\ \E order \in SetToSeqs(saved) :
         /\ StartsWith(disk, FileOf(order))
         /\ pos \in 3..Len(disk) /\ left = Len(order) - (pos - 3)
         /\ \A i \in 1..(pos - 3) : order[i] \in _index \/ Clash(base, order[i])

\* The inductive invariant.
StorageInv == TypeOK /\ Containers /\ SaveGoes /\ DiskKnown /\ LoadGoes /\ LimitKept

-----------------------------------------------------------------------------
(* Containers. *)

\* The empty container tracks size zero.
LEMMA HoldsNothing == Holds({}, 0)
  BY SizeOfEmpty, FS_EmptySet DEF Holds, Unique

\* An object that collides with none goes in with its size.
LEMMA HoldsMore ==
  ASSUME NEW S, NEW n, Holds(S, n), NEW o \in Obj, ~Clash(S, o)
  PROVE  Holds(S \cup {o}, n + o.size)
<1>1. o \notin S
  BY DEF Clash
<1>2. SizeOf(S \cup {o}) = n + o.size
  BY <1>1, SizeOfAdd DEF Holds
<1>3. IsFiniteSet(S \cup {o})
  BY FS_AddElement DEF Holds
<1>4. Unique(S \cup {o})
  BY DEF Holds, Unique, Clash
<1> QED
  BY <1>2, <1>3, <1>4 DEF Holds

\* An object goes out with its size.
LEMMA HoldsLess ==
  ASSUME NEW S, NEW n, Holds(S, n), NEW x \in S
  PROVE  Holds(S \ {x}, n - x.size)
<1>1. SizeOf(S) \in Nat /\ SizeOf(S \ {x}) \in Nat /\ SizeOf(S) = x.size + SizeOf(S \ {x})
  BY SizeOfRemove DEF Holds
<1>2. x.size \in Nat
  BY StorageAssumption DEF Holds, Obj
<1>3. SizeOf(S \ {x}) = n - x.size
  BY <1>1, <1>2 DEF Holds
<1>4. IsFiniteSet(S \ {x})
  BY FS_RemoveElement DEF Holds
<1> QED
  BY <1>3, <1>4 DEF Holds, Unique

\* The size a container tracks is a number.
LEMMA HoldsNat == \A S, n : Holds(S, n) => n \in Nat
<1> SUFFICES ASSUME NEW S, NEW n, Holds(S, n) PROVE n \in Nat
  OBVIOUS
<1>1. CASE S = {}
  BY <1>1, SizeOfEmpty DEF Holds
<1>2. CASE S # {}
  BY <1>2, SizeOfRemove DEF Holds
<1> QED
  BY <1>1, <1>2

\* insert() keeps a container one.
LEMMA InsertHolds ==
  ASSUME NEW o \in Obj, Holds(_index, _memory_size), insert(o)
  PROVE  Holds(_index, _memory_size)'
<1>1. CASE Clash(_index, o)
  BY <1>1 DEF insert, storeVars, Holds, Unique
<1>2. CASE ~Clash(_index, o)
  <2>1. _index' = _index \cup {o} /\ _memory_size' = _memory_size + o.size
    BY <1>2 DEF insert
  <2> QED
    BY <1>2, <2>1, HoldsMore
<1> QED
  BY <1>1, <1>2

-----------------------------------------------------------------------------
(* Files. *)

\* The words of the file of a container whose objects come in some order.
LEMMA FileWords ==
  ASSUME NEW order \in Seq(Obj)
  PROVE  /\ FileOf(order) \in Seq(Words) /\ Len(FileOf(order)) = Len(order) + 3
         /\ FileOf(order)[1].n = magic_number /\ FileOf(order)[2].n = current_version
         /\ FileOf(order)[3].n = Len(order)
         /\ \A i \in 1..Len(order) : FileOf(order)[i + 3].o = order[i]
<1> DEFINE items == [i \in DOMAIN order |-> Word("item", 0, order[i])]
           hd == Header(magic_number, current_version)
           ct == <<Word("count", Len(order), NoObj)>>
<1>1. Len(order) \in Nat /\ DOMAIN order = 1..Len(order) /\ \A i \in 1..Len(order) : order[i] \in Obj
  BY LenProperties, ElementOfSeq
<1>2. items \in Seq(Words) /\ Len(items) = Len(order)
      /\ \A i \in 1..Len(order) : items[i].o = order[i]
  <2>1. \A i \in 1..Len(order) : Word("item", 0, order[i]) \in Words
    BY <1>1 DEF Word, Words
  <2>2. items \in [1..Len(order) -> Words]
    BY <1>1, <2>1
  <2>3. items \in Seq(Words) /\ Len(items) = Len(order)
    BY <1>1, <2>2
  <2>4. \A i \in 1..Len(order) : items[i].o = order[i]
    BY <1>1 DEF Word
  <2> QED
    BY <2>3, <2>4
<1>3. ct \in Seq(Words) /\ Len(ct) = 1 /\ ct[1].n = Len(order)
  BY <1>1 DEF Word, Words
<1>4. hd \in Seq(Words) /\ Len(hd) = 2 /\ hd[1].n = magic_number /\ hd[2].n = current_version
  BY DEF Header, Word, Words, magic_number, current_version
<1>5. FileOf(order) = hd \o (ct \o items)
  BY DEF FileOf, Content
<1> HIDE DEF items, hd, ct
<1>6. /\ ct \o items \in Seq(Words) /\ Len(ct \o items) = Len(order) + 1
      /\ (ct \o items)[1] = ct[1]
      /\ \A i \in 1..Len(order) : (ct \o items)[i + 1] = items[i]
  <2>1. /\ ct \o items \in Seq(Words) /\ Len(ct \o items) = 1 + Len(order)
        /\ \A i \in 1..(1 + Len(order)) :
             (ct \o items)[i] = IF i <= 1 THEN ct[i] ELSE items[i - 1]
    <3>1. ct \in Seq(Words) /\ items \in Seq(Words)
      BY <1>2, <1>3
    <3>2. /\ ct \o items \in Seq(Words) /\ Len(ct \o items) = Len(ct) + Len(items)
          /\ \A i \in 1..(Len(ct) + Len(items)) :
               (ct \o items)[i] = IF i <= Len(ct) THEN ct[i] ELSE items[i - Len(ct)]
      BY <3>1, ConcatProperties
    <3>3. Len(ct) = 1 /\ Len(items) = Len(order)
      BY <1>2, <1>3
    <3> QED
      BY <3>2, <3>3
  <2>2. ASSUME NEW i \in 1..Len(order) PROVE (ct \o items)[i + 1] = items[i]
    <3>1. i + 1 \in 1..(1 + Len(order)) /\ ~(i + 1 <= 1) /\ (i + 1) - 1 = i
      BY <1>1
    <3> QED
      BY <2>1, <3>1
  <2> QED
    BY <1>1, <2>1, <2>2
<1> DEFINE c == ct \o items
<1>7. c \in Seq(Words) /\ Len(c) = Len(order) + 1
  BY <1>6
<1> HIDE DEF c
<1>8. /\ hd \o c \in Seq(Words) /\ Len(hd \o c) = Len(order) + 3
      /\ (hd \o c)[1] = hd[1] /\ (hd \o c)[2] = hd[2] /\ (hd \o c)[3] = c[1]
      /\ \A i \in 1..Len(order) : (hd \o c)[i + 3] = c[i + 1]
  <2>1. /\ hd \o c \in Seq(Words) /\ Len(hd \o c) = 2 + (Len(order) + 1)
        /\ \A i \in 1..(2 + (Len(order) + 1)) :
             (hd \o c)[i] = IF i <= 2 THEN hd[i] ELSE c[i - 2]
    <3>1. hd \in Seq(Words) /\ c \in Seq(Words)
      BY <1>4, <1>7
    <3>2. /\ hd \o c \in Seq(Words) /\ Len(hd \o c) = Len(hd) + Len(c)
          /\ \A i \in 1..(Len(hd) + Len(c)) :
               (hd \o c)[i] = IF i <= Len(hd) THEN hd[i] ELSE c[i - Len(hd)]
      BY <3>1, ConcatProperties
    <3>3. Len(hd) = 2 /\ Len(c) = Len(order) + 1
      BY <1>4, <1>7
    <3> QED
      BY <3>2, <3>3
  <2>2. ASSUME NEW i \in 1..Len(order) PROVE (hd \o c)[i + 3] = c[i + 1]
    <3>1. i + 3 \in 1..(2 + (Len(order) + 1)) /\ ~(i + 3 <= 2) /\ (i + 3) - 2 = i + 1
      BY <1>1
    <3> QED
      BY <2>1, <3>1
  <2> QED
    BY <1>1, <2>1, <2>2
<1> QED
  BY <1>1, <1>2, <1>3, <1>4, <1>5, <1>6, <1>8 DEF c

\* An order of a finite set of objects lists each of them.
LEMMA OrderLists ==
  ASSUME NEW S, S \subseteq Obj, IsFiniteSet(S), NEW order \in SetToSeqs(S)
  PROVE  /\ order \in Seq(Obj) /\ \A i \in 1..Len(order) : order[i] \in S
         /\ \A x \in S : \E i \in 1..Len(order) : order[i] = x
<1> DEFINE n == Cardinality(S)
<1>1. n \in Nat
  BY FS_CardinalityType
<1>2. order \in [1..n -> S] /\ \A i, j \in 1..n : i # j => order[i] # order[j]
  BY DEF SetToSeqs
<1>3. order \in Seq(Obj) /\ Len(order) = n
  <2>1. order \in [1..n -> Obj]
    BY <1>2
  <2> HIDE DEF n
  <2> QED
    BY <1>1, <2>1
<1>4. order \in Injection(1..n, S)
  BY <1>2 DEF Injection, IsInjective
<1>5. Cardinality(1..n) = n
  <2> HIDE DEF n
  <2> QED
    BY <1>1, FS_Interval
<1>6. order \in Surjection(1..n, S)
  <2>1. Cardinality(1..n) = Cardinality(S) <=> order \in Surjection(1..n, S)
    BY <1>4, FS_Injection
  <2> QED
    BY <1>5, <2>1
<1> QED
  BY <1>2, <1>3, <1>6 DEF Surjection

\* Words that split a file begin like it.
LEMMA SplitStarts ==
  ASSUME NEW d \in Seq(Words), NEW b \in Seq(Words), NEW t \in Seq(Words), NEW w \in Seq(Words),
         Splits(d, b, t, w)
  PROVE  StartsWith(d, w)
  BY LenProperties DEF Splits, StartsWith

\* k words more of the buffer on the disk: it still starts like the file.
LEMMA SpillStarts ==
  ASSUME NEW d \in Seq(Words), NEW b \in Seq(Words), NEW t \in Seq(Words), NEW w \in Seq(Words),
         Splits(d, b, t, w), NEW k \in 0..Len(b)
  PROVE  d \o SubSeq(b, 1, k) \in Seq(Words) /\ StartsWith(d \o SubSeq(b, 1, k), w)
<1> DEFINE s == SubSeq(b, 1, k)
<1>1. Len(d) \in Nat /\ Len(b) \in Nat /\ Len(t) \in Nat /\ k \in Nat /\ k <= Len(b)
  BY LenProperties
<1>2. \A i \in 1..k : b[i] \in Words
  BY <1>1, ElementOfSeq
<1>3. s \in Seq(Words) /\ Len(s) = k /\ \A i \in 1..k : s[i] = b[i]
  BY <1>1, <1>2, SubSeqProperties
<1> HIDE DEF s
<1>4. /\ d \o s \in Seq(Words) /\ Len(d \o s) = Len(d) + k
      /\ \A i \in 1..(Len(d) + k) : (d \o s)[i] = IF i <= Len(d) THEN d[i] ELSE s[i - Len(d)]
  BY <1>3, ConcatProperties
<1>5. \A i \in 1..(Len(d) + k) : (d \o s)[i] = w[i]
  <2>0. \A i \in 1..(Len(d) + k) : i <= Len(d) \/ i > Len(d)
    BY <1>1
  <2> SUFFICES ASSUME NEW i \in 1..(Len(d) + k) PROVE (d \o s)[i] = w[i]
    OBVIOUS
  <2>1. CASE i <= Len(d)
    BY <1>1, <1>4, <2>1 DEF Splits
  <2>2. CASE i > Len(d)
    <3>1. i - Len(d) \in 1..k /\ i = Len(d) + (i - Len(d))
      BY <1>1, <2>2
    <3>2. (d \o s)[i] = b[i - Len(d)]
      BY <1>1, <1>3, <1>4, <2>2, <3>1
    <3>3. \A j \in 1..Len(b) : b[j] = w[Len(d) + j]
      BY DEF Splits
    <3> DEFINE j == i - Len(d)
    <3>4. j \in 1..Len(b)
      BY <1>1, <3>1
    <3>5. Len(d) + j = i /\ (d \o s)[i] = b[j]
      BY <3>1, <3>2
    <3> HIDE DEF j
    <3>6. b[j] = w[Len(d) + j]
      BY <3>3, <3>4
    <3> QED
      BY <3>5, <3>6
  <2> QED
    BY <2>0, <2>1, <2>2
<1>6. StartsWith(d \o s, w)
  BY <1>1, <1>4, <1>5 DEF StartsWith, Splits
<1> QED
  BY <1>4, <1>6 DEF s

\* fwrite takes the next word.
LEMMA WriteSplits ==
  ASSUME NEW d \in Seq(Words), NEW b \in Seq(Words), NEW t \in Seq(Words), NEW w,
         Splits(d, b, t, w), t # << >>
  PROVE  Append(b, Head(t)) \in Seq(Words) /\ Tail(t) \in Seq(Words)
         /\ Splits(d, Append(b, Head(t)), Tail(t), w)
<1>1. Len(d) \in Nat /\ Len(b) \in Nat /\ Len(t) \in Nat \ {0}
  BY LenProperties, EmptySeq
<1>2. /\ Head(t) \in Words /\ Tail(t) \in Seq(Words) /\ Len(Tail(t)) = Len(t) - 1
      /\ \A i \in 1..Len(Tail(t)) : Tail(t)[i] = t[i + 1]
  BY HeadTailProperties
<1>3. Head(t) = t[1]
  BY <1>1
<1>4. /\ Append(b, Head(t)) \in Seq(Words) /\ Len(Append(b, Head(t))) = Len(b) + 1
      /\ \A i \in 1..Len(b) : Append(b, Head(t))[i] = b[i]
      /\ Append(b, Head(t))[Len(b) + 1] = Head(t)
  BY <1>2, AppendProperties
<1> DEFINE a == Append(b, Head(t))
           r == Tail(t)
<1>5. /\ a \in Seq(Words) /\ Len(a) = Len(b) + 1 /\ \A i \in 1..Len(b) : a[i] = b[i]
      /\ a[Len(b) + 1] = t[1]
      /\ r \in Seq(Words) /\ Len(r) = Len(t) - 1 /\ \A i \in 1..Len(r) : r[i] = t[i + 1]
  BY <1>2, <1>3, <1>4
<1> HIDE DEF a, r
<1>6. \A i \in 1..Len(a) : a[i] = w[Len(d) + i]
  <2> SUFFICES ASSUME NEW i \in 1..Len(a) PROVE a[i] = w[Len(d) + i]
    OBVIOUS
  <2>1. i \in 1..Len(b) \/ i = Len(b) + 1
    BY <1>1, <1>5
  <2>2. CASE i \in 1..Len(b)
    BY <1>5, <2>2 DEF Splits
  <2>3. CASE i = Len(b) + 1
    <3>1. t[1] = w[Len(d) + Len(b) + 1]
      BY <1>1 DEF Splits
    <3>2. Len(d) + Len(b) + 1 = Len(d) + i
      BY <1>1, <2>3
    <3> QED
      BY <1>5, <2>3, <3>1, <3>2
  <2> QED
    BY <2>1, <2>2, <2>3
<1>7. \A i \in 1..Len(r) : r[i] = w[Len(d) + Len(a) + i]
  <2> SUFFICES ASSUME NEW i \in 1..Len(r) PROVE r[i] = w[Len(d) + Len(a) + i]
    OBVIOUS
  <2>1. i + 1 \in 1..Len(t) /\ Len(d) + Len(a) + i = Len(d) + Len(b) + (i + 1)
    BY <1>1, <1>5
  <2> QED
    BY <1>5, <2>1 DEF Splits
<1>8. Len(d) + Len(a) + Len(r) = Len(w)
  <2>1. Len(d) + Len(b) + Len(t) = Len(w)
    BY DEF Splits
  <2>2. Len(a) = Len(b) + 1 /\ Len(r) = Len(t) - 1
    BY <1>5
  <2> QED
    BY <1>1, <2>1, <2>2
<1>9. Splits(d, a, r, w)
  BY <1>6, <1>7, <1>8 DEF Splits
<1> QED
  BY <1>5, <1>9 DEF a, r

\* A word goes from stdio to the kernel.
LEMMA SpillSplits ==
  ASSUME NEW d \in Seq(Words), NEW b \in Seq(Words), NEW t \in Seq(Words), NEW w,
         Splits(d, b, t, w), b # << >>
  PROVE  Append(d, Head(b)) \in Seq(Words) /\ Tail(b) \in Seq(Words)
         /\ Splits(Append(d, Head(b)), Tail(b), t, w)
<1>1. Len(d) \in Nat /\ Len(t) \in Nat /\ Len(b) \in Nat \ {0}
  BY LenProperties, EmptySeq
<1>2. /\ Head(b) \in Words /\ Tail(b) \in Seq(Words) /\ Len(Tail(b)) = Len(b) - 1
      /\ \A i \in 1..Len(Tail(b)) : Tail(b)[i] = b[i + 1]
  BY HeadTailProperties
<1>3. Head(b) = b[1]
  BY <1>1
<1>4. /\ Append(d, Head(b)) \in Seq(Words) /\ Len(Append(d, Head(b))) = Len(d) + 1
      /\ \A i \in 1..Len(d) : Append(d, Head(b))[i] = d[i]
      /\ Append(d, Head(b))[Len(d) + 1] = Head(b)
  BY <1>2, AppendProperties
<1> DEFINE a == Append(d, Head(b))
           r == Tail(b)
<1>5. /\ a \in Seq(Words) /\ Len(a) = Len(d) + 1 /\ \A i \in 1..Len(d) : a[i] = d[i]
      /\ a[Len(d) + 1] = b[1]
      /\ r \in Seq(Words) /\ Len(r) = Len(b) - 1 /\ \A i \in 1..Len(r) : r[i] = b[i + 1]
  BY <1>2, <1>3, <1>4
<1> HIDE DEF a, r
<1>6. \A i \in 1..Len(a) : a[i] = w[i]
  <2> SUFFICES ASSUME NEW i \in 1..Len(a) PROVE a[i] = w[i]
    OBVIOUS
  <2>1. i \in 1..Len(d) \/ i = Len(d) + 1
    BY <1>1, <1>5
  <2>2. CASE i \in 1..Len(d)
    BY <1>5, <2>2 DEF Splits
  <2>3. CASE i = Len(d) + 1
    <3>1. b[1] = w[Len(d) + 1]
      BY <1>1 DEF Splits
    <3> QED
      BY <1>5, <2>3, <3>1
  <2> QED
    BY <2>1, <2>2, <2>3
<1>7. \A i \in 1..Len(r) : r[i] = w[Len(a) + i]
  <2> SUFFICES ASSUME NEW i \in 1..Len(r) PROVE r[i] = w[Len(a) + i]
    OBVIOUS
  <2>1. i + 1 \in 1..Len(b) /\ Len(a) + i = Len(d) + (i + 1)
    BY <1>1, <1>5
  <2> QED
    BY <1>5, <2>1 DEF Splits
<1>8. Len(a) + Len(r) = Len(d) + Len(b)
  BY <1>1, <1>5
<1>9. Len(a) \in Nat /\ Len(r) \in Nat
  BY <1>1, <1>5
<1>10. Splits(a, r, t, w)
  BY <1>1, <1>6, <1>7, <1>8, <1>9 DEF Splits
<1> QED
  BY <1>5, <1>10 DEF a, r

\* With nothing left to write, the disk and the buffer are the file.
LEMMA FlushSplits ==
  ASSUME NEW d \in Seq(Words), NEW b \in Seq(Words), NEW w \in Seq(Words), Splits(d, b, << >>, w)
  PROVE  d \o b = w
<1>1. Len(d) \in Nat /\ Len(b) \in Nat /\ Len(<< >>) = 0
  BY LenProperties, EmptySeq
<1>2. b = SubSeq(b, 1, Len(b))
  BY SubSeqFull
<1>3. Len(b) \in 0..Len(b) /\ << >> \in Seq(Words)
  BY <1>1
<1>4. d \o SubSeq(b, 1, Len(b)) \in Seq(Words) /\ StartsWith(d \o SubSeq(b, 1, Len(b)), w)
  BY <1>3, SpillStarts
<1>5. d \o b \in Seq(Words) /\ StartsWith(d \o b, w)
  BY <1>2, <1>4
<1>6. Len(d \o b) = Len(d) + Len(b)
  BY ConcatProperties
<1>7. Len(d \o b) = Len(w)
  BY <1>1, <1>6 DEF Splits
<1> QED
  BY <1>5, <1>7, SeqEqual DEF StartsWith

-----------------------------------------------------------------------------
(* Steps. *)

\* The file of an order of the objects to save.
LEMMA SavedFile ==
  ASSUME TypeOK, Containers, NEW order \in SetToSeqs(saved)
  PROVE  /\ order \in Seq(Obj) /\ FileOf(order) \in Seq(Words)
         /\ \A i \in 1..Len(order) : order[i] \in saved
         /\ \A x \in saved : \E i \in 1..Len(order) : order[i] = x
<1>1. saved \subseteq Obj /\ IsFiniteSet(saved)
  BY DEF TypeOK, Containers
<1> QED
  BY <1>1, OrderLists, FileWords

\* A call on the container between saves and loads.
LEMMA StoreStep ==
  ASSUME StorageInv, step = "idle", Holds(_index, _memory_size)',
         UNCHANGED <<fileVars, loadVars, step, result>>
  PROVE  StorageInv'
<1>1. _index' \in SUBSET Obj /\ _memory_size' \in Nat
  BY HoldsNat DEF Holds
<1>2. UNCHANGED <<disk, buf, todo, saved, pos, left, max_memory, base, step, result>>
  BY DEF fileVars, loadVars
<1>3. TypeOK'
  BY <1>1, <1>2 DEF StorageInv, TypeOK
<1>4. Containers'
  BY <1>2 DEF StorageInv, Containers, Unique
<1>5. SaveGoes'
  BY <1>2 DEF StorageInv, SaveGoes
<1>6. DiskKnown'
  BY <1>2 DEF StorageInv, DiskKnown
<1>7. LoadGoes' /\ LimitKept'
  BY <1>2 DEF LoadGoes, LimitKept
<1> QED
  BY <1>3, <1>4, <1>5, <1>6, <1>7 DEF StorageInv

\* A step of a save, or one that replaces the file.
LEMMA SaveStep ==
  ASSUME StorageInv, UNCHANGED <<storeVars, loadVars>>, saved' \in {saved, _index, {}},
         step' \in {"idle", "saving", "flushed"}, buf' \in Seq(Words),
         result' \in {result, "none", "threw", "saved"}, SaveGoes', DiskKnown'
  PROVE  StorageInv'
<1>1. UNCHANGED <<_index, _memory_size, pos, left, max_memory, base>>
  BY DEF storeVars, loadVars
<1>2. _index \subseteq Obj /\ Unique(_index) /\ IsFiniteSet(_index)
  BY DEF StorageInv, Containers, Holds
<1>3. saved' \in SUBSET Obj /\ Unique(saved') /\ IsFiniteSet(saved')
  BY <1>2, FS_EmptySet DEF StorageInv, TypeOK, Containers, Unique
<1>4. TypeOK'
  BY <1>1, <1>3 DEF StorageInv, TypeOK
<1>5. Containers'
  BY <1>1, <1>3 DEF StorageInv, Containers, Holds
<1>6. LoadGoes' /\ LimitKept'
  BY DEF LoadGoes, LimitKept
<1> QED
  BY <1>4, <1>5, <1>6 DEF StorageInv
\* The calls on the container.
LEMMA ContainerStep ==
  ASSUME StorageInv,
         \/ \E o \in Obj : Insert(o)
         \/ \E x \in _index : ModifyThrows(x) \/ \E o \in Obj : Modify(x, o)
         \/ \E k \in Key : EraseKey(k)
  PROVE  StorageInv'
<1>1. Holds(_index, _memory_size)
  BY DEF StorageInv, Containers
<1>2. ASSUME NEW o \in Obj, Insert(o) PROVE StorageInv'
  <2>1. Holds(_index, _memory_size)'
    BY <1>1, <1>2, InsertHolds DEF Insert
  <2> QED
    BY <1>2, <2>1, StoreStep DEF Insert
<1>3. ASSUME NEW x \in _index, ModifyThrows(x) PROVE StorageInv'
  <2>1. _index' = _index \ {x} /\ _memory_size' = _memory_size - x.size
    BY <1>3 DEF ModifyThrows
  <2>2. Holds(_index, _memory_size)'
    BY <1>1, <2>1, HoldsLess
  <2> QED
    BY <1>3, <2>2, StoreStep DEF ModifyThrows
<1>4. ASSUME NEW x \in _index, NEW o \in Obj, Modify(x, o) PROVE StorageInv'
  <2>1. Holds(_index \ {x}, _memory_size - x.size)
    BY <1>1, HoldsLess
  <2>2. Holds(_index, _memory_size)'
    <3>1. CASE Clash(_index \ {x}, o)
      <4>1. _index' = _index \ {x} /\ _memory_size' = _memory_size - x.size
        BY <1>4, <3>1 DEF Modify
      <4> QED
        BY <2>1, <4>1
    <3>2. CASE ~Clash(_index \ {x}, o)
      <4>1. _index' = (_index \ {x}) \cup {o} /\ _memory_size' = (_memory_size - x.size) + o.size
        BY <1>4, <3>2 DEF Modify
      <4>2. Holds((_index \ {x}) \cup {o}, (_memory_size - x.size) + o.size)
        BY <2>1, <3>2, HoldsMore
      <4> QED
        BY <4>1, <4>2
    <3> QED
      BY <3>1, <3>2
  <2> QED
    BY <1>4, <2>2, StoreStep DEF Modify
<1>5. ASSUME NEW k \in Key, EraseKey(k) PROVE StorageInv'
  <2> DEFINE found == {x \in _index : x.key = k}
  <2>1. _index' = _index \ found /\ _memory_size' = _memory_size - SizeOf(found)
    BY <1>5 DEF EraseKey
  <2>2. Holds(_index, _memory_size)'
    <3>1. CASE found = {}
      <4>1. _index' = _index /\ _memory_size' = _memory_size - 0 /\ _memory_size \in Nat
        BY <2>1, <3>1, SizeOfEmpty DEF StorageInv, TypeOK
      <4>2. _memory_size' = _memory_size
        BY <4>1
      <4> QED
        BY <1>1, <4>1, <4>2
    <3>2. CASE found # {}
      <4>1. PICK x \in _index : x.key = k
        BY <3>2
      <4>2. found = {x}
        BY <1>1, <4>1 DEF Holds, Unique
      <4>3. SizeOf({x}) = x.size
        <5>1. x \in Obj /\ x.size \in Nat
          BY <1>1, StorageAssumption DEF Holds, Obj
        <5>2. SizeOf({} \cup {x}) = SizeOf({}) + x.size
          BY <5>1, SizeOfAdd, FS_EmptySet
        <5>3. {} \cup {x} = {x}
          OBVIOUS
        <5>4. SizeOf({x}) = 0 + x.size
          BY <5>2, <5>3, SizeOfEmpty, Zenon
        <5> QED
          BY <5>1, <5>4
      <4>4. _index' = _index \ {x} /\ _memory_size' = _memory_size - x.size
        BY <2>1, <4>2, <4>3
      <4> QED
        BY <1>1, <4>4, HoldsLess
    <3> QED
      BY <3>1, <3>2
  <2> QED
    BY <1>5, <2>2, StoreStep DEF EraseKey
<1> QED
  BY <1>2, <1>3, <1>4, <1>5

\* A save begins: nothing of it is on the disk.
LEMMA SaveBeginStep ==
  ASSUME StorageInv, NEW order \in SetToSeqs(_index), SaveBegin(order)
  PROVE  StorageInv'
<1>1. order \in Seq(Obj)
  BY OrderLists DEF StorageInv, Containers, Holds
<1>2. FileOf(order) \in Seq(Words)
  BY <1>1, FileWords
<1>3. << >> \in Seq(Words) /\ Len(<< >>) = 0 /\ Len(FileOf(order)) \in Nat
  BY <1>2, EmptySeq, LenProperties
<1>4. /\ disk' = << >> /\ buf' = << >> /\ todo' = FileOf(order) /\ saved' = _index /\ step' = "saving"
      /\ result' = result
  BY DEF SaveBegin
<1>5. Splits(<< >>, << >>, FileOf(order), FileOf(order)) /\ StartsWith(<< >>, FileOf(order))
  BY <1>3 DEF Splits, StartsWith
<1>6. order \in SetToSeqs(saved')
  BY <1>4
<1>7. SaveGoes'
  BY <1>2, <1>3, <1>4, <1>5, <1>6 DEF SaveGoes
<1>8. DiskKnown'
  BY <1>3, <1>4, <1>5, <1>6 DEF DiskKnown
<1> QED
  BY <1>3, <1>4, <1>7, <1>8, SaveStep DEF SaveBegin

\* The steps of a save that goes well.
LEMMA SaveGoesOn ==
  ASSUME StorageInv, WriteNext \/ Spill \/ Flush
  PROVE  StorageInv'
<1>1. TypeOK /\ Containers /\ buf \in Seq(Words) /\ todo \in Seq(Words) /\ disk \in Seq(Words)
  BY DEF StorageInv, TypeOK, SaveGoes, WriteNext, Spill, Flush
<1>2. PICK order \in SetToSeqs(saved) : Splits(disk, buf, todo, FileOf(order))
  BY DEF StorageInv, SaveGoes, WriteNext, Spill, Flush
<1> DEFINE w == FileOf(order)
<1>3. w \in Seq(Words)
  BY <1>1, SavedFile
<1>4. Splits(disk, buf, todo, w)
  BY <1>2
<1> HIDE DEF w
<1>5. CASE WriteNext
  <2>1. buf' \in Seq(Words) /\ todo' \in Seq(Words) /\ Splits(disk, buf', todo', w)
    BY <1>1, <1>4, <1>5, WriteSplits DEF WriteNext
  <2>2. UNCHANGED <<disk, saved, step, result>> /\ step = "saving"
    BY <1>5 DEF WriteNext
  <2>3. SaveGoes'
    BY <1>1, <2>1, <2>2 DEF SaveGoes, w
  <2>4. DiskKnown'
    BY <2>2 DEF StorageInv, DiskKnown
  <2> QED
    BY <1>5, <2>1, <2>2, <2>3, <2>4, SaveStep DEF WriteNext
<1>6. CASE Spill
  <2>1. disk' \in Seq(Words) /\ buf' \in Seq(Words) /\ Splits(disk', buf', todo, w)
    BY <1>1, <1>4, <1>6, SpillSplits DEF Spill
  <2>2. UNCHANGED <<todo, saved, step, result>> /\ step = "saving"
    BY <1>6 DEF Spill
  <2>3. SaveGoes'
    BY <1>1, <2>1, <2>2 DEF SaveGoes, w
  <2>4. StartsWith(disk', w)
    BY <1>1, <1>3, <2>1, SplitStarts
  <2>5. DiskKnown'
    BY <2>1, <2>2, <2>4 DEF DiskKnown, w
  <2> QED
    BY <1>6, <2>1, <2>2, <2>3, <2>5, SaveStep DEF Spill
<1>7. CASE Flush
  <2>1. disk' = disk \o buf /\ buf' = << >> /\ todo = << >> /\ step' = "flushed"
        /\ UNCHANGED <<todo, saved, result>>
    BY <1>7 DEF Flush
  <2>2. disk' = w
    BY <1>1, <1>3, <1>4, <2>1, FlushSplits
  <2>3. << >> \in Seq(Words) /\ Len(<< >>) = 0 /\ Len(w) \in Nat
    BY <1>3, EmptySeq, LenProperties
  <2>4. Splits(w, << >>, << >>, w) /\ StartsWith(w, w)
    BY <2>3 DEF Splits, StartsWith
  <2>5. SaveGoes'
    BY <1>3, <2>1, <2>2, <2>3, <2>4 DEF SaveGoes, w
  <2>6. DiskKnown'
    BY <1>3, <2>1, <2>2, <2>4 DEF DiskKnown, w
  <2> QED
    BY <1>7, <2>1, <2>3, <2>5, <2>6, SaveStep DEF Flush
<1> QED
  BY <1>5, <1>6, <1>7

\* A save that ends, with an exception or without.
LEMMA SaveEnds ==
  ASSUME StorageInv, NEW k \in 0..Len(buf), SaveThrows(k) \/ Close(k)
  PROVE  StorageInv'
<1>1. step \in {"saving", "flushed"}
  BY DEF SaveThrows, Close
<1>2. TypeOK /\ Containers /\ buf \in Seq(Words) /\ todo \in Seq(Words) /\ disk \in Seq(Words)
  BY <1>1 DEF StorageInv, TypeOK, SaveGoes
<1>3. PICK order \in SetToSeqs(saved) : Splits(disk, buf, todo, FileOf(order))
  BY <1>1 DEF StorageInv, SaveGoes
<1>4. FileOf(order) \in Seq(Words)
  BY <1>2, SavedFile
<1>5. /\ disk' = disk \o SubSeq(buf, 1, k) /\ buf' = << >> /\ todo' \in {todo, << >>} /\ step' = "idle"
      /\ saved' = saved /\ result' \in {"threw", "saved"}
  BY DEF SaveThrows, Close
<1>6. disk' \in Seq(Words) /\ StartsWith(disk', FileOf(order))
  BY <1>2, <1>3, <1>4, <1>5, SpillStarts
<1>7. << >> \in Seq(Words)
  BY EmptySeq
<1>8. SaveGoes'
  BY <1>2, <1>5, <1>7 DEF SaveGoes
<1>9. DiskKnown'
  BY <1>5, <1>6 DEF DiskKnown
<1> QED
  BY <1>5, <1>7, <1>8, <1>9, SaveStep DEF SaveThrows, Close

\* The file becomes one that read_persistence_header refuses.
LEMMA ReplaceStep ==
  ASSUME StorageInv, NEW m \in Nat, NEW v \in Nat, NEW o \in Obj, Replace(m, v, o)
  PROVE  StorageInv'
<1>1. UNCHANGED <<buf, todo, step>> /\ saved' = {} /\ result' = "none" /\ step = "idle"
      /\ disk' = Header(m, v) \o Content(<<o>>)
  BY DEF Replace
<1> DEFINE hd == Header(m, v)
           c == Content(<<o>>)
<1>2. hd \in Seq(Words) /\ Len(hd) = 2 /\ hd[1].n = m /\ hd[2].n = v
  BY DEF Header, Word, Words
<1>3. c \in Seq(Words) /\ Len(c) \in Nat
  <2>1. <<Word("count", Len(<<o>>), NoObj)>> \in Seq(Words)
    BY DEF Word, Words
  <2>2. [i \in DOMAIN <<o>> |-> Word("item", 0, <<o>>[i])] \in Seq(Words)
    <3>1. [i \in 1..1 |-> Word("item", 0, <<o>>[i])] \in [1..1 -> Words]
      BY DEF Word, Words
    <3>2. DOMAIN <<o>> = 1..1
      OBVIOUS
    <3> QED
      BY <3>1, <3>2
  <2>3. c \in Seq(Words)
    BY <2>1, <2>2, ConcatProperties DEF Content
  <2> QED
    BY <2>3, LenProperties
<1> HIDE DEF hd, c
<1>4. /\ hd \o c \in Seq(Words) /\ Len(hd \o c) >= 2
      /\ (hd \o c)[1] = hd[1] /\ (hd \o c)[2] = hd[2]
  <2>1. /\ hd \o c \in Seq(Words) /\ Len(hd \o c) = Len(hd) + Len(c)
        /\ \A i \in 1..(Len(hd) + Len(c)) : (hd \o c)[i] = IF i <= Len(hd) THEN hd[i] ELSE c[i - Len(hd)]
    BY <1>2, <1>3, ConcatProperties
  <2> QED
    BY <1>2, <1>3, <2>1
<1>5. disk' = hd \o c
  BY <1>1 DEF hd, c
<1>6. Foreign(disk')
  BY <1>2, <1>4, <1>5 DEF Foreign, Replace
<1>7. DiskKnown'
  BY <1>4, <1>5, <1>6 DEF DiskKnown
<1>8. SaveGoes'
  BY <1>1 DEF StorageInv, SaveGoes
<1>9. buf' \in Seq(Words)
  BY <1>1 DEF StorageInv, TypeOK
<1> QED
  BY <1>1, <1>7, <1>8, <1>9, SaveStep DEF Replace
\* A crash leaves the file as it is and the rest as at the start.
LEMMA CrashStep == ASSUME StorageInv, Crash PROVE StorageInv'
<1>1. /\ _index' = {} /\ _memory_size' = 0 /\ buf' = << >> /\ todo' = << >> /\ step' = "idle"
      /\ result' = "none" /\ pos' = 0 /\ left' = 0 /\ max_memory' = 0 /\ base' = {}
      /\ UNCHANGED <<disk, saved>>
  BY DEF Crash, NoLoad
<1>2. << >> \in Seq(Words)
  BY EmptySeq
<1>3. TypeOK'
  BY <1>1, <1>2 DEF StorageInv, TypeOK
<1>4. Containers'
  BY <1>1, HoldsNothing DEF StorageInv, Containers, Unique
<1>5. SaveGoes' /\ LoadGoes' /\ LimitKept'
  BY <1>1, <1>2 DEF SaveGoes, LoadGoes, LimitKept
<1>6. DiskKnown'
  BY <1>1 DEF StorageInv, DiskKnown
<1> QED
  BY <1>3, <1>4, <1>5, <1>6 DEF StorageInv

\* Steps of a load leave the file and the last save alone.
LEMMA FileUnchanged ==
  ASSUME StorageInv, UNCHANGED fileVars, step' \in {"idle", "loading"}
  PROVE  SaveGoes' /\ DiskKnown'
<1>1. UNCHANGED <<disk, buf, todo, saved>>
  BY DEF fileVars
<1> QED
  BY <1>1 DEF StorageInv, SaveGoes, DiskKnown

\* The header and the count of a file that is the last save, as far as it goes.
LEMMA LoadBeginStep ==
  ASSUME StorageInv, NEW max \in MaxMemory, LoadBegin(max)
  PROVE  StorageInv'
<1>1. TypeOK /\ Containers /\ UNCHANGED storeVars /\ UNCHANGED fileVars
  BY DEF StorageInv, LoadBegin
<1>2. UNCHANGED <<_index, _memory_size, disk, buf, todo, saved>>
  BY <1>1 DEF storeVars, fileVars
<1>3. Containers'
  BY <1>1, <1>2 DEF Containers, Holds, Unique
<1>4. CASE HeaderOK /\ Len(disk) >= 3
  <2>1. /\ step' = "loading" /\ result' = "none" /\ pos' = 3 /\ left' = disk[3].n
        /\ max_memory' = max /\ base' = _index
    BY <1>4 DEF LoadBegin
  <2>2. disk \in Seq(Words) /\ ~Foreign(disk)
    BY <1>4 DEF StorageInv, DiskKnown, LoadBegin, HeaderOK, Foreign
  <2>3. PICK order \in SetToSeqs(saved) : StartsWith(disk, FileOf(order))
    BY <2>2 DEF StorageInv, DiskKnown, LoadBegin
  <2>4. order \in Seq(Obj)
    BY <1>1, SavedFile
  <2>5. FileOf(order)[3].n = Len(order) /\ Len(order) \in Nat /\ Len(disk) \in Nat
    BY <2>2, <2>4, FileWords, LenProperties
  <2>6. disk[3] = FileOf(order)[3] /\ 3 \in 3..Len(disk)
    BY <1>4, <2>3, <2>5 DEF StartsWith
  <2>7. left' = Len(order) /\ left' = Len(order) - (3 - 3)
    BY <2>1, <2>5, <2>6
  <2>8. TypeOK'
    BY <1>1, <1>2, <2>1, <2>5, <2>7 DEF TypeOK
  <2>9. LoadGoes'
    <3>1. /\ disk' \in Seq(Words) /\ result' = "none" /\ base' \subseteq _index' /\ _index' \subseteq base' \cup saved'
          /\ order \in SetToSeqs(saved') /\ StartsWith(disk', FileOf(order))
      BY <1>2, <2>1, <2>2, <2>3
    <3>2. pos' \in 3..Len(disk') /\ left' = Len(order) - (pos' - 3)
      BY <1>2, <2>1, <2>6, <2>7
    <3>3. \A i \in 1..(pos' - 3) : order[i] \in _index' \/ Clash(base', order[i])
      BY <2>1
    <3> QED
      BY <3>1, <3>2, <3>3 DEF LoadGoes
  <2>10. LimitKept'
    BY <1>2, <2>1 DEF LimitKept
  <2>11. SaveGoes' /\ DiskKnown'
    BY <1>1, <2>1, FileUnchanged
  <2> QED
    BY <1>3, <2>8, <2>9, <2>10, <2>11 DEF StorageInv
<1>5. CASE ~(HeaderOK /\ Len(disk) >= 3)
  <2>1. result' = "threw" /\ step' = "idle" /\ UNCHANGED loadVars
    BY <1>5 DEF LoadBegin
  <2>2. TypeOK'
    BY <1>1, <1>2, <2>1 DEF TypeOK, loadVars
  <2>3. SaveGoes' /\ DiskKnown'
    BY <1>1, <2>1, FileUnchanged
  <2>4. LoadGoes' /\ LimitKept'
    BY <2>1 DEF LoadGoes, LimitKept
  <2> QED
    BY <1>3, <2>2, <2>3, <2>4 DEF StorageInv
<1> QED
  BY <1>4, <1>5

\* The end of a load, whichever.
LEMMA LoadEndStep == ASSUME StorageInv, LoadEnd PROVE StorageInv'
<1>1. /\ step' = "idle" /\ result' \in {"all", "limit", "threw"} /\ UNCHANGED storeVars /\ UNCHANGED fileVars
      /\ pos' = 0 /\ left' = 0 /\ max_memory' = 0 /\ base' = {}
  BY DEF LoadEnd, LoadEnds, NoLoad
<1>2. UNCHANGED <<_index, _memory_size, disk, buf, todo, saved>>
  BY <1>1 DEF storeVars, fileVars
<1>3. TypeOK'
  BY <1>1, <1>2 DEF StorageInv, TypeOK
<1>4. Containers'
  BY <1>2 DEF StorageInv, Containers, Holds, Unique
<1>5. SaveGoes' /\ DiskKnown'
  BY <1>1, FileUnchanged
<1>6. LoadGoes' /\ LimitKept'
  BY <1>1 DEF LoadGoes, LimitKept
<1> QED
  BY <1>3, <1>4, <1>5, <1>6 DEF StorageInv

\* One object is read: it goes in unless it collides, and then with one that
\* was there before the load, because a save has no two that collide.
LEMMA LoadNextStep == ASSUME StorageInv, LoadNext PROVE StorageInv'
<1>1. TypeOK /\ Containers /\ LoadGoes /\ LimitKept /\ step = "loading"
  BY DEF StorageInv, LoadNext
<1>2. /\ UNCHANGED <<disk, buf, todo, saved, max_memory, base, step, result>>
      /\ pos' = pos + 1 /\ left' = left - 1 /\ left > 0 /\ ~AtLimit /\ pos < Len(disk)
      /\ UNCHANGED fileVars
  BY DEF LoadNext, fileVars
<1>3. disk \in Seq(Words) /\ result = "none" /\ base \subseteq _index /\ _index \subseteq base \cup saved
  BY <1>1 DEF LoadGoes
<1>4. PICK order \in SetToSeqs(saved) :
        /\ StartsWith(disk, FileOf(order))
        /\ pos \in 3..Len(disk) /\ left = Len(order) - (pos - 3)
        /\ \A i \in 1..(pos - 3) : order[i] \in _index \/ Clash(base, order[i])
  BY <1>1 DEF LoadGoes
<1>5. order \in Seq(Obj) /\ \A i \in 1..Len(order) : order[i] \in saved
  BY <1>1, SavedFile
<1>6. Len(order) \in Nat /\ Len(disk) \in Nat /\ pos \in Nat /\ left \in Nat
  BY <1>1, <1>3, <1>5, LenProperties DEF TypeOK
<1> DEFINE j == pos - 2
           o == order[j]
<1>7. j \in 1..Len(order) /\ pos + 1 = j + 3 /\ pos + 1 \in 1..Len(disk)
  BY <1>2, <1>4, <1>6
<1>8. disk[pos + 1].o = o
  <2>1. disk[pos + 1] = FileOf(order)[pos + 1]
    BY <1>4, <1>7 DEF StartsWith
  <2>2. FileOf(order)[j + 3].o = order[j]
    BY <1>5, <1>7, FileWords
  <2> QED
    BY <1>7, <2>1, <2>2
<1>9. o \in saved /\ o \in Obj /\ insert(o)
  BY <1>1, <1>5, <1>7, <1>8 DEF TypeOK, LoadNext
<1>10. Holds(_index, _memory_size)'
  BY <1>1, <1>9, InsertHolds DEF Containers
<1>11. Containers'
  BY <1>1, <1>2, <1>10 DEF Containers, Unique
<1>12. TypeOK'
  <2>1. _index' \in SUBSET Obj /\ _memory_size' \in Nat
    BY <1>10, HoldsNat DEF Holds
  <2>2. pos' \in Nat /\ left' \in Nat
    BY <1>2, <1>6
  <2> QED
    BY <1>1, <1>2, <2>1, <2>2 DEF TypeOK
<1>13. SaveGoes' /\ DiskKnown'
  BY <1>1, <1>2, FileUnchanged
<1>14. _index \subseteq _index' /\ _index' \subseteq _index \cup {o}
  BY <1>9 DEF insert, storeVars
<1>15. o \in _index' \/ Clash(base, o)
  <2>1. CASE Clash(_index, o)
    <3>1. PICK x \in _index : x.key = o.key \/ x.uniq = o.uniq
      BY <2>1 DEF Clash
    <3>2. CASE x \in base
      BY <3>1, <3>2 DEF Clash
    <3>3. CASE x \in saved
      BY <1>1, <1>9, <1>14, <3>1, <3>3 DEF Containers, Unique
    <3> QED
      BY <1>3, <3>2, <3>3
  <2>2. CASE ~Clash(_index, o)
    BY <1>9, <2>2 DEF insert
  <2> QED
    BY <2>1, <2>2
<1>16. LoadGoes'
  <2>1. /\ disk' \in Seq(Words) /\ result' = "none" /\ base' \subseteq _index' /\ _index' \subseteq base' \cup saved'
        /\ order \in SetToSeqs(saved') /\ StartsWith(disk', FileOf(order))
    BY <1>2, <1>3, <1>4, <1>9, <1>14
  <2>2. pos' \in 3..Len(disk') /\ left' = Len(order) - (pos' - 3)
    BY <1>2, <1>4, <1>6
  <2>3. \A i \in 1..(pos' - 3) : order[i] \in _index' \/ Clash(base', order[i])
    <3> SUFFICES ASSUME NEW i \in 1..(pos' - 3) PROVE order[i] \in _index' \/ Clash(base', order[i])
      OBVIOUS
    <3>1. i \in 1..(pos - 3) \/ i = j
      BY <1>2, <1>6
    <3>2. base' = base
      BY <1>2
    <3> QED
      BY <1>4, <1>14, <1>15, <3>1, <3>2
  <2> QED
    BY <2>1, <2>2, <2>3 DEF LoadGoes
<1>17. LimitKept'
  <2>1. CASE Clash(_index, o)
    <3>1. UNCHANGED <<_index, _memory_size>>
      BY <1>9, <2>1 DEF insert, storeVars
    <3> QED
      BY <1>1, <1>2, <3>1 DEF LimitKept
  <2>2. CASE ~Clash(_index, o)
    <3>1. _index' = _index \cup {o} /\ _memory_size' = _memory_size + o.size
      BY <1>9, <2>2 DEF insert
    <3>2. o \in _index' \ base'
      BY <1>2, <1>3, <2>2, <3>1 DEF Clash
    <3>3. o.size \in Nat /\ _memory_size \in Nat /\ max_memory \in Nat
      <4>1. o.size \in Size /\ max_memory \in MaxMemory \cup {0} /\ _memory_size \in Nat
        BY <1>1, <1>9 DEF Obj, TypeOK
      <4> HIDE DEF o
      <4>2. o.size \in Nat
        BY <4>1, StorageAssumption
      <4>3. max_memory \in Nat
        BY <4>1, StorageAssumption
      <4> QED
        BY <4>1, <4>2, <4>3
    <3>4. _memory_size' - o.size < max_memory'
      BY <1>2, <3>1, <3>3 DEF AtLimit
    <3> QED
      BY <3>2, <3>4 DEF LimitKept
  <2> QED
    BY <2>1, <2>2
<1> QED
  BY <1>11, <1>12, <1>13, <1>16, <1>17 DEF StorageInv

-----------------------------------------------------------------------------
(* Theorems. *)

\* An empty container without a file satisfies it.
LEMMA StorageInitInv == Init => StorageInv
<1> SUFFICES ASSUME Init PROVE StorageInv
  OBVIOUS
<1>1. << >> \in Seq(Words)
  BY EmptySeq
<1>2. TypeOK
  BY <1>1 DEF Init, TypeOK
<1>3. Containers
  BY HoldsNothing, FS_EmptySet DEF Init, Containers, Unique
<1>4. SaveGoes /\ DiskKnown /\ LoadGoes /\ LimitKept
  BY <1>1 DEF Init, SaveGoes, DiskKnown, LoadGoes, LimitKept
<1> QED
  BY <1>2, <1>3, <1>4 DEF StorageInv

\* Every step keeps the invariant.
LEMMA StorageStep == StorageInv /\ [Next]_vars => StorageInv'
<1> SUFFICES ASSUME StorageInv, [Next]_vars PROVE StorageInv'
  OBVIOUS
<1>1. CASE UNCHANGED vars
  <2>1. UNCHANGED <<_index, _memory_size, disk, buf, todo, saved, pos, left, max_memory, base, step, result>>
    BY <1>1 DEF vars, storeVars, fileVars, loadVars
  <2> QED
    BY <2>1 DEF StorageInv, TypeOK, Containers, Holds, Unique, SaveGoes, DiskKnown, LoadGoes, LimitKept
<1>2. ASSUME NEW m \in {magic_number, magic_number + 1},
             NEW v \in {0, max_supported_version, max_supported_version + 1},
             NEW o \in Obj, Replace(m, v, o)
      PROVE  StorageInv'
  <2>1. m \in Nat /\ v \in Nat
    BY DEF magic_number, max_supported_version
  <2> QED
    BY <1>2, <2>1, ReplaceStep
<1>3. CASE Next
  BY <1>2, <1>3, ContainerStep, SaveBeginStep, SaveGoesOn, SaveEnds, CrashStep, LoadBeginStep, LoadEndStep,
     LoadNextStep DEF Next
<1> QED
  BY <1>1, <1>3

\* The inductive invariant, for every instance.
THEOREM StorageInvariance == Spec => []StorageInv
  BY StorageInitInv, StorageStep, PTL DEF Spec

\* memory_size() is the sum of the sizes of the objects through every
\* sequence of calls, saves, loads and crashes, and a load goes beyond its
\* limit by less than its last object.
THEOREM SizeIsSound == Spec => []SizeSound
<1>1. StorageInv => SizeSound
  BY DEF StorageInv, Containers, Holds, SizeSound, SizeExact
<1> QED
  BY <1>1, StorageInvariance, PTL

\* read() returns true only when every object of the save is in the container
\* or collided with one that was there before.
THEOREM TrueIsAll == Spec => TrueMeansAll
<1> DEFINE All == step = "loading" /\ result' = "all" => \A o \in saved : o \in _index \/ Clash(base, o)
<1>1. StorageInv /\ [Next]_vars => [All]_vars
  <2> SUFFICES ASSUME StorageInv, Next, step = "loading", result' = "all", NEW o \in saved
               PROVE  o \in _index \/ Clash(base, o)
    BY DEF vars
  <2>1. LoadEnd
    BY DEF StorageInv, LoadGoes, Next, Insert, ModifyThrows, Modify, EraseKey, SaveBegin, WriteNext, Spill, Flush, SaveThrows, Close,
           Crash, Replace, LoadBegin, LoadNext
  <2>2. left = 0
    BY <2>1 DEF LoadEnd, LoadEnds
  <2>3. PICK order \in SetToSeqs(saved) :
          /\ pos \in 3..Len(disk) /\ left = Len(order) - (pos - 3)
          /\ \A i \in 1..(pos - 3) : order[i] \in _index \/ Clash(base, order[i])
    BY DEF StorageInv, LoadGoes
  <2>4. PICK i \in 1..Len(order) : order[i] = o
    BY SavedFile DEF StorageInv
  <2>5. Len(order) \in Nat
    BY SavedFile, LenProperties DEF StorageInv
  <2>6. i \in 1..(pos - 3)
    BY <2>2, <2>3, <2>5
  <2> QED
    BY <2>3, <2>4, <2>6
<1> QED
  BY <1>1, StorageInvariance, PTL DEF Spec, TrueMeansAll

\* A client that calls flush() before close() has its save whole on the disk
\* when close() returns, whatever fclose does; and a load brings in nothing
\* but objects of the last save.  Without the flush, close() drops the error
\* of fclose and the save can be cut: hence the hypothesis.
THEOREM SaveIsWhole == Flushes => (Spec => []SavesWhole)
<1> SUFFICES ASSUME Flushes PROVE Spec => []SavesWhole
  OBVIOUS
<1>1. Init => SavedIsWhole
  BY DEF Init, SavedIsWhole
<1>2. StorageInv /\ SavedIsWhole /\ [Next]_vars => SavedIsWhole'
  <2> SUFFICES ASSUME StorageInv, SavedIsWhole, [Next]_vars PROVE SavedIsWhole'
    OBVIOUS
  <2>1. ASSUME NEW k \in 0..Len(buf), Close(k) PROVE SavedIsWhole'
    <3>1. step = "flushed" /\ saved' = saved
      BY <2>1 DEF Close
    <3>2. disk \in Seq(Words) /\ buf = << >> /\ todo = << >>
      BY <3>1 DEF StorageInv, SaveGoes
    <3>3. PICK order \in SetToSeqs(saved) : Splits(disk, << >>, << >>, FileOf(order))
      BY <3>1, <3>2 DEF StorageInv, SaveGoes
    <3>4. << >> \in Seq(Words) /\ FileOf(order) \in Seq(Words) /\ Len(<< >>) = 0
      BY EmptySeq, SavedFile DEF StorageInv
    <3>5. disk \o << >> = FileOf(order)
      BY <3>2, <3>3, <3>4, FlushSplits
    <3>6. k = 0
      BY <2>1, <3>2, <3>4 DEF Close
    <3>7. SubSeq(buf, 1, k) = << >>
      BY <3>6, SubSeqEmpty
    <3>8. disk' = FileOf(order)
      BY <2>1, <3>5, <3>7 DEF Close
    <3> QED
      BY <3>1, <3>8 DEF SavedIsWhole
  <2>2. ASSUME UNCHANGED <<disk, saved>>, result' = result, step = "idle" \/ step' # "idle" PROVE SavedIsWhole'
    BY <2>2 DEF SavedIsWhole
  <2>3. ASSUME step' # "idle" \/ result' # "saved" PROVE SavedIsWhole'
    BY <2>3 DEF SavedIsWhole
  <2>4. CASE UNCHANGED vars
    BY <2>4 DEF vars, fileVars, SavedIsWhole
  <2>5. ASSUME \/ \E o \in Obj : Insert(o)
               \/ \E x \in _index : ModifyThrows(x) \/ \E o \in Obj : Modify(x, o)
               \/ \E k \in Key : EraseKey(k)
        PROVE  SavedIsWhole'
    BY <2>2, <2>5 DEF Insert, ModifyThrows, Modify, EraseKey, fileVars
  <2>6. ASSUME NEW k \in 0..Len(buf), SaveThrows(k) PROVE SavedIsWhole'
    BY <2>3, <2>6 DEF SaveThrows
  <2>7. ASSUME \/ \E order \in SetToSeqs(_index) : SaveBegin(order)
               \/ WriteNext \/ Spill \/ Flush \/ Crash \/ LoadEnd \/ LoadNext
        PROVE  SavedIsWhole'
    BY <2>3, <2>7 DEF SaveBegin, WriteNext, Spill, Flush, Crash, LoadEnd, LoadEnds, LoadNext
  <2>8. ASSUME NEW m, NEW v, NEW o, Replace(m, v, o) PROVE SavedIsWhole'
    BY <2>3, <2>8 DEF Replace
  <2>9. ASSUME NEW max \in MaxMemory, LoadBegin(max) PROVE SavedIsWhole'
    BY <2>3, <2>9 DEF LoadBegin
  <2> QED
    BY <2>1, <2>4, <2>5, <2>6, <2>7, <2>8, <2>9 DEF Next
<1>3. StorageInv => LoadedFromSave
  BY DEF StorageInv, LoadGoes, LoadedFromSave
<1> QED
  BY <1>1, <1>2, <1>3, StorageInvariance, PTL DEF Spec, SavesWhole
=============================================================================
