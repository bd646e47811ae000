------------------------ MODULE MessageBufferProofs ------------------------
(***************************************************************************)
(* Proofs, for every buffer size, chain bound and pool, of the safety      *)
(* properties of MessageBuffer.  They rest on one inductive invariant,     *)
(* IInv, in three parts: the chain, the regions given to async_read, and   *)
(* the call in progress.                                                   *)
(*                                                                         *)
(* The last part shows that MessageBuffer implements ByteQueue: whatever   *)
(* is cut at the boundaries of buffers, given back at the front, added at  *)
(* the end or filled by an async_read, the client sees one queue of the    *)
(* bytes that arrived.  That argument is about positions.  A position p of *)
(* the chain, counted in bytes from its start, is the cell p % BufferLen   *)
(* of its buffer number p \div BufferLen; the unread bytes are those of    *)
(* the positions from the read pointer to the write pointer.  Every action *)
(* either leaves those cells alone, shifts them by whole buffers, or       *)
(* writes behind them.                                                     *)
(***************************************************************************)
EXTENDS MessageBuffer, SequenceTheorems, TLAPS

-----------------------------------------------------------------------------
(* Arithmetic of the division by the length of a buffer. *)

\* Quotient and remainder by BufferLen are natural and recompose the number.
LEMMA DivMod ==
  ASSUME NEW x \in Nat
  PROVE  /\ x \div BufferLen \in Nat
         /\ x % BufferLen \in Offset
         /\ x = (x \div BufferLen) * BufferLen + (x % BufferLen)
  BY BufferLenAssumption DEF Offset

\* A natural number below 2^32 is its own residue.
LEMMA NoWrap ==
  ASSUME NEW x \in Nat, x < U32
  PROVE  x % U32 = x
  BY BoundAssumption

\* More whole buffers are more bytes.
LEMMA MulMono ==
  ASSUME NEW a \in Nat, NEW b \in Nat, a <= b
  PROVE  a * BufferLen <= b * BufferLen /\ a <= a * BufferLen
<1>1. PICK d \in Nat : b = a + d  BY b - a \in Nat
<1>2. b * BufferLen = a * BufferLen + d * BufferLen
  BY <1>1, BufferLenAssumption
<1>3. d * BufferLen \in Nat /\ a * BufferLen \in Nat
  BY BufferLenAssumption
<1>4. PICK e \in Nat : BufferLen = e + 1
  BY BufferLenAssumption, BufferLen - 1 \in Nat
<1>5. a * BufferLen = a * e + a /\ a * e \in Nat
  BY <1>4
<1> QED
  BY <1>2, <1>3, <1>5

\* The order of positions is the lexicographic order of indices.
LEMMA PosOrder ==
  ASSUME NEW i \in Index, NEW j \in Index
  PROVE  /\ Pos(i) \in Nat
         /\ Pos(i) <= Pos(j) => i.first <= j.first
         /\ Pos(i) <= Pos(j) /\ i.first = j.first => i.second <= j.second
         /\ Pos(i) = Pos(j) => i = j
         /\ i.first < j.first => Pos(i) < Pos(j)
<1>0. /\ i.first \in Nat /\ j.first \in Nat
      /\ i.second \in 0..(BufferLen - 1) /\ j.second \in 0..(BufferLen - 1)
      /\ i = [first |-> i.first, second |-> i.second]
      /\ j = [first |-> j.first, second |-> j.second]
  BY DEF Index, Offset
<1>1. i.first * BufferLen \in Nat /\ j.first * BufferLen \in Nat
  BY <1>0, BufferLenAssumption
<1>2. ASSUME i.first < j.first
      PROVE  i.first * BufferLen + BufferLen <= j.first * BufferLen
  <2>1. (i.first + 1) * BufferLen <= j.first * BufferLen
    BY <1>0, <1>2, MulMono, i.first + 1 \in Nat, i.first + 1 <= j.first
  <2>2. (i.first + 1) * BufferLen = i.first * BufferLen + BufferLen
    BY <1>0, BufferLenAssumption
  <2> QED  BY <2>1, <2>2
<1>3. ASSUME j.first < i.first
      PROVE  j.first * BufferLen + BufferLen <= i.first * BufferLen
  <2>1. (j.first + 1) * BufferLen <= i.first * BufferLen
    BY <1>0, <1>3, MulMono, j.first + 1 \in Nat, j.first + 1 <= i.first
  <2>2. (j.first + 1) * BufferLen = j.first * BufferLen + BufferLen
    BY <1>0, BufferLenAssumption
  <2> QED  BY <2>1, <2>2
<1>4. Pos(i) \in Nat
  BY <1>0, <1>1, BufferLenAssumption DEF Pos
<1>5. i.first < j.first => Pos(i) < Pos(j)
  BY <1>0, <1>1, <1>2, BufferLenAssumption DEF Pos
<1>6. j.first < i.first => Pos(j) < Pos(i)
  BY <1>0, <1>1, <1>3, BufferLenAssumption DEF Pos
<1>6a. Pos(j) \in Nat
  BY <1>0, <1>1, BufferLenAssumption DEF Pos
<1>7. Pos(i) <= Pos(j) => i.first <= j.first
  BY <1>0, <1>4, <1>6, <1>6a
<1>8. Pos(i) <= Pos(j) /\ i.first = j.first => i.second <= j.second
  BY <1>0, <1>1, BufferLenAssumption DEF Pos
<1>9. Pos(i) = Pos(j) => i = j
  <2>1. ASSUME Pos(i) = Pos(j)
        PROVE  i.first = j.first
    BY <2>1, <1>0, <1>4, <1>5, <1>6
  <2>2. ASSUME Pos(i) = Pos(j), i.first = j.first
        PROVE  i.second = j.second
    BY <2>2, <1>0, <1>1, BufferLenAssumption DEF Pos
  <2> QED  BY <1>0, <2>1, <2>2
<1> QED
  BY <1>4, <1>5, <1>7, <1>8, <1>9

\* advance_index moves an index by exactly that many bytes and normalises it.
LEMMA AdvanceIndex ==
  ASSUME NEW ind \in Index, NEW bytes \in Nat, Pos(ind) + bytes < U32
  PROVE  /\ advance_index(ind, bytes) \in Index
         /\ Pos(advance_index(ind, bytes)) = Pos(ind) + bytes
<1> DEFINE sum == bytes + ind.second
           q == sum \div BufferLen
           r == sum % BufferLen
<1>0. ind.first \in Nat /\ ind.second \in 0..(BufferLen - 1)
  BY DEF Index, Offset
<1>1. ind.first * BufferLen \in Nat /\ sum \in Nat
  BY <1>0, BufferLenAssumption
<1>2. Pos(ind) + bytes = ind.first * BufferLen + sum
  BY <1>0, <1>1 DEF Pos
<1>3. q \in Nat /\ r \in Offset /\ sum = q * BufferLen + r
  BY <1>1, DivMod
<1>4. sum < U32
  BY <1>1, <1>2, BoundAssumption
<1>5. sum % U32 = sum
  BY <1>1, <1>4, NoWrap
<1> HIDE DEF q, r
<1>6. (ind.first + q) * BufferLen = ind.first * BufferLen + q * BufferLen
  BY <1>0, <1>3, BufferLenAssumption
<1>7. ind.first + q \in Nat /\ q * BufferLen \in Nat /\ r \in Nat
  BY <1>0, <1>3, BufferLenAssumption DEF Offset
<1>8. ind.first + q <= (ind.first + q) * BufferLen
  BY <1>7, MulMono
<1>9. ind.first + q < U32
  <2> HIDE DEF sum
  <2>1. (ind.first + q) * BufferLen + r = Pos(ind) + bytes
    BY <1>1, <1>2, <1>3, <1>6, <1>7
  <2> QED
    BY <2>1, <1>7, <1>8, <1>1, <1>6, BoundAssumption
<1>10. (ind.first + q) % U32 = ind.first + q
  BY <1>7, <1>9, NoWrap
<1>11. advance_index(ind, bytes) = [first |-> ind.first + q, second |-> r]
  BY <1>5, <1>10 DEF advance_index, q, r
<1>12. advance_index(ind, bytes) \in Index
  BY <1>3, <1>7, <1>11 DEF Index
<1>13. Pos(advance_index(ind, bytes)) = (ind.first + q) * BufferLen + r
  BY <1>11 DEF Pos
<1> HIDE DEF sum
<1> QED
  BY <1>1, <1>2, <1>3, <1>6, <1>7, <1>12, <1>13

-----------------------------------------------------------------------------
(* The inductive invariant. *)

\* The chain: its type, its bound, the order of the two pointers in it.
ChainOK ==
  /\ buffers \in Seq(Addr)
  /\ Len(buffers) <= MaxChain
  /\ read_ind \in Index
  /\ write_ind \in Index
  /\ mem \in [Addr -> [Offset -> Cell]]
  /\ exited \in BOOLEAN
  /\ write_ind.first < Len(buffers)
  /\ Pos(read_ind) <= Pos(write_ind)
  /\ ~exited => /\ read_ind.first = 0
                /\ read_ind = write_ind => read_ind = Origin
  /\ ChainOwnsPool

\* The regions given to async_read are the free space at the write pointer.
PendingOK ==
  /\ pending \in Seq(Addr \X Offset)
  /\ PendingIsFreeSpace

\* The peek index, the call and its destination; a read in progress under an
\* outstanding async_read is not the one that drains the buffer.
CallOK ==
  /\ index \in Index
  /\ Pos(read_ind) <= Pos(index)
  /\ Pos(index) <= Pos(write_ind)
  /\ call \in [kind : {"idle", "read", "peek"}, left : Nat]
  /\ dest \in Seq(Cell)
  /\ call.kind = "read" /\ pending # << >> =>
       call.left # Pos(write_ind) - Pos(read_ind)

\* The inductive invariant.
IInv == ChainOK /\ PendingOK /\ CallOK

-----------------------------------------------------------------------------
(* What the counts are under the invariant. *)

\* A position in the chain is below 2^32, with a buffer to spare.
LEMMA ChainBytes ==
  ASSUME ChainOK
  PROVE  /\ Pos(write_ind) \in Nat
         /\ Pos(write_ind) < BufferLen * Len(buffers)
         /\ BufferLen * Len(buffers) \in Nat
         /\ BufferLen * Len(buffers) + BufferLen <= U32
<1>0. /\ write_ind.first \in Nat /\ write_ind.second \in 0..(BufferLen - 1)
      /\ Len(buffers) \in Nat /\ BufferLen \in Nat
  BY BufferLenAssumption DEF ChainOK, Index, Offset
<1>1. (write_ind.first + 1) * BufferLen <= Len(buffers) * BufferLen
  BY <1>0, MulMono, write_ind.first + 1 \in Nat, write_ind.first + 1 <= Len(buffers)
     DEF ChainOK
<1>2. (write_ind.first + 1) * BufferLen = write_ind.first * BufferLen + BufferLen
  BY <1>0
<1>3. Len(buffers) * BufferLen <= MaxChain * BufferLen
  BY <1>0, MulMono, BoundAssumption DEF ChainOK
<1>4. (MaxChain + 1) * BufferLen = MaxChain * BufferLen + BufferLen
  BY <1>0, BoundAssumption
<1>5. Len(buffers) * BufferLen = BufferLen * Len(buffers)
  BY <1>0
<1>6. /\ write_ind.first * BufferLen \in Nat
      /\ Len(buffers) * BufferLen \in Nat
      /\ MaxChain * BufferLen \in Nat
  BY <1>0, BoundAssumption
<1>7. Pos(write_ind) \in Nat /\ Pos(write_ind) < Len(buffers) * BufferLen
  <2> DEFINE w == write_ind.first * BufferLen
             t == Len(buffers) * BufferLen
  <2>1. w + BufferLen <= t /\ w \in Nat /\ t \in Nat
    BY <1>1, <1>2, <1>6
  <2>2. Pos(write_ind) = w + write_ind.second
    BY DEF Pos
  <2> HIDE DEF w, t
  <2>3. Pos(write_ind) \in Nat /\ Pos(write_ind) < t
    BY <1>0, <2>1, <2>2
  <2> QED  BY <2>3 DEF t
<1>8. Len(buffers) * BufferLen + BufferLen <= U32
  BY <1>0, <1>3, <1>4, <1>6, ChainFitsAssumption, BoundAssumption
<1> QED
  BY <1>5, <1>6, <1>7, <1>8

\* The write pointer and one buffer more are below 2^32.
LEMMA PosFits ==
  ASSUME ChainOK
  PROVE  Pos(write_ind) \in Nat /\ Pos(write_ind) + BufferLen < U32
<1> DEFINE t == BufferLen * Len(buffers)
<1>1. Pos(write_ind) \in Nat /\ Pos(write_ind) < t /\ t \in Nat /\ t + BufferLen <= U32
  BY ChainBytes
<1> HIDE DEF t
<1> QED
  BY <1>1, BufferLenAssumption, BoundAssumption

\* bytes_to_read_from_index is the distance to the write pointer.
LEMMA CountFromIndex ==
  ASSUME ChainOK, NEW ind \in Index, Pos(ind) <= Pos(write_ind)
  PROVE  /\ bytes_to_read_from_index(ind) = Pos(write_ind) - Pos(ind)
         /\ Pos(write_ind) - Pos(ind) \in Nat
         /\ Pos(ind) \in Nat
<1>0. /\ write_ind.first \in Nat /\ write_ind.second \in 0..(BufferLen - 1)
      /\ ind.first \in Nat /\ ind.second \in 0..(BufferLen - 1)
      /\ BufferLen \in Nat
  BY BufferLenAssumption DEF ChainOK, Index, Offset
<1>1. (write_ind.first - ind.first) * BufferLen
        = write_ind.first * BufferLen - ind.first * BufferLen
  BY <1>0
<1>2. write_ind.first * BufferLen \in Nat /\ ind.first * BufferLen \in Nat
  BY <1>0
<1>3. (write_ind.first - ind.first) * BufferLen + write_ind.second - ind.second
        = Pos(write_ind) - Pos(ind)
  BY <1>0, <1>1, <1>2 DEF Pos
<1>4. Pos(ind) \in Nat /\ Pos(write_ind) \in Nat
  BY PosOrder DEF ChainOK
<1>5. Pos(write_ind) - Pos(ind) \in Nat /\ Pos(write_ind) - Pos(ind) < U32
  BY <1>0, <1>4, ChainBytes, BoundAssumption
<1> QED
  BY <1>3, <1>4, <1>5, NoWrap DEF bytes_to_read_from_index

\* bytes_to_write is the distance to the end of the chain.
LEMMA CountToWrite ==
  ASSUME ChainOK
  PROVE  bytes_to_write = BufferLen * Len(buffers) - Pos(write_ind)
<1>0. /\ write_ind.first \in Nat /\ write_ind.second \in 0..(BufferLen - 1)
      /\ BufferLen \in Nat \ {0}
  BY BufferLenAssumption DEF ChainOK, Index, Offset
<1>1. total_bytes = BufferLen * Len(buffers)
  BY <1>0, ChainBytes, NoWrap, BoundAssumption,
     BufferLen * Len(buffers) < U32 DEF total_bytes
<1>2. write_ind.first * BufferLen \in Nat
  BY <1>0
<1>3. total_bytes - write_ind.first * BufferLen - write_ind.second
        = BufferLen * Len(buffers) - Pos(write_ind)
  <2> DEFINE w == write_ind.first * BufferLen
             t == BufferLen * Len(buffers)
  <2>1. w \in Nat /\ t \in Nat /\ Pos(write_ind) = w + write_ind.second
    BY <1>2, ChainBytes DEF Pos
  <2> HIDE DEF w, t
  <2>2. t - w - write_ind.second = t - Pos(write_ind)
    BY <1>0, <2>1
  <2> QED  BY <1>1, <2>2 DEF w, t
<1>4. /\ BufferLen * Len(buffers) - Pos(write_ind) \in Nat
      /\ BufferLen * Len(buffers) - Pos(write_ind) < U32
  BY <1>0, ChainBytes, BoundAssumption
<1> QED
  BY <1>3, <1>4, NoWrap DEF bytes_to_write

-----------------------------------------------------------------------------
(* The operators that change the chain. *)

\* The chunks malloc returns make a sequence of distinct chunks that are not
\* handed out.
LEMMA MallocOK ==
  ASSUME NEW k \in Nat, NEW s \in malloc(k)
  PROVE  /\ s \in Seq(Addr)
         /\ Len(s) = k
         /\ \A i \in 1..k : s[i] \in Addr /\ s[i] \notin pool
         /\ \A i, j \in 1..k : s[i] = s[j] => i = j
<1>1. s \in [1..k -> Addr \ pool]
  BY DEF malloc
<1>2. s \in Seq(Addr \ pool) /\ Len(s) = k
  BY <1>1
<1> QED
  BY <1>1, <1>2 DEF malloc

\* Appending chunks keeps the chain the owner of the pool and its prefix.
LEMMA GrowOK ==
  ASSUME ChainOK, NEW k \in Nat, NEW m, Grow(k, m), exited' = exited
  PROVE  /\ buffers' \in Seq(Addr)
         /\ Len(buffers') = Len(buffers) + k
         /\ Len(buffers') <= MaxChain
         /\ \A i \in 1..Len(buffers) : buffers'[i] = buffers[i]
         /\ ChainOwnsPool'
         /\ mem' = m
<1>1. PICK s \in malloc(k) :
        /\ Len(buffers) + k <= MaxChain
        /\ buffers' = buffers \o s
        /\ sanity_check' = sanity_check + k
        /\ pool' = pool \cup {s[i] : i \in 1..k}
        /\ mem' = m
  BY DEF Grow
<1>2. /\ s \in Seq(Addr)
      /\ Len(s) = k
      /\ \A i \in 1..k : s[i] \in Addr /\ s[i] \notin pool
      /\ \A i, j \in 1..k : s[i] = s[j] => i = j
  BY MallocOK
<1>3. buffers \in Seq(Addr) /\ Len(buffers) \in Nat
  BY DEF ChainOK
<1>4. /\ buffers' \in Seq(Addr)
      /\ Len(buffers') = Len(buffers) + k
      /\ \A i \in 1..Len(buffers) : buffers'[i] = buffers[i]
      /\ \A i \in (Len(buffers) + 1)..(Len(buffers) + k) :
            buffers'[i] = s[i - Len(buffers)]
  BY <1>1, <1>2, <1>3
<1>5. pool' = {buffers'[i] : i \in 1..Len(buffers')}
  <2>1. pool = {buffers[i] : i \in 1..Len(buffers)}
    BY DEF ChainOK, ChainOwnsPool
  <2>2. ASSUME NEW a \in pool'
        PROVE  \E i \in 1..Len(buffers') : a = buffers'[i]
    <3>1. CASE a \in pool
      BY <3>1, <2>1, <1>3, <1>4
    <3>2. CASE a \notin pool
      <4>1. PICK i \in 1..k : a = s[i]
        BY <3>2, <2>2, <1>1
      <4>2. i + Len(buffers) \in (Len(buffers) + 1)..(Len(buffers) + k)
        BY <1>3
      <4>3. (i + Len(buffers)) - Len(buffers) = i
        BY <1>3
      <4>4. i + Len(buffers) \in 1..Len(buffers')
        BY <1>3, <1>4, <4>2
      <4>5. a = buffers'[i + Len(buffers)]
        BY <1>4, <4>1, <4>2, <4>3
      <4> QED  BY <4>4, <4>5
    <3> QED  BY <3>1, <3>2
  <2>3. ASSUME NEW i \in 1..Len(buffers')
        PROVE  buffers'[i] \in pool'
    <3>1. CASE i <= Len(buffers)
      BY <3>1, <2>1, <1>1, <1>3, <1>4
    <3>2. CASE i > Len(buffers)
      BY <3>2, <1>1, <1>3, <1>4, i - Len(buffers) \in 1..k
    <3> QED  BY <3>1, <3>2, <1>3
  <2> QED  BY <2>2, <2>3
<1>6. ASSUME NEW i \in 1..Len(buffers'), NEW j \in 1..Len(buffers'),
             buffers'[i] = buffers'[j]
      PROVE  i = j
  <2>1. /\ pool = {buffers[n] : n \in 1..Len(buffers)}
        /\ \A a, b \in 1..Len(buffers) : buffers[a] = buffers[b] => a = b
    BY DEF ChainOK, ChainOwnsPool
  <2>2. \A n \in 1..Len(buffers') :
           \/ n \in 1..Len(buffers) /\ buffers'[n] = buffers[n] /\ buffers'[n] \in pool
           \/ /\ n - Len(buffers) \in 1..k
              /\ buffers'[n] = s[n - Len(buffers)]
              /\ buffers'[n] \notin pool
    BY <2>1, <1>2, <1>3, <1>4
  <2>3. CASE i \in 1..Len(buffers) /\ j \in 1..Len(buffers)
    BY <1>4, <1>6, <2>1, <2>3
  <2>4. CASE i - Len(buffers) \in 1..k /\ j - Len(buffers) \in 1..k
    <3>1. /\ i \in (Len(buffers) + 1)..(Len(buffers) + k)
          /\ j \in (Len(buffers) + 1)..(Len(buffers) + k)
      BY <1>3, <2>4
    <3>2. s[i - Len(buffers)] = s[j - Len(buffers)]
      BY <1>4, <1>6, <3>1
    <3>3. i - Len(buffers) = j - Len(buffers)
      BY <1>2, <2>4, <3>2
    <3> QED  BY <1>3, <3>3
  <2> QED  BY <1>6, <2>2, <2>3, <2>4
<1>7. sanity_check' = Len(buffers') /\ (exited' => Len(buffers') > SaneLimit)
  BY <1>1, <1>3, <1>4, BoundAssumption DEF ChainOK, ChainOwnsPool
<1> QED
  BY <1>1, <1>4, <1>5, <1>6, <1>7 DEF ChainOwnsPool

\* free() leaves the memory well typed.
LEMMA FreeOK ==
  ASSUME NEW s, NEW m \in [Addr -> [Offset -> Cell]], free(s, m)
  PROVE  mem' \in [Addr -> [Offset -> Cell]] /\ pool' = pool \ s
<1>1. Blank \in [Offset -> Cell]
  BY DEF Blank, Cell
<1> QED
  BY <1>1 DEF free

\* Dropping the first f buffers of the chain leaves it the owner of the rest.
LEMMA DropFrontOK ==
  ASSUME ChainOK, NEW f \in 0..(Len(buffers) - 1),
         buffers' = SubSeq(buffers, f + 1, Len(buffers)),
         free({buffers[i] : i \in 1..f}, mem),
         sanity_check' = sanity_check - f,
         ~exited'
  PROVE  /\ buffers' \in Seq(Addr)
         /\ Len(buffers') = Len(buffers) - f
         /\ \A i \in 1..(Len(buffers) - f) : buffers'[i] = buffers[f + i]
         /\ mem' \in [Addr -> [Offset -> Cell]]
         /\ ChainOwnsPool'
<1>1. /\ buffers \in Seq(Addr) /\ Len(buffers) \in Nat /\ f \in Nat
      /\ mem \in [Addr -> [Offset -> Cell]]
  BY DEF ChainOK
<1>2. /\ buffers' \in Seq(Addr)
      /\ Len(buffers') = Len(buffers) - f
      /\ \A i \in 1..(Len(buffers) - f) : buffers'[i] = buffers[f + i]
  BY <1>1
<1>3. mem' \in [Addr -> [Offset -> Cell]] /\ pool' = pool \ {buffers[i] : i \in 1..f}
  BY <1>1, FreeOK
<1>4. /\ pool = {buffers[n] : n \in 1..Len(buffers)}
      /\ \A a, b \in 1..Len(buffers) : buffers[a] = buffers[b] => a = b
      /\ sanity_check = Len(buffers)
  BY DEF ChainOK, ChainOwnsPool
<1>5. pool' = {buffers'[i] : i \in 1..Len(buffers')}
  <2>1. ASSUME NEW a \in pool'
        PROVE  \E i \in 1..Len(buffers') : a = buffers'[i]
    <3>1. PICK n \in 1..Len(buffers) : a = buffers[n]
      BY <1>3, <1>4, <2>1
    <3>2. ~(n <= f)
      BY <1>1, <1>3, <2>1, <3>1
    <3>3. n - f \in 1..Len(buffers') /\ f + (n - f) = n
      BY <1>1, <1>2, <3>2
    <3>4. a = buffers'[n - f]
      BY <1>1, <1>2, <3>1, <3>3
    <3> QED  BY <3>3, <3>4
  <2>2. ASSUME NEW i \in 1..Len(buffers')
        PROVE  buffers'[i] \in pool'
    <3>1. f + i \in 1..Len(buffers) /\ buffers'[i] = buffers[f + i]
      BY <1>1, <1>2
    <3>2. \A n \in 1..f : n \in 1..Len(buffers) /\ n # f + i
      BY <1>1
    <3> QED  BY <1>3, <1>4, <3>1, <3>2
  <2> QED  BY <2>1, <2>2
<1>6. ASSUME NEW i \in 1..Len(buffers'), NEW j \in 1..Len(buffers'),
             buffers'[i] = buffers'[j]
      PROVE  i = j
  <2>1. f + i \in 1..Len(buffers) /\ f + j \in 1..Len(buffers)
    BY <1>1, <1>2
  <2>2. buffers[f + i] = buffers[f + j]
    BY <1>2, <1>6
  <2>3. f + i = f + j
    BY <1>4, <2>1, <2>2
  <2> QED  BY <1>1, <2>3
<1>7. sanity_check' = Len(buffers')
  BY <1>2, <1>4
<1> QED
  BY <1>2, <1>3, <1>5, <1>6, <1>7 DEF ChainOwnsPool

\* reset() either ends the process, on a chain that really is too long, or
\* leaves the first buffer and both pointers at the origin.
LEMMA ResetOK ==
  ASSUME ChainOK, NEW ind \in Index, Pos(ind) <= Pos(write_ind), reset(ind)
  PROVE  /\ ChainOK'
         /\ \/ exited' /\ read_ind' = ind /\ UNCHANGED <<buffers, write_ind>>
            \/ exited' = exited /\ read_ind' = Origin /\ write_ind' = Origin
<1>0. /\ buffers \in Seq(Addr) /\ Len(buffers) \in Nat \ {0}
      /\ mem \in [Addr -> [Offset -> Cell]]
      /\ sanity_check = Len(buffers)
      /\ pool = {buffers[n] : n \in 1..Len(buffers)}
      /\ \A a, b \in 1..Len(buffers) : buffers[a] = buffers[b] => a = b
  BY DEF ChainOK, ChainOwnsPool, Index
<1>1. CASE Len(buffers) # sanity_check \/ Len(buffers) > SaneLimit
  <2>1. /\ exited' = TRUE /\ read_ind' = ind
        /\ UNCHANGED <<buffers, write_ind, sanity_check, pool, mem>>
    BY <1>1 DEF reset
  <2>2. ChainOwnsPool'
    BY <1>0, <1>1, <2>1 DEF ChainOwnsPool
  <2>3. Pos(read_ind') <= Pos(write_ind')
    BY <2>1
  <2> QED
    BY <2>1, <2>2, <2>3 DEF ChainOK, Pos
<1>2. CASE ~(Len(buffers) # sanity_check \/ Len(buffers) > SaneLimit)
  <2>1. /\ buffers' = SubSeq(buffers, 1, 1)
        /\ sanity_check' = sanity_check - (Len(buffers) - 1)
        /\ free({buffers[i] : i \in 2..Len(buffers)}, mem)
        /\ read_ind' = Origin
        /\ write_ind' = Origin
        /\ exited' = exited
    BY <1>2 DEF reset
  <2>2. buffers' \in Seq(Addr) /\ Len(buffers') = 1 /\ buffers'[1] = buffers[1]
    BY <1>0, <2>1
  <2>3. /\ mem' \in [Addr -> [Offset -> Cell]]
        /\ pool' = pool \ {buffers[i] : i \in 2..Len(buffers)}
    BY <1>0, <2>1, FreeOK
  <2>4. pool' = {buffers[1]}
    BY <1>0, <2>3
  <2>5. sanity_check' = 1
    BY <1>0, <2>1
  <2>6. ~exited
    BY <1>0, <1>2, BoundAssumption DEF ChainOK, ChainOwnsPool
  <2>7. ChainOwnsPool'
    BY <2>1, <2>2, <2>4, <2>5, <2>6 DEF ChainOwnsPool
  <2>8. Origin \in Index /\ Origin.first = 0 /\ Pos(Origin) = 0
    BY BufferLenAssumption DEF Origin, Index, Offset, Pos
  <2>9. Len(buffers') <= MaxChain
    BY <2>2, BoundAssumption
  <2> QED
    BY <2>1, <2>2, <2>3, <2>6, <2>7, <2>8, <2>9 DEF ChainOK, Pos
<1> QED
  BY <1>1, <1>2

\* advance_read_ptr within the unread bytes keeps the chain well formed and
\* consumes exactly that many; unless it drains the buffer it only drops
\* buffers at the front and shifts the write pointer by their number.
LEMMA AdvanceReadOK ==
  ASSUME ChainOK, ~exited, NEW n \in Nat, n <= Pos(write_ind) - Pos(read_ind),
         advance_read_ptr(n)
  PROVE  /\ ChainOK'
         /\ Pos(write_ind)' - Pos(read_ind)' = Pos(write_ind) - Pos(read_ind) - n
         /\ n < Pos(write_ind) - Pos(read_ind) =>
              /\ ~exited'
              /\ \E f \in 0..write_ind.first :
                   /\ Len(buffers') = Len(buffers) - f
                   /\ \A i \in 1..(Len(buffers) - f) : buffers'[i] = buffers[f + i]
                   /\ write_ind' = [write_ind EXCEPT !.first = @ - f]
<1> DEFINE ind == advance_index(read_ind, n)
<1>0. /\ read_ind \in Index /\ write_ind \in Index
      /\ Pos(read_ind) \in Nat /\ Pos(write_ind) \in Nat
      /\ write_ind.first \in Nat /\ write_ind.second \in 0..(BufferLen - 1)
      /\ Len(buffers) \in Nat /\ write_ind.first < Len(buffers)
      /\ BufferLen \in Nat
  BY PosOrder, BufferLenAssumption DEF ChainOK, Index, Offset
<1>1. Pos(write_ind) < U32
  BY <1>0, ChainBytes, BoundAssumption
<1>2. ind \in Index /\ Pos(ind) = Pos(read_ind) + n
  BY <1>0, <1>1, AdvanceIndex, BoundAssumption
<1> HIDE DEF ind
<1>3. Pos(ind) <= Pos(write_ind)
  BY <1>0, <1>2
<1>4. CASE ind = write_ind
  <2>1. reset(ind)
    BY <1>4 DEF advance_read_ptr, ind
  <2>2. /\ ChainOK'
        /\ \/ exited' /\ read_ind' = ind /\ UNCHANGED <<buffers, write_ind>>
           \/ exited' = exited /\ read_ind' = Origin /\ write_ind' = Origin
    BY <1>2, <1>3, <2>1, ResetOK
  <2>3. n = Pos(write_ind) - Pos(read_ind)
    BY <1>0, <1>2, <1>4
  <2>4. read_ind' = write_ind' /\ Pos(write_ind') \in Nat
    BY <1>4, <2>2, PosOrder DEF ChainOK
  <2>5. Pos(write_ind)' - Pos(read_ind)' = 0
    BY <2>4 DEF Pos
  <2> QED
    BY <1>0, <2>2, <2>3, <2>5
<1>5. CASE ind # write_ind
  <2> DEFINE f == ind.first
  <2>1. f \in Nat /\ ind.second \in Offset /\ ind.second \in Nat
    BY <1>2 DEF Index, Offset
  <2>2. f <= write_ind.first
    BY <1>0, <1>2, <1>3, PosOrder
  <2>3. /\ buffers' = SubSeq(buffers, f + 1, Len(buffers))
        /\ free({buffers[i] : i \in 1..f}, mem)
        /\ sanity_check' = sanity_check - f
        /\ read_ind' = [ind EXCEPT !.first = 0]
        /\ write_ind' = [write_ind EXCEPT !.first = (@ - f) % U32]
        /\ exited' = exited
    BY <1>5 DEF advance_read_ptr, ind
  <2> HIDE DEF f
  <2>4. f \in 0..(Len(buffers) - 1)
    BY <1>0, <2>1, <2>2
  <2>5. /\ buffers' \in Seq(Addr)
        /\ Len(buffers') = Len(buffers) - f
        /\ \A i \in 1..(Len(buffers) - f) : buffers'[i] = buffers[f + i]
        /\ mem' \in [Addr -> [Offset -> Cell]]
        /\ ChainOwnsPool'
    BY <2>3, <2>4, DropFrontOK
  <2>6. write_ind' = [write_ind EXCEPT !.first = @ - f]
    <3>1. write_ind.first <= write_ind.first * BufferLen
      BY <1>0, MulMono
    <3>2. write_ind.first < U32
      <4>1. write_ind.first * BufferLen <= Pos(write_ind)
        BY <1>0 DEF Pos
      <4> QED  BY <1>0, <1>1, <3>1, <4>1, BoundAssumption
    <3>3. (write_ind.first - f) % U32 = write_ind.first - f
      BY <1>0, <2>1, <2>2, <3>2, NoWrap, BoundAssumption
    <3> QED  BY <2>3, <3>3
  <2>7. /\ write_ind' = [first |-> write_ind.first - f, second |-> write_ind.second]
        /\ read_ind' = [first |-> 0, second |-> ind.second]
    BY <1>0, <1>2, <2>3, <2>6 DEF Index
  <2>8. write_ind' \in Index /\ read_ind' \in Index
    BY <1>0, <2>1, <2>2, <2>7 DEF Index, Offset
  <2>9. Pos(write_ind') = Pos(write_ind) - f * BufferLen
    <3>1. (write_ind.first - f) * BufferLen = write_ind.first * BufferLen - f * BufferLen
      BY <1>0, <2>1
    <3>2. f * BufferLen \in Nat /\ write_ind.first * BufferLen \in Nat
      BY <1>0, <2>1
    <3> QED  BY <1>0, <2>7, <3>1, <3>2 DEF Pos
  <2>10. Pos(read_ind') = Pos(ind) - f * BufferLen
    <3>1. f * BufferLen \in Nat
      BY <1>0, <2>1
    <3>2. Pos(read_ind') = ind.second
      BY <1>0, <2>1, <2>7 DEF Pos
    <3>3. Pos(ind) = f * BufferLen + ind.second
      BY DEF Pos, f
    <3> QED  BY <2>1, <3>1, <3>2, <3>3
  <2>11. Pos(ind) # Pos(write_ind)
    BY <1>0, <1>2, <1>5, PosOrder
  <2>12. /\ Pos(write_ind') - Pos(read_ind') = Pos(write_ind) - Pos(read_ind) - n
         /\ Pos(read_ind') < Pos(write_ind')
    <3>1. f * BufferLen \in Nat
      BY <1>0, <2>1
    <3> QED  BY <1>0, <1>2, <1>3, <2>9, <2>10, <2>11, <3>1
  <2>13. read_ind' # write_ind' /\ read_ind'.first = 0
    BY <2>7, <2>8, <2>12, PosOrder
  <2>14. ChainOK'
    <3>1. Pos(read_ind)' <= Pos(write_ind)'
      BY <2>8, <2>12, PosOrder DEF Pos
    <3>2. write_ind'.first < Len(buffers')
      BY <1>0, <2>1, <2>2, <2>5, <2>7
    <3>3. Len(buffers') <= MaxChain
      BY <1>0, <2>1, <2>5, BoundAssumption DEF ChainOK
    <3> QED  BY <2>3, <2>5, <2>8, <2>13, <3>1, <3>2, <3>3 DEF ChainOK
  <2>15. f \in 0..write_ind.first
    BY <1>0, <2>1, <2>2
  <2> QED
    BY <2>3, <2>5, <2>6, <2>12, <2>14, <2>15 DEF Pos
<1> QED
  BY <1>4, <1>5

\* advance_write_ptr within the chain moves the write pointer by that many
\* bytes and leaves it inside the chain, grown if need be.
LEMMA AdvanceWriteOK ==
  ASSUME ChainOK, ~exited, NEW n \in Nat,
         n <= BufferLen * Len(buffers) - Pos(write_ind),
         NEW m \in [Addr -> [Offset -> Cell]],
         advance_write_ptr(n, m)
  PROVE  /\ ChainOK'
         /\ ~exited'
         /\ read_ind' = read_ind
         /\ Pos(write_ind') = Pos(write_ind) + n
<1> DEFINE ind == advance_index(write_ind, n)
           k == IF ind.first >= Len(buffers) THEN ind.first + 1 - Len(buffers) ELSE 0
<1>0. /\ read_ind \in Index /\ write_ind \in Index
      /\ Pos(read_ind) \in Nat /\ Pos(write_ind) \in Nat
      /\ Len(buffers) \in Nat /\ BufferLen \in Nat \ {0}
  BY PosOrder, BufferLenAssumption DEF ChainOK
<1>1. Pos(write_ind) + n < U32
  BY <1>0, ChainBytes, BoundAssumption
<1>2. ind \in Index /\ Pos(ind) = Pos(write_ind) + n
  BY <1>0, <1>1, AdvanceIndex
<1>3. ind.first \in Nat
  BY <1>2 DEF Index
<1>4. write_ind' = ind /\ Grow(k, m) /\ UNCHANGED <<read_ind, exited>>
  BY DEF advance_write_ptr
<1> HIDE DEF ind
<1>5. k \in Nat /\ ind.first < Len(buffers) + k
  BY <1>0, <1>3
<1> HIDE DEF k
<1>6. /\ buffers' \in Seq(Addr)
      /\ Len(buffers') = Len(buffers) + k
      /\ Len(buffers') <= MaxChain
      /\ ChainOwnsPool'
      /\ mem' = m
  BY <1>4, <1>5, GrowOK
<1>7. Pos(read_ind') <= Pos(write_ind')
  BY <1>0, <1>2, <1>4 DEF ChainOK
<1>8. read_ind' = write_ind' => read_ind' = Origin
  <2>1. ASSUME read_ind' = write_ind'
        PROVE  read_ind = write_ind
    <3>1. Pos(read_ind) = Pos(write_ind) + n
      BY <1>2, <1>4, <2>1
    <3>2. Pos(read_ind) = Pos(write_ind)
      BY <1>0, <3>1 DEF ChainOK
    <3> QED  BY <1>0, <3>2, PosOrder
  <2> QED  BY <2>1, <1>4 DEF ChainOK
<1>9. ChainOK'
  BY <1>2, <1>4, <1>5, <1>6, <1>7, <1>8 DEF ChainOK, Pos
<1> QED
  BY <1>2, <1>4, <1>9

-----------------------------------------------------------------------------
(* The regions handed to async_read. *)

\* A free cell of the chain is in a buffer of the chain.
LEMMA CellInChain ==
  ASSUME ChainOK, NEW k \in Nat, Pos(write_ind) + k < BufferLen * Len(buffers)
  PROVE  /\ (write_ind.second + k) \div BufferLen \in Nat
         /\ write_ind.first + ((write_ind.second + k) \div BufferLen) + 1
              \in (write_ind.first + 1)..Len(buffers)
         /\ CellAt(write_ind, k) \in Addr \X Offset
<1> DEFINE x == write_ind.second + k
           q == x \div BufferLen
           r == x % BufferLen
<1>0. /\ write_ind.first \in Nat /\ write_ind.second \in Nat
      /\ buffers \in Seq(Addr) /\ Len(buffers) \in Nat
      /\ BufferLen \in Nat \ {0} /\ x \in Nat
  BY BufferLenAssumption DEF ChainOK, Index, Offset
<1>1. q \in Nat /\ r \in Offset /\ x = q * BufferLen + r
  BY <1>0, DivMod
<1>2. Pos(write_ind) + k = write_ind.first * BufferLen + x
  <2>1. write_ind.first * BufferLen \in Nat
    BY <1>0
  <2> QED  BY <1>0, <2>1 DEF Pos
<1> HIDE DEF x, q, r
<1>3. write_ind.first + q < Len(buffers)
  <2>1. SUFFICES ASSUME Len(buffers) <= write_ind.first + q  PROVE FALSE
    BY <1>0, <1>1
  <2>2. Len(buffers) * BufferLen <= (write_ind.first + q) * BufferLen
    BY <1>0, <1>1, <2>1, MulMono, write_ind.first + q \in Nat
  <2>3. (write_ind.first + q) * BufferLen = write_ind.first * BufferLen + q * BufferLen
    BY <1>0, <1>1
  <2>4. Len(buffers) * BufferLen = BufferLen * Len(buffers)
    BY <1>0
  <2>5. /\ write_ind.first * BufferLen \in Nat /\ q * BufferLen \in Nat
        /\ BufferLen * Len(buffers) \in Nat /\ r \in Nat
    BY <1>0, <1>1 DEF Offset
  <2> DEFINE wb == write_ind.first * BufferLen
             qb == q * BufferLen
             t == BufferLen * Len(buffers)
  <2>6. t <= wb + qb /\ wb + (qb + r) < t
    BY <1>1, <1>2, <2>2, <2>3, <2>4
  <2>7. wb \in Nat /\ qb \in Nat /\ t \in Nat /\ r \in Nat
    BY <2>5
  <2> HIDE DEF wb, qb, t
  <2> QED  BY <2>6, <2>7
<1>4. write_ind.first + q + 1 \in (write_ind.first + 1)..Len(buffers)
  BY <1>0, <1>1, <1>3
<1>5. CellAt(write_ind, k) = <<buffers[write_ind.first + q + 1], r>>
  BY DEF CellAt, x, q, r
<1>6. buffers[write_ind.first + q + 1] \in Addr
  BY <1>0, <1>4
<1> QED
  BY <1>1, <1>4, <1>5, <1>6 DEF x, q

\* The regions stay the free space when buffers are dropped before the write
\* pointer or appended to the chain.
LEMMA PendingKept ==
  ASSUME ChainOK, PendingOK, ChainOK', pending' = pending,
         NEW f \in 0..write_ind.first,
         Len(buffers') >= Len(buffers) - f,
         \A i \in 1..(Len(buffers) - f) : buffers'[i] = buffers[f + i],
         write_ind' = [write_ind EXCEPT !.first = @ - f]
  PROVE  PendingOK'
<1>0. /\ write_ind.first \in Nat /\ write_ind.second \in Nat /\ f \in Nat
      /\ Len(buffers) \in Nat /\ Len(buffers') \in Nat
      /\ BufferLen \in Nat /\ Len(pending) \in Nat /\ write_ind.first < Len(buffers)
      /\ write_ind \in Index /\ f <= write_ind.first
  BY BufferLenAssumption DEF ChainOK, PendingOK, Index, Offset
<1>1. write_ind'.first = write_ind.first - f /\ write_ind'.second = write_ind.second
  BY <1>0 DEF Index
<1>2. Pos(write_ind') + Len(pending) <= BufferLen * Len(buffers')
  <2> DEFINE wb == write_ind.first * BufferLen
             fb == f * BufferLen
             t == BufferLen * Len(buffers)
             u == BufferLen * Len(buffers')
  <2>1. (write_ind.first - f) * BufferLen = wb - fb
    BY <1>0
  <2>2. (Len(buffers) - f) * BufferLen <= Len(buffers') * BufferLen
    BY <1>0, MulMono, Len(buffers) - f \in Nat
  <2>3. (Len(buffers) - f) * BufferLen = t - fb /\ Len(buffers') * BufferLen = u
    BY <1>0
  <2>4. wb \in Nat /\ fb \in Nat /\ t \in Nat /\ u \in Nat
    BY <1>0
  <2>5. Pos(write_ind) = wb + write_ind.second
    BY DEF Pos
  <2>6. Pos(write_ind') = (wb - fb) + write_ind.second
    BY <1>1, <2>1 DEF Pos
  <2>7. Pos(write_ind) + Len(pending) <= t
    BY DEF PendingOK, PendingIsFreeSpace
  <2>8. t - fb <= u
    BY <2>2, <2>3
  <2> HIDE DEF wb, fb, t, u
  <2>9. Pos(write_ind') + Len(pending) <= u
    BY <1>0, <2>4, <2>5, <2>6, <2>7, <2>8
  <2> QED  BY <2>9 DEF u
<1>3. ASSUME NEW i \in 1..Len(pending)
      PROVE  pending[i] = CellAt(write_ind, i - 1)'
  <2> DEFINE q == (write_ind.second + (i - 1)) \div BufferLen
  <2>1. i - 1 \in Nat /\ Pos(write_ind) \in Nat
    BY <1>0, PosOrder
  <2>2. Pos(write_ind) + (i - 1) < BufferLen * Len(buffers)
    <3>1. Pos(write_ind) + Len(pending) <= BufferLen * Len(buffers)
      BY DEF PendingOK, PendingIsFreeSpace
    <3> QED  BY <1>0, <2>1, <3>1, ChainBytes
  <2>3. q \in Nat /\ write_ind.first + q + 1 \in (write_ind.first + 1)..Len(buffers)
    BY <2>1, <2>2, CellInChain
  <2>4. pending[i] = <<buffers[write_ind.first + q + 1],
                       (write_ind.second + (i - 1)) % BufferLen>>
    BY DEF PendingOK, PendingIsFreeSpace, CellAt
  <2>5. CellAt(write_ind, i - 1)' = <<buffers'[write_ind'.first + q + 1],
                               (write_ind.second + (i - 1)) % BufferLen>>
    BY <1>1 DEF CellAt
  <2> HIDE DEF q
  <2>6. /\ (write_ind.first - f) + q + 1 \in 1..(Len(buffers) - f)
        /\ f + ((write_ind.first - f) + q + 1) = write_ind.first + q + 1
    <3>1. q \in Nat /\ write_ind.first + q + 1 <= Len(buffers)
      BY <1>0, <2>3
    <3>2. (write_ind.first - f) + q + 1 <= Len(buffers) - f
      BY <1>0, <3>1
    <3>3. (write_ind.first - f) + q + 1 \in Nat /\ (write_ind.first - f) + q + 1 >= 1
      <4> DEFINE d == write_ind.first - f
      <4>1. d \in Nat
        BY <1>0
      <4> HIDE DEF d
      <4>2. d + q + 1 \in Nat /\ d + q + 1 >= 1
        BY <3>1, <4>1
      <4> QED  BY <4>2 DEF d
    <3>4. f + ((write_ind.first - f) + q + 1) = write_ind.first + q + 1
      BY <1>0, <3>1
    <3> QED  BY <1>0, <3>2, <3>3, <3>4
  <2>7. buffers'[(write_ind.first - f) + q + 1] = buffers[write_ind.first + q + 1]
    BY <2>6
  <2> QED  BY <1>1, <2>4, <2>5, <2>7
<1> QED
  BY <1>2, <1>3 DEF PendingOK, PendingIsFreeSpace, Pos

\* With no read outstanding there is nothing to keep.
LEMMA NoPending == ChainOK /\ pending = << >> => PendingOK
<1> SUFFICES ASSUME ChainOK, pending = << >> PROVE PendingOK
  OBVIOUS
<1>1. Pos(write_ind) + Len(pending) <= BufferLen * Len(buffers)
  BY ChainBytes
<1> QED
  BY <1>1 DEF PendingOK, PendingIsFreeSpace

\* Writing bytes to cells leaves the memory well typed.
LEMMA StoreOK ==
  ASSUME mem \in [Addr -> [Offset -> Cell]], NEW cells, NEW data \in Seq(Byte)
  PROVE  Store(cells, data) \in [Addr -> [Offset -> Cell]]
<1>1. ASSUME NEW a \in Addr, NEW o \in Offset,
             \E i \in 1..Len(data) : cells[i] = <<a, o>>
      PROVE  data[CHOOSE i \in 1..Len(data) : cells[i] = <<a, o>>] \in Cell
  <2>1. (CHOOSE i \in 1..Len(data) : cells[i] = <<a, o>>) \in 1..Len(data)
    BY <1>1
  <2> HIDE <1>1
  <2> QED  BY <2>1 DEF Cell
<1>2. \A a \in Addr, o \in Offset : mem[a][o] \in Cell
  OBVIOUS
<1> QED
  BY <1>1, <1>2 DEF Store

-----------------------------------------------------------------------------
(* The invariant holds at the start and is kept by every action. *)

\* A buffer as its constructor leaves it satisfies the invariant.
LEMMA InitOK == Init => IInv
<1> SUFFICES ASSUME Init PROVE IInv
  OBVIOUS
<1>1. PICK a \in Addr :
        /\ buffers = <<a>> /\ pool = {a} /\ mem = [b \in Addr |-> Blank]
        /\ read_ind = Origin /\ write_ind = Origin /\ sanity_check = 1
        /\ pending = << >> /\ index = Origin /\ call = Idle /\ dest = << >>
        /\ exited = FALSE
  BY DEF Init
<1>2. Origin \in Index /\ Origin.first = 0 /\ Pos(Origin) = 0
  BY BufferLenAssumption DEF Origin, Index, Offset, Pos
<1>3. buffers \in Seq(Addr) /\ Len(buffers) = 1 /\ buffers[1] = a
  BY <1>1
<1>4. mem \in [Addr -> [Offset -> Cell]]
  BY <1>1 DEF Blank, Cell
<1>5. ChainOwnsPool
  BY <1>1, <1>3 DEF ChainOwnsPool
<1>6. ChainOK
  <2>1. Len(buffers) <= MaxChain /\ write_ind.first < Len(buffers)
    BY <1>1, <1>2, <1>3, BoundAssumption
  <2>2. read_ind \in Index /\ write_ind \in Index /\ Pos(read_ind) <= Pos(write_ind)
    BY <1>1, <1>2
  <2> QED
    BY <1>1, <1>2, <1>3, <1>4, <1>5, <2>1, <2>2 DEF ChainOK
<1>7. PendingOK
  BY <1>1, <1>6, NoPending
<1>8. CallOK
  BY <1>1, <1>2 DEF CallOK, Idle
<1> QED
  BY <1>6, <1>7, <1>8 DEF IInv

\* Growth alone: the chain and the regions are kept.
LEMMA GrowStep ==
  ASSUME IInv, NEW k \in Nat, Grow(k, mem),
         UNCHANGED <<read_ind, write_ind, pending, index, call, dest, exited>>
  PROVE  IInv'
<1>0. ChainOK /\ PendingOK /\ CallOK
  BY DEF IInv
<1>1. /\ buffers' \in Seq(Addr)
      /\ Len(buffers') = Len(buffers) + k
      /\ Len(buffers') <= MaxChain
      /\ \A i \in 1..Len(buffers) : buffers'[i] = buffers[i]
      /\ ChainOwnsPool'
      /\ mem' = mem
  BY <1>0, GrowOK
<1>2. Len(buffers) \in Nat /\ write_ind.first \in Nat /\ write_ind \in Index
  BY <1>0 DEF ChainOK, Index
<1>3. write_ind'.first < Len(buffers')
  BY <1>0, <1>1, <1>2 DEF ChainOK
<1>4. ChainOK'
  BY <1>0, <1>1, <1>3 DEF ChainOK, Pos
<1>5. PendingOK'
  <2>1. 0 \in 0..write_ind.first /\ Len(buffers') >= Len(buffers) - 0
    BY <1>1, <1>2
  <2>2. \A i \in 1..(Len(buffers) - 0) : buffers'[i] = buffers[0 + i]
    BY <1>1, <1>2
  <2>3. write_ind' = [write_ind EXCEPT !.first = @ - 0]
    BY <1>2 DEF Index
  <2>4. pending' = pending
    OBVIOUS
  <2> QED  BY <1>0, <1>4, <2>1, <2>2, <2>3, <2>4, PendingKept
<1>6. CallOK'
  BY <1>0 DEF CallOK, Pos
<1> QED
  BY <1>4, <1>5, <1>6 DEF IInv

\* Consumption, by skip or by one call of read: the peek index restarts at
\* the read pointer, and the regions are kept unless the buffer is drained.
LEMMA ConsumeStep ==
  ASSUME IInv, ~exited, NEW n \in Nat, n <= Pos(write_ind) - Pos(read_ind),
         pending # << >> => n < Pos(write_ind) - Pos(read_ind),
         advance_read_ptr(n), pending' = pending, index' = read_ind',
         call' \in [kind : {"idle", "read", "peek"}, left : Nat],
         dest' \in Seq(Cell),
         call'.kind = "read" /\ pending # << >> =>
           call'.left + n # Pos(write_ind) - Pos(read_ind)
  PROVE  IInv'
<1>0. ChainOK /\ PendingOK /\ CallOK
  BY DEF IInv
<1>1. /\ ChainOK'
      /\ Pos(write_ind)' - Pos(read_ind)' = Pos(write_ind) - Pos(read_ind) - n
      /\ n < Pos(write_ind) - Pos(read_ind) =>
           /\ ~exited'
           /\ \E f \in 0..write_ind.first :
                /\ Len(buffers') = Len(buffers) - f
                /\ \A i \in 1..(Len(buffers) - f) : buffers'[i] = buffers[f + i]
                /\ write_ind' = [write_ind EXCEPT !.first = @ - f]
  BY <1>0, AdvanceReadOK
<1>2. PendingOK'
  <2>1. CASE pending = << >>
    <3>1. (pending = << >>)'
      BY <2>1
    <3> QED  BY <1>1, <3>1, NoPending, PTL
  <2>2. CASE pending # << >>
    <3>1. PICK f \in 0..write_ind.first :
                /\ Len(buffers') = Len(buffers) - f
                /\ \A i \in 1..(Len(buffers) - f) : buffers'[i] = buffers[f + i]
                /\ write_ind' = [write_ind EXCEPT !.first = @ - f]
      BY <1>1, <2>2
    <3>2. Len(buffers') >= Len(buffers) - f
      BY <1>0, <3>1 DEF ChainOK
    <3> QED  BY <1>0, <1>1, <3>1, <3>2, PendingKept
  <2> QED  BY <2>1, <2>2
<1>3. CallOK'
  <2>1. read_ind' \in Index /\ write_ind' \in Index /\ Pos(read_ind)' <= Pos(write_ind)'
    BY <1>1 DEF ChainOK
  <2>2. /\ Pos(read_ind') \in Nat /\ Pos(write_ind') \in Nat
        /\ Pos(read_ind) \in Nat /\ Pos(write_ind) \in Nat
    BY <1>0, <2>1, PosOrder DEF ChainOK
  <2>3. Pos(read_ind)' <= Pos(index)' /\ Pos(index)' <= Pos(write_ind)'
    BY <2>1, <2>2 DEF Pos
  <2>4. ASSUME call'.kind = "read", pending' # << >>
        PROVE  call'.left # Pos(write_ind)' - Pos(read_ind)'
    <3>1. call'.left \in Nat /\ call'.left + n # Pos(write_ind) - Pos(read_ind)
      BY <2>4
    <3> QED  BY <1>1, <2>2, <3>1
  <2> QED
    BY <2>1, <2>3, <2>4 DEF CallOK
<1> QED
  BY <1>1, <1>2, <1>3 DEF IInv

\* One call of the recursion copies no more than is asked and no more than
\* the buffer holds, and the next call asks for the rest.
LEMMA CallSizeOK ==
  ASSUME IInv, NEW ind \in Index, Pos(ind) <= Pos(write_ind),
         call.left <= Pos(write_ind) - Pos(ind), Recur(CallSize(ind)),
         call.kind \in {"read", "peek"}
  PROVE  /\ CallSize(ind) \in Nat
         /\ CallSize(ind) <= call.left
         /\ CallSize(ind) <= BufferLen - ind.second
         /\ Chunk(ind, CallSize(ind)) \in Seq(Cell)
         /\ call' \in [kind : {"idle", "read", "peek"}, left : Nat]
         /\ call'.kind = "read" =>
              call.kind = "read" /\ call'.left + CallSize(ind) = call.left
<1> DEFINE n == CallSize(ind)
<1>0. /\ ChainOK /\ call.left \in Nat
      /\ call = [kind |-> call.kind, left |-> call.left]
      /\ ind.first \in Nat /\ ind.second \in 0..(BufferLen - 1)
      /\ BufferLen \in Nat \ {0}
      /\ Pos(ind) \in Nat /\ Pos(write_ind) \in Nat
      /\ buffers \in Seq(Addr) /\ mem \in [Addr -> [Offset -> Cell]]
  BY PosOrder, BufferLenAssumption DEF IInv, ChainOK, CallOK, Index, Offset
<1>1. (ind.second + call.left) % U32 = ind.second + call.left
  <2>1. ind.second + call.left \in Nat /\ ind.second + call.left < U32
    <3>1. Pos(write_ind) + BufferLen < U32
      BY <1>0, PosFits
    <3>2. call.left <= Pos(write_ind)
      BY <1>0
    <3>3. ind.second <= BufferLen /\ ind.second \in Nat
      BY <1>0
    <3> QED  BY <1>0, <3>1, <3>2, <3>3, BoundAssumption
  <2> QED  BY <2>1, NoWrap
<1>2. n \in Nat /\ n <= call.left /\ n <= BufferLen - ind.second
  BY <1>0, <1>1 DEF CallSize
<1>3. Chunk(ind, n) \in Seq(Cell)
  <2>1. ind.first <= write_ind.first
    BY <1>0, PosOrder DEF ChainOK
  <2>2. buffers[ind.first + 1] \in Addr
    BY <1>0, <2>1 DEF ChainOK, Index
  <2> HIDE DEF n
  <2>3. ASSUME NEW i \in 1..n
        PROVE  mem[buffers[ind.first + 1]][ind.second + i - 1] \in Cell
    <3>1. ind.second + i - 1 \in Offset
      BY <1>0, <1>2 DEF Offset
    <3> QED  BY <1>0, <2>2, <3>1
  <2>4. Chunk(ind, n) \in [1..n -> Cell]
    BY <2>3 DEF Chunk
  <2> QED  BY <1>2, <2>4
<1> HIDE DEF n
<1>4. call' = IF n = call.left THEN Idle ELSE [call EXCEPT !.left = @ - n]
  BY DEF Recur, n
<1>5. CASE n = call.left
  BY <1>2, <1>3, <1>4, <1>5 DEF Idle, n
<1>6. CASE n # call.left
  <2>1. call' = [kind |-> call.kind, left |-> call.left - n]
    BY <1>0, <1>4, <1>6
  <2>2. call.left - n \in Nat /\ (call.left - n) + n = call.left
    BY <1>0, <1>2
  <2> QED
    BY <1>2, <1>3, <2>1, <2>2 DEF n
<1> QED
  BY <1>5, <1>6

\* Appending to what was copied.
LEMMA DestOK ==
  ASSUME CallOK, NEW c \in Seq(Cell)
  PROVE  dest \o c \in Seq(Cell)
  BY DEF CallOK

\* Every action of the specification keeps the invariant.
LEMMA StepOK == IInv /\ [Next]_vars => IInv'
<1> SUFFICES ASSUME IInv, [Next]_vars PROVE IInv'
  OBVIOUS
<1>0. /\ ChainOK /\ PendingOK /\ CallOK
      /\ read_ind \in Index /\ write_ind \in Index /\ index \in Index
      /\ Pos(read_ind) \in Nat /\ Pos(write_ind) \in Nat /\ Pos(index) \in Nat
      /\ Pos(read_ind) <= Pos(write_ind)
      /\ bytes_to_read = Pos(write_ind) - Pos(read_ind)
      /\ bytes_to_read_from_index(index) = Pos(write_ind) - Pos(index)
  BY PosOrder, CountFromIndex DEF IInv, ChainOK, CallOK, bytes_to_read
<1>d. ASSUME NEW d \in Data
      PROVE  d \in Seq(Byte) /\ Len(d) \in Nat
  BY <1>d, BoundAssumption DEF Data
<1>1. CASE AddBufferToChain
  BY <1>1, GrowStep DEF AddBufferToChain
<1>2. ASSUME NEW n \in 0..MaxBytes, AddSpace(n)
      PROVE  IInv'
  <2>1. (n \div BufferLen) + 1 \in Nat
    BY BoundAssumption, DivMod
  <2> QED  BY <1>2, <2>1, GrowStep DEF AddSpace
<1>3. ASSUME NEW n \in 0..MaxBytes, Skip(n)
      PROVE  IInv'
  <2>1. /\ ~exited /\ call = Idle /\ advance_read_ptr(n)
        /\ index' = read_ind' /\ pending' = pending /\ call' = call /\ dest' = dest
        /\ n <= bytes_to_read /\ (pending # << >> => n < bytes_to_read)
    BY <1>3 DEF Skip, Ready, MayConsume
  <2>2. n \in Nat /\ call'.kind # "read"
    BY <2>1, BoundAssumption DEF Idle
  <2>3. /\ call' \in [kind : {"idle", "read", "peek"}, left : Nat]
        /\ dest' \in Seq(Cell)
    BY <1>0, <2>1 DEF CallOK
  <2> QED  BY <1>0, <2>1, <2>2, <2>3, ConsumeStep
<1>4. ASSUME NEW n \in 0..MaxBytes, PeekSkip(n)
      PROVE  IInv'
  <2>1. /\ n \in Nat /\ n <= Pos(write_ind) - Pos(index)
        /\ index' = advance_index(index, n)
        /\ UNCHANGED <<chainVars, pending, call, dest>>
    BY <1>0, <1>4, BoundAssumption DEF PeekSkip
  <2>2. Pos(index) + n < U32
    BY <1>0, <2>1, PosFits, BufferLenAssumption, BoundAssumption
  <2>3. index' \in Index /\ Pos(index') = Pos(index) + n
    BY <1>0, <2>1, <2>2, AdvanceIndex
  <2>4. Pos(read_ind) <= Pos(index') /\ Pos(index') <= Pos(write_ind)
    BY <1>0, <2>1, <2>3 DEF CallOK
  <2> QED
    BY <1>0, <2>1, <2>3, <2>4
       DEF IInv, ChainOK, PendingOK, CallOK, chainVars, ChainOwnsPool,
           PendingIsFreeSpace, Pos, CellAt
<1>5. ASSUME NEW n \in 0..MaxBytes, BeginRead(n)
      PROVE  IInv'
  <2>1. /\ n \in Nat /\ (pending # << >> => n # Pos(write_ind) - Pos(read_ind))
        /\ call' = [kind |-> "read", left |-> n] /\ dest' = << >>
        /\ index' = read_ind /\ UNCHANGED <<chainVars, pending>>
    BY <1>0, <1>5, BoundAssumption DEF BeginRead
  <2>2. CallOK'
    BY <1>0, <2>1 DEF CallOK, chainVars, Pos
  <2> QED
    BY <1>0, <2>1, <2>2
       DEF IInv, ChainOK, PendingOK, chainVars, ChainOwnsPool,
           PendingIsFreeSpace, Pos, CellAt
<1>6. ASSUME NEW n \in 0..MaxBytes, BeginPeek(n)
      PROVE  IInv'
  <2>1. /\ n \in Nat /\ call' = [kind |-> "peek", left |-> n] /\ dest' = << >>
        /\ UNCHANGED <<chainVars, pending, index>>
    BY <1>6, BoundAssumption DEF BeginPeek
  <2>2. CallOK'
    BY <1>0, <2>1 DEF CallOK, chainVars, Pos
  <2> QED
    BY <1>0, <2>1, <2>2
       DEF IInv, ChainOK, PendingOK, chainVars, ChainOwnsPool,
           PendingIsFreeSpace, Pos, CellAt
<1>7. CASE Reset
  <2>1. /\ pending = << >> /\ call = Idle /\ reset(read_ind) /\ index' = read_ind'
        /\ UNCHANGED <<pending, call, dest>>
    BY <1>7 DEF Reset, Ready
  <2>2. ChainOK'
    BY <1>0, <2>1, ResetOK
  <2>3. (pending = << >>)'
    BY <2>1
  <2>4. PendingOK'
    BY <2>2, <2>3, NoPending, PTL
  <2>5. read_ind' \in Index /\ write_ind' \in Index /\ Pos(read_ind)' <= Pos(write_ind)'
    BY <2>2 DEF ChainOK
  <2>6. Pos(read_ind') \in Nat
    BY <2>5, PosOrder
  <2>7. CallOK'
    BY <1>0, <2>1, <2>5, <2>6 DEF CallOK, Idle, Pos
  <2> QED  BY <2>2, <2>4, <2>7 DEF IInv
<1>8. CASE Reconstruct
  <2>1. PICK a \in Addr :
          /\ buffers' = <<a>>
          /\ pool' = (pool \ {buffers[i] : i \in 1..Len(buffers)}) \cup {a}
          /\ mem' = [b \in Addr |->
                IF \E i \in 1..Len(buffers) : buffers[i] = b THEN Blank ELSE mem[b]]
    BY <1>8 DEF Reconstruct
  <2>2. /\ pending = << >> /\ call = Idle /\ ~exited
        /\ read_ind' = Origin /\ write_ind' = Origin /\ sanity_check' = 1
        /\ index' = Origin /\ UNCHANGED <<pending, call, dest, exited>>
    BY <1>8 DEF Reconstruct, Ready
  <2>3. Origin \in Index /\ Origin.first = 0 /\ Pos(Origin) = 0
    BY BufferLenAssumption DEF Origin, Index, Offset, Pos
  <2>4. buffers' \in Seq(Addr) /\ Len(buffers') = 1 /\ buffers'[1] = a
    BY <2>1
  <2>5. mem' \in [Addr -> [Offset -> Cell]]
    BY <1>0, <2>1 DEF ChainOK, Blank, Cell
  <2>6. pool' = {a}
    BY <1>0, <2>1 DEF ChainOK, ChainOwnsPool
  <2>7. ChainOwnsPool'
    BY <2>2, <2>4, <2>6 DEF ChainOwnsPool
  <2>8. Len(buffers') <= MaxChain /\ write_ind'.first < Len(buffers')
    BY <2>2, <2>3, <2>4, BoundAssumption
  <2>9. ChainOK'
    <3>1. Pos(read_ind)' <= Pos(write_ind)'
      BY <2>2, <2>3 DEF Pos, Origin
    <3>2. exited' = FALSE /\ read_ind'.first = 0
      BY <1>0, <2>2, <2>3 DEF ChainOK
    <3> QED
      BY <2>2, <2>3, <2>4, <2>5, <2>7, <2>8, <3>1, <3>2 DEF ChainOK
  <2>10. (pending = << >>)'
    BY <2>2
  <2>11. PendingOK'
    BY <2>9, <2>10, NoPending, PTL
  <2>12. CallOK'
    BY <1>0, <2>2, <2>3 DEF CallOK, Idle, Pos
  <2> QED  BY <2>9, <2>11, <2>12 DEF IInv
<1>w. ASSUME NEW n \in Nat, n <= BufferLen * Len(buffers) - Pos(write_ind),
             NEW m \in [Addr -> [Offset -> Cell]], advance_write_ptr(n, m),
             ~exited, call = Idle, pending' = << >>, UNCHANGED <<index, call, dest>>
      PROVE  IInv'
  <2>1. /\ ChainOK' /\ read_ind' = read_ind
        /\ Pos(write_ind') = Pos(write_ind) + n
    BY <1>0, <1>w, AdvanceWriteOK
  <2>2. (pending = << >>)'
    BY <1>w
  <2>3. PendingOK'
    BY <2>1, <2>2, NoPending, PTL
  <2>4. Pos(index) <= Pos(write_ind')
    BY <1>0, <2>1 DEF CallOK
  <2>5. CallOK'
    BY <1>0, <1>w, <2>1, <2>4 DEF CallOK, Idle, Pos
  <2> QED  BY <2>1, <2>3, <2>5 DEF IInv
<1>9. ASSUME NEW d \in Data, Write(d)
      PROVE  IInv'
  <2> DEFINE cells == [i \in 1..Len(d) |-> CellAt(write_ind, i - 1)]
  <2>1. /\ ~exited /\ call = Idle /\ pending = << >>
        /\ Len(d) <= BufferLen - write_ind.second
        /\ advance_write_ptr(Len(d), Store(cells, d))
        /\ UNCHANGED <<pending, index, call, dest>>
    BY <1>9 DEF Write, Ready
  <2> HIDE DEF cells
  <2>2. Store(cells, d) \in [Addr -> [Offset -> Cell]]
    BY <1>0, <1>d, StoreOK DEF ChainOK
  <2>3. Len(d) <= BufferLen * Len(buffers) - Pos(write_ind)
    <3> DEFINE wb == write_ind.first * BufferLen
               t == BufferLen * Len(buffers)
    <3>1. /\ write_ind.first \in Nat /\ write_ind.second \in Nat
          /\ Len(buffers) \in Nat /\ BufferLen \in Nat /\ write_ind.first < Len(buffers)
      BY <1>0, BufferLenAssumption DEF ChainOK, Index, Offset
    <3>2. (write_ind.first + 1) * BufferLen <= Len(buffers) * BufferLen
      BY <3>1, MulMono, write_ind.first + 1 \in Nat, write_ind.first + 1 <= Len(buffers)
    <3>3. (write_ind.first + 1) * BufferLen = wb + BufferLen
      BY <3>1
    <3>4. Len(buffers) * BufferLen = t /\ t \in Nat /\ wb \in Nat
      BY <3>1
    <3>5. Pos(write_ind) = wb + write_ind.second
      BY DEF Pos
    <3>6. wb + BufferLen <= t
      BY <3>2, <3>3, <3>4
    <3> HIDE DEF wb, t
    <3>7. Len(d) <= t - Pos(write_ind)
      BY <1>d, <2>1, <3>1, <3>4, <3>5, <3>6
    <3> QED  BY <3>7 DEF t
  <2> QED  BY <1>d, <1>w, <2>1, <2>2, <2>3
<1>10. ASSUME NEW d \in Data, AsyncReadDone(d)
       PROVE  IInv'
  <2>1. /\ ~exited /\ call = Idle /\ Len(d) <= Len(pending) /\ pending' = << >>
        /\ advance_write_ptr(Len(d), Store(pending, d))
        /\ UNCHANGED <<index, call, dest>>
    BY <1>10 DEF AsyncReadDone, Ready
  <2>2. Store(pending, d) \in [Addr -> [Offset -> Cell]]
    BY <1>0, <1>d, StoreOK DEF ChainOK
  <2>3. Len(d) <= BufferLen * Len(buffers) - Pos(write_ind)
    <3> DEFINE t == BufferLen * Len(buffers)
    <3>1. Pos(write_ind) + Len(pending) <= t /\ t \in Nat /\ Len(pending) \in Nat
      BY <1>0, ChainBytes DEF PendingOK, PendingIsFreeSpace
    <3> HIDE DEF t
    <3>2. Len(d) <= t - Pos(write_ind)
      BY <1>0, <1>d, <2>1, <3>1
    <3> QED  BY <3>2 DEF t
  <2> QED  BY <1>d, <1>w, <2>1, <2>2, <2>3
<1>11. CASE StartAsyncRead
  <2> DEFINE len == (BufferLen - write_ind.second)
                     + (Len(buffers) - write_ind.first - 1) * BufferLen
  <2>1. /\ pending' = [i \in 1..len |-> CellAt(write_ind, i - 1)]
        /\ UNCHANGED <<chainVars, index, call, dest>> /\ call = Idle
    BY <1>11 DEF StartAsyncRead, Ready
  <2>2. /\ write_ind.first \in Nat /\ write_ind.second \in 0..(BufferLen - 1)
        /\ Len(buffers) \in Nat /\ BufferLen \in Nat /\ write_ind.first < Len(buffers)
    BY <1>0, BufferLenAssumption DEF ChainOK, Index, Offset
  <2>3. len \in Nat /\ Pos(write_ind) + len = BufferLen * Len(buffers)
    <3> DEFINE wb == write_ind.first * BufferLen
               t == BufferLen * Len(buffers)
               x == (Len(buffers) - write_ind.first - 1) * BufferLen
    <3>1. x = t - wb - BufferLen
      BY <2>2
    <3>2. x \in Nat
      <4>1. Len(buffers) - write_ind.first - 1 \in Nat
        BY <2>2
      <4> QED  BY <2>2, <4>1
    <3>3. t \in Nat /\ wb \in Nat
      BY <2>2
    <3>4. Pos(write_ind) = wb + write_ind.second
      BY DEF Pos
    <3> HIDE DEF wb, t, x
    <3>5. /\ (BufferLen - write_ind.second) + x \in Nat
          /\ Pos(write_ind) + ((BufferLen - write_ind.second) + x) = t
      BY <2>2, <3>1, <3>2, <3>3, <3>4
    <3> QED  BY <3>5 DEF t, x
  <2> HIDE DEF len
  <2>4. ASSUME NEW i \in 1..len
        PROVE  CellAt(write_ind, i - 1) \in Addr \X Offset
    <3>1. i - 1 \in Nat /\ Pos(write_ind) + (i - 1) < Pos(write_ind) + len
      BY <1>0, <2>3
    <3> QED  BY <1>0, <2>3, <3>1, CellInChain
  <2>5. pending' \in [1..len -> Addr \X Offset]
    BY <2>1, <2>4
  <2>6. pending' \in Seq(Addr \X Offset) /\ Len(pending') = len
    BY <2>3, <2>5
  <2>7. ChainOK' /\ write_ind' = write_ind /\ buffers' = buffers /\ read_ind' = read_ind
    BY <1>0, <2>1 DEF ChainOK, chainVars, ChainOwnsPool, Pos
  <2>8. PendingOK'
    <3>1. Pos(write_ind)' + Len(pending') <= BufferLen * Len(buffers')
      BY <1>0, <2>3, <2>6, <2>7, ChainBytes DEF Pos
    <3>2. \A i \in 1..Len(pending') : pending'[i] = CellAt(write_ind, i - 1)'
      BY <2>1, <2>6, <2>7 DEF CellAt
    <3> QED  BY <2>6, <3>1, <3>2 DEF PendingOK, PendingIsFreeSpace
  <2>9. CallOK'
    BY <1>0, <2>1, <2>7 DEF CallOK, Idle, Pos
  <2> QED  BY <2>7, <2>8, <2>9 DEF IInv
<1>12. CASE AsyncReadFailed
  <2>1. pending' = << >> /\ UNCHANGED <<chainVars, index, call, dest>> /\ call = Idle
    BY <1>12 DEF AsyncReadFailed, Ready
  <2>2. ChainOK'
    BY <1>0, <2>1 DEF ChainOK, chainVars, ChainOwnsPool, Pos
  <2>3. (pending = << >>)'
    BY <2>1
  <2>4. PendingOK'
    BY <2>2, <2>3, NoPending, PTL
  <2>5. CallOK'
    BY <1>0, <2>1 DEF CallOK, chainVars, Pos
  <2> QED  BY <2>2, <2>4, <2>5 DEF IInv
<1>13. CASE CreatePeekDatastream
  <2>1. /\ index' = read_ind /\ dest' = << >> /\ call = Idle
        /\ UNCHANGED <<chainVars, pending, call>>
    BY <1>13 DEF CreatePeekDatastream, Ready
  <2>2. CallOK'
    BY <1>0, <2>1 DEF CallOK, chainVars, Pos, Idle
  <2> QED
    BY <1>0, <2>1, <2>2
       DEF IInv, ChainOK, PendingOK, chainVars, ChainOwnsPool,
           PendingIsFreeSpace, Pos, CellAt
<1>14. CASE ReadStep
  <2> DEFINE n == CallSize(read_ind)
  <2>1. /\ call.kind = "read" /\ ~exited /\ bytes_to_read >= call.left
        /\ dest' = dest \o Chunk(read_ind, n) /\ advance_read_ptr(n) /\ Recur(n)
        /\ index' = read_ind' /\ pending' = pending
    BY <1>14 DEF ReadStep
  <2>2. call.left \in Nat /\ call.left <= Pos(write_ind) - Pos(read_ind)
    BY <1>0, <2>1 DEF CallOK
  <2>3. /\ n \in Nat
        /\ n <= call.left
        /\ Chunk(read_ind, n) \in Seq(Cell)
        /\ call' \in [kind : {"idle", "read", "peek"}, left : Nat]
        /\ call'.kind = "read" => call'.left + n = call.left
    BY <1>0, <2>1, <2>2, CallSizeOK
  <2> HIDE DEF n
  <2>4. dest' \in Seq(Cell)
    BY <1>0, <2>1, <2>3, DestOK
  <2>5. pending # << >> => call.left # Pos(write_ind) - Pos(read_ind)
    BY <1>0, <2>1 DEF CallOK
  <2>6. /\ n <= Pos(write_ind) - Pos(read_ind)
        /\ pending # << >> => n < Pos(write_ind) - Pos(read_ind)
        /\ call'.kind = "read" /\ pending # << >> =>
             call'.left + n # Pos(write_ind) - Pos(read_ind)
    BY <1>0, <2>2, <2>3, <2>5
  <2> QED  BY <2>1, <2>3, <2>4, <2>6, ConsumeStep
<1>15. CASE PeekStep
  <2> DEFINE n == CallSize(index)
  <2>1. /\ call.kind = "peek" /\ bytes_to_read_from_index(index) >= call.left
        /\ dest' = dest \o Chunk(index, n) /\ Recur(n)
        /\ index' = advance_index(index, n) /\ UNCHANGED <<chainVars, pending>>
    BY <1>15 DEF PeekStep
  <2>2. call.left \in Nat /\ call.left <= Pos(write_ind) - Pos(index)
    BY <1>0, <2>1 DEF CallOK
  <2>3. Pos(index) <= Pos(write_ind)
    BY <1>0 DEF CallOK
  <2>4. /\ n \in Nat
        /\ n <= call.left
        /\ Chunk(index, n) \in Seq(Cell)
        /\ call' \in [kind : {"idle", "read", "peek"}, left : Nat]
        /\ call'.kind = "read" => call.kind = "read"
    BY <1>0, <2>1, <2>2, <2>3, CallSizeOK
  <2> HIDE DEF n
  <2>5. dest' \in Seq(Cell)
    BY <1>0, <2>1, <2>4, DestOK
  <2>6. Pos(index) + n < U32
    BY <1>0, <2>2, <2>4, PosFits, BufferLenAssumption, BoundAssumption
  <2>7. index' \in Index /\ Pos(index') = Pos(index) + n
    BY <1>0, <2>1, <2>4, <2>6, AdvanceIndex
  <2>8. Pos(read_ind) <= Pos(index') /\ Pos(index') <= Pos(write_ind)
    BY <1>0, <2>2, <2>4, <2>7 DEF CallOK
  <2>9. call'.kind # "read"
    BY <2>1, <2>4
  <2>10. CallOK'
    BY <2>1, <2>4, <2>5, <2>7, <2>8, <2>9 DEF CallOK, chainVars, Pos
  <2> QED
    BY <1>0, <2>1, <2>10
       DEF IInv, ChainOK, PendingOK, chainVars, ChainOwnsPool,
           PendingIsFreeSpace, Pos, CellAt
<1>16. CASE ReadRefused \/ PeekRefused
  <2>1. call' = Idle /\ UNCHANGED <<chainVars, pending, index, dest>>
    BY <1>16 DEF ReadRefused, PeekRefused
  <2>2. CallOK'
    BY <1>0, <2>1 DEF CallOK, chainVars, Pos, Idle
  <2> QED
    BY <1>0, <2>1, <2>2
       DEF IInv, ChainOK, PendingOK, chainVars, ChainOwnsPool,
           PendingIsFreeSpace, Pos, CellAt
<1>17. CASE UNCHANGED vars
  BY <1>0, <1>17
     DEF vars, IInv, ChainOK, PendingOK, CallOK, ChainOwnsPool,
         PendingIsFreeSpace, Pos, CellAt
<1> QED
  BY <1>1, <1>2, <1>3, <1>4, <1>5, <1>6, <1>7, <1>8, <1>9, <1>10, <1>11, <1>12,
     <1>13, <1>14, <1>15, <1>16, <1>17 DEF Next, Exited

-----------------------------------------------------------------------------
(* The theorems. *)

\* The invariant holds throughout every behaviour.
LEMMA Invariance == SafeSpec => []IInv
<1>1. Init => IInv
  BY InitOK
<1>2. IInv /\ [Next]_vars => IInv'
  BY StepOK
<1> QED
  BY <1>1, <1>2, PTL DEF SafeSpec

\* Every variable of the buffer keeps its type: in particular no copy made by
\* read() or peek() reads outside the memory of the chain.
THEOREM TypeCorrect == SafeSpec => []TypeOK
<1>1. IInv => TypeOK
  BY DEF IInv, ChainOK, PendingOK, CallOK, ChainOwnsPool, TypeOK
<1> QED
  BY <1>1, Invariance, PTL

\* The pointers of the class stay in the chain: read_ptr(), write_ptr() and
\* get_ptr() never leave it, for any buffer size and any length of chain.
THEOREM PointersStayInChain == SafeSpec => []IndicesInChain
<1>1. IInv => IndicesInChain
  BY DEF IInv, ChainOK, CallOK, IndicesInChain
<1> QED
  BY <1>1, Invariance, PTL

\* malloc() and free() balance: the chain owns what the pool handed out, each
\* chunk once, and the process exits only on a chain that is too long.
THEOREM NothingLeaked == SafeSpec => []ChainOwnsPool
<1>1. IInv => ChainOwnsPool
  BY DEF IInv, ChainOK
<1> QED
  BY <1>1, Invariance, PTL

\* An outstanding async_read fills the free space at the write pointer.
THEOREM ReadFillsFreeSpace == SafeSpec => []PendingIsFreeSpace
<1>1. IInv => PendingIsFreeSpace
  BY DEF IInv, PendingOK
<1> QED
  BY <1>1, Invariance, PTL

\* The counts computed in uint32_t are the true ones.
THEOREM CountsAreExact == SafeSpec => []CountsExact
<1>1. ASSUME IInv PROVE CountsExact
  <2>1. ChainOK /\ read_ind \in Index /\ Pos(read_ind) <= Pos(write_ind)
    BY <1>1 DEF IInv, ChainOK
  <2>2. bytes_to_read = Pos(write_ind) - Pos(read_ind)
    BY <2>1, CountFromIndex DEF bytes_to_read
  <2>3. bytes_to_write = BufferLen * Len(buffers) - Pos(write_ind)
    BY <2>1, CountToWrite
  <2> QED  BY <2>2, <2>3 DEF CountsExact
<1> QED
  BY <1>1, Invariance, PTL

\* The whole of what the run message_buffer checks of every state: pointers,
\* ownership of chunks, the regions of an outstanding async_read and the counts.
THEOREM BufferIsSound == SafeSpec => []BufferSound
  BY TypeCorrect, PointersStayInChain, NothingLeaked, ReadFillsFreeSpace, CountsAreExact, PTL
  DEF BufferSound

-----------------------------------------------------------------------------
(* Positions. *)

\* The byte at position p of a chain bs in memory m.
At(bs, m, p) == m[bs[(p \div BufferLen) + 1]][p % BufferLen]

\* The bytes of all positions.
Bytes(bs, m) == {At(bs, m, x) : x \in Nat}

\* The bytes from position p up to position q.
Span(bs, m, p, q) == [i \in 1..(q - p) |-> At(bs, m, p + i - 1)]

\* Quotient and remainder are the only ones that recompose the number.
LEMMA DivUnique ==
  ASSUME NEW x \in Nat, NEW q \in Nat, NEW r \in Offset, x = q * BufferLen + r
  PROVE  x \div BufferLen = q /\ x % BufferLen = r
<1> DEFINE i == [first |-> x \div BufferLen, second |-> x % BufferLen]
           j == [first |-> q, second |-> r]
<1>1. i \in Index /\ j \in Index
  BY DivMod DEF Index
<1>2. Pos(i) = x /\ Pos(j) = x
  BY DivMod DEF Pos
<1>3. i = j
  BY <1>1, <1>2, PosOrder
<1> QED
  BY <1>3

\* Whole buffers more are that many buffers further.
LEMMA DivShift ==
  ASSUME NEW p \in Nat, NEW f \in Nat
  PROVE  (p + f * BufferLen) \div BufferLen = (p \div BufferLen) + f
         /\ (p + f * BufferLen) % BufferLen = p % BufferLen
<1> DEFINE q == p \div BufferLen
           r == p % BufferLen
<1>1. q \in Nat /\ r \in Offset /\ p = q * BufferLen + r
  BY DivMod
<1> HIDE DEF q, r
<1>2. BufferLen \in Nat /\ r \in Nat /\ f * BufferLen \in Nat /\ q * BufferLen \in Nat
  BY <1>1, BufferLenAssumption DEF Offset
<1>3. (q + f) * BufferLen = q * BufferLen + f * BufferLen
  BY <1>1, <1>2
<1> DEFINE x == p + f * BufferLen
<1>4. x \in Nat /\ q + f \in Nat /\ x = (q + f) * BufferLen + r
  BY <1>1, <1>2, <1>3
<1> HIDE DEF x
<1>5. x \div BufferLen = q + f /\ x % BufferLen = r
  BY <1>1, <1>4, DivUnique
<1> QED
  BY <1>5 DEF x, q, r

\* A position in a chain of n buffers is in one of them.
LEMMA PositionInChain ==
  ASSUME NEW p \in Nat, NEW n \in Nat, p < BufferLen * n
  PROVE  (p \div BufferLen) + 1 \in 1..n /\ p % BufferLen \in Offset
<1> DEFINE q == p \div BufferLen
           r == p % BufferLen
<1>1. q \in Nat /\ r \in Offset /\ p = q * BufferLen + r
  BY DivMod
<1> HIDE DEF q, r
<1>2. q < n
  <2> SUFFICES ASSUME n <= q PROVE FALSE
    BY <1>1
  <2>1. n * BufferLen <= q * BufferLen
    BY <1>1, MulMono
  <2>2. n * BufferLen = BufferLen * n /\ q * BufferLen \in Nat /\ r \in Nat /\ n * BufferLen \in Nat
    BY <1>1, BufferLenAssumption DEF Offset
  <2> QED
    BY <1>1, <2>1, <2>2
<1> QED
  BY <1>1, <1>2 DEF q, r

\* get_ptr, in positions.
LEMMA CellAtPos ==
  ASSUME NEW ind \in Index, NEW k \in Nat
  PROVE  CellAt(ind, k) = <<buffers[((Pos(ind) + k) \div BufferLen) + 1], (Pos(ind) + k) % BufferLen>>
<1> DEFINE s == ind.second + k
<1>1. ind.first \in Nat /\ ind.second \in Nat /\ s \in Nat
  BY DEF Index, Offset
<1>2. ind.first * BufferLen \in Nat /\ BufferLen \in Nat
  BY <1>1, BufferLenAssumption
<1>3. Pos(ind) + k = s + ind.first * BufferLen
  BY <1>1, <1>2 DEF Pos
<1>4. CellAt(ind, k) = <<buffers[ind.first + (s \div BufferLen) + 1], s % BufferLen>>
  BY DEF CellAt
<1> HIDE DEF s
<1>5. /\ (Pos(ind) + k) \div BufferLen = (s \div BufferLen) + ind.first
      /\ (Pos(ind) + k) % BufferLen = s % BufferLen
  BY <1>1, <1>3, DivShift
<1>6. s \div BufferLen \in Nat
  BY <1>1, DivMod
<1>7. ind.first + (s \div BufferLen) + 1 = ((s \div BufferLen) + ind.first) + 1
  BY <1>1, <1>6
<1> QED
  BY <1>4, <1>5, <1>7

\* The unread bytes, in positions.
LEMMA UnreadIsSpan == ChainOK => Unread = Span(buffers, mem, Pos(read_ind), Pos(write_ind))
<1> SUFFICES ASSUME ChainOK PROVE Unread = Span(buffers, mem, Pos(read_ind), Pos(write_ind))
  OBVIOUS
<1> DEFINE r == Pos(read_ind)
           w == Pos(write_ind)
<1>1. read_ind \in Index /\ r \in Nat /\ w \in Nat
  BY PosOrder DEF ChainOK
<1>2. ASSUME NEW i \in 1..(w - r)
      PROVE  (LET c == CellAt(read_ind, i - 1) IN mem[c[1]][c[2]]) = At(buffers, mem, r + i - 1)
  <2>1. i - 1 \in Nat /\ r + (i - 1) = r + i - 1
    BY <1>1
  <2>2. CellAt(read_ind, i - 1) = <<buffers[((r + (i - 1)) \div BufferLen) + 1], (r + (i - 1)) % BufferLen>>
    BY <1>1, <2>1, CellAtPos
  <2> QED
    BY <2>1, <2>2 DEF At
<1> QED
  BY <1>2 DEF Unread, Span

\* A span is a sequence, of as many bytes as it has positions.
LEMMA SpanSeq ==
  ASSUME NEW bs, NEW m, NEW p \in Nat, NEW q \in Nat, p <= q
  PROVE  /\ Span(bs, m, p, q) \in Seq(Bytes(bs, m))
         /\ Len(Span(bs, m, p, q)) = q - p
<1> DEFINE V == Bytes(bs, m)
<1>1. \A i \in 1..(q - p) : At(bs, m, p + i - 1) \in V
  BY DEF Bytes
<1>2. Span(bs, m, p, q) \in [1..(q - p) -> V]
  BY <1>1 DEF Span
<1>3. q - p \in Nat
  OBVIOUS
<1> QED
  BY <1>2, <1>3

-----------------------------------------------------------------------------
(* What the operations on the chain do to the unread bytes. *)

\* Facts about the pointers that every step needs.
LEMMA Pointers ==
  ASSUME ChainOK
  PROVE  /\ Pos(read_ind) \in Nat /\ Pos(write_ind) \in Nat /\ Pos(read_ind) <= Pos(write_ind)
         /\ Len(Unread) = Pos(write_ind) - Pos(read_ind)
         /\ buffers \in Seq(Addr) /\ Len(buffers) \in Nat /\ Pos(write_ind) < BufferLen * Len(buffers)
         /\ \A i \in 1..Len(buffers) : buffers[i] \in Addr
<1>1. Pos(read_ind) \in Nat /\ Pos(write_ind) \in Nat /\ Pos(read_ind) <= Pos(write_ind)
  BY PosOrder DEF ChainOK
<1>2. Len(Unread) = Pos(write_ind) - Pos(read_ind)
  BY <1>1, UnreadIsSpan, SpanSeq
<1>3. buffers \in Seq(Addr) /\ Len(buffers) \in Nat /\ \A i \in 1..Len(buffers) : buffers[i] \in Addr
  BY ElementOfSeq DEF ChainOK
<1>4. Pos(write_ind) < BufferLen * Len(buffers)
  BY ChainBytes
<1> QED
  BY <1>1, <1>2, <1>3, <1>4

\* Any part of the unread bytes, in positions.
LEMMA UnreadPart ==
  ASSUME ChainOK, NEW u \in Nat, NEW v \in Nat, Pos(read_ind) <= u, u <= v, v <= Pos(write_ind)
  PROVE  SubSeq(Unread, u - Pos(read_ind) + 1, v - Pos(read_ind)) = Span(buffers, mem, u, v)
<1> DEFINE r == Pos(read_ind)
           w == Pos(write_ind)
           V == Bytes(buffers, mem)
           s == Span(buffers, mem, r, w)
           t == Span(buffers, mem, u, v)
           a == u - r
           b == v - r
<1>1. r \in Nat /\ w \in Nat /\ r <= u /\ v <= w /\ r <= w
  BY Pointers
<1>2. Unread = s
  BY UnreadIsSpan
<1>3. /\ \A i \in 1..(w - r) : s[i] = At(buffers, mem, r + i - 1)
      /\ \A i \in 1..(v - u) : t[i] = At(buffers, mem, u + i - 1)
  BY DEF Span
<1> HIDE DEF r, w
<1>4. s \in Seq(V) /\ Len(s) = w - r /\ t \in Seq(V) /\ Len(t) = v - u
  BY <1>1, SpanSeq
<1>5. a \in Nat /\ b \in Nat /\ a <= b /\ b <= w - r /\ v - u = b - a /\ r + a = u
  BY <1>1
<1> HIDE DEF V, s, t, a, b
<1>6. \A i \in (a + 1)..b : s[i] \in V
  BY <1>1, <1>4, <1>5, ElementOfSeq
<1> DEFINE c == SubSeq(s, a + 1, b)
<1>7. /\ c \in Seq(V) /\ Len(c) = IF a + 1 <= b THEN b - (a + 1) + 1 ELSE 0
      /\ \A i \in 1..(b - (a + 1) + 1) : c[i] = s[(a + 1) + i - 1]
  BY <1>5, <1>6, SubSeqProperties
<1> HIDE DEF c
<1>8. Len(c) = b - a /\ Len(t) = b - a
  BY <1>4, <1>5, <1>7
<1>9. ASSUME NEW i \in 1..(b - a) PROVE c[i] = t[i]
  <2>1. c[i] = s[a + i]
    BY <1>5, <1>7
  <2>2. a + i \in 1..(w - r) /\ r + (a + i) - 1 = u + i - 1 /\ i \in 1..(v - u)
    BY <1>1, <1>5
  <2>3. s[a + i] = At(buffers, mem, r + (a + i) - 1) /\ t[i] = At(buffers, mem, u + i - 1)
    BY <1>3, <2>2
  <2> QED
    BY <2>1, <2>2, <2>3
<1>10. c = t
  BY <1>4, <1>7, <1>8, <1>9, SeqEqual
<1> QED
  BY <1>2, <1>10 DEF c, t, a, b, r

\* A drained buffer has no unread bytes.
LEMMA Drained == ChainOK /\ Pos(write_ind) = Pos(read_ind) => Unread = << >>
<1> SUFFICES ASSUME ChainOK, Pos(write_ind) = Pos(read_ind) PROVE Unread = << >>
  OBVIOUS
<1> DEFINE r == Pos(read_ind)
           w == Pos(write_ind)
<1>1. r \in Nat /\ w \in Nat /\ w = r
  BY Pointers
<1>2. Unread = Span(buffers, mem, r, w)
  BY UnreadIsSpan
<1> HIDE DEF r, w
<1>3. Unread \in Seq(Bytes(buffers, mem)) /\ Len(Unread) = w - r
  BY <1>1, <1>2, SpanSeq
<1>4. Len(Unread) = 0
  BY <1>1, <1>3
<1> QED
  BY <1>3, <1>4, EmptySeq

\* The write pointer is inside the chain.
LEMMA WriteInChain == ChainOK => Pos(write_ind) < BufferLen * Len(buffers)
  BY ChainBytes

\* Growth at the end leaves the unread bytes alone.
LEMMA GrowUnread ==
  ASSUME ChainOK, ChainOK', UNCHANGED <<read_ind, write_ind, mem>>,
         \A i \in 1..Len(buffers) : buffers'[i] = buffers[i]
  PROVE  Unread' = Unread
<1> DEFINE r == Pos(read_ind)
           w == Pos(write_ind)
<1>1. r \in Nat /\ w \in Nat /\ w < BufferLen * Len(buffers) /\ Len(buffers) \in Nat /\ BufferLen * Len(buffers) \in Nat
  BY Pointers, ChainBytes
<1>2. Unread' = Span(buffers', mem, r, w)
  <2>1. (ChainOK => Unread = Span(buffers, mem, Pos(read_ind), Pos(write_ind)))'
    BY UnreadIsSpan, PTL
  <2> QED
    BY <2>1
<1>3. ASSUME NEW i \in 1..(w - r) PROVE At(buffers', mem, r + i - 1) = At(buffers, mem, r + i - 1)
  <2>1. r + i - 1 \in Nat /\ r + i - 1 < BufferLen * Len(buffers)
    BY <1>1
  <2>2. ((r + i - 1) \div BufferLen) + 1 \in 1..Len(buffers)
    BY <1>1, <2>1, PositionInChain
  <2> QED
    BY <2>2 DEF At
<1> HIDE DEF r, w
<1>4. Span(buffers', mem, r, w) = Span(buffers, mem, r, w)
  BY <1>3 DEF Span
<1>5. Unread = Span(buffers, mem, r, w)
  BY UnreadIsSpan DEF r, w
<1> QED
  BY <1>2, <1>4, <1>5

\* advance_read_ptr consumes the oldest bytes.
LEMMA ConsumeUnread ==
  ASSUME ChainOK, ~exited, NEW n \in Nat, n <= Pos(write_ind) - Pos(read_ind), advance_read_ptr(n)
  PROVE  Unread' = SubSeq(Unread, n + 1, Len(Unread))
<1> DEFINE r == Pos(read_ind)
           w == Pos(write_ind)
           ind == advance_index(read_ind, n)
<1>1. /\ r \in Nat /\ w \in Nat /\ r <= w /\ Len(Unread) = w - r /\ w < BufferLen * Len(buffers)
      /\ Len(buffers) \in Nat /\ buffers \in Seq(Addr)
      /\ \A i \in 1..Len(buffers) : buffers[i] \in Addr
  BY Pointers
<1>2. ChainOK' /\ Pos(write_ind') - Pos(read_ind') = w - r - n
  <2>1. ChainOK' /\ Pos(write_ind)' - Pos(read_ind)' = Pos(write_ind) - Pos(read_ind) - n
    BY AdvanceReadOK
  <2> QED
    BY <2>1 DEF Pos
<1>3. Pos(read_ind') \in Nat /\ Pos(write_ind') \in Nat
  BY <1>2, PosOrder DEF ChainOK
<1>4. CASE n = w - r
  <2>1. Pos(write_ind') = Pos(read_ind')
    BY <1>1, <1>2, <1>3, <1>4
  <2>2. (ChainOK /\ Pos(write_ind) = Pos(read_ind) => Unread = << >>)'
    BY Drained, PTL
  <2>3. SubSeq(Unread, n + 1, Len(Unread)) = << >>
    BY <1>1, <1>4, SubSeqEmpty
  <2> QED
    BY <1>2, <2>1, <2>2, <2>3
<1>5. CASE n # w - r
  <2>1. ind \in Index /\ Pos(ind) = r + n
    <3>1. w < U32
      BY <1>1, ChainBytes, BufferLenAssumption, BoundAssumption
    <3> QED
      BY <1>1, <3>1, AdvanceIndex, BoundAssumption DEF ChainOK
  <2>2. ind # write_ind
    BY <1>1, <1>5, <2>1
  <2> DEFINE f == ind.first
  <2>3. /\ buffers' = SubSeq(buffers, f + 1, Len(buffers))
        /\ free({buffers[i] : i \in 1..f}, mem)
        /\ sanity_check' = sanity_check - f
        /\ read_ind' = [ind EXCEPT !.first = 0]
        /\ exited' = exited
    BY <2>2 DEF advance_read_ptr
  <2>4. f \in Nat /\ ind.second \in Nat /\ f * BufferLen \in Nat
    BY <2>1, BufferLenAssumption DEF Index, Offset
  <2>5. Pos(read_ind') + f * BufferLen = r + n
    <3>1. Pos(ind) = f * BufferLen + ind.second
      BY DEF Pos
    <3>2. read_ind'.first = 0 /\ read_ind'.second = ind.second
      BY <2>1, <2>3 DEF Index
    <3>3. Pos(read_ind') = ind.second
      BY <2>4, <3>2, BufferLenAssumption DEF Pos
    <3> QED
      BY <2>1, <2>4, <3>1, <3>3
  <2>6. f < Len(buffers)
    <3>1. f <= write_ind.first
      BY <1>1, <2>1, PosOrder DEF ChainOK
    <3> QED
      BY <1>1, <2>4, <3>1 DEF ChainOK, Index
  <2> HIDE DEF f, ind
  <2>7. f \in 0..(Len(buffers) - 1)
    BY <1>1, <2>4, <2>6
  <2>8. /\ Len(buffers') = Len(buffers) - f
        /\ \A i \in 1..(Len(buffers) - f) : buffers'[i] = buffers[f + i]
    BY <2>3, <2>7, DropFrontOK
  <2>9. \A i \in 1..(Len(buffers) - f) : mem'[buffers[f + i]] = mem[buffers[f + i]]
    <3> SUFFICES ASSUME NEW i \in 1..(Len(buffers) - f) PROVE mem'[buffers[f + i]] = mem[buffers[f + i]]
      OBVIOUS
    <3>1. f + i \in 1..Len(buffers) /\ \A j \in 1..f : j \in 1..Len(buffers) /\ j # f + i
      BY <1>1, <2>4, <2>6
    <3>2. buffers[f + i] \in Addr /\ buffers[f + i] \notin {buffers[j] : j \in 1..f}
      BY <1>1, <3>1 DEF ChainOK, ChainOwnsPool
    <3> QED
      BY <2>3, <3>2 DEF free
  <2> DEFINE p == Pos(read_ind')
             q == Pos(write_ind')
             fb == f * BufferLen
  <2>10. p \in Nat /\ q \in Nat /\ fb \in Nat /\ p + fb = r + n /\ q + fb = w /\ p <= q
    <3>1. p \in Nat /\ q \in Nat /\ fb \in Nat /\ p + fb = r + n /\ q - p = w - r - n /\ n <= w - r
      BY <1>2, <1>3, <2>4, <2>5
    <3>2. r \in Nat /\ w \in Nat
      BY <1>1
    <3> HIDE DEF p, q, fb, r, w
    <3> QED
      BY <3>1, <3>2
  <2>11. \A x \in Nat : p <= x /\ x < q => At(buffers', mem', x) = At(buffers, mem, x + fb)
    <3> SUFFICES ASSUME NEW x \in Nat, x < q PROVE At(buffers', mem', x) = At(buffers, mem, x + fb)
      OBVIOUS
    <3>1. q < BufferLen * Len(buffers')
      <4>1. (ChainOK => Pos(write_ind) < BufferLen * Len(buffers))'
        BY WriteInChain, PTL
      <4> QED
        BY <1>2, <4>1
    <3>2. Len(buffers') \in Nat /\ BufferLen * Len(buffers') \in Nat
      BY <1>1, <2>4, <2>6, <2>8, BufferLenAssumption
    <3>3. x < BufferLen * Len(buffers')
      BY <2>10, <3>1, <3>2
    <3> DEFINE k == x \div BufferLen
    <3>4. k + 1 \in 1..(Len(buffers) - f) /\ k \in Nat
      BY <2>8, <3>2, <3>3, PositionInChain, DivMod
    <3>5. (x + fb) \div BufferLen = k + f /\ (x + fb) % BufferLen = x % BufferLen
      BY <2>4, DivShift
    <3> HIDE DEF k
    <3>6. f + (k + 1) = (k + f) + 1
      BY <2>4, <3>4
    <3>7. buffers'[k + 1] = buffers[(k + f) + 1] /\ mem'[buffers[(k + f) + 1]] = mem[buffers[(k + f) + 1]]
      BY <2>8, <2>9, <3>4, <3>6
    <3> QED
      BY <3>5, <3>7 DEF At, k
  <2>12. Unread' = Span(buffers', mem', p, q)
    <3>1. (ChainOK => Unread = Span(buffers, mem, Pos(read_ind), Pos(write_ind)))'
      BY UnreadIsSpan, PTL
    <3> QED
      BY <1>2, <3>1
  <2> HIDE DEF p, q, fb
  <2>13. Span(buffers', mem', p, q) = Span(buffers, mem, r + n, w)
    <3> DEFINE u == r + n
    <3>1. u \in Nat /\ w \in Nat /\ fb = u - p /\ w - u = q - p
      BY <1>1, <2>10
    <3> HIDE DEF u, r, w
    <3>2. ASSUME NEW i \in 1..(q - p) PROVE At(buffers', mem', p + i - 1) = At(buffers, mem, u + i - 1)
      <4>1. p + i - 1 \in Nat /\ p <= p + i - 1 /\ p + i - 1 < q /\ (p + i - 1) + fb = u + i - 1
        BY <2>10, <3>1
      <4> QED
        BY <2>11, <4>1
    <3>3. Span(buffers', mem', p, q) = Span(buffers, mem, u, w)
      BY <3>1, <3>2 DEF Span
    <3> QED
      BY <3>3 DEF u
  <2>14. SubSeq(Unread, (r + n) - r + 1, w - r) = Span(buffers, mem, r + n, w)
    <3>1. r + n \in Nat /\ r <= r + n /\ r + n <= w /\ w <= w
      BY <1>1
    <3> QED
      BY <1>1, <3>1, UnreadPart
  <2>15. (r + n) - r + 1 = n + 1
    BY <1>1
  <2> QED
    BY <1>1, <2>12, <2>13, <2>14, <2>15
<1> QED
  BY <1>4, <1>5

\* Two positions of the chain are two cells of the memory.
LEMMA CellsDistinct ==
  ASSUME ChainOK, NEW x \in Nat, NEW y \in Nat,
         x < BufferLen * Len(buffers), y < BufferLen * Len(buffers),
         buffers[(x \div BufferLen) + 1] = buffers[(y \div BufferLen) + 1],
         x % BufferLen = y % BufferLen
  PROVE  x = y
<1>1. Len(buffers) \in Nat
  BY Pointers
<1>2. (x \div BufferLen) + 1 \in 1..Len(buffers) /\ (y \div BufferLen) + 1 \in 1..Len(buffers)
  BY <1>1, PositionInChain
<1>3. (x \div BufferLen) + 1 = (y \div BufferLen) + 1
  BY <1>2 DEF ChainOK, ChainOwnsPool
<1>4. /\ x \div BufferLen \in Nat /\ x = (x \div BufferLen) * BufferLen + (x % BufferLen)
      /\ y \div BufferLen \in Nat /\ y = (y \div BufferLen) * BufferLen + (y % BufferLen)
  BY DivMod
<1>5. x \div BufferLen = y \div BufferLen
  BY <1>3, <1>4
<1> QED
  BY <1>4, <1>5

\* What memcpy into the cells behind the write pointer leaves at a position.
LEMMA StoreAt ==
  ASSUME ChainOK, NEW d \in Seq(Byte), NEW cells, NEW x \in Nat, x < Pos(write_ind) + Len(d),
         Len(d) <= BufferLen * Len(buffers) - Pos(write_ind),
         \A i \in 1..Len(d) : cells[i] = CellAt(write_ind, i - 1)
  PROVE  At(buffers, Store(cells, d), x) =
           IF x < Pos(write_ind) THEN At(buffers, mem, x) ELSE d[x - Pos(write_ind) + 1]
<1> DEFINE w == Pos(write_ind)
           n == Len(d)
           a == buffers[(x \div BufferLen) + 1]
           o == x % BufferLen
           t == BufferLen * Len(buffers)
<1>1. w \in Nat /\ n \in Nat /\ t \in Nat /\ Len(buffers) \in Nat /\ w < t /\ n <= t - w /\ x < w + n
      /\ write_ind \in Index
  BY Pointers, LenProperties, ChainBytes DEF ChainOK
<1>2. x < t
  <2> HIDE DEF w, n, t
  <2> QED
    BY <1>1
<1>3. a \in Addr /\ o \in Offset
  <2>1. (x \div BufferLen) + 1 \in 1..Len(buffers)
    BY <1>1, <1>2, PositionInChain
  <2> QED
    BY <1>1, <1>2, <2>1, PositionInChain, Pointers
<1>4. ASSUME NEW i \in 1..n
      PROVE  cells[i] = <<a, o>> <=> i = x - w + 1
  <2> DEFINE y == w + (i - 1)
  <2>1. i - 1 \in Nat /\ y \in Nat /\ y < t
    BY <1>1
  <2>2. cells[i] = <<buffers[(y \div BufferLen) + 1], y % BufferLen>>
    BY <1>1, <2>1, CellAtPos
  <2>3. ASSUME i = x - w + 1 PROVE y = x
    BY <1>1, <2>3
  <2>4. ASSUME y = x PROVE i = x - w + 1
    BY <1>1, <2>4
  <2> HIDE DEF y
  <2>5. ASSUME cells[i] = <<a, o>> PROVE y = x
    <3>1. buffers[(y \div BufferLen) + 1] = a /\ y % BufferLen = o
      BY <2>2, <2>5
    <3> QED
      BY <1>2, <2>1, <3>1, CellsDistinct
  <2> QED
    BY <2>2, <2>3, <2>4, <2>5
<1>5. At(buffers, Store(cells, d), x) =
        IF \E i \in 1..n : cells[i] = <<a, o>>
          THEN d[CHOOSE i \in 1..n : cells[i] = <<a, o>>]
          ELSE mem[a][o]
  BY <1>3 DEF At, Store
<1>6. At(buffers, mem, x) = mem[a][o]
  BY DEF At
<1> HIDE DEF a, o, w, n, t
<1>7. CASE x < w
  <2>1. \A i \in 1..n : i # x - w + 1
    BY <1>1, <1>7
  <2> QED
    BY <1>4, <1>5, <1>6, <1>7, <2>1 DEF w
<1>8. CASE ~(x < w)
  <2> DEFINE j == x - w + 1
  <2>1. j \in 1..n
    BY <1>1, <1>8
  <2>2. \A i \in 1..n : cells[i] = <<a, o>> <=> i = j
    BY <1>4
  <2> HIDE DEF j
  <2>3. (CHOOSE i \in 1..n : cells[i] = <<a, o>>) = j
    BY <2>1, <2>2
  <2>4. At(buffers, Store(cells, d), x) = d[j]
    BY <1>5, <2>1, <2>2, <2>3
  <2> QED
    BY <1>8, <2>4 DEF j, w
<1> QED
  BY <1>7, <1>8

\* Bytes written behind the unread ones, and the write pointer moved over
\* them, are appended to the queue.
LEMMA WriteUnread ==
  ASSUME ChainOK, ~exited, NEW d \in Seq(Byte), NEW cells, Unread \in Seq(Byte),
         Len(d) <= BufferLen * Len(buffers) - Pos(write_ind),
         \A i \in 1..Len(d) : cells[i] = CellAt(write_ind, i - 1),
         advance_write_ptr(Len(d), Store(cells, d))
  PROVE  Unread' = Unread \o d /\ read_ind' = read_ind
<1> DEFINE r == Pos(read_ind)
           w == Pos(write_ind)
           n == Len(d)
           t == BufferLen * Len(buffers)
           m == Store(cells, d)
<1>1. /\ r \in Nat /\ w \in Nat /\ r <= w /\ Len(Unread) = w - r /\ n \in Nat /\ t \in Nat
      /\ Len(buffers) \in Nat /\ w < t /\ n <= t - w /\ t + BufferLen <= U32
      /\ U32 \in Nat /\ BufferLen \in Nat \ {0} /\ write_ind \in Index
  BY Pointers, LenProperties, ChainBytes, BoundAssumption, BufferLenAssumption DEF ChainOK
<1>2. m \in [Addr -> [Offset -> Cell]]
  BY StoreOK DEF ChainOK
<1>3. ChainOK' /\ read_ind' = read_ind /\ Pos(write_ind') = w + n
  BY <1>1, <1>2, AdvanceWriteOK
<1>4. mem' = m /\ \A i \in 1..Len(buffers) : buffers'[i] = buffers[i]
  <2> DEFINE ind == advance_index(write_ind, n)
             k == IF ind.first >= Len(buffers) THEN ind.first + 1 - Len(buffers) ELSE 0
  <2>1. w + n < U32
    <3> HIDE DEF w, n, t
    <3> QED
      BY <1>1
  <2>2. ind \in Index
    BY <1>1, <2>1, AdvanceIndex
  <2>3. Grow(k, m) /\ exited' = exited
    BY DEF advance_write_ptr
  <2> HIDE DEF ind
  <2>4. k \in Nat
    BY <1>1, <2>2 DEF Index
  <2> HIDE DEF k, m
  <2> QED
    BY <2>3, <2>4, GrowOK
<1>5. Unread' = Span(buffers', m, r, w + n)
  <2>1. (ChainOK => Unread = Span(buffers, mem, Pos(read_ind), Pos(write_ind)))'
    BY UnreadIsSpan, PTL
  <2> QED
    BY <1>3, <1>4, <2>1
<1>6. Unread = Span(buffers, mem, r, w)
  BY UnreadIsSpan
<1> DEFINE e == Unread \o d
<1>7. /\ e \in Seq(Byte) /\ Len(e) = (w - r) + n
      /\ \A i \in 1..((w - r) + n) : e[i] = IF i <= w - r THEN Unread[i] ELSE d[i - (w - r)]
  <2>1. /\ e \in Seq(Byte) /\ Len(e) = Len(Unread) + Len(d)
        /\ \A i \in 1..(Len(Unread) + Len(d)) :
              e[i] = IF i <= Len(Unread) THEN Unread[i] ELSE d[i - Len(Unread)]
    BY ConcatProperties
  <2>2. Len(Unread) = w - r
    BY <1>1
  <2> HIDE DEF e
  <2> QED
    BY <2>1, <2>2
<1>8. ASSUME NEW i \in 1..((w + n) - r) PROVE At(buffers', m, r + i - 1) = e[i]
  <2> DEFINE x == r + i - 1
  <2>1. x \in Nat /\ x < w + n /\ x < t
    BY <1>1
  <2>2. (x \div BufferLen) + 1 \in 1..Len(buffers)
    BY <1>1, <2>1, PositionInChain
  <2>3. At(buffers', m, x) = At(buffers, m, x)
    <3> HIDE DEF x, m
    <3> QED
      BY <1>4, <2>2 DEF At
  <2>4. At(buffers, m, x) = IF x < w THEN At(buffers, mem, x) ELSE d[x - w + 1]
    <3> HIDE DEF x
    <3> QED
      BY <2>1, StoreAt
  <2>5. CASE x < w
    <3>1. i \in 1..(w - r) /\ i \in 1..((w - r) + n)
      BY <1>1, <2>5
    <3>2. Unread[i] = At(buffers, mem, r + i - 1)
      BY <1>6, <3>1 DEF Span
    <3>3. e[i] = Unread[i]
      <4> HIDE DEF e
      <4> QED
        BY <1>7, <3>1
    <3> QED
      BY <2>3, <2>4, <2>5, <3>2, <3>3
  <2>6. CASE ~(x < w)
    <3>1. ~(i <= w - r) /\ i \in 1..((w - r) + n) /\ x - w + 1 = i - (w - r)
      BY <1>1, <2>6
    <3>2. e[i] = d[i - (w - r)]
      <4> HIDE DEF e
      <4> QED
        BY <1>7, <3>1
    <3> QED
      BY <2>3, <2>4, <2>6, <3>1, <3>2
  <2> QED
    BY <2>5, <2>6
<1> HIDE DEF r, w, n, t, m, e
<1>9. (w + n) - r = (w - r) + n
  BY <1>1
<1>10. Span(buffers', m, r, w + n) = [i \in 1..((w - r) + n) |-> e[i]]
  BY <1>8, <1>9 DEF Span
<1>11. e = [i \in 1..((w - r) + n) |-> e[i]]
  BY <1>7
<1> QED
  BY <1>3, <1>5, <1>10, <1>11 DEF e

\* A memcpy out of one buffer, in positions.
LEMMA ChunkIsSpan ==
  ASSUME NEW ind \in Index, NEW n \in Nat, n <= BufferLen - ind.second
  PROVE  Chunk(ind, n) = Span(buffers, mem, Pos(ind), Pos(ind) + n)
<1> DEFINE p == Pos(ind)
           fb == ind.first * BufferLen
<1>1. /\ ind.first \in Nat /\ ind.second \in Nat /\ BufferLen \in Nat \ {0} /\ p \in Nat /\ fb \in Nat
      /\ p = fb + ind.second
  BY BufferLenAssumption, PosOrder DEF Index, Offset, Pos
<1> HIDE DEF p, fb
<1>2. ASSUME NEW i \in 1..n
      PROVE  mem[buffers[ind.first + 1]][ind.second + i - 1] = At(buffers, mem, p + i - 1)
  <2> DEFINE x == p + i - 1
             o == ind.second + i - 1
  <2>1. x \in Nat /\ o \in Offset /\ x = fb + o
    BY <1>1 DEF Offset
  <2> HIDE DEF x, o
  <2>2. x \div BufferLen = ind.first /\ x % BufferLen = o
    BY <1>1, <2>1, DivUnique DEF fb
  <2> QED
    BY <2>2 DEF At, x, o
<1>3. (p + n) - p = n
  BY <1>1
<1> QED
  BY <1>2, <1>3 DEF Chunk, Span, p

-----------------------------------------------------------------------------
(* The steps of the queue. *)

\* Every unread byte is one that arrived: none is memory nobody has written.
Queued == Unread \in Seq(Byte)

\* The cursor of the queue: how far the peek stream is past the read pointer.
Cursor == Pos(index) - Pos(read_ind)

\* Appended bytes are a Put.
LEMMA PutMaps ==
  ASSUME Queued, NEW d \in Seq(Byte), Unread' = Unread \o d, UNCHANGED <<Cursor, dest>>
  PROVE  BQ!Next /\ Queued'
<1>1. Unread \in Seq(Byte) /\ Len(Unread) \in Nat /\ Len(d) \in Nat
  BY LenProperties DEF Queued
<1> DEFINE q == Unread
           e == q \o d
<1>2. /\ e \in Seq(Byte) /\ Len(e) = Len(q) + Len(d)
      /\ \A i \in 1..(Len(q) + Len(d)) : e[i] = IF i <= Len(q) THEN q[i] ELSE d[i - Len(q)]
  BY <1>1, ConcatProperties
<1> HIDE DEF e, q
<1>3. Len(q) \in Nat /\ q \in Seq(Byte)
  BY <1>1 DEF q
<1>4. \A i \in 1..Len(q) : e[i] \in Byte
  BY <1>1, <1>2, <1>3, ElementOfSeq
<1> DEFINE c == SubSeq(e, 1, Len(q))
<1>5. /\ c \in Seq(Byte) /\ Len(c) = IF 1 <= Len(q) THEN Len(q) - 1 + 1 ELSE 0
      /\ \A i \in 1..(Len(q) - 1 + 1) : c[i] = e[1 + i - 1]
  BY <1>3, <1>4, SubSeqProperties
<1> HIDE DEF c
<1>6. Len(c) = Len(q) /\ \A i \in 1..Len(q) : c[i] = q[i]
  <2>1. Len(c) = Len(q)
    BY <1>3, <1>5
  <2>2. ASSUME NEW i \in 1..Len(q) PROVE c[i] = q[i]
    <3>1. i \in 1..(Len(q) - 1 + 1) /\ 1 + i - 1 = i /\ i \in 1..(Len(q) + Len(d)) /\ i <= Len(q)
      BY <1>1, <1>3
    <3> QED
      BY <1>2, <1>5, <3>1
  <2> QED
    BY <2>1, <2>2
<1>7. c = q
  BY <1>3, <1>5, <1>6, SeqEqual
<1>8. Unread' \in Seq(Byte) /\ Len(Unread) <= Len(Unread') /\ SubSeq(Unread', 1, Len(Unread)) = Unread
  BY <1>1, <1>2, <1>7 DEF c, e, q
<1>9. BQ!Put
  BY <1>8 DEF BQ!Put, Cursor
<1> QED
  BY <1>8, <1>9 DEF BQ!Next, Queued

\* What is left behind the oldest n bytes is a queue.
LEMMA RestIsQueue ==
  ASSUME Queued, NEW n \in 0..Len(Unread), Unread' = SubSeq(Unread, n + 1, Len(Unread))
  PROVE  Queued'
<1>1. Unread \in Seq(Byte) /\ Len(Unread) \in Nat
  BY LenProperties DEF Queued
<1>2. \A i \in (n + 1)..Len(Unread) : Unread[i] \in Byte
  BY <1>1, ElementOfSeq
<1>3. SubSeq(Unread, n + 1, Len(Unread)) \in Seq(Byte)
  BY <1>1, <1>2, SubSeqProperties
<1> QED
  BY <1>3 DEF Queued

\* The oldest n bytes gone, with the cursor back at the front, are a Drop.
LEMMA DropMaps ==
  ASSUME Queued, NEW n \in 0..Len(Unread), Unread' = SubSeq(Unread, n + 1, Len(Unread)),
         Cursor' = 0, dest' = dest
  PROVE  BQ!Next /\ Queued'
<1>1. Len(Unread) \in Nat
  BY LenProperties DEF Queued
<1>2. n <= Len(Unread)
  BY <1>1
<1>3. BQ!Drop(n)
  BY <1>2 DEF BQ!Drop, Cursor
<1> QED
  BY <1>3, RestIsQueue DEF BQ!Next

\* The oldest n bytes gone and copied are a Take.
LEMMA TakeMaps ==
  ASSUME Queued, NEW n \in 0..Len(Unread), Unread' = SubSeq(Unread, n + 1, Len(Unread)),
         Cursor' = 0, dest' = dest \o SubSeq(Unread, 1, n)
  PROVE  BQ!Next /\ Queued'
<1>1. Len(Unread) \in Nat
  BY LenProperties DEF Queued
<1>2. n <= Len(Unread)
  BY <1>1
<1>3. BQ!Take(n)
  BY <1>2 DEF BQ!Take, Cursor
<1> QED
  BY <1>3, RestIsQueue DEF BQ!Next

\* n bytes copied at the cursor are a Look.
LEMMA LookMaps ==
  ASSUME Queued, NEW n \in 0..Len(Unread), Cursor + n <= Len(Unread), Unread' = Unread,
         Cursor' = Cursor + n, dest' = dest \o SubSeq(Unread, Cursor + 1, Cursor + n)
  PROVE  BQ!Next /\ Queued'
<1>1. BQ!Look(n)
  BY DEF BQ!Look, Cursor
<1> QED
  BY <1>1 DEF BQ!Next, Queued

\* n bytes passed by the cursor are a Pass.
LEMMA PassMaps ==
  ASSUME Queued, NEW n \in 0..Len(Unread), Cursor + n <= Len(Unread), Unread' = Unread,
         Cursor' = Cursor + n, dest' = dest
  PROVE  BQ!Next /\ Queued'
<1>1. BQ!Pass(n)
  BY DEF BQ!Pass, Cursor
<1> QED
  BY <1>1 DEF BQ!Next, Queued

\* An empty destination, with the cursor kept or back at the front, is a Begin.
LEMMA BeginMaps ==
  ASSUME Queued, Unread' = Unread, Cursor' \in {0, Cursor}, dest' = << >>
  PROVE  BQ!Next /\ Queued'
<1>1. BQ!Begin(Cursor')
  BY DEF BQ!Begin, Cursor
<1> QED
  BY <1>1 DEF BQ!Next, Queued, Cursor

\* A step that leaves all three alone stutters.
LEMMA StutterMaps ==
  ASSUME Queued, UNCHANGED <<Unread, Cursor, dest>>
  PROVE  UNCHANGED BQ!vars /\ Queued'
  BY DEF BQ!vars, Queued, Cursor

\* What the invariant says of the pointers, the cursor and the counts.
LEMMA Facts ==
  ASSUME IInv
  PROVE  /\ ChainOK /\ PendingOK /\ CallOK
         /\ read_ind \in Index /\ write_ind \in Index /\ index \in Index
         /\ Pos(read_ind) \in Nat /\ Pos(write_ind) \in Nat /\ Pos(index) \in Nat
         /\ Pos(read_ind) <= Pos(index) /\ Pos(index) <= Pos(write_ind)
         /\ bytes_to_read = Pos(write_ind) - Pos(read_ind)
         /\ bytes_to_read_from_index(index) = Pos(write_ind) - Pos(index)
         /\ Len(Unread) = Pos(write_ind) - Pos(read_ind)
  BY Pointers, PosOrder, CountFromIndex DEF IInv, ChainOK, CallOK, bytes_to_read

\* Actions that do not touch the chain.
LEMMA QuietUnread ==
  ASSUME UNCHANGED chainVars
  PROVE  Unread' = Unread /\ Pos(read_ind)' = Pos(read_ind)
  BY DEF chainVars, Unread, CellAt, Pos

\* The bytes the network delivers, or the client writes, as a sequence.
LEMMA DataSeq ==
  ASSUME NEW d \in Data
  PROVE  d \in Seq(Byte) /\ Len(d) \in Nat
  BY BoundAssumption DEF Data

\* Growth alone stutters.
LEMMA GrowMaps ==
  ASSUME IInv, Queued, IInv', NEW k \in Nat, Grow(k, mem), UNCHANGED <<read_ind, write_ind, index, dest, exited>>
  PROVE  UNCHANGED BQ!vars /\ Queued'
<1>1. ChainOK /\ ChainOK'
  BY DEF IInv
<1>2. (\A i \in 1..Len(buffers) : buffers'[i] = buffers[i]) /\ mem' = mem
  BY <1>1, GrowOK
<1>3. Unread' = Unread
  BY <1>1, <1>2, GrowUnread
<1>4. Cursor' = Cursor
  BY DEF Cursor, Pos
<1> QED
  BY <1>3, <1>4, StutterMaps

\* Skipping drops what it skips.
LEMMA SkipMaps ==
  ASSUME IInv, Queued, NEW n \in 0..MaxBytes, Skip(n)
  PROVE  BQ!Next /\ Queued'
<1>1. /\ ~exited /\ n <= bytes_to_read /\ advance_read_ptr(n) /\ index' = read_ind' /\ dest' = dest
  BY DEF Skip, Ready, MayConsume
<1>2. n \in Nat /\ n <= Pos(write_ind) - Pos(read_ind) /\ n \in 0..Len(Unread) /\ ChainOK
  BY <1>1, Facts, BoundAssumption
<1>3. Unread' = SubSeq(Unread, n + 1, Len(Unread))
  BY <1>1, <1>2, ConsumeUnread
<1>4. ChainOK'
  BY <1>1, <1>2, AdvanceReadOK
<1>5. Pos(read_ind') \in Nat
  BY <1>4, PosOrder DEF ChainOK
<1>6. Cursor' = 0
  BY <1>1, <1>5 DEF Cursor, Pos
<1> QED
  BY <1>1, <1>2, <1>3, <1>6, DropMaps

\* One call of the recursion of read() takes what it copies.
LEMMA ReadMaps ==
  ASSUME IInv, Queued, ReadStep
  PROVE  BQ!Next /\ Queued'
<1> DEFINE n == CallSize(read_ind)
           r == Pos(read_ind)
           w == Pos(write_ind)
<1>1. /\ call.kind = "read" /\ ~exited /\ bytes_to_read >= call.left
      /\ dest' = dest \o Chunk(read_ind, n) /\ advance_read_ptr(n) /\ Recur(n)
      /\ index' = read_ind'
  BY DEF ReadStep
<1>2. /\ call.left \in Nat /\ call.left <= w - r /\ r \in Nat /\ w \in Nat /\ r <= w
      /\ read_ind \in Index /\ ChainOK /\ Len(Unread) = w - r
  BY <1>1, Facts DEF CallOK
<1>3. n \in Nat /\ n <= call.left /\ n <= BufferLen - read_ind.second
  BY <1>1, <1>2, CallSizeOK
<1> HIDE DEF n
<1>4. n <= w - r /\ n \in 0..(w - r) /\ r + n \in Nat /\ r <= r + n /\ r + n <= w /\ (r + n) - r = n /\ r - r + 1 = 1 /\ r <= r
  BY <1>2, <1>3
<1>5. Unread' = SubSeq(Unread, n + 1, Len(Unread))
  BY <1>1, <1>2, <1>3, <1>4, ConsumeUnread
<1>6. Chunk(read_ind, n) = SubSeq(Unread, 1, n)
  <2>1. Chunk(read_ind, n) = Span(buffers, mem, r, r + n)
    BY <1>2, <1>3, ChunkIsSpan
  <2>2. SubSeq(Unread, r - r + 1, (r + n) - r) = Span(buffers, mem, r, r + n)
    BY <1>2, <1>4, UnreadPart
  <2> QED
    BY <1>4, <2>1, <2>2
<1>7. ChainOK'
  BY <1>1, <1>2, <1>3, <1>4, AdvanceReadOK
<1>8. Pos(read_ind') \in Nat
  BY <1>7, PosOrder DEF ChainOK
<1>9. Cursor' = 0
  BY <1>1, <1>8 DEF Cursor, Pos
<1> QED
  BY <1>1, <1>2, <1>4, <1>5, <1>6, <1>9, TakeMaps

\* One call of the recursion of peek() looks at what it copies.
LEMMA PeekMaps ==
  ASSUME IInv, Queued, PeekStep
  PROVE  BQ!Next /\ Queued'
<1> DEFINE n == CallSize(index)
           r == Pos(read_ind)
           x == Pos(index)
           w == Pos(write_ind)
<1>1. /\ call.kind = "peek" /\ bytes_to_read_from_index(index) >= call.left
      /\ dest' = dest \o Chunk(index, n) /\ Recur(n)
      /\ index' = advance_index(index, n) /\ UNCHANGED chainVars
  BY DEF PeekStep
<1>2. /\ call.left \in Nat /\ call.left <= w - x /\ r \in Nat /\ w \in Nat /\ x \in Nat
      /\ r <= x /\ x <= w /\ index \in Index /\ ChainOK /\ Len(Unread) = w - r
  BY <1>1, Facts DEF CallOK
<1>3. n \in Nat /\ n <= call.left /\ n <= BufferLen - index.second
  BY <1>1, <1>2, CallSizeOK
<1>4. w < U32 /\ U32 \in Nat
  BY PosFits, BufferLenAssumption, BoundAssumption, <1>2
<1> HIDE DEF n
<1>5. index' \in Index /\ Pos(index') = x + n
  BY <1>1, <1>2, <1>3, <1>4, AdvanceIndex
<1>6. Unread' = Unread /\ Pos(read_ind)' = Pos(read_ind)
  BY <1>1, QuietUnread
<1>7. Cursor = x - r /\ Cursor' = x + n - r
  <2>1. Cursor' = Pos(index') - Pos(read_ind') /\ Cursor = x - r
    BY DEF Cursor, Pos
  <2>2. read_ind' = read_ind
    BY <1>1 DEF chainVars
  <2>3. Pos(read_ind') = r
    BY <2>2
  <2> HIDE DEF r, x
  <2> QED
    BY <1>2, <1>3, <1>5, <2>1, <2>3
<1>8. Chunk(index, n) = SubSeq(Unread, x - r + 1, (x + n) - r)
  <2>1. Chunk(index, n) = Span(buffers, mem, x, x + n)
    BY <1>2, <1>3, ChunkIsSpan
  <2>2. x + n \in Nat /\ x <= x + n /\ x + n <= w
    BY <1>2, <1>3
  <2>3. SubSeq(Unread, x - r + 1, (x + n) - r) = Span(buffers, mem, x, x + n)
    BY <1>2, <2>2, UnreadPart
  <2> QED
    BY <2>1, <2>3
<1> HIDE DEF r, x, w
<1>9. n \in 0..(w - r) /\ (x - r) + n <= w - r /\ x + n - r = (x - r) + n /\ (x + n) - r = (x - r) + n
  BY <1>2, <1>3
<1> QED
  BY <1>1, <1>2, <1>6, <1>7, <1>8, <1>9, LookMaps

\* Skipping in the peek stream passes what it skips.
LEMMA PeekSkipMaps ==
  ASSUME IInv, Queued, NEW n \in 0..MaxBytes, PeekSkip(n)
  PROVE  BQ!Next /\ Queued'
<1> DEFINE r == Pos(read_ind)
           x == Pos(index)
           w == Pos(write_ind)
<1>1. /\ n \in Nat /\ n <= w - x /\ r \in Nat /\ w \in Nat /\ x \in Nat /\ r <= x /\ x <= w
      /\ index \in Index /\ Len(Unread) = w - r /\ ChainOK
      /\ index' = advance_index(index, n) /\ UNCHANGED <<chainVars, dest>>
  BY Facts, BoundAssumption DEF PeekSkip
<1>2. w < U32 /\ U32 \in Nat
  BY PosFits, BufferLenAssumption, BoundAssumption, <1>1
<1>3. Pos(index') = x + n
  BY <1>1, <1>2, AdvanceIndex
<1>4. Unread' = Unread /\ Pos(read_ind)' = Pos(read_ind)
  BY <1>1, QuietUnread
<1>5. Cursor = x - r /\ Cursor' = x + n - r
  <2>1. Cursor' = Pos(index') - Pos(read_ind') /\ Cursor = x - r
    BY DEF Cursor, Pos
  <2>2. read_ind' = read_ind
    BY <1>1 DEF chainVars
  <2>3. Pos(read_ind') = r
    BY <2>2
  <2> HIDE DEF r, x
  <2> QED
    BY <1>1, <1>3, <2>1, <2>3
<1> HIDE DEF r, x, w
<1>6. n \in 0..(w - r) /\ (x - r) + n <= w - r /\ x + n - r = (x - r) + n
  BY <1>1
<1> QED
  BY <1>1, <1>4, <1>5, <1>6, PassMaps

\* reset() and the next buffer drop all of the queue; a reset that finds the
\* chain too long ends the process and drops nothing.
LEMMA ResetMaps ==
  ASSUME IInv, Queued, Reset
  PROVE  BQ!Next /\ Queued'
<1>1. ~exited /\ reset(read_ind) /\ index' = read_ind' /\ dest' = dest
  BY DEF Reset, Ready
<1>2. /\ ChainOK /\ read_ind \in Index /\ Pos(read_ind) <= Pos(write_ind) /\ Len(Unread) \in Nat
      /\ Unread \in Seq(Byte)
  BY Facts DEF ChainOK, Queued
<1>3. ChainOK'
  BY <1>1, <1>2, ResetOK
<1>4. Cursor' = 0
  <2>1. Pos(read_ind') \in Nat
    BY <1>3, PosOrder DEF ChainOK
  <2> QED
    BY <1>1, <2>1 DEF Cursor, Pos
<1>5. CASE Len(buffers) # sanity_check \/ Len(buffers) > SaneLimit
  <2>1. UNCHANGED <<buffers, read_ind, write_ind, mem>>
    BY <1>1, <1>5 DEF reset
  <2>2. Unread' = Unread
    BY <2>1 DEF Unread, CellAt, Pos
  <2>3. SubSeq(Unread, 1, Len(Unread)) = Unread
    BY <1>2, SubSeqFull
  <2>4. 0 \in 0..Len(Unread) /\ 0 + 1 = 1
    BY <1>2
  <2> QED
    BY <1>1, <1>4, <2>2, <2>3, <2>4, DropMaps
<1>6. CASE ~(Len(buffers) # sanity_check \/ Len(buffers) > SaneLimit)
  <2>1. read_ind' = Origin /\ write_ind' = Origin
    BY <1>1, <1>6 DEF reset
  <2>2. (ChainOK /\ Pos(write_ind) = Pos(read_ind) => Unread = << >>)'
    BY Drained, PTL
  <2>3. Unread' = << >>
    BY <1>3, <2>1, <2>2
  <2>4. SubSeq(Unread, Len(Unread) + 1, Len(Unread)) = << >>
    BY <1>2, SubSeqEmpty
  <2>5. Len(Unread) \in 0..Len(Unread)
    BY <1>2
  <2> QED
    BY <1>1, <1>4, <2>3, <2>4, <2>5, DropMaps
<1> QED
  BY <1>5, <1>6

\* A destroyed buffer's bytes are dropped.
LEMMA ReconstructMaps ==
  ASSUME IInv, Queued, IInv', Reconstruct
  PROVE  BQ!Next /\ Queued'
<1>1. read_ind' = Origin /\ write_ind' = Origin /\ index' = Origin /\ dest' = dest
  BY DEF Reconstruct
<1>2. ChainOK' /\ Len(Unread) \in Nat
  BY Facts DEF IInv
<1>3. (ChainOK /\ Pos(write_ind) = Pos(read_ind) => Unread = << >>)'
  BY Drained, PTL
<1>4. Unread' = << >>
  BY <1>1, <1>2, <1>3
<1>5. SubSeq(Unread, Len(Unread) + 1, Len(Unread)) = << >> /\ Len(Unread) \in 0..Len(Unread)
  BY <1>2, SubSeqEmpty
<1>6. Cursor' = 0
  <2>1. Pos(read_ind') \in Nat
    BY <1>2, PosOrder DEF ChainOK
  <2> QED
    BY <1>1, <2>1 DEF Cursor, Pos
<1> QED
  BY <1>1, <1>4, <1>5, <1>6, DropMaps

\* Bytes written by the client, within the buffer the write pointer is in.
LEMMA WriteMaps ==
  ASSUME IInv, Queued, NEW d \in Data, Write(d)
  PROVE  BQ!Next /\ Queued'
<1> DEFINE cells == [i \in 1..Len(d) |-> CellAt(write_ind, i - 1)]
<1>1. /\ ~exited /\ Len(d) <= BufferLen - write_ind.second
      /\ advance_write_ptr(Len(d), Store(cells, d)) /\ UNCHANGED <<index, dest>>
  BY DEF Write, Ready
<1>2. d \in Seq(Byte) /\ Len(d) \in Nat /\ ChainOK /\ write_ind \in Index /\ Unread \in Seq(Byte)
  BY DataSeq, Facts DEF Queued
<1>3. \A i \in 1..Len(d) : cells[i] = CellAt(write_ind, i - 1)
  OBVIOUS
<1> HIDE DEF cells
<1>4. Len(d) <= BufferLen * Len(buffers) - Pos(write_ind)
  <2> DEFINE wb == write_ind.first * BufferLen
             t == BufferLen * Len(buffers)
  <2>1. /\ write_ind.first \in Nat /\ write_ind.second \in Nat
        /\ Len(buffers) \in Nat /\ BufferLen \in Nat /\ write_ind.first < Len(buffers)
    BY <1>2, BufferLenAssumption DEF ChainOK, Index, Offset
  <2>2. (write_ind.first + 1) * BufferLen <= Len(buffers) * BufferLen
    BY <2>1, MulMono, write_ind.first + 1 \in Nat, write_ind.first + 1 <= Len(buffers)
  <2>3. (write_ind.first + 1) * BufferLen = wb + BufferLen
    BY <2>1
  <2>4. Len(buffers) * BufferLen = t /\ t \in Nat /\ wb \in Nat
    BY <2>1
  <2>5. Pos(write_ind) = wb + write_ind.second
    BY DEF Pos
  <2>6. wb + BufferLen <= t
    BY <2>2, <2>3, <2>4
  <2> HIDE DEF wb, t
  <2>7. Len(d) <= t - Pos(write_ind)
    BY <1>1, <1>2, <2>1, <2>4, <2>5, <2>6
  <2> QED
    BY <2>7 DEF t
<1>5. Unread' = Unread \o d /\ read_ind' = read_ind
  BY <1>1, <1>2, <1>3, <1>4, WriteUnread
<1>6. Cursor' = Cursor
  BY <1>1, <1>5 DEF Cursor, Pos
<1> QED
  BY <1>1, <1>2, <1>5, <1>6, PutMaps

\* Bytes delivered by the network into the regions of the outstanding read.
LEMMA AsyncMaps ==
  ASSUME IInv, Queued, NEW d \in Data, AsyncReadDone(d)
  PROVE  BQ!Next /\ Queued'
<1>1. /\ ~exited /\ Len(d) <= Len(pending)
      /\ advance_write_ptr(Len(d), Store(pending, d)) /\ UNCHANGED <<index, dest>>
  BY DEF AsyncReadDone, Ready
<1>2. d \in Seq(Byte) /\ Len(d) \in Nat /\ ChainOK /\ Pos(write_ind) \in Nat /\ Unread \in Seq(Byte)
  BY DataSeq, Facts DEF Queued
<1> DEFINE t == BufferLen * Len(buffers)
<1>3. /\ Pos(write_ind) + Len(pending) <= t /\ t \in Nat /\ Len(pending) \in Nat
      /\ \A i \in 1..Len(pending) : pending[i] = CellAt(write_ind, i - 1)
  BY <1>2, Facts, ChainBytes DEF PendingOK, PendingIsFreeSpace
<1>4. \A i \in 1..Len(d) : pending[i] = CellAt(write_ind, i - 1)
  BY <1>1, <1>2, <1>3
<1> HIDE DEF t
<1>5. Len(d) <= t - Pos(write_ind)
  BY <1>1, <1>2, <1>3
<1>6. Unread' = Unread \o d /\ read_ind' = read_ind
  BY <1>1, <1>2, <1>4, <1>5, WriteUnread DEF t
<1>7. Cursor' = Cursor
  BY <1>1, <1>6 DEF Cursor, Pos
<1> QED
  BY <1>1, <1>2, <1>6, <1>7, PutMaps

\* Entering read() or peek() and making a peek stream begin with nothing copied.
LEMMA BeginsMap ==
  ASSUME IInv, Queued, \/ CreatePeekDatastream
                       \/ \E n \in 0..MaxBytes : BeginRead(n) \/ BeginPeek(n)
  PROVE  BQ!Next /\ Queued'
<1>1. /\ UNCHANGED chainVars /\ dest' = << >>
      /\ index' = read_ind \/ index' = index
  BY DEF CreatePeekDatastream, BeginRead, BeginPeek
<1>2. Unread' = Unread /\ read_ind' = read_ind
  BY <1>1, QuietUnread DEF chainVars
<1>3. Pos(read_ind) \in Nat
  BY Facts
<1>4. Cursor' \in {0, Cursor}
  <2>1. CASE index' = read_ind
    <3>1. Cursor' = Pos(read_ind) - Pos(read_ind)
      BY <1>2, <2>1 DEF Cursor, Pos
    <3> QED
      BY <1>3, <3>1
  <2>2. CASE index' = index
    BY <1>2, <2>2 DEF Cursor, Pos
  <2> QED
    BY <1>1, <2>1, <2>2
<1> QED
  BY <1>1, <1>2, <1>4, BeginMaps

\* Every step of the chain is a step of the queue, or none.
LEMMA StepMaps == IInv /\ Queued /\ [Next]_vars => [BQ!Next]_BQ!vars /\ Queued'
<1> SUFFICES ASSUME IInv, Queued, [Next]_vars PROVE [BQ!Next]_BQ!vars /\ Queued'
  OBVIOUS
<1>0. IInv'
  BY StepOK
<1>1. CASE AddBufferToChain
  BY <1>0, <1>1, GrowMaps DEF AddBufferToChain
<1>2. ASSUME NEW n \in 0..MaxBytes, AddSpace(n) PROVE UNCHANGED BQ!vars /\ Queued'
  <2>1. (n \div BufferLen) + 1 \in Nat
    BY BoundAssumption, DivMod
  <2> QED
    BY <1>0, <1>2, <2>1, GrowMaps DEF AddSpace
<1>3. CASE StartAsyncRead \/ AsyncReadFailed \/ ReadRefused \/ PeekRefused \/ UNCHANGED vars
  <2>1. UNCHANGED <<chainVars, index, dest>>
    BY <1>3 DEF StartAsyncRead, AsyncReadFailed, ReadRefused, PeekRefused, vars, chainVars
  <2>2. Unread' = Unread /\ Cursor' = Cursor
    BY <2>1, QuietUnread DEF chainVars, Cursor, Pos
  <2> QED
    BY <2>1, <2>2, StutterMaps
<1>4. ASSUME NEW n \in 0..MaxBytes, Skip(n) \/ PeekSkip(n) PROVE BQ!Next /\ Queued'
  BY <1>4, SkipMaps, PeekSkipMaps
<1>5. CASE Reset \/ Reconstruct \/ ReadStep \/ PeekStep \/ CreatePeekDatastream
  BY <1>0, <1>5, ResetMaps, ReconstructMaps, ReadMaps, PeekMaps, BeginsMap
<1>6. ASSUME NEW n \in 0..MaxBytes, BeginRead(n) \/ BeginPeek(n) PROVE BQ!Next /\ Queued'
  BY <1>6, BeginsMap
<1>7. ASSUME NEW d \in Data, Write(d) \/ AsyncReadDone(d) PROVE BQ!Next /\ Queued'
  BY <1>7, WriteMaps, AsyncMaps
<1> QED
  BY <1>1, <1>2, <1>3, <1>4, <1>5, <1>6, <1>7 DEF Next, Exited

\* A new buffer is an empty queue.
LEMMA InitMaps == Init => BQ!Init /\ Queued
<1> SUFFICES ASSUME Init PROVE BQ!Init /\ Queued
  OBVIOUS
<1>1. ChainOK /\ Pos(read_ind) \in Nat
  BY InitOK, Facts
<1>2. read_ind = write_ind /\ index = read_ind /\ dest = << >>
  BY DEF Init
<1>3. Unread = << >>
  BY <1>1, <1>2, Drained
<1>4. Unread \in Seq(Byte)
  BY <1>3
<1>5. Pos(index) - Pos(read_ind) = 0
  BY <1>1, <1>2
<1> QED
  BY <1>2, <1>3, <1>4, <1>5 DEF BQ!Init, Queued

\* message_buffer is a byte queue, for every length of its buffers, every pool
\* and every chain: however advance_read_ptr and advance_write_ptr cut, drop
\* and add buffers, and whatever async_read delivers meanwhile, read() and
\* peek() hand out the bytes that arrived, in order, none lost or invented.
THEOREM BufferImplementsQueue == SafeSpec => ImplementsByteQueue
<1>1. Init => BQ!Init /\ Queued
  BY InitMaps
<1>2. IInv /\ Queued /\ [Next]_vars => [BQ!Next]_BQ!vars /\ Queued'
  BY StepMaps
<1> QED
  BY <1>1, <1>2, Invariance, PTL DEF SafeSpec, ImplementsByteQueue, BQ!Spec

-----------------------------------------------------------------------------
(* Refusals. *)

\* A call that has copied something has the rest of its bytes before it: the
\* first check covered them, and no step in between takes them away.
RestIsThere ==
  /\ call.kind = "read" /\ ~exited => dest = << >> \/ call.left <= Pos(write_ind) - Pos(read_ind)
  /\ call.kind = "peek" => dest = << >> \/ call.left <= Pos(write_ind) - Pos(index)

\* The call of read() that follows one is for what is left.
LEMMA ReadRest ==
  ASSUME IInv, ReadStep
  PROVE  RestIsThere'
<1> DEFINE n == CallSize(read_ind)
           r == Pos(read_ind)
           w == Pos(write_ind)
<1>1. /\ call.kind = "read" /\ ~exited /\ bytes_to_read >= call.left
      /\ advance_read_ptr(n) /\ Recur(n)
  BY DEF ReadStep
<1>2. /\ call.left \in Nat /\ call.left <= w - r /\ r \in Nat /\ w \in Nat /\ r <= w
      /\ read_ind \in Index /\ ChainOK /\ call \in [kind : {"idle", "read", "peek"}, left : Nat]
  BY <1>1, Facts DEF CallOK
<1>3. /\ n \in Nat /\ n <= call.left
      /\ call' \in [kind : {"idle", "read", "peek"}, left : Nat]
      /\ call'.kind = "read" => call'.left + n = call.left
  BY <1>1, <1>2, CallSizeOK
<1> HIDE DEF n
<1>4. n <= w - r
  BY <1>2, <1>3
<1>5. Pos(write_ind)' - Pos(read_ind)' = w - r - n
  BY <1>1, <1>2, <1>3, <1>4, AdvanceReadOK
<1>6. ASSUME call'.kind = "read" PROVE call'.left <= w - r - n
  <2>1. call'.left \in Nat
    BY <1>3
  <2> QED
    BY <1>2, <1>3, <1>6, <2>1
<1>7. call'.kind # "peek"
  BY <1>1, <1>2 DEF Recur, Idle
<1> QED
  BY <1>5, <1>6, <1>7 DEF RestIsThere

\* The call of peek() that follows one is for what is left.
LEMMA PeekRest ==
  ASSUME IInv, PeekStep
  PROVE  RestIsThere'
<1> DEFINE n == CallSize(index)
           x == Pos(index)
           w == Pos(write_ind)
<1>1. /\ call.kind = "peek" /\ bytes_to_read_from_index(index) >= call.left
      /\ Recur(n) /\ index' = advance_index(index, n) /\ write_ind' = write_ind
  BY DEF PeekStep, chainVars
<1>2. /\ call.left \in Nat /\ call.left <= w - x /\ w \in Nat /\ x \in Nat /\ x <= w
      /\ index \in Index /\ ChainOK /\ call \in [kind : {"idle", "read", "peek"}, left : Nat]
  BY <1>1, Facts DEF CallOK
<1>3. n \in Nat /\ n <= call.left
  BY <1>1, <1>2, CallSizeOK
<1>4. w < U32 /\ U32 \in Nat
  BY PosFits, BufferLenAssumption, BoundAssumption, <1>2
<1> HIDE DEF n
<1>5. Pos(index') = x + n
  BY <1>1, <1>2, <1>3, <1>4, AdvanceIndex
<1>6. Pos(write_ind)' - Pos(index)' = w - (x + n)
  <2>1. Pos(write_ind)' - Pos(index)' = Pos(write_ind') - Pos(index')
    BY DEF Pos
  <2>2. Pos(write_ind') = w
    BY <1>1
  <2> HIDE DEF w, x
  <2> QED
    BY <1>2, <1>3, <1>5, <2>1, <2>2
<1>7. ASSUME call'.kind = "peek" PROVE call'.left <= w - (x + n)
  <2>1. call'.left = call.left - n
    BY <1>1, <1>2, <1>7 DEF Recur, Idle
  <2> QED
    BY <1>2, <1>3, <2>1
<1>8. call'.kind # "read"
  BY <1>1, <1>2 DEF Recur, Idle
<1> QED
  BY <1>6, <1>7, <1>8 DEF RestIsThere

\* Every action keeps the rest there: while a call runs only its own steps do.
LEMMA RestStep == IInv /\ RestIsThere /\ [Next]_vars => RestIsThere'
<1> SUFFICES ASSUME IInv, RestIsThere, [Next]_vars PROVE RestIsThere'
  OBVIOUS
<1>1. CASE ReadStep
  BY <1>1, ReadRest
<1>2. CASE PeekStep
  BY <1>2, PeekRest
<1>3. CASE UNCHANGED vars
  BY <1>3 DEF RestIsThere, vars, Pos
<1>4. ASSUME NEW n \in 0..MaxBytes, BeginRead(n) \/ BeginPeek(n) PROVE RestIsThere'
  BY <1>4 DEF BeginRead, BeginPeek, RestIsThere
<1>5. CASE call' = Idle
  BY <1>5 DEF RestIsThere, Idle
<1>6. CASE ReadRefused \/ PeekRefused
  BY <1>5, <1>6 DEF ReadRefused, PeekRefused
<1>7. CASE AddBufferToChain \/ Reset \/ Reconstruct \/ StartAsyncRead \/ AsyncReadFailed \/ CreatePeekDatastream
  <2>1. call' = Idle
    BY <1>7 DEF AddBufferToChain, Reset, Reconstruct, StartAsyncRead, AsyncReadFailed,
                CreatePeekDatastream, Ready
  <2> QED
    BY <1>5, <2>1
<1>8. ASSUME NEW n \in 0..MaxBytes, AddSpace(n) \/ Skip(n) \/ PeekSkip(n) PROVE RestIsThere'
  <2>1. call' = Idle
    BY <1>8 DEF AddSpace, Skip, PeekSkip, Ready
  <2> QED
    BY <1>5, <2>1
<1>9. ASSUME NEW d \in Data, Write(d) \/ AsyncReadDone(d) PROVE RestIsThere'
  <2>1. call' = Idle
    BY <1>9 DEF Write, AsyncReadDone, Ready
  <2> QED
    BY <1>5, <2>1
<1> QED
  BY <1>1, <1>2, <1>3, <1>4, <1>6, <1>7, <1>8, <1>9 DEF Next, Exited

\* The check that read() and peek() repeat at every call of their recursion
\* fails at the first or never: no out_of_range_exception leaves a request
\* half copied and half consumed.
THEOREM RefusalIsWhole == SafeSpec => RefusedWhole
<1>1. Init => RestIsThere
  BY DEF Init, RestIsThere, Idle
<1>2. IInv /\ RestIsThere /\ [Next]_vars => RestIsThere'
  BY RestStep
<1>3. IInv /\ RestIsThere /\ [Next]_vars => [ReadRefused \/ PeekRefused => dest = << >>]_vars
  <2> SUFFICES ASSUME IInv, RestIsThere, ReadRefused \/ PeekRefused PROVE dest = << >>
    OBVIOUS
  <2>1. /\ Pos(write_ind) \in Nat /\ Pos(read_ind) \in Nat /\ Pos(index) \in Nat /\ call.left \in Nat
        /\ bytes_to_read = Pos(write_ind) - Pos(read_ind)
        /\ bytes_to_read_from_index(index) = Pos(write_ind) - Pos(index)
    BY Facts DEF CallOK
  <2>2. CASE ReadRefused
    BY <2>1, <2>2 DEF ReadRefused, RestIsThere
  <2>3. CASE PeekRefused
    BY <2>1, <2>3 DEF PeekRefused, RestIsThere
  <2> QED
    BY <2>2, <2>3
<1> QED
  BY <1>1, <1>2, <1>3, Invariance, PTL DEF SafeSpec, RefusedWhole
=============================================================================
