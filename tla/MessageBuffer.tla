---------------------------- MODULE MessageBuffer ----------------------------
(***************************************************************************)
(* fc::message_buffer<buffer_len>: a queue of bytes kept in a chain of     *)
(* fixed-size buffers taken from a boost::singleton_pool, with the regions *)
(* it hands to boost::asio::async_read and the datastreams that unpack     *)
(* from it.                                                                *)
(*                                                                         *)
(* Every member function runs to completion on its caller's thread.  The   *)
(* two recursive ones, read() and peek(), are given one step per call of   *)
(* the recursion: "call" says which is running and how much it still has   *)
(* to copy, and nothing else starts before it ends.  The bytes delivered   *)
(* by the network land in the pending regions at any later time, whatever  *)
(* the client did to the buffer meanwhile.                                 *)
(***************************************************************************)
EXTENDS Integers, Sequences, FiniteSets, TLC

CONSTANTS
  BufferLen,   \* template parameter buffer_len
  Byte,        \* values of a byte
  NoByte,      \* content of memory nobody has written since it was allocated
  Addr,        \* chunks the pool can hand out
  MaxChain,    \* bound on the length of the chain
  MaxBytes,    \* bound on the bytes of one request of the client
  SaneLimit,   \* 1000000 in reset()
  U32          \* 2^32, the modulus of uint32_t

ASSUME BufferLenAssumption == BufferLen \in Nat \ {0}
ASSUME ByteAssumption == NoByte \notin Byte
ASSUME BoundAssumption == /\ MaxChain \in Nat \ {0}
                          /\ MaxBytes \in Nat
                          /\ SaneLimit \in Nat
                          /\ U32 \in Nat \ {0}
\* The chain, and one buffer more, is counted by a uint32_t.
ASSUME ChainFitsAssumption == (MaxChain + 1) * BufferLen <= U32

Offset == 0..(BufferLen - 1)
Cell == Byte \cup {NoByte}
Index == [first : Nat, second : Offset]
Origin == [first |-> 0, second |-> 0]

VARIABLES
  buffers,       \* std::deque of pointers to buffers
  read_ind,      \* next byte to be read
  write_ind,     \* next byte to be written
  sanity_check,  \* the second count of the buffers
  pool,          \* chunks malloc() has handed out and free() has not got back
  mem,           \* contents of every chunk
  pending,       \* cells handed to async_read, in the order it fills them
  index,         \* index of the live mb_peek_datastream
  call,          \* the recursive call in progress
  dest,          \* bytes copied to the destination of the call
  exited         \* reset() found the chain insane and called exit(1)

chainVars == <<buffers, read_ind, write_ind, sanity_check, pool, mem, exited>>
vars == <<buffers, read_ind, write_ind, sanity_check, pool, mem, pending,
          index, call, dest, exited>>

Idle == [kind |-> "idle", left |-> 0]
Ready == call = Idle /\ ~exited

-----------------------------------------------------------------------------
(* The arithmetic of indices: all of it is done in uint32_t. *)

advance_index(ind, bytes) ==
  LET sum == (bytes + ind.second) % U32
  IN  [first  |-> (ind.first + (sum \div BufferLen)) % U32,
       second |-> sum % BufferLen]

bytes_to_read_from_index(ind) ==
  ((write_ind.first - ind.first) * BufferLen + write_ind.second - ind.second) % U32

bytes_to_read == bytes_to_read_from_index(read_ind)

total_bytes == (BufferLen * Len(buffers)) % U32

bytes_to_write ==
  (total_bytes - write_ind.first * BufferLen - write_ind.second) % U32

\* get_ptr: the memory cell k bytes after an index, chunk by chunk.
CellAt(ind, k) ==
  <<buffers[ind.first + ((ind.second + k) \div BufferLen) + 1],
    (ind.second + k) % BufferLen>>

\* Mutant: the copy starts at the start of the buffer.
Chunk_FromStart(ind, n) ==
  [i \in 1..n |-> mem[buffers[ind.first + 1]][i - 1]]

\* memcpy out of one buffer, from an index.
Chunk(ind, n) ==
  [i \in 1..n |-> mem[buffers[ind.first + 1]][ind.second + i - 1]]

\* memcpy into a list of cells.
Store(cells, data) ==
  [a \in Addr |-> [o \in Offset |->
     IF \E i \in 1..Len(data) : cells[i] = <<a, o>>
       THEN data[CHOOSE i \in 1..Len(data) : cells[i] = <<a, o>>]
       ELSE mem[a][o]]]

-----------------------------------------------------------------------------
(* The pool.  malloc() returns any chunk that is not handed out; what a    *)
(* chunk contains after free() is whatever the pool leaves in it.          *)

\* k distinct chunks the pool may return to k calls of malloc().
malloc(k) ==
  {s \in [1..k -> Addr \ pool] :
     \A i, j \in 1..k : i # j => s[i] # s[j]}

Blank == [o \in Offset |-> NoByte]

\* free(): the chunks of a set go back to the pool.
free(s, m) ==
  /\ pool' = pool \ s
  /\ mem' = [a \in Addr |-> IF a \in s THEN Blank ELSE m[a]]

\* push_back(malloc()), k times, on memory m.
Grow(k, m) ==
  \E s \in malloc(k) :
    /\ Len(buffers) + k <= MaxChain
    /\ buffers' = buffers \o s
    /\ sanity_check' = sanity_check + k
    /\ pool' = pool \cup {s[i] : i \in 1..k}
    /\ mem' = m

-----------------------------------------------------------------------------
Init ==
  \E a \in Addr :
    /\ buffers = <<a>>
    /\ pool = {a}
    /\ mem = [b \in Addr |-> Blank]
    /\ read_ind = Origin
    /\ write_ind = Origin
    /\ sanity_check = 1
    /\ pending = << >>
    /\ index = Origin
    /\ call = Idle
    /\ dest = << >>
    /\ exited = FALSE

\* reset(), also the tail of advance_read_ptr when the buffer is drained.
\* A chain longer than the limit, or a count that disagrees, ends the process,
\* with the read pointer where its caller had moved it.
reset(ind) ==
  IF Len(buffers) # sanity_check \/ Len(buffers) > SaneLimit
    THEN /\ exited' = TRUE
         /\ read_ind' = ind
         /\ UNCHANGED <<buffers, write_ind, sanity_check, pool, mem>>
    ELSE /\ buffers' = SubSeq(buffers, 1, 1)
         /\ sanity_check' = sanity_check - (Len(buffers) - 1)
         /\ free({buffers[i] : i \in 2..Len(buffers)}, mem)
         /\ read_ind' = Origin
         /\ write_ind' = Origin
         /\ UNCHANGED exited

\* advance_read_ptr(bytes): a drained buffer is reset, otherwise the buffers
\* in front of the read pointer are given back and both indices shifted.
advance_read_ptr(bytes) ==
  LET ind == advance_index(read_ind, bytes)
  IN  IF ind = write_ind
        THEN reset(ind)
        ELSE /\ buffers' = SubSeq(buffers, ind.first + 1, Len(buffers))
             /\ free({buffers[i] : i \in 1..ind.first}, mem)
             /\ sanity_check' = sanity_check - ind.first
             /\ read_ind' = [ind EXCEPT !.first = 0]
             /\ write_ind' = [write_ind EXCEPT !.first = (@ - ind.first) % U32]
             /\ UNCHANGED exited

\* Mutant: > for >=, so the write pointer may rest just behind the chain.
advance_write_ptr_Late(bytes, m) ==
  LET ind == advance_index(write_ind, bytes)
      k   == IF ind.first > Len(buffers) THEN ind.first - Len(buffers) ELSE 0
  IN  /\ write_ind' = ind
      /\ Grow(k, m)
      /\ UNCHANGED <<read_ind, exited>>

\* advance_write_ptr(bytes) after memory m was written: the chain grows
\* until the write pointer is inside it.
advance_write_ptr(bytes, m) ==
  LET ind == advance_index(write_ind, bytes)
      k   == IF ind.first >= Len(buffers) THEN ind.first + 1 - Len(buffers) ELSE 0
  IN  /\ write_ind' = ind
      /\ Grow(k, m)
      /\ UNCHANGED <<read_ind, exited>>

-----------------------------------------------------------------------------
(* Operations of the client. *)

\* add_buffer_to_chain()
AddBufferToChain ==
  /\ Ready
  /\ Grow(1, mem)
  /\ UNCHANGED <<read_ind, write_ind, pending, index, call, dest, exited>>

\* add_space(bytes)
AddSpace(bytes) ==
  /\ Ready
  /\ Grow((bytes \div BufferLen) + 1, mem)
  /\ UNCHANGED <<read_ind, write_ind, pending, index, call, dest, exited>>

\* reset() called by the client.  It frees what async_read would fill, so a
\* client does it only with no read outstanding.
Reset ==
  /\ Ready
  /\ pending = << >>
  /\ reset(read_ind)
  /\ index' = read_ind'
  /\ UNCHANGED <<pending, call, dest>>

\* ~message_buffer(), then the constructor of the client's next buffer.
Reconstruct ==
  /\ Ready
  /\ pending = << >>
  /\ \E a \in Addr \ (pool \ {buffers[i] : i \in 1..Len(buffers)}) :
       /\ buffers' = <<a>>
       /\ pool' = (pool \ {buffers[i] : i \in 1..Len(buffers)}) \cup {a}
       /\ mem' = [b \in Addr |->
                    IF \E i \in 1..Len(buffers) : buffers[i] = b THEN Blank ELSE mem[b]]
  /\ read_ind' = Origin
  /\ write_ind' = Origin
  /\ sanity_check' = 1
  /\ index' = Origin
  /\ UNCHANGED <<pending, call, dest, exited>>

\* The client may consume bytes while an async_read is outstanding, but must
\* not drain the buffer: that would reset the write pointer under it.
MayConsume(bytes) ==
  bytes <= bytes_to_read /\ (pending # << >> => bytes < bytes_to_read)

\* mb_datastream::skip and direct calls of advance_read_ptr.  The code does
\* not check the length: the client passes at most bytes_to_read().
Skip(bytes) ==
  /\ Ready
  /\ MayConsume(bytes)
  /\ advance_read_ptr(bytes)
  /\ index' = read_ind'
  /\ UNCHANGED <<pending, call, dest>>

\* The client copies bytes to write_ptr(), within the buffer it points
\* into, and advances the write pointer.
Write(data) ==
  /\ Ready
  /\ pending = << >>
  /\ Len(data) <= BufferLen - write_ind.second
  /\ advance_write_ptr(Len(data),
       Store([i \in 1..Len(data) |-> CellAt(write_ind, i - 1)], data))
  /\ UNCHANGED <<pending, index, call, dest>>

\* get_buffer_sequence_for_boost_async_read(), passed to async_read: the rest
\* of the buffer at the write pointer, then every buffer after it.
StartAsyncRead ==
  /\ Ready
  /\ pending = << >>
  /\ write_ind.first < Len(buffers)
  /\ pending' =
       [i \in 1..((BufferLen - write_ind.second)
                   + (Len(buffers) - write_ind.first - 1) * BufferLen) |->
          CellAt(write_ind, i - 1)]
  /\ UNCHANGED <<chainVars, index, call, dest>>

\* The read completes: its bytes are in the pending regions and the handler
\* advances the write pointer by their number.
AsyncReadDone(data) ==
  /\ Ready
  /\ pending # << >>
  /\ Len(data) <= Len(pending)
  /\ pending' = << >>
  /\ advance_write_ptr(Len(data), Store(pending, data))
  /\ UNCHANGED <<index, call, dest>>

\* The read fails (or is cancelled): nothing was received.
AsyncReadFailed ==
  /\ Ready
  /\ pending # << >>
  /\ pending' = << >>
  /\ UNCHANGED <<chainVars, index, call, dest>>

\* read(s, size) is entered, by the client or from mb_datastream::read or get.
\* Consuming bytes invalidates the peek stream: the client takes a new one.
BeginRead(size) ==
  /\ Ready
  /\ pending # << >> => size # bytes_to_read
  /\ call' = [kind |-> "read", left |-> size]
  /\ dest' = << >>
  /\ index' = read_ind
  /\ UNCHANGED <<chainVars, pending>>

\* Mutant: one byte too few is taken to be left in this buffer.
CallSize_OneShort(ind) ==
  IF ind.second + call.left <= BufferLen
    THEN call.left
    ELSE BufferLen - ind.second - 1

\* One call of the recursion copies the rest of the request if that ends in
\* this buffer, otherwise the rest of this buffer.
CallSize(ind) ==
  IF (ind.second + call.left) % U32 <= BufferLen
    THEN call.left
    ELSE BufferLen - ind.second

\* Mutant: the recursive call asks for the whole size again.
Recur_SameSize(n) ==
  call' = IF n = call.left THEN Idle ELSE call

\* The recursion ends with the call that copies the rest.
Recur(n) ==
  call' = IF n = call.left THEN Idle ELSE [call EXCEPT !.left = @ - n]

\* A call of the recursion, the first one too, refuses by out_of_range_exception
\* what is longer than the bytes left.
ReadRefused ==
  /\ call.kind = "read"
  /\ ~exited
  /\ bytes_to_read < call.left
  /\ call' = Idle
  /\ UNCHANGED <<chainVars, pending, index, dest>>

ReadStep ==
  /\ call.kind = "read"
  /\ ~exited
  /\ bytes_to_read >= call.left
  /\ LET n == CallSize(read_ind)
     IN  /\ dest' = dest \o Chunk(read_ind, n)
         /\ advance_read_ptr(n)
         /\ Recur(n)
  /\ index' = read_ind'
  /\ UNCHANGED pending

\* create_peek_datastream(): the stream starts at the read pointer.
CreatePeekDatastream ==
  /\ Ready
  /\ index' = read_ind
  /\ dest' = << >>
  /\ UNCHANGED <<chainVars, pending, call>>

\* peek(s, size, index) is entered, from mb_peek_datastream::read or get.
BeginPeek(size) ==
  /\ Ready
  /\ dest' = << >>
  /\ call' = [kind |-> "peek", left |-> size]
  /\ UNCHANGED <<chainVars, pending, index>>

PeekRefused ==
  /\ call.kind = "peek"
  /\ bytes_to_read_from_index(index) < call.left
  /\ call' = Idle
  /\ UNCHANGED <<chainVars, pending, index, dest>>

PeekStep ==
  /\ call.kind = "peek"
  /\ bytes_to_read_from_index(index) >= call.left
  /\ LET n == CallSize(index)
     IN  /\ dest' = dest \o Chunk(index, n)
         /\ index' = advance_index(index, n)
         /\ Recur(n)
  /\ UNCHANGED <<chainVars, pending>>

\* mb_peek_datastream::skip, unchecked like the other one.
PeekSkip(bytes) ==
  /\ Ready
  /\ bytes <= bytes_to_read_from_index(index)
  /\ index' = advance_index(index, bytes)
  /\ UNCHANGED <<chainVars, pending, call, dest>>

\* After exit(1) the process is gone.
Exited == exited /\ UNCHANGED vars

Data == UNION {[1..n -> Byte] : n \in 0..MaxBytes}

Next ==
  \/ AddBufferToChain
  \/ \E n \in 0..MaxBytes : AddSpace(n) \/ Skip(n) \/ PeekSkip(n)
  \/ \E n \in 0..MaxBytes : BeginRead(n) \/ BeginPeek(n)
  \/ Reset
  \/ Reconstruct
  \/ \E d \in Data : Write(d) \/ AsyncReadDone(d)
  \/ StartAsyncRead
  \/ AsyncReadFailed
  \/ CreatePeekDatastream
  \/ ReadStep
  \/ ReadRefused
  \/ PeekStep
  \/ PeekRefused
  \/ Exited

\* The recursion of read() and peek() runs on one thread without blocking.
Fairness == WF_vars(ReadStep \/ ReadRefused) /\ WF_vars(PeekStep \/ PeekRefused)

SafeSpec == Init /\ [][Next]_vars
Spec == SafeSpec /\ Fairness

-----------------------------------------------------------------------------
(* Properties. *)

TypeOK ==
  /\ buffers \in Seq(Addr)
  /\ read_ind \in Index
  /\ write_ind \in Index
  /\ sanity_check \in Nat
  /\ pool \in SUBSET Addr
  /\ mem \in [Addr -> [Offset -> Cell]]
  /\ pending \in Seq(Addr \X Offset)
  /\ index \in Index
  /\ call \in [kind : {"idle", "read", "peek"}, left : Nat]
  /\ dest \in Seq(Cell)
  /\ exited \in BOOLEAN

\* Position of an index in the chain, counted in bytes from its start.
Pos(ind) == ind.first * BufferLen + ind.second

\* The read pointer is in the first buffer, the write pointer inside the
\* chain and not behind it, and the pointers meet only at the origin: every
\* pointer the class computes (read_ptr, write_ptr, get_ptr) is into a live
\* buffer, whatever sequence of reads, skips, peeks and growth led here.
IndicesInChain ==
  /\ write_ind.first < Len(buffers)
  /\ Pos(read_ind) <= Pos(index) /\ Pos(index) <= Pos(write_ind)
  /\ ~exited => /\ read_ind.first = 0
                /\ read_ind = write_ind => read_ind = Origin

\* The chain owns each chunk once, the pool has handed out nothing else, and
\* the second count agrees: nothing is leaked, freed twice or shared, and the
\* exit(1) of reset() can only be the chain's true length, never a miscount.
ChainOwnsPool ==
  /\ pool = {buffers[i] : i \in 1..Len(buffers)}
  /\ \A i, j \in 1..Len(buffers) : buffers[i] = buffers[j] => i = j
  /\ sanity_check = Len(buffers)
  /\ exited => Len(buffers) > SaneLimit

\* The regions an outstanding async_read will fill are exactly the first free
\* cells after the current write pointer, even after the chain has grown at
\* its end and lost buffers at its front since they were handed out.
PendingIsFreeSpace ==
  /\ Pos(write_ind) + Len(pending) <= BufferLen * Len(buffers)
  /\ \A i \in 1..Len(pending) : pending[i] = CellAt(write_ind, i - 1)

\* bytes_to_read() and bytes_to_write(), computed modulo 2^32 from unsigned
\* differences, are the true numbers of unread bytes and of free cells.
CountsExact ==
  /\ bytes_to_read = Pos(write_ind) - Pos(read_ind)
  /\ bytes_to_write = BufferLen * Len(buffers) - Pos(write_ind)

\* The unread bytes, in order.
Unread ==
  [i \in 1..(Pos(write_ind) - Pos(read_ind)) |->
     LET c == CellAt(read_ind, i - 1) IN mem[c[1]][c[2]]]

\* The chain of buffers implements a plain byte queue: every read and peek,
\* however it is cut at buffer boundaries, delivers the bytes that arrived,
\* in order, none lost, repeated or invented.
BQ == INSTANCE ByteQueue WITH
        queue  <- Unread,
        cursor <- Pos(index) - Pos(read_ind),
        got    <- dest

ImplementsByteQueue == BQ!Spec

\* A read or peek is refused whole: the check its recursion repeats never
\* throws after some of the bytes were copied and consumed.
RefusedWhole == [][ReadRefused \/ PeekRefused => dest = << >>]_vars

\* Every read and peek returns or throws, unless draining the chain ended the
\* process: each call of the recursion leaves less to copy than the one before.
CallEnds == (call # Idle) ~> (call = Idle \/ exited)

\* The object is sound in every reachable state: pointers in the chain, chunks
\* owned once, an outstanding read into free space, counts that are true.
BufferSound ==
  TypeOK /\ IndicesInChain /\ ChainOwnsPool /\ PendingIsFreeSpace /\ CountsExact

\* Chunks and byte values are only compared for equality.
Symmetry == Permutations(Addr) \cup Permutations(Byte)
=============================================================================
