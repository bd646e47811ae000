------------------------------ MODULE Streams ------------------------------
(***************************************************************************)
(* The byte streams of fc: the three datastreams (over a region of memory, *)
(* counting only, over a vector) driven by the same sequence of calls,     *)
(* and buffered_istream and buffered_ostream over a stream that gives and  *)
(* takes what it likes, may fail, and lets other fibers run meanwhile.     *)
(***************************************************************************)
EXTENDS Integers, SequencesExt

CONSTANTS Capacity,    \* bytes of the region
          MaxChunk,    \* bytes of one call
          MaxPos,      \* a bound on the position of the counting stream
          MinRead,     \* minimum_read_size (1024)
          WriteBuffer, \* write_buffer_size (2048)
          MaxBytes     \* bytes the source gives and the writers write

ASSUME StreamsAssumption == {Capacity, MaxChunk, MaxPos, MinRead, WriteBuffer, MaxBytes} \subseteq Nat \ {0}

VARIABLES region, pos,   \* datastream<char*>: the bytes and _pos
          count,         \* datastream<size_t>: _size
          contents, cur,      \* datastream<vector<char>>: _container and cur
          threw,         \* the region's stream has thrown a range error
          next, rdbuf, delivered, peeked,     \* buffered_istream: next byte of its source, buffer, what it gave
          accepted, wrbuf, flushing, sink, lost, closed   \* buffered_ostream
dataVars == <<region, pos, count, contents, cur, threw>>
inVars == <<next, rdbuf, delivered, peeked>>
outVars == <<accepted, wrbuf, flushing, sink, lost, closed>>
streamVars == <<dataVars, inVars, outVars>>

StreamsInit ==
  /\ region = [i \in 1..Capacity |-> 0] /\ pos = 0 /\ count = 0 /\ contents = << >> /\ cur = 0 /\ threw = FALSE
  /\ next = 1 /\ rdbuf = << >> /\ delivered = << >> /\ peeked = 0
  /\ accepted = 0 /\ wrbuf = << >> /\ flushing = << >> /\ sink = << >> /\ lost = {} /\ closed = "no"

Bytes(from, n) == [i \in 1..n |-> from + i - 1]
Lesser(a, b) == IF a < b THEN a ELSE b

-----------------------------------------------------------------------------
(* The three datastreams: one call is made on each of them *)

\* size_t(_end - _pos): past the end the difference wraps and any n fits.
RegionHas(n) == pos > Capacity \/ Capacity - pos >= n
\* Throws without moving when the rest of the region is too short.
region_write(n, b) ==
  IF RegionHas(n)
  THEN /\ region' = [i \in 1..Capacity |-> IF i \in (pos + 1)..(pos + n) THEN b ELSE region[i]]
       /\ pos' = pos + n /\ threw' = FALSE
  ELSE threw' = TRUE /\ UNCHANGED <<region, pos>>
size_write(n) == count' = count + n
vector_write(n, b) ==
  /\ contents' = [i \in 1..(IF cur + n > Len(contents) THEN cur + n ELSE Len(contents)) |->
              IF i \in (cur + 1)..(cur + n) THEN b ELSE IF i <= Len(contents) THEN contents[i] ELSE 0]
  /\ cur' = cur + n

write(n, b) == region_write(n, b) /\ size_write(n) /\ vector_write(n, b)
\* skip checks nothing; valid() is for the caller to ask, who by contract does
\* not go on past the end, where the region's own check no longer holds.
skip(n) == pos' = pos + n /\ size_write(n) /\ cur' = cur + n /\ UNCHANGED <<region, contents, threw>>
seekp(p) == pos' = p /\ count' = p /\ cur' = p /\ UNCHANGED <<region, contents, threw>>
valid == pos <= Capacity

DataNext ==
  /\ ~threw /\ valid /\ UNCHANGED <<inVars, outVars>>
  /\ \/ \E n \in 0..MaxChunk, b \in {1, 2} : count + n <= MaxPos /\ write(n, b)
     \/ \E n \in 0..MaxChunk : count + n <= MaxPos /\ skip(n)
     \/ \E p \in 0..Capacity : seekp(p)

-----------------------------------------------------------------------------
(* buffered_istream *)

\* What is in the buffer, else from the source: straight into a large buffer of
\* the caller, else a minimum's worth of which the rest is kept.
\* Mutant: what the caller does not take is dropped.
Keep_Nothing(got, len) == rdbuf' = << >>
Keep(got, len) == rdbuf' = SubSeq(got, len + 1, Len(got))
readsome(len) ==
  /\ \/ /\ rdbuf # << >> /\ len > 0
        /\ LET n == Lesser(len, Len(rdbuf)) IN
             delivered' = delivered \o SubSeq(rdbuf, 1, n) /\ rdbuf' = SubSeq(rdbuf, n + 1, Len(rdbuf))
        /\ next' = next
     \/ /\ rdbuf = << >> /\ next <= MaxBytes
        /\ \E n \in 1..(IF len > MinRead THEN len ELSE MinRead) :
             /\ next + n <= MaxBytes + 1 /\ next' = next + n
             /\ LET got == Bytes(next, n) IN
                  delivered' = delivered \o SubSeq(got, 1, Lesser(n, len)) /\ Keep(got, len)
  /\ peeked' = 0 /\ UNCHANGED <<dataVars, outVars>>
peek ==
  /\ \/ rdbuf # << >> /\ UNCHANGED <<next, rdbuf>>
     \/ /\ rdbuf = << >> /\ next <= MaxBytes
        /\ \E n \in 1..MinRead : next + n <= MaxBytes + 1 /\ next' = next + n /\ rdbuf' = Bytes(next, n)
  /\ peeked' = Head(rdbuf') /\ UNCHANGED <<delivered, dataVars, outVars>>

-----------------------------------------------------------------------------
(* buffered_ostream *)

writesome(n) ==
  /\ closed = "no" /\ accepted + n <= MaxBytes
  /\ wrbuf' = wrbuf \o Bytes(accepted + 1, n) /\ accepted' = accepted + n
  /\ UNCHANGED <<flushing, sink, lost, closed, dataVars, inVars>>
\* The write buffer takes bytes out of the stream's buffer.
TakeChunk ==
  LET n == Lesser(WriteBuffer, Len(wrbuf)) IN
    flushing' = SubSeq(wrbuf, 1, n) /\ wrbuf' = SubSeq(wrbuf, n + 1, Len(wrbuf))
flush ==
  /\ wrbuf # << >> /\ flushing = << >> /\ closed # "yes" /\ TakeChunk
  /\ UNCHANGED <<accepted, sink, lost, closed, dataVars, inVars>>
\* The stream below takes the write buffer, or throws and the bytes are gone.
FlushWrites ==
  /\ flushing # << >> /\ flushing' = << >>
  /\ \/ sink' = sink \o flushing /\ UNCHANGED <<lost, closed>>
     \/ sink' = sink /\ lost' = lost \cup ToSet(flushing) /\ closed' = "no"
  /\ UNCHANGED <<accepted, wrbuf, dataVars, inVars>>
\* close: flush, and close the stream below when that did not throw.
close ==
  /\ \/ closed = "no" /\ closed' = "flush"
     \/ closed = "flush" /\ wrbuf = << >> /\ flushing = << >> /\ closed' = "yes"
  /\ UNCHANGED <<accepted, wrbuf, flushing, sink, lost, dataVars, inVars>>

ReadNext == peek \/ \E len \in 0..(MinRead + 1) : readsome(len)
WriteNext == flush \/ FlushWrites \/ close \/ \E n \in 1..MaxChunk : writesome(n)

\* The streams share nothing.
StreamsSpec == StreamsInit /\ [][DataNext \/ ReadNext \/ WriteNext]_streamVars

-----------------------------------------------------------------------------
\* The two passes of a serialisation agree: the counting stream and the one that
\* writes stand at the same place, and the region is too short for a write
\* exactly when the count says so.
SizePredicts == IF threw THEN count > Capacity ELSE pos = count /\ cur = count

\* What was written to the region is what was written to the vector, whatever
\* was skipped within the region and wherever the writer sought back to.
SameBytes == ~threw => \A i \in 1..Lesser(Len(contents), Capacity) : region[i] = contents[i]

\* The reader gets the bytes of the source in order, each once, whatever sizes
\* it asks for, however the source cuts them and wherever it peeks.
ReadInOrder == delivered \o rdbuf = Bytes(1, next - 1) /\ (peeked # 0 => peeked = Len(delivered) + 1)

\* The sink has the bytes in the order they were written, each once; only those
\* of a write that failed are missing, and after close nothing is left behind.
WrittenInOrder ==
  /\ LET all == sink \o flushing \o wrbuf
     IN  /\ \A i, j \in DOMAIN all : i < j => all[i] < all[j]
         /\ ToSet(all) = 1..accepted \ lost
  /\ closed = "yes" => Len(sink) + Cardinality(lost) = accepted

\* Through every buffer, region and counting stream the bytes keep their order.
StreamsInOrder == SizePredicts /\ SameBytes /\ ReadInOrder /\ WrittenInOrder
=============================================================================
