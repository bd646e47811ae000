------------------------------- MODULE CFile -------------------------------
(***************************************************************************)
(* cfile: a C FILE with its buffer of bytes that are written and not yet   *)
(* handed to the kernel, over a file whose contents the kernel in turn     *)
(* writes to its device when asked or when it likes.  A power failure may  *)
(* come at any moment.  A byte written is the number of its write; 0 is    *)
(* what a gap or a hole reads as.                                          *)
(***************************************************************************)
EXTENDS Integers, Sequences, FiniteSets

CONSTANTS BlockSize,   \* _file_blk_size
          MaxSize,     \* bytes of the file, and how far a position goes
          MaxWrites    \* bytes written in all

ASSUME CFileAssumption == {BlockSize, MaxSize, MaxWrites} \subseteq Nat \ {0}

VARIABLES isOpen, file,      \* _open, and the FILE: its mode and position, or null
          pend,              \* its buffer: the bytes at their places, in the order of their writes
          data, device,      \* the file as the kernel and as the device has it
          writes,            \* bytes written so far
          told, careless,    \* what the calls so far say the file holds, until bytes in the buffer went astray
          safe,              \* the bytes that were flushed and synced since they were written
          outcome            \* what came of the last call, if it was a flush or a read
cfileVars == <<isOpen, file, pend, data, device, writes, told, careless, safe, outcome>>

null == [mode |-> "none", pos |-> 0]
Mode == {"ab+", "rb+", "wb+"}

\* A byte at a place, after zeroes where the file ends before it.
PutAt(s, p, b) == [i \in 1..(IF p > Len(s) THEN p ELSE Len(s)) |-> IF i = p THEN b ELSE IF i <= Len(s) THEN s[i] ELSE 0]
\* What a file of this content is once the first n bytes of the buffer have reached it.
Given(content, n) ==
  LET after[k \in 0..n] == IF k = 0 THEN content ELSE PutAt(after[k - 1], pend[k][1], pend[k][2])
  IN  after[n]
Handed(n) == Given(data, n)
Seen == Handed(Len(pend))
Clear(s, places) == [i \in DOMAIN s |-> IF i \in places THEN 0 ELSE s[i]]
Nothing == [call |-> "other", ok |-> TRUE, got |-> << >>]
Quiet == outcome' = Nothing     \* a call whose outcome no property looks at, returned or thrown

CFileInit ==
  /\ isOpen = FALSE /\ file = null /\ pend = << >> /\ data = << >> /\ device = << >> /\ writes = 0
  /\ told = << >> /\ careless = FALSE /\ safe = << >> /\ outcome = Nothing

-----------------------------------------------------------------------------
(* What the C library does *)

\* The buffer is handed over; or an error comes after a part of it, and the
\* rest stays in the buffer.
HandOver(ok) ==
  \/ ok /\ data' = Seen /\ pend' = << >>
  \/ /\ ~ ok /\ pend # << >>
     /\ \E n \in 0..(Len(pend) - 1) : data' = Handed(n) /\ pend' = SubSeq(pend, n + 1, Len(pend))

-----------------------------------------------------------------------------
(* cfile *)

\* fopen, which empties the file in mode "wb+", comes first; then the FILE there
\* was is closed and its buffer goes into the file.
cfile_open(mode) ==
  \/ \E n \in 0..Len(pend) :
       LET emptied == IF mode = "wb+" THEN << >> ELSE data
       IN  /\ data' = Given(emptied, n) /\ pend' = << >>
           /\ file' = [mode |-> mode, pos |-> 0] /\ isOpen' = TRUE
           /\ told' = IF mode = "wb+" THEN << >> ELSE told
           /\ careless' = (careless \/ (mode = "wb+" /\ n > 0) \/ (mode # "wb+" /\ n < Len(pend)))
           /\ safe' = IF mode = "wb+" THEN << >> ELSE safe
           /\ Quiet /\ UNCHANGED <<device, writes>>
  \* It cannot be opened: the FILE there was is closed all the same, and _open stays.
  \/ \E n \in 0..Len(pend) :
       /\ data' = Given(data, n) /\ pend' = << >> /\ file' = null
       /\ careless' = (careless \/ n < Len(pend))
       /\ Quiet /\ UNCHANGED <<isOpen, told, safe, device, writes>>

\* seek, seek_end and skip: fseek hands the buffer over before it moves; a place
\* before the beginning is refused.
MoveTo(loc) ==
  /\ file # null /\ loc <= MaxSize
  /\ \/ loc >= 0 /\ HandOver(TRUE) /\ file' = [file EXCEPT !.pos = loc]
     \/ loc < 0 /\ HandOver(TRUE) /\ file' = file
     \/ HandOver(FALSE) /\ file' = file
  /\ Quiet /\ UNCHANGED <<isOpen, device, writes, told, careless, safe>>
cfile_seek(loc) == MoveTo(loc)
cfile_seek_end(loc) == MoveTo(Len(Seen) + loc)
cfile_skip(loc) == MoveTo(file.pos + loc)

\* fread: the bytes there are, and an exception when they are too few.
cfile_read(n) ==
  /\ file # null
  /\ \/ /\ HandOver(TRUE)
        /\ LET last == IF file.pos + n <= Len(Seen) THEN file.pos + n ELSE Len(Seen)
           IN  /\ file' = [file EXCEPT !.pos = IF last > @ THEN last ELSE @]
               /\ outcome' = IF file.pos + n > Len(Seen) THEN Nothing
                             ELSE [call |-> "read", ok |-> TRUE, got |-> SubSeq(Seen, file.pos + 1, last)]
     \/ HandOver(FALSE) /\ file' = file /\ Quiet
  /\ UNCHANGED <<isOpen, device, writes, told, careless, safe>>
cfile_getc == cfile_read(1)

\* fwrite puts a byte into the buffer, at the end in mode "ab+".  A full buffer
\* is handed over, in part or whole, whenever it is full.
cfile_write ==
  LET at == (IF file.mode = "ab+" THEN Len(Seen) ELSE file.pos) + 1
  IN  /\ file # null /\ writes < MaxWrites /\ at <= MaxSize /\ writes' = writes + 1
      /\ pend' = Append(pend, <<at, writes'>>) /\ file' = [file EXCEPT !.pos = at]
      /\ told' = PutAt(told, at, writes') /\ safe' = [p \in DOMAIN safe \ {at} |-> safe[p]]
      /\ Quiet /\ UNCHANGED <<isOpen, data, device, careless>>
\* A full buffer could not be handed over: the byte is not taken.
cfile_write_throws ==
  /\ file # null /\ HandOver(FALSE) /\ Quiet
  /\ UNCHANGED <<isOpen, file, device, writes, told, careless, safe>>
Spill ==
  /\ pend # << >> /\ data' = Handed(1) /\ pend' = Tail(pend)
  /\ UNCHANGED <<isOpen, file, device, writes, told, careless, safe, outcome>>

cfile_flush ==
  /\ file # null
  /\ \E ok \in BOOLEAN : HandOver(ok) /\ outcome' = [Nothing EXCEPT !.call = "flush", !.ok = ok]
  /\ UNCHANGED <<isOpen, file, device, writes, told, careless, safe>>

\* fsync: what the kernel has, without the buffer, goes to the device.
cfile_sync ==
  /\ file # null
  /\ \/ /\ device' = data /\ Quiet
        /\ safe' = [p \in {i \in DOMAIN data : ~ \E w \in DOMAIN pend : pend[w][1] = i} |-> data[p]]
     \/ device' = device /\ safe' = safe /\ Quiet
  /\ UNCHANGED <<isOpen, file, pend, data, writes, told, careless>>

\* Bytes [begin, end) rounded inwards to blocks; a hole that cannot be punched is
\* only logged.  The hole is made before the buffer is handed over.
\* Mutant: the step up to the next block is forgotten.
Up_NoStep(n) == (n \div BlockSize) * BlockSize
Up(n) == IF n % BlockSize # 0 THEN (n \div BlockSize) * BlockSize + BlockSize ELSE n
Down(n) == (n \div BlockSize) * BlockSize
\* The places, counted from 1, of the blocks that lie whole in the range.
Whole(begin, end) ==
  {i \in 1..MaxSize : LET b == (i - 1) \div BlockSize IN begin <= b * BlockSize /\ (b + 1) * BlockSize <= end}
cfile_punch_hole(begin, end) ==
  /\ file # null
  /\ IF Up(begin) >= Down(end) THEN Quiet /\ UNCHANGED <<data, pend, told, careless, safe>>
     ELSE \E ok, punched \in BOOLEAN :
            LET hole == IF punched THEN (Up(begin) + 1)..Down(end) ELSE {}
                wanted == IF punched THEN Whole(begin, end) ELSE {}
                full == Clear(data, hole)
            IN  /\ \/ ok /\ data' = Given(full, Len(pend)) /\ pend' = << >>
                   \/ /\ ~ ok /\ pend # << >>
                      /\ \E n \in 0..(Len(pend) - 1) : data' = Given(full, n) /\ pend' = SubSeq(pend, n + 1, Len(pend))
                /\ told' = Clear(told, wanted)
                /\ careless' = (careless \/ \E w \in DOMAIN pend : pend[w][1] \in wanted)
                /\ safe' = [p \in DOMAIN safe \ wanted |-> safe[p]]
                /\ Quiet
  /\ UNCHANGED <<isOpen, file, device, writes>>

\* unique_ptr::reset drops what fclose returns.
cfile_close ==
  /\ \E n \in 0..Len(pend) : data' = Given(data, n) /\ careless' = (careless \/ n < Len(pend))
  /\ pend' = << >> /\ file' = null /\ isOpen' = FALSE /\ Quiet
  /\ UNCHANGED <<device, writes, told, safe>>

\* cfile_datastream and datastream<cfile>: reading is read, skipping reads too,
\* and seekp is seek.
ds_skip(n) == cfile_read(n)
ds_get == cfile_getc
ds_seekp(pos) == cfile_seek(pos)

-----------------------------------------------------------------------------
(* The device *)

\* Each block is as it was synced last or as the kernel has it, at one of the two lengths.
Remains ==
  {[i \in 1..n |-> LET from == IF (i - 1) \div BlockSize \in late THEN data ELSE device
                   IN IF i <= Len(from) THEN from[i] ELSE 0] :
     n \in {Len(device), Len(data)}, late \in SUBSET (0..((MaxSize - 1) \div BlockSize))}
PowerFailure ==
  /\ data' \in Remains /\ device' = data' /\ told' = data' /\ careless' = FALSE
  /\ pend' = << >> /\ file' = null /\ isOpen' = FALSE /\ Quiet
  /\ UNCHANGED <<writes, safe>>

CFileNext ==
  \/ \E mode \in Mode : cfile_open(mode)
  \/ \E loc \in {-1, 0, BlockSize} : ds_seekp(loc) \/ cfile_seek_end(loc) \/ cfile_skip(loc)
  \/ ds_skip(2) \/ ds_get \/ cfile_write \/ cfile_write_throws \/ Spill \/ cfile_flush
  \/ cfile_sync \/ cfile_close \/ PowerFailure
  \/ \E begin \in 0..1, end \in (MaxSize - 1)..MaxSize : cfile_punch_hole(begin, end)
CFileSpec == CFileInit /\ [][CFileNext]_cfileVars

-----------------------------------------------------------------------------
\* The file holds what the calls say, whatever modes, places, holes and errors
\* came before, and after a flush() that returned the kernel has it all; unless
\* bytes still in the buffer were lost by a close, or came into a file that open
\* had emptied or into a hole.
ContentsAsTold == ~ careless => Seen = told /\ (outcome.call = "flush" /\ outcome.ok => data = told)

\* What was flushed and synced, and not written over, emptied or punched since,
\* survives every power failure.
SyncedSurvives == \A p \in DOMAIN safe : p \in DOMAIN data /\ data[p] = safe[p]

\* A read that returns has got as many bytes as it was asked for, the last ones
\* before its position.
ReadsAreTold ==
  outcome.call = "read" /\ ~ careless =>
    outcome.got = SubSeq(told, file.pos - Len(outcome.got) + 1, file.pos)

\* Bytes, holes and synced bytes are where the calls put them, and is_open() is
\* true of every file that is open.
CFileSound == ContentsAsTold /\ SyncedSurvives /\ ReadsAreTold /\ (file # null => isOpen)
=============================================================================
