--------------------------- MODULE TrackedStorage ---------------------------
(***************************************************************************)
(* fc::tracked_storage, a multi_index container that keeps the sum of the  *)
(* sizes of its objects, and its persistence: a save through fc::cfile     *)
(* with the header of persistence_util, and a load that stops at a memory  *)
(* limit.                                                                  *)
(*                                                                         *)
(* An object has a key for the primary index and another for a secondary   *)
(* unique index.  The file is the sequence of the words written to it: a   *)
(* word cut in the middle cannot be unpacked and reads like a missing one. *)
(* "buf" is what fwrite took and has not handed to the kernel.             *)
(***************************************************************************)
EXTENDS Integers, Sequences, SequencesExt, FiniteSetsExt

CONSTANTS
  Key, Uniq,      \* values of the two unique keys
  Size,           \* memory sizes of objects
  MaxMemory,      \* the limits a load is given
  Flushes,        \* whether the client calls flush() before close()
  NoObj, NoFile

ASSUME StorageAssumption ==
  /\ Size \subseteq Nat \ {0}
  /\ MaxMemory \subseteq Nat
  /\ Flushes \in BOOLEAN

VARIABLES
  _index, _memory_size,
  disk,          \* the words of the file that reached the kernel, or NoFile
  buf,
  todo,          \* words the save in progress has still to write
  step,          \* "idle", "saving", "flushed" or "loading"
  pos, left,     \* of a load: words consumed, objects still expected
  max_memory,    \* of a load
  base,          \* of a load: the container when it began
  saved,         \* what the last save begun was to save; nothing if foreign
  result         \* how the last save or load ended

\* The locals of read() end with it.
NoLoad == pos' = 0 /\ left' = 0 /\ max_memory' = 0 /\ base' = {}

storeVars == <<_index, _memory_size>>
fileVars == <<disk, buf, todo, saved>>
loadVars == <<pos, left, max_memory, base>>
vars == <<storeVars, fileVars, loadVars, step, result>>

Obj == [key : Key, uniq : Uniq, size : Size]

magic_number == 7          \* this program's, and the versions it reads
current_version == 2
min_supported_version == 1
max_supported_version == 2

Words == [tag : {"magic", "version", "count", "item"}, n : Nat, o : Obj \cup {NoObj}]
Word(t, n, o) == [tag |-> t, n |-> n, o |-> o]
Header(m, v) == <<Word("magic", m, NoObj), Word("version", v, NoObj)>>
Content(s) == <<Word("count", Len(s), NoObj)>> \o [i \in DOMAIN s |-> Word("item", 0, s[i])]
FileOf(order) == Header(magic_number, current_version) \o Content(order)

Init ==
  /\ _index = {} /\ _memory_size = 0
  /\ disk = NoFile /\ buf = << >> /\ todo = << >> /\ saved = {}
  /\ pos = 0 /\ left = 0 /\ max_memory = 0 /\ base = {}
  /\ step = "idle" /\ result = "none"

-----------------------------------------------------------------------------
(* The container. *)

\* multi_index refuses an object that collides in any unique index.
Clash(S, o) == \E x \in S : x.key = o.key \/ x.uniq = o.uniq

\* The memory a set of objects takes.
SizeOf(S) == MapThenSumSet(LAMBDA x : x.size, S)

\* insert: the size counts only if the object went in.
insert(o) ==
  IF Clash(_index, o)
    THEN UNCHANGED storeVars
    ELSE /\ _index' = _index \cup {o}
         /\ _memory_size' = _memory_size + o.size

Insert(o) ==
  /\ step = "idle"
  /\ insert(o)
  /\ UNCHANGED <<fileVars, loadVars, step, result>>

\* Mutant: the old size is only taken off when the modification succeeds.
Modify_SubtractLate(x, o) ==
  /\ step = "idle" /\ x \in _index
  /\ IF Clash(_index \ {x}, o)
       THEN _index' = _index \ {x} /\ UNCHANGED _memory_size
       ELSE /\ _index' = (_index \ {x}) \cup {o}
            /\ _memory_size' = _memory_size - x.size + o.size
  /\ UNCHANGED <<fileVars, loadVars, step, result>>

\* modify: multi_index erases an object whose new keys collide and returns
\* false; its size is off the count by then and stays off.
Modify(x, o) ==
  /\ step = "idle" /\ x \in _index
  /\ IF Clash(_index \ {x}, o)
       THEN _index' = _index \ {x} /\ _memory_size' = _memory_size - x.size
       ELSE /\ _index' = (_index \ {x}) \cup {o}
            /\ _memory_size' = _memory_size - x.size + o.size
  /\ UNCHANGED <<fileVars, loadVars, step, result>>

\* The same when the function given to modify throws: the object is erased.
ModifyThrows(x) ==
  /\ step = "idle" /\ x \in _index
  /\ _index' = _index \ {x}
  /\ _memory_size' = _memory_size - x.size
  /\ UNCHANGED <<fileVars, loadVars, step, result>>

\* Both forms of erase: by key, which may be absent, and by iterator.
EraseKey(k) ==
  /\ step = "idle"
  /\ LET found == {x \in _index : x.key = k}
     IN  /\ _index' = _index \ found
         /\ _memory_size' = _memory_size - SizeOf(found)
  /\ UNCHANGED <<fileVars, loadVars, step, result>>

-----------------------------------------------------------------------------
(* Saving: open_cfile_for_write, write_persistence_header, write, close. *)

\* The file is truncated as it is opened: the save before is gone from here on.
\* "order" is the order the primary index is iterated in.  A file that cannot
\* be opened changes nothing.
SaveBegin(order) ==
  /\ step = "idle"
  /\ disk' = << >> /\ buf' = << >>
  /\ todo' = FileOf(order)
  /\ saved' = _index
  /\ step' = "saving"
  /\ UNCHANGED <<storeVars, loadVars, result>>

\* cfile::write: fwrite takes the next word.
WriteNext ==
  /\ step = "saving" /\ todo # << >>
  /\ buf' = Append(buf, Head(todo))
  /\ todo' = Tail(todo)
  /\ UNCHANGED <<storeVars, loadVars, disk, saved, step, result>>

\* stdio hands some of what it holds to the kernel, when it likes.
Spill ==
  /\ step = "saving" /\ buf # << >>
  /\ disk' = Append(disk, Head(buf))
  /\ buf' = Tail(buf)
  /\ UNCHANGED <<storeVars, loadVars, todo, saved, step, result>>

\* cfile::flush.
Flush ==
  /\ step = "saving" /\ todo = << >> /\ Flushes
  /\ disk' = disk \o buf /\ buf' = << >>
  /\ step' = "flushed"
  /\ UNCHANGED <<storeVars, loadVars, todo, saved, result>>

\* A write or a flush fails: the exception leaves the save, and the file's
\* destructor closes it with some of the buffer written.
SaveThrows(k) ==
  /\ step = "saving" /\ k \in 0..Len(buf)
  /\ disk' = disk \o SubSeq(buf, 1, k)
  /\ buf' = << >> /\ todo' = << >>
  /\ step' = "idle" /\ result' = "threw"
  /\ UNCHANGED <<storeVars, loadVars, saved>>

\* cfile::close drops what fclose returns: the k words that were written of
\* those still buffered may be fewer than all.
Close(k) ==
  /\ step = IF Flushes THEN "flushed" ELSE "saving"
  /\ todo = << >> /\ k \in 0..Len(buf)
  /\ disk' = disk \o SubSeq(buf, 1, k)
  /\ buf' = << >>
  /\ step' = "idle" /\ result' = "saved"
  /\ UNCHANGED <<storeVars, loadVars, todo, saved>>

\* The process ends at any point and is started again.
Crash ==
  /\ _index' = {} /\ _memory_size' = 0
  /\ buf' = << >> /\ todo' = << >>
  /\ step' = "idle" /\ result' = "none" /\ NoLoad
  /\ UNCHANGED <<disk, saved>>

\* The file is another program's, or of a version this one does not know.
Replace(m, v, o) ==
  /\ step = "idle"
  /\ m # magic_number \/ v \notin min_supported_version..max_supported_version
  /\ disk' = Header(m, v) \o Content(<<o>>)
  /\ saved' = {}
  /\ result' = "none"
  /\ UNCHANGED <<storeVars, loadVars, buf, todo, step>>

-----------------------------------------------------------------------------
(* Loading: open_cfile_for_read, read_persistence_header, read. *)

\* Mutant: the magic number is read and not compared.
HeaderOK_AnyMagic ==
  Len(disk) >= 2 /\ disk[2].n \in min_supported_version..max_supported_version

\* read_persistence_header does not throw.
HeaderOK ==
  /\ Len(disk) >= 2
  /\ disk[1].n = magic_number
  /\ disk[2].n \in min_supported_version..max_supported_version

\* The header and the count of read(); a file that does not exist is not opened.
LoadBegin(max) ==
  /\ step = "idle" /\ disk # NoFile
  /\ IF HeaderOK /\ Len(disk) >= 3
       THEN /\ step' = "loading" /\ result' = "none"
            /\ pos' = 3 /\ left' = disk[3].n
            /\ max_memory' = max /\ base' = _index
       ELSE /\ result' = "threw"
            /\ UNCHANGED <<step, loadVars>>
  /\ UNCHANGED <<storeVars, fileVars>>

\* The limit of read().
AtLimit == _memory_size >= max_memory

\* Mutant: the end of the file is taken for the end of the objects.
LoadEnds_AtEof ==
  \/ left = 0 /\ result' = "all"
  \/ left > 0 /\ AtLimit /\ result' = "limit"
  \/ left > 0 /\ ~AtLimit /\ pos = Len(disk) /\ result' = "all"

\* read() returns true, returns false, or throws, because a word is missing or
\* because fread failed.
LoadEnds ==
  \/ left = 0 /\ result' = "all"
  \/ left > 0 /\ AtLimit /\ result' = "limit"
  \/ left > 0 /\ ~AtLimit /\ result' = "threw"

LoadEnd ==
  /\ step = "loading" /\ LoadEnds
  /\ step' = "idle" /\ NoLoad
  /\ UNCHANGED <<storeVars, fileVars>>

\* One turn of read()'s loop: an object that collides is dropped by insert.
LoadNext ==
  /\ step = "loading" /\ left > 0 /\ ~AtLimit /\ pos < Len(disk)
  /\ insert(disk[pos + 1].o)
  /\ pos' = pos + 1 /\ left' = left - 1
  /\ UNCHANGED <<fileVars, max_memory, base, step, result>>

Next ==
  \/ \E o \in Obj : Insert(o)
  \/ \E x \in _index : ModifyThrows(x) \/ \E o \in Obj : Modify(x, o)
  \/ \E k \in Key : EraseKey(k)
  \/ \E order \in SetToSeqs(_index) : SaveBegin(order)
  \/ WriteNext
  \/ Spill
  \/ Flush
  \/ \E k \in 0..Len(buf) : SaveThrows(k) \/ Close(k)
  \/ Crash
  \/ \E m \in {magic_number, magic_number + 1}, v \in {0, max_supported_version, max_supported_version + 1},
       o \in Obj : Replace(m, v, o)
  \/ \E max \in MaxMemory : LoadBegin(max)
  \/ LoadEnd
  \/ LoadNext

Spec == Init /\ [][Next]_vars

-----------------------------------------------------------------------------
(* Properties. *)

TypeOK ==
  /\ _index \in SUBSET Obj /\ base \in SUBSET Obj /\ saved \in SUBSET Obj
  /\ _memory_size \in Nat /\ pos \in Nat /\ left \in Nat
  /\ buf \in Seq(Words)
  /\ step \in {"idle", "saving", "flushed", "loading"}
  /\ max_memory \in MaxMemory \cup {0}
  /\ result \in {"none", "saved", "threw", "all", "limit"}

\* The size that memory_size() reports is the sum over the objects in the
\* container, through refused inserts, modifications that collide or throw and
\* lose the object, and loads that stop or throw half way.
SizeExact == _memory_size = SizeOf(_index)

\* A save that ended without an exception is whole on the file.  The comment
\* on cfile: "std::ios_base::failure exception thrown for errors".
SavedIsWhole ==
  result = "saved" /\ step = "idle" =>
    \E order \in SetToSeqs(saved) : disk = FileOf(order)

\* "returns true if entire persisted tracked_storage was read": every object
\* of the save is in the container, unless an object that was there before
\* collided with it; a save cut short by a crash never passes for a whole one.
TrueMeansAll ==
  [][step = "loading" /\ result' = "all" =>
       \A o \in saved : o \in _index \/ Clash(base, o)]_vars

\* A load brings in nothing but objects of the last save: not the objects of
\* another program's file, nor those of a save this one has overwritten.
LoadedFromSave ==
  step = "loading" => _index \subseteq base \cup saved

\* A load goes beyond its limit by less than its last object.
LimitKept ==
  step = "loading" =>
    \/ _index = base
    \/ \E o \in _index \ base : _memory_size - o.size < max_memory

\* The tracked size is the true one, and a load keeps to its limit by it.
SizeSound == TypeOK /\ SizeExact /\ LimitKept

\* A save that reported success is whole, and a load brings in nothing else.
SavesWhole == SavedIsWhole /\ LoadedFromSave

\* Keys are only compared for equality.
Symmetry == Permutations(Key) \cup Permutations(Uniq)
=============================================================================
