------------------------------- MODULE Files -------------------------------
(***************************************************************************)
(* filesystem: temporary files and directories that objects own,           *)
(* fc::rename with its fallback to copy and remove, the lock file that     *)
(* keeps a second process out, and make_relative.                          *)
(***************************************************************************)
EXTENDS Integers, Sequences, FiniteSets

CONSTANTS Temp, Path,      \* temp_file and temp_directory objects, the names unique_path draws from
          Process, Lock,   \* processes and the simple_lock_file objects each may have
          Dir, MaxDepth,   \* names of directories, the depth of a path
          NoPath, NoFile

ASSUME FilesAssumption == NoPath \notin Path /\ MaxDepth \in Nat /\ IsFiniteSet(Path) /\ {"..", "."} \cap Dir = {}

VARIABLES alive, path, disk, released,   \* temporaries: objects, _path, what exists, what was let go
          from, to, mover,                      \* rename: the two files and where the call is
          held, holder,                         \* locks: [process -> [lock -> is_locked]], who has the flock
          asked                                 \* the paths make_relative was asked about
tempVars == <<alive, path, disk, released>>
moveVars == <<from, to, mover>>
lockVars == <<held, holder>>
fileVars == <<tempVars, moveVars, lockVars, asked>>

Nobody == <<>>

FilesInit ==
  /\ alive = {} /\ path = [t \in Temp |-> NoPath] /\ disk = {} /\ released = {}
  /\ from = "data" /\ to \in {NoFile, "old"} /\ mover = "start"
  /\ held = [p \in Process |-> [l \in Lock |-> FALSE]] /\ holder = Nobody
  /\ asked = <<>>

-----------------------------------------------------------------------------
(* Temporary files and directories *)

\* remove_all; an error is eaten and the file is let go.
Dropped(p) == \/ disk' = disk \ {p} /\ released' = released
              \/ released' = released \cup ({p} \ {NoPath}) /\ disk' = disk
\* unique_path draws a name.  One that exists is refused, and the base class, which
\* has the name already, removes what is there as it goes.  Else the directory is
\* made at once, a file only if asked.
CreateTemp(t) ==
  /\ t \notin alive
  /\ \E p \in Path :
       \/ /\ p \in disk /\ disk' \in {disk, disk \ {p}} /\ UNCHANGED <<alive, path, released>>
       \/ /\ p \notin disk /\ disk' \in {disk, disk \cup {p}} /\ released' = released \ {p}
          /\ alive' = alive \cup {t} /\ path' = [path EXCEPT ![t] = p]
\* The caller writes the file.
Fill(t) == t \in alive /\ path[t] # NoPath /\ disk' = disk \cup {path[t]} /\ UNCHANGED <<alive, path, released>>
\* The move constructor of path copies, so that the source keeps its name.
MoveTemp(t, s) ==
  /\ t \notin alive /\ s \in alive /\ alive' = alive \cup {t} /\ path' = [path EXCEPT ![t] = path[s]]
  /\ UNCHANGED <<disk, released>>
MoveAssign(t, s) ==
  /\ {t, s} \subseteq alive /\ t # s
  /\ Dropped(path[t]) /\ path' = [path EXCEPT ![t] = path[s]]
  /\ UNCHANGED alive
remove(t) ==
  /\ t \in alive /\ path[t] # NoPath /\ Dropped(path[t]) /\ path' = [path EXCEPT ![t] = NoPath]
  /\ UNCHANGED alive
release(t) ==
  /\ t \in alive /\ path[t] # NoPath /\ released' = released \cup {path[t]} /\ path' = [path EXCEPT ![t] = NoPath]
  /\ UNCHANGED <<alive, disk>>
DestroyTemp(t) ==
  /\ t \in alive /\ alive' = alive \ {t} /\ Dropped(path[t]) /\ path' = [path EXCEPT ![t] = NoPath]
TempNext ==
  /\ \E t \in Temp : \/ CreateTemp(t) \/ Fill(t) \/ remove(t) \/ release(t) \/ DestroyTemp(t)
                     \/ \E s \in Temp : MoveTemp(t, s) \/ MoveAssign(t, s)
  /\ UNCHANGED <<moveVars, lockVars, asked>>

-----------------------------------------------------------------------------
(* rename, with a crash between any two steps *)

\* The system renames at once; when it cannot (another device), copy and remove.
rename ==
  \/ mover = "start" /\ from' = NoFile /\ to' = "data" /\ mover' = "done"
  \/ mover = "start" /\ mover' = (IF to = NoFile THEN "copy" ELSE "failed") /\ UNCHANGED <<from, to>>
  \/ mover = "copy" /\ to' = "part" /\ mover' \in {"copying", "failed"} /\ from' = from
  \/ mover = "copying" /\ to' = "data" /\ mover' = "remove" /\ from' = from
  \/ mover = "remove" /\ mover' = "done" /\ from' = NoFile /\ to' = to
  \/ mover = "remove" /\ mover' = "failed" /\ UNCHANGED <<from, to>>
Crash == mover \notin {"done", "failed", "crashed"} /\ mover' = "crashed" /\ UNCHANGED <<from, to>>
RenameNext == (rename \/ Crash) /\ UNCHANGED <<tempVars, lockVars, asked>>

-----------------------------------------------------------------------------
(* simple_lock_file *)

\* A descriptor of its own each time: it does not get the lock while any other
\* descriptor, of this process and this object too, has it.
try_lock(p, l) ==
  IF holder = Nobody THEN held' = [held EXCEPT ![p][l] = TRUE] /\ holder' = <<p, l>>
  ELSE UNCHANGED <<held, holder>>
unlock(p, l) ==
  held' = [held EXCEPT ![p][l] = FALSE] /\ holder' = IF holder = <<p, l>> THEN Nobody ELSE holder
\* A process that dies leaves no lock.
Die(p) ==
  /\ held' = [held EXCEPT ![p] = [l \in Lock |-> FALSE]]
  /\ holder' = IF holder # Nobody /\ Head(holder) = p THEN Nobody ELSE holder
LockNext ==
  /\ \E p \in Process : Die(p) \/ \E l \in Lock : try_lock(p, l) \/ unlock(p, l)
  /\ UNCHANGED <<tempVars, moveVars, asked>>

-----------------------------------------------------------------------------
(* make_relative: a path is the sequence of names below the root *)

\* The steps up from a to its first k steps.
Ups(a, k) == Cardinality({i \in (k + 1)..Len(a) : a[i] # "."})
Common(a, b) == CHOOSE k \in 0..Len(a) : /\ k <= Len(b) /\ SubSeq(a, 1, k) = SubSeq(b, 1, k)
                                         /\ (k < Len(a) /\ k < Len(b)) => a[k + 1] # b[k + 1]
make_relative(a, b) ==
  LET k == Common(a, b)
  IN [i \in 1..Ups(a, k) |-> ".."] \o SubSeq(b, k + 1, Len(b))
\* Paths whose steps are names, or to the same directory.
Below == UNION {[1..n -> Dir \cup {"."}] : n \in 0..MaxDepth}
AskRelative ==
  /\ asked = <<>> /\ asked' \in Below \X Below /\ UNCHANGED <<tempVars, moveVars, lockVars>>

FilesNext == TempNext \/ RenameNext \/ LockNext \/ AskRelative
FilesSpec == FilesInit /\ [][FilesNext]_fileVars

-----------------------------------------------------------------------------
\* No temporary outlives the objects: what is on disk is named by an object, or
\* was let go, by release() or by a removal that failed, whatever was moved where.
NoLeak == disk \subseteq {path[t] : t \in alive} \cup released

\* The contents that are being renamed exist whole under one of the names at
\* every moment, and so after a crash or an error.
NothingLost == from = "data" \/ to = "data"

\* At most one object of all processes believes it has the lock, after failed
\* attempts, repeated unlocks and deaths too.
LockExclusive == \A p, q \in Process, l, m \in Lock : held[p][l] /\ held[q][m] => p = q /\ l = m

\* Following a path from the root.
Resolved(s) ==
  LET at[i \in 0..Len(s)] ==
        IF i = 0 THEN << >>
        ELSE CASE s[i] = "." -> at[i - 1]
               [] s[i] = ".." -> (IF at[i - 1] = << >> THEN << >> ELSE SubSeq(at[i - 1], 1, Len(at[i - 1]) - 1))
               [] OTHER -> Append(at[i - 1], s[i])
  IN at[Len(s)]
\* Appended to the first path the relative one leads to the second, when the
\* first has no step up in it.
RelativeLeads == asked # <<>> => Resolved(asked[1] \o make_relative(asked[1], asked[2])) = Resolved(asked[2])

\* No file is leaked, lost or locked twice, and relative paths lead where they should.
FilesSafe == NoLeak /\ NothingLost /\ LockExclusive /\ RelativeLeads
=============================================================================
