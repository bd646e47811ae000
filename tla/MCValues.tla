------------------------------ MODULE MCValues ------------------------------
(***************************************************************************)
(* The parts of the library that hold values for their client: variants    *)
(* and objects, public keys, files, streams, the rate limiter's tokens and *)
(* bloom filters.  They do not interact, so a behaviour exercises one of   *)
(* them, "part", and leaves the others in their first state.               *)
(***************************************************************************)
EXTENDS VariantObject, VariantStore, KeyHandles, Files, CFile, Streams, RateLimiter, BloomFilter

VARIABLE part

-----------------------------------------------------------------------------
(* Values of constants. *)

Hashes == [seed \in 1..2 |-> [salt \in 1..2 |-> [e \in 1..3 |-> (e * e * salt * 5 + salt + 7 * seed) % 13]]]
Sized(seed, best) == [seed |-> seed, best |-> best, hashes |-> 3, min_size |-> 4, max_size |-> 8,
                      min_hashes |-> 1, max_hashes |-> 2, sane |-> TRUE]
\* Two seeds, a size that is rounded up, one that is cut, one that is cut inside
\* a cell, and parameters that are refused.
SomeParams == {Sized(1, 6), Sized(2, 6), Sized(1, 9),
               [Sized(1, 6) EXCEPT !.max_size = 7],
               [Sized(1, 6) EXCEPT !.min_hashes = 0]}

-----------------------------------------------------------------------------

vars == <<part, objectVars, storeVars, keyVars, fileVars, cfileVars, streamVars, limiterVars, bloomVars>>

Init ==
  /\ part \in {"object", "store", "key", "temp", "rename", "lock", "relative", "cfile",
               "data", "read", "write", "limiter", "bloom"}
  /\ ObjectInit /\ StoreInit /\ KeyInit /\ FilesInit /\ CFileInit /\ StreamsInit /\ LimiterInit /\ BloomInit
  \* A part that is not exercised has one first state.
  /\ part # "rename" => to = NoFile
  /\ part # "limiter" => direction = "read"
  /\ part # "bloom" => \A f \in Filter : filter[f] = Blank(Sized(1, 6))

ObjectStep ==
  /\ part = "object" /\ ObjectNext
  /\ UNCHANGED <<part, storeVars, keyVars, fileVars, cfileVars, streamVars, limiterVars, bloomVars>>
StoreStep ==
  /\ part = "store" /\ StoreNext
  /\ UNCHANGED <<part, objectVars, keyVars, fileVars, cfileVars, streamVars, limiterVars, bloomVars>>
KeyStep ==
  /\ part = "key" /\ KeyNext
  /\ UNCHANGED <<part, objectVars, storeVars, fileVars, cfileVars, streamVars, limiterVars, bloomVars>>
FileStep ==
  /\ \/ part = "temp" /\ TempNext
     \/ part = "rename" /\ RenameNext
     \/ part = "lock" /\ LockNext
     \/ part = "relative" /\ AskRelative
  /\ UNCHANGED <<part, objectVars, storeVars, keyVars, cfileVars, streamVars, limiterVars, bloomVars>>
CFileStep ==
  /\ part = "cfile" /\ CFileNext
  /\ UNCHANGED <<part, objectVars, storeVars, keyVars, fileVars, streamVars, limiterVars, bloomVars>>
StreamStep ==
  /\ \/ part = "data" /\ DataNext
     \/ part = "read" /\ ReadNext
     \/ part = "write" /\ WriteNext
  /\ UNCHANGED <<part, objectVars, storeVars, keyVars, fileVars, cfileVars, limiterVars, bloomVars>>
LimiterStep ==
  /\ part = "limiter" /\ LimiterNext
  /\ UNCHANGED <<part, objectVars, storeVars, keyVars, fileVars, cfileVars, streamVars, bloomVars>>
BloomStep ==
  /\ part = "bloom" /\ BloomNext
  /\ UNCHANGED <<part, objectVars, storeVars, keyVars, fileVars, cfileVars, streamVars, limiterVars>>

Next == ObjectStep \/ StoreStep \/ KeyStep \/ FileStep \/ CFileStep \/ StreamStep \/ LimiterStep \/ BloomStep

Spec == Init /\ [][Next]_vars

\* No file is leaked, lost or locked twice by the filesystem's objects, and a
\* cfile holds what its calls say.
FilesKept == FilesSafe /\ CFileSound

\* The last call on an object does not decide what can follow.
View == <<part, vec, kv, storeVars, keyVars, fileVars, cfileVars, streamVars, limiterVars, bloomVars>>
\* The fibers that use the limiter differ by name only.
Symmetry == Permutations(Op)
=============================================================================
