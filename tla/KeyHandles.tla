----------------------------- MODULE KeyHandles -----------------------------
(***************************************************************************)
(* The OpenSSL handles of fc::crypto::r1::public_key (elliptic_r1.cpp):    *)
(* each key owns an EC_KEY or none, and its special members duplicate,     *)
(* take over or free it.  private_key repeats them line by line.  Copy     *)
(* assignment of a key to itself frees the handle it then duplicates: that *)
(* is undefined and not among the calls a client makes here.               *)
(***************************************************************************)
EXTENDS FiniteSets, Naturals

CONSTANTS PublicKey,       \* public_key objects
          Point,     \* points of the curve
          EcKey,    \* EC_KEYs
          Free, NoKey, NoPoint

ASSUME HandleAssumption ==
  /\ NoKey \notin EcKey /\ "gone" \notin EcKey \cup {NoKey}
  /\ NoPoint \notin Point /\ Free \notin Point \cup {NoPoint}

VARIABLES key,       \* object -> "gone", NoKey or its handle _key
          ec         \* handle -> the point it holds, or Free

keyVars == <<key, ec>>

Exists(k) == key[k] # "gone"
Owned(k) == Exists(k) /\ key[k] # NoKey

KeyInit == key = [k \in PublicKey |-> "gone"] /\ ec = [h \in EcKey |-> Free]

FreeHandles(e) == {h \in EcKey : e[h] = Free}

\* The handle of the object is freed, if it has one.
EC_KEY_free(k, e) == IF Owned(k) THEN [e EXCEPT ![key[k]] = Free] ELSE e

---------------------------------------------------------------------------
(* The special members. *)

\* public_key(): no handle yet.
Default(k) == ~Exists(k) /\ key' = [key EXCEPT ![k] = NoKey] /\ UNCHANGED ec

\* public_key( public_key_data ): zero data is no key; data that does not
\* decode throws, and the handle allocated for it is lost.
FromData(k, p) ==
  /\ ~Exists(k)
  /\ \/ key' = [key EXCEPT ![k] = NoKey] /\ UNCHANGED ec
     \/ \E h \in FreeHandles(ec) :
          ec' = [ec EXCEPT ![h] = p] /\ key' = [key EXCEPT ![k] = h]
     \/ \E h \in FreeHandles(ec) :
          ec' = [ec EXCEPT ![h] = NoPoint] /\ UNCHANGED key

\* EC_KEY_dup of the other key's handle, or none.
Duplicate(k, l, e) ==
  IF Owned(l)
  THEN \E h \in FreeHandles(e) : /\ key' = [key EXCEPT ![k] = h]
                                 /\ ec' = [e EXCEPT ![h] = e[key[l]]]
  ELSE key' = [key EXCEPT ![k] = NoKey] /\ ec' = e

\* Copy construction; move construction copies too, as the implementation
\* class declares no move.
CopyConstructKey(k, l) == ~Exists(k) /\ Exists(l) /\ Duplicate(k, l, ec)

AssignCopyKey(k, l) ==
  /\ Exists(k) /\ Exists(l) /\ k # l
  /\ Duplicate(k, l, EC_KEY_free(k, ec))

\* Mutant: a moved-from key keeps its handle.
AssignMoveKey_Keep(k, l) ==
  /\ Exists(k) /\ Exists(l)
  /\ ec' = EC_KEY_free(k, ec)
  /\ key' = [key EXCEPT ![k] = key[l]]
\* Move assignment; of a key to itself it leaves no key.
AssignMoveKey(k, l) ==
  /\ Exists(k) /\ Exists(l)
  /\ ec' = EC_KEY_free(k, ec)
  /\ key' = [key EXCEPT ![k] = key[l], ![l] = NoKey]

DestroyKey(k) ==
  /\ Exists(k)
  /\ ec' = EC_KEY_free(k, ec)
  /\ key' = [key EXCEPT ![k] = "gone"]

KeyNext ==
  \E k \in PublicKey :
    \/ Default(k)
    \/ \E p \in Point : FromData(k, p)
    \/ \E l \in PublicKey : CopyConstructKey(k, l) \/ AssignCopyKey(k, l) \/ AssignMoveKey(k, l)
    \/ DestroyKey(k)

KeySpec == KeyInit /\ [][KeyNext]_keyVars

---------------------------------------------------------------------------
(* Properties *)

\* A handle is owned by at most one key and what a key owns was not freed.
HandleOwned ==
  /\ \A k \in PublicKey : Owned(k) => ec[key[k]] \in Point
  /\ \A k, l \in PublicKey : Owned(k) /\ key[k] = key[l] => k = l

\* The point a key stands for.
PointOf(k) == IF ~Exists(k) THEN Free ELSE IF Owned(k) THEN ec[key[k]] ELSE NoPoint

AbstractKey == INSTANCE ValueStore WITH
  Obj <- PublicKey, Val <- Point, Empty <- NoPoint, Dead <- Free,
  val <- [k \in PublicKey |-> PointOf(k)]

\* A key behaves as a value, a self-assignment by move apart, which empties it;
\* and every step leaves each handle with its owner.
KeyIsValue == AbstractKey!ValueSpec /\ [][HandleOwned']_keyVars
=============================================================================
