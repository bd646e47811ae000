--------------------------- MODULE VariantObject ---------------------------
(***************************************************************************)
(* fc::variant_object, a handle to a vector of entries that its copies     *)
(* share, and fc::mutable_variant_object, a handle that owns its vector.   *)
(*                                                                         *)
(* "vec" is the heap: the vectors by address.  "kv" is the _key_value of   *)
(* each handle; Null after a mutable object was moved from.  A client does *)
(* not read or edit through a moved-from mutable object: it assigns it a   *)
(* new value with move assignment, or destroys it.  A constructor is the   *)
(* end of the handle's last life and the start of its next.                *)
(***************************************************************************)
EXTENDS Naturals, Sequences, SequencesExt, FiniteSetsExt

CONSTANTS
  Obj, Mut,          \* client variables of the two classes
  Key, Val,          \* keys of entries; values, of which NullVal is one
  Null, NullVal,
  MaxEntries         \* bound on the entries of all vectors together

ASSUME ObjectAssumption ==
  /\ Obj \cap Mut = {} /\ IsFiniteSet(Obj) /\ IsFiniteSet(Mut)
  /\ NullVal \in Val
  /\ MaxEntries \in Nat

Handle == Obj \cup Mut
Addr == Handle           \* as many vectors can be live as there are handles
ASSUME NullAssumption == Null \notin Addr

Entry == [key : Key, value : Val]

VARIABLES
  vec, kv,
  method, touched      \* the last call, and the handles it named

objectVars == <<vec, kv, method, touched>>

Content(h) == vec[kv[h]]
usable(m) == kv[m] # Null

\* The reference counts: a vector whose last handle lets go is deleted.
Live(handles) == {handles[h] : h \in Handle} \ {Null}
Fresh(handles) == CHOOSE a \in Addr : a \notin Live(handles)

ObjectInit ==
  /\ kv = [h \in Handle |-> h]       \* every handle default constructed
  /\ vec = [a \in Addr |-> << >>]
  /\ method = "init" /\ touched = {}

\* The heap after the handles moved to nkv and address a was given content c.
Store(nkv, a, c) ==
  vec' = [x \in Addr |-> IF x = a THEN c ELSE IF x \in Live(nkv) THEN vec[x] ELSE << >>]

Entries(heap) == MapThenSumSet(LAMBDA a : Len(heap[a]), Addr)

\* h's vector, which other handles may share, gets content c.
Edit(h, c) ==
  /\ vec' = [vec EXCEPT ![kv[h]] = c]
  /\ Entries(vec') <= MaxEntries
  /\ UNCHANGED kv

Call(name, handles) == method' = name /\ touched' = handles

-----------------------------------------------------------------------------
(* Handles that come to share a vector, or take it over. *)

\* variant_object( const variant_object& ) and the assignment.
CopyObject(o, src) ==
  /\ kv' = [kv EXCEPT ![o] = kv[src]]
  /\ Store(kv', Null, << >>)
  /\ Call("copy", {o, src})

\* variant_object( variant_object&& ): the source starts anew.
MoveObject(o, src) ==
  /\ o # src
  /\ LET taken == [kv EXCEPT ![o] = kv[src], ![src] = Null]
         a == Fresh(taken)
     IN  kv' = [taken EXCEPT ![src] = a] /\ Store(kv', a, << >>)
  /\ Call("move", {o, src})

\* operator=( variant_object&& ) swaps.
SwapObject(o, src) ==
  /\ kv' = [kv EXCEPT ![o] = kv[src], ![src] = kv[o]]
  /\ UNCHANGED vec
  /\ Call("swap", {o, src})

\* variant_object( mutable_variant_object&& ): the source is left empty-handed.
ObjectFromMoved(o, m) ==
  /\ usable(m)
  /\ kv' = [kv EXCEPT ![o] = kv[m], ![m] = Null]
  /\ Store(kv', Null, << >>)
  /\ Call("move", {o, m})

\* operator=( mutable_variant_object&& ): the source gets a vector again.
AssignMoved(o, m) ==
  /\ usable(m)
  /\ LET taken == [kv EXCEPT ![o] = kv[m], ![m] = Null]
         a == Fresh(taken)
     IN  kv' = [taken EXCEPT ![m] = a] /\ Store(kv', a, << >>)
  /\ Call("move", {o, m})

\* mutable_variant_object( mutable_variant_object&& ) and the assignment.
MoveMutable(m, src) ==
  /\ m # src /\ usable(src)
  /\ kv' = [kv EXCEPT ![m] = kv[src], ![src] = Null]
  /\ Store(kv', Null, << >>)
  /\ Call("move", {m, src})

-----------------------------------------------------------------------------
(* Handles that get a copy. *)

\* A new vector for h with content c.
Renew(h, c) ==
  LET left == [kv EXCEPT ![h] = Null]
      a == Fresh(left)
  IN  kv' = [left EXCEPT ![h] = a] /\ Store(kv', a, c) /\ Entries(vec') <= MaxEntries

\* Mutant: a mutable object made of another object shares its vector.
CopyToNew_Shares(h, src) ==
  /\ src \in Mut => usable(src)
  /\ kv' = [kv EXCEPT ![h] = kv[src]]
  /\ Store(kv', Null, << >>)
  /\ Call("copy", {h, src})

\* The constructors that copy the entries: object of a mutable one, mutable of either.
CopyToNew(h, src) ==
  /\ src \in Mut => usable(src)
  /\ Renew(h, Content(src))
  /\ Call("copy", {h, src})

\* The default constructor, and the one with a first entry.
ConstructEmpty(h) == Renew(h, << >>) /\ Call("construct", {h})

ConstructWith(h, k, v) ==
  /\ Renew(h, <<[key |-> k, value |-> v]>>)
  /\ Call("construct", {h})

\* The assignments to a mutable object copy into the vector it has.
AssignToMutable(m, src) ==
  /\ usable(m) /\ (src \in Mut => usable(src))
  /\ Edit(m, Content(src))
  /\ Call("assign", {m, src})

\* variant_object::operator=( const mutable_variant_object& ) does so too, and
\* its vector may be shared.
AssignMutable(o, m) ==
  /\ usable(m)
  /\ Edit(o, Content(m))
  /\ Call("assign_mutable", {o, m})

-----------------------------------------------------------------------------
(* Editing a mutable object. *)

Keys(s) == [i \in DOMAIN s |-> s[i].key]

\* find: the position of the first entry with the key, 0 for end().
find(s, k) == SelectInSeq(s, LAMBDA e : e.key = k)

\* set: the first entry with the key gets the value, or one is appended.
SetIn(s, k, v) ==
  IF find(s, k) = 0
    THEN Append(s, [key |-> k, value |-> v])
    ELSE [s EXCEPT ![find(s, k)].value = v]

Set(m, k, v) ==
  /\ usable(m)
  /\ Edit(m, SetIn(Content(m), k, v))
  /\ Call("set", {m})

\* operator[]: a missing key is appended with a null value.
Subscript(m, k) ==
  /\ usable(m)
  /\ Edit(m, IF find(Content(m), k) = 0 THEN SetIn(Content(m), k, NullVal) ELSE Content(m))
  /\ Call("set", {m})

\* operator()( string, variant ): appends, duplicates included.
AppendEntry(m, k, v) ==
  /\ usable(m)
  /\ Edit(m, Append(Content(m), [key |-> k, value |-> v]))
  /\ Call("append", {m})

\* s, after every entry of t was set in it, in order.
Merged(s, t) ==
  LET after[i \in 0..Len(t)] == IF i = 0 THEN s ELSE SetIn(after[i - 1], t[i].key, t[i].value)
  IN  after[Len(t)]

\* operator()( object ): every entry of the other is set; merging an object
\* with itself does nothing.
Merge(m, src) ==
  /\ usable(m) /\ (src \in Mut => usable(src)) /\ m # src
  /\ Edit(m, Merged(Content(m), Content(src)))
  /\ Call("set", {m, src})

\* erase: the first entry with the key goes.
Erase(m, k) ==
  /\ usable(m)
  /\ LET i == find(Content(m), k)
     IN  Edit(m, IF i = 0 THEN Content(m) ELSE RemoveAt(Content(m), i))
  /\ Call("erase", {m})

ObjectNext ==
  \/ \E o, p \in Obj : CopyObject(o, p) \/ MoveObject(o, p) \/ SwapObject(o, p)
  \/ \E o \in Obj, m \in Mut : ObjectFromMoved(o, m) \/ AssignMoved(o, m) \/ AssignMutable(o, m)
  \/ \E m, n \in Mut : MoveMutable(m, n)
  \/ \E o \in Obj, m \in Mut : CopyToNew(o, m)
  \/ \E m \in Mut, h \in Handle : (m # h /\ CopyToNew(m, h)) \/ AssignToMutable(m, h)
  \/ \E h \in Handle : ConstructEmpty(h) \/ \E k \in Key, v \in Val : ConstructWith(h, k, v)
  \/ \E m \in Mut, k \in Key : Subscript(m, k) \/ Erase(m, k)
  \/ \E m \in Mut, k \in Key, v \in Val : Set(m, k, v) \/ AppendEntry(m, k, v)
  \/ \E m \in Mut, h \in Handle : Merge(m, h)

ObjectSpec == ObjectInit /\ [][ObjectNext]_objectVars

-----------------------------------------------------------------------------
(* Properties. *)

\* Types; an object always has a vector, also after its content was moved away.
ObjectTypeOK ==
  /\ vec \in [Addr -> Seq(Entry)]
  /\ kv \in [Handle -> Addr \cup {Null}]
  /\ \A o \in Obj : kv[o] # Null

\* The vector a mutable object edits in place belongs to no other handle,
\* however objects were copied, moved and swapped before.
MutableUnshared ==
  \A m \in Mut, h \in Handle : usable(m) /\ h # m => kv[h] # kv[m]

\* A call changes what only the handles it names hold: copies of an object
\* are independent.  The assignment of a mutable object to a variant_object
\* is the exception and is left out here.
CopiesIndependent ==
  [][method' # "assign_mutable" =>
       \A h \in Handle \ touched' : kv[h] # Null => vec'[kv'[h]] = Content(h)]_objectVars

\* The same without the exception.  variant_object.hpp: "This dictionary
\* implements copy-on-write".
CopyOnWrite ==
  [][\A h \in Handle \ touched' : kv[h] # Null => vec'[kv'[h]] = Content(h)]_objectVars

\* An edit keeps the keys in the order they were inserted, and only an append
\* can make a key occur again.
EditKeepsOrder ==
  [][method' = "set" =>
       \A m \in Mut : usable(m) =>
         LET old == Keys(Content(m))
             new == Keys(vec'[kv'[m]])
         IN  m \in touched' /\ kv'[m] = kv[m] =>
               /\ IsPrefix(old, new)
               /\ \A i, j \in DOMAIN new : i # j /\ new[i] = new[j] => j \in DOMAIN old]_objectVars

\* The promise of the two classes: objects behave as values, and whatever the
\* call an object has a vector after it and the one a mutable object edits is
\* its own.
ObjectsIndependent ==
  /\ [][(ObjectTypeOK /\ MutableUnshared)']_objectVars
  /\ CopiesIndependent
  /\ EditKeepsOrder
=============================================================================
