---------------------------- MODULE ZipkinProofs ----------------------------
(***************************************************************************)
(* The safety of fc::zipkin for any number of span objects, any limit of   *)
(* failures, any modulus of the ids and any bounds: a span is logged at    *)
(* most once, failures alone disable reporting, a joined worker has        *)
(* drained its queue, and no span is lost but one born with the id of a    *)
(* dead one.                                                               *)
(*                                                                         *)
(* ZipkinSound and LoggedOnce are not inductive.  What the code keeps true *)
(* at every step is ZipkinInv: who holds a span, which steps of the        *)
(* worker's life are behind it, and how long the run of failures is.       *)
(***************************************************************************)
EXTENDS Zipkin, SequenceTheorems, TLAPS

\* An object that is in use holds a span, one that is not holds none, and a
\* thread inside log() has a span that is not a moved-from one.
HoldsSpan ==
  /\ \A o \in Obj : at[o] = "free" <=> obj[o] = NoSpan
  /\ \A o \in Obj : at[o] = "checked" => obj[o].id # 0

\* The worker starts with the configuration, and once ctx.run has returned it
\* holds no span and what is queued came too late; only then is it joined.
WorkerLife ==
  /\ zip = "null" => worker = "none"
  /\ joined => worker = "ended"
  /\ current # NoSpan => worker = "running"
  /\ worker = "ended" => \A i \in 1..Len(queue) : queue[i].n \in late

\* consecutive_errors is the length of the run of failures at the end of
\* what was reported, and at the limit no post is under way.
ErrorsCounted ==
  /\ Len(reported) >= consecutive_errors
  /\ \A i \in 1..Len(reported) :
       i > Len(reported) - consecutive_errors => ~reported[i].ok
  /\ Len(reported) > consecutive_errors => reported[Len(reported) - consecutive_errors].ok
  /\ current # NoSpan => consecutive_errors <= MaxErrors

\* The worker's spans are numbered, apart from one another.
WorkerApart ==
  /\ \A n \in 1..MaxSpans : Known(n) => n <= created
  /\ \A i, j \in 1..Len(reported) : reported[i].n = reported[j].n => i = j
  /\ \A i, j \in 1..Len(queue) : queue[i].n = queue[j].n => i = j
  /\ \A i \in 1..Len(reported), j \in 1..Len(queue) : reported[i].n # queue[j].n
  /\ current # NoSpan => /\ \A i \in 1..Len(reported) : reported[i].n # current.n
                         /\ \A i \in 1..Len(queue) : queue[i].n # current.n

\* Of the objects that hold one span all but one are moved-from, and none of
\* the rest holds a span the worker has.
ObjectsApart ==
  /\ \A o \in Obj : at[o] # "free" => obj[o].n <= created
  /\ \A o, p \in Obj : Owns(o) /\ Owns(p) /\ obj[o].n = obj[p].n => o = p
  /\ \A o \in Obj : Owns(o) => ~Known(obj[o].n)

\* A span is held, logged or dropped, unless the template gave it the id 0.
SpansAccounted == \A n \in 1..created : n \in flagged \/ Accounted(n)

\* One with that id never is.
FlaggedGone ==
  /\ flagged \cup dropped \subseteq 1..created
  /\ \A n \in flagged : ~Accounted(n)

\* The inductive invariant.
ZipkinInv ==
  /\ TypeOK /\ HoldsSpan /\ WorkerLife /\ ErrorsCounted
  /\ WorkerApart /\ ObjectsApart /\ SpansAccounted /\ FlaggedGone

-----------------------------------------------------------------------------

\* The bounds are numbers, and the mark of an empty object is not a span.
LEMMA Constants ==
  /\ MaxErrors \in Nat /\ MaxSpans \in Nat /\ MaxShutdowns \in Nat
  /\ IdMod \in Nat /\ IdMod >= 2
  /\ NoSpan \notin Span
<1>1. /\ MaxErrors \in Nat /\ MaxSpans \in Nat /\ MaxShutdowns \in Nat
      /\ IdMod \in Nat /\ IdMod >= 2
  BY ZipkinAssumption
<1>2. Span \subseteq [n : Nat, id : Nat]
  BY <1>1 DEF Span
<1> QED
  BY <1>1, <1>2, ZipkinAssumption

\* Before zipkin_config::init nothing has been created, posted or joined.
LEMMA ZipkinInitInv == ZipkinInit => ZipkinInv
<1> SUFFICES ASSUME ZipkinInit PROVE ZipkinInv
  OBVIOUS
<1>1. TypeOK
  <2>1. queue \in Seq(Span) /\ reported \in Seq([n : 1..MaxSpans, ok : BOOLEAN])
    BY DEF ZipkinInit
  <2>2. /\ obj \in [Obj -> Span \cup {NoSpan}]
        /\ at \in [Obj -> {"free", "alive", "checked"}]
    BY DEF ZipkinInit
  <2>3. /\ next_id \in 0..(IdMod - 1) /\ created \in 0..MaxSpans
        /\ consecutive_errors \in 0..(MaxErrors + 1) /\ shutdowns \in 0..MaxShutdowns
    BY Constants DEF ZipkinInit
  <2>4. /\ work_guard \in BOOLEAN /\ joined \in BOOLEAN /\ late \subseteq 1..MaxSpans
        /\ dropped \subseteq 1..MaxSpans /\ flagged \subseteq 1..MaxSpans
    BY DEF ZipkinInit
  <2> QED
    BY <2>1, <2>2, <2>3, <2>4 DEF ZipkinInit, TypeOK
<1>2. HoldsSpan /\ WorkerLife /\ ErrorsCounted
  BY Constants DEF ZipkinInit, HoldsSpan, WorkerLife, ErrorsCounted
<1>3. Len(reported) = 0 /\ Len(queue) = 0 /\ \A o \in Obj : at[o] = "free"
  BY DEF ZipkinInit
<1>4. \A n : ~Known(n)
  BY <1>3 DEF Known, ZipkinInit
<1>5. WorkerApart /\ ObjectsApart /\ SpansAccounted /\ FlaggedGone
  BY <1>3, <1>4 DEF WorkerApart, ObjectsApart, SpansAccounted, FlaggedGone, Owns, ZipkinInit
<1> QED
  BY <1>1, <1>2, <1>5 DEF ZipkinInv

\* The counter is kept below its modulus, and what it gives is never 0.
LEMMA IdsInRange ==
  ASSUME TypeOK, NEW id \in get_next_unique_id
  PROVE  id \in 1..(IdMod - 1) /\ (id + 1) % IdMod \in 0..(IdMod - 1)
<1>1. id \in 1..(IdMod - 1)
  BY Constants DEF TypeOK, get_next_unique_id
<1>2. id + 1 \in Nat /\ IdMod \in Nat \ {0}
  BY <1>1, Constants
<1> QED
  BY <1>1, <1>2

\* The id of a span made from a hash, by either overload of to_id.
HashId(h, sha) == IF sha THEN to_id(h) ELSE to_id_T(h)

\* It is a word, and 0 only from the template.
LEMMA ToIdInRange ==
  ASSUME NEW h \in 0..(IdMod - 1), NEW sha \in BOOLEAN
  PROVE  HashId(h, sha) \in 0..(IdMod - 1) /\ (sha => HashId(h, sha) # 0)
BY Constants DEF to_id, to_id_T, HashId

\* What CreateWithId does, with the id it gives.
LEMMA HashedSpan ==
  ASSUME NEW o \in Obj, NEW h \in 0..(IdMod - 1), NEW sha \in BOOLEAN, CreateWithId(o, h, sha)
  PROVE  /\ obj' = [obj EXCEPT ![o] = [n |-> created + 1, id |-> HashId(h, sha)]]
         /\ flagged' = IF ~sha /\ HashId(h, sha) = 0 THEN flagged \cup {created + 1} ELSE flagged
BY DEF CreateWithId, HashId

\* Every step keeps the variables in their types: in particular the count of
\* failures stays at its limit.
LEMMA TypeStep == ZipkinInv /\ [ZipkinNext]_zipkinVars => TypeOK'
<1> SUFFICES ASSUME ZipkinInv, [ZipkinNext]_zipkinVars PROVE TypeOK'
  OBVIOUS
<1> USE Constants
<1>1. TypeOK /\ ErrorsCounted /\ HoldsSpan
  BY DEF ZipkinInv
<1>2. CASE ConfigInit
  BY <1>1, <1>2 DEF TypeOK, ConfigInit, spanVars, stopVars
<1>3. ASSUME NEW o \in Obj, Create(o) PROVE TypeOK'
  <2>1. PICK id \in get_next_unique_id :
          /\ obj' = [obj EXCEPT ![o] = [n |-> created + 1, id |-> id]]
          /\ next_id' = (id + 1) % IdMod
    BY <1>3 DEF Create
  <2>2. next_id' \in 0..(IdMod - 1) /\ id \in 0..(IdMod - 1)
    BY <1>1, <2>1, IdsInRange
  <2>3. [n |-> created + 1, id |-> id] \in Span /\ created + 1 \in 0..MaxSpans
    BY <1>1, <1>3, <2>2 DEF Span, TypeOK, Create
  <2> QED
    BY <1>1, <1>3, <2>1, <2>2, <2>3 DEF TypeOK, Create, workVars, stopVars
<1>4. ASSUME NEW o \in Obj, NEW h \in 0..(IdMod - 1), NEW sha \in BOOLEAN, CreateWithId(o, h, sha)
      PROVE TypeOK'
  <2> DEFINE id == HashId(h, sha)
  <2>1. /\ id \in 0..(IdMod - 1) /\ obj' = [obj EXCEPT ![o] = [n |-> created + 1, id |-> id]]
        /\ flagged' = flagged \/ flagged' = flagged \cup {created + 1}
    BY <1>4, ToIdInRange, HashedSpan
  <2> HIDE DEF id
  <2>2. [n |-> created + 1, id |-> id] \in Span /\ created + 1 \in 1..MaxSpans
    BY <1>1, <1>4, <2>1 DEF Span, TypeOK, CreateWithId
  <2>3. flagged' \subseteq 1..MaxSpans /\ obj' \in [Obj -> Span \cup {NoSpan}]
    BY <1>1, <2>1, <2>2 DEF TypeOK
  <2>4. /\ zip' = zip /\ next_id' = next_id /\ created' = created + 1
        /\ at' = [at EXCEPT ![o] = "alive"] /\ UNCHANGED <<workVars, stopVars>>
    BY <1>4 DEF CreateWithId
  <2> QED
    BY <1>1, <2>2, <2>3, <2>4 DEF TypeOK, workVars, stopVars
<1>5. ASSUME NEW o \in Obj, NEW p \in Obj, Move(o, p) PROVE TypeOK'
  <2>1. obj[o] \in Span
    BY <1>1, <1>5 DEF TypeOK, HoldsSpan, Move
  <2>2. [obj[o] EXCEPT !.id = 0] \in Span
    BY <2>1 DEF Span
  <2>3. obj' \in [Obj -> Span \cup {NoSpan}]
    BY <1>1, <1>5, <2>1, <2>2 DEF TypeOK, Move
  <2> QED
    BY <1>1, <1>5, <2>3 DEF TypeOK, Move, workVars, stopVars
<1>6. ASSUME NEW o \in Obj, Destroy(o) PROVE TypeOK'
  <2>1. obj[o].n \in 1..MaxSpans
    BY <1>1, <1>6 DEF TypeOK, HoldsSpan, Destroy, Span
  <2>2. dropped' \subseteq 1..MaxSpans
    BY <1>1, <1>6, <2>1 DEF TypeOK, Destroy
  <2> QED
    BY <1>1, <1>6, <2>2 DEF TypeOK, Destroy, stopVars
<1>7. ASSUME NEW o \in Obj, Post(o) PROVE TypeOK'
  <2>1. obj[o] \in Span /\ obj[o].n \in 1..MaxSpans
    BY <1>1, <1>7 DEF TypeOK, HoldsSpan, Post, Span
  <2>2. queue' \in Seq(Span)
    BY <1>1, <1>7, <2>1 DEF TypeOK, Post
  <2>3. late' \subseteq 1..MaxSpans
    BY <1>1, <1>7, <2>1 DEF TypeOK, Post
  <2>4. obj' \in [Obj -> Span \cup {NoSpan}] /\ at' \in [Obj -> {"free", "alive", "checked"}]
    BY <1>1, <1>7 DEF TypeOK, Post
  <2> QED
    BY <1>1, <1>7, <2>2, <2>3, <2>4 DEF TypeOK, Post, stopVars
<1>8. CASE TakeHandler
  <2>1. Head(queue) \in Span
    BY <1>1, <1>8 DEF TypeOK, TakeHandler
  <2>2. Head(queue).n \in 1..MaxSpans
    BY <2>1 DEF Span
  <2>3. dropped' \subseteq 1..MaxSpans /\ current' \in Span \cup {NoSpan}
    BY <1>1, <1>8, <2>1, <2>2 DEF TypeOK, TakeHandler
  <2>4. queue' \in Seq(Span)
    BY <1>1, <1>8 DEF TypeOK, TakeHandler
  <2> QED
    BY <1>1, <1>8, <2>3, <2>4 DEF TypeOK, TakeHandler, spanVars, stopVars
<1>9. ASSUME NEW ok \in BOOLEAN, PostSync(ok) PROVE TypeOK'
  <2>1. [n |-> current.n, ok |-> ok] \in [n : 1..MaxSpans, ok : BOOLEAN]
    BY <1>1, <1>9 DEF TypeOK, PostSync, Span
  <2>2. consecutive_errors' \in 0..(MaxErrors + 1)
    BY <1>1, <1>9 DEF TypeOK, ErrorsCounted, PostSync
  <2> QED
    BY <1>1, <1>9, <2>1, <2>2 DEF TypeOK, PostSync, spanVars, stopVars
<1>10. CASE RunReturns
  BY <1>1, <1>10 DEF TypeOK, RunReturns, spanVars, stopVars
<1>11. CASE Shutdown
  <2>1. stopped' \in {0, 1} /\ shutdowns' \in 0..MaxShutdowns
    BY <1>1, <1>11 DEF TypeOK, Shutdown
  <2>2. work_guard' \in BOOLEAN /\ main' \in {"idle", "joining", "joining_dtor"}
    BY <1>1, <1>11, Zenon DEF TypeOK, Shutdown
  <2> QED
    BY <1>1, <1>11, <2>1, <2>2 DEF TypeOK, Shutdown, spanVars, workVars
<1>12. CASE Destruct
  <2>1. stopped' \in {0, 1}
    BY <1>1, <1>12 DEF TypeOK, Destruct
  <2>2. /\ work_guard' \in BOOLEAN /\ main' \in {"idle", "joining", "joining_dtor"}
        /\ zip' \in {"null", "live", "dead", "terminated"}
    BY <1>1, <1>12, Zenon DEF TypeOK, Destruct
  <2> QED
    BY <1>1, <1>12, <2>1, <2>2 DEF TypeOK, Destruct, spanVars, workVars
<1>13. CASE Join
  BY <1>1, <1>13 DEF TypeOK, Join, spanVars, workVars
<1>14. CASE UNCHANGED zipkinVars
  BY <1>1, <1>14 DEF TypeOK, zipkinVars, spanVars, workVars, stopVars
<1> QED
  BY <1>2, <1>3, <1>4, <1>5, <1>6, <1>7, <1>8, <1>9, <1>10, <1>11, <1>12, <1>13, <1>14
  DEF ZipkinNext, Ended

-----------------------------------------------------------------------------

\* Objects and spans: only Move copies a span, and it leaves the source with
\* id 0, which ~zipkin_span tests before it goes into log().
LEMMA HoldsStep == ZipkinInv /\ [ZipkinNext]_zipkinVars => HoldsSpan'
<1> SUFFICES ASSUME ZipkinInv, [ZipkinNext]_zipkinVars PROVE HoldsSpan'
  OBVIOUS
<1> USE Constants
<1>1. TypeOK /\ HoldsSpan
  BY DEF ZipkinInv
<1>2. ASSUME UNCHANGED <<obj, at>> PROVE HoldsSpan'
  BY <1>1, <1>2 DEF HoldsSpan
<1>3. ASSUME NEW o \in Obj, Create(o) PROVE HoldsSpan'
  <2>1. PICK id \in get_next_unique_id : obj' = [obj EXCEPT ![o] = [n |-> created + 1, id |-> id]]
    BY <1>3 DEF Create
  <2>2. [n |-> created + 1, id |-> id] \in Span
    BY <1>1, <1>3, IdsInRange DEF Span, TypeOK, Create
  <2> QED
    BY <1>1, <1>3, <2>1, <2>2 DEF TypeOK, HoldsSpan, Create
<1>4. ASSUME NEW o \in Obj, NEW h \in 0..(IdMod - 1), NEW sha \in BOOLEAN, CreateWithId(o, h, sha)
      PROVE HoldsSpan'
  <2> DEFINE id == HashId(h, sha)
  <2>1. id \in 0..(IdMod - 1) /\ obj' = [obj EXCEPT ![o] = [n |-> created + 1, id |-> id]]
    BY <1>4, ToIdInRange, HashedSpan
  <2> HIDE DEF id
  <2>2. [n |-> created + 1, id |-> id] \in Span
    BY <1>1, <1>4, <2>1 DEF Span, TypeOK, CreateWithId
  <2>3. at' = [at EXCEPT ![o] = "alive"]
    BY <1>4 DEF CreateWithId
  <2> QED
    BY <1>1, <2>1, <2>2, <2>3 DEF TypeOK, HoldsSpan
<1>5. ASSUME NEW o \in Obj, NEW p \in Obj, Move(o, p) PROVE HoldsSpan'
  <2>1. o # p /\ obj[o] \in Span
    BY <1>1, <1>5 DEF TypeOK, HoldsSpan, Move
  <2>2. [obj[o] EXCEPT !.id = 0] \in Span
    BY <2>1 DEF Span
  <2>3. obj' = [obj EXCEPT ![p] = obj[o], ![o] = [obj[o] EXCEPT !.id = 0]]
    BY <1>1, <1>5, <2>1 DEF TypeOK, Move
  <2> QED
    BY <1>1, <1>5, <2>1, <2>2, <2>3 DEF TypeOK, HoldsSpan, Move
<1>6. ASSUME NEW o \in Obj, Destroy(o) PROVE HoldsSpan'
  BY <1>1, <1>6 DEF TypeOK, HoldsSpan, Destroy
<1>7. ASSUME NEW o \in Obj, Post(o) PROVE HoldsSpan'
  BY <1>1, <1>7 DEF TypeOK, HoldsSpan, Post
<1>8. CASE ConfigInit \/ TakeHandler \/ RunReturns \/ Shutdown \/ Destruct \/ Join \/ UNCHANGED zipkinVars
  BY <1>2, <1>8 DEF ConfigInit, TakeHandler, RunReturns, Shutdown, Destruct, Join, zipkinVars, spanVars
<1>9. ASSUME NEW ok \in BOOLEAN, PostSync(ok) PROVE HoldsSpan'
  BY <1>2, <1>9 DEF PostSync, spanVars
<1> QED
  BY <1>3, <1>4, <1>5, <1>6, <1>7, <1>8, <1>9 DEF ZipkinNext, Ended

\* The worker: ctx.run returns with an empty queue, so that whatever is queued
\* afterwards was posted late; thread.join() waits for that.
LEMMA WorkerStep == ZipkinInv /\ [ZipkinNext]_zipkinVars => WorkerLife'
<1> SUFFICES ASSUME ZipkinInv, [ZipkinNext]_zipkinVars PROVE WorkerLife'
  OBVIOUS
<1>1. TypeOK /\ HoldsSpan /\ WorkerLife
  BY DEF ZipkinInv
<1>2. ASSUME UNCHANGED <<queue, current, worker, late, joined>>, zip' = zip \/ zip' # "null"
      PROVE WorkerLife'
  BY <1>1, <1>2 DEF WorkerLife
<1>3. CASE \/ UNCHANGED zipkinVars
           \/ \E o \in Obj : Create(o) \/ Destroy(o)
           \/ \E o \in Obj, h \in 0..(IdMod - 1), sha \in BOOLEAN : CreateWithId(o, h, sha)
           \/ \E o, p \in Obj : Move(o, p)
           \/ Shutdown
           \/ Destruct
  BY <1>2, <1>3 DEF Create, Destroy, CreateWithId, Move, Shutdown, Destruct, zipkinVars, workVars, stopVars
<1>4. CASE ConfigInit
  BY <1>1, <1>4 DEF WorkerLife, ConfigInit, stopVars
<1>5. ASSUME NEW o \in Obj, Post(o) PROVE WorkerLife'
  <2>1. ASSUME worker = "ended", NEW i \in 1..Len(queue') PROVE queue'[i].n \in late'
    <3>1. CASE i \in 1..Len(queue)
      <4>1. queue'[i] = queue[i]
        BY <1>1, <1>5, <3>1 DEF TypeOK, Post
      <4> QED
        BY <1>1, <1>5, <2>1, <3>1, <4>1 DEF WorkerLife, Post
    <3>2. CASE i \notin 1..Len(queue)
      <4>1. queue'[i] = obj[o]
        BY <1>1, <1>5, <2>1, <3>2 DEF TypeOK, Post
      <4> QED
        BY <1>5, <2>1, <4>1 DEF Post
    <3> QED
      BY <3>1, <3>2
  <2> QED
    BY <1>1, <1>5, <2>1 DEF WorkerLife, Post, stopVars
<1>6. CASE TakeHandler
  BY <1>1, <1>6 DEF WorkerLife, TakeHandler, stopVars
<1>7. ASSUME NEW ok \in BOOLEAN, PostSync(ok) PROVE WorkerLife'
  BY <1>1, <1>7 DEF WorkerLife, PostSync, stopVars
<1>8. CASE RunReturns
  BY <1>1, <1>8 DEF WorkerLife, RunReturns, stopVars
<1>9. CASE Join
  BY <1>1, <1>9 DEF WorkerLife, Join, workVars
<1> QED
  BY <1>3, <1>4, <1>5, <1>6, <1>7, <1>8, <1>9 DEF ZipkinNext, Ended

\* The run of failures: only the end of a post changes it, and impl::log
\* starts none at the limit.
LEMMA ErrorsStep == ZipkinInv /\ [ZipkinNext]_zipkinVars => ErrorsCounted'
<1> SUFFICES ASSUME ZipkinInv, [ZipkinNext]_zipkinVars PROVE ErrorsCounted'
  OBVIOUS
<1> USE Constants
<1>1. TypeOK /\ ErrorsCounted
  BY DEF ZipkinInv
<1>2. ASSUME UNCHANGED <<reported, consecutive_errors, current>> PROVE ErrorsCounted'
  BY <1>1, <1>2 DEF ErrorsCounted
<1>3. ASSUME NEW ok \in BOOLEAN, PostSync(ok) PROVE ErrorsCounted'
  <2> DEFINE r == [n |-> current.n, ok |-> ok]
  <2>1. reported \in Seq([n : 1..MaxSpans, ok : BOOLEAN]) /\ consecutive_errors \in Nat
    BY <1>1 DEF TypeOK
  <2>2. /\ Len(reported') = Len(reported) + 1
        /\ reported'[Len(reported) + 1] = r
        /\ \A i \in 1..Len(reported) : reported'[i] = reported[i]
    BY <1>3, <2>1 DEF PostSync
  <2>3. current' = NoSpan
    BY <1>3 DEF PostSync
  <2>4. CASE ok
    <3>1. consecutive_errors' = 0
      BY <1>3, <2>4 DEF PostSync
    <3> QED
      BY <2>1, <2>2, <2>3, <2>4, <3>1 DEF ErrorsCounted
  <2>5. CASE ~ok
    <3>1. consecutive_errors' = consecutive_errors + 1
      BY <1>3, <2>5 DEF PostSync
    <3>2. Len(reported') >= consecutive_errors'
      BY <1>1, <2>1, <2>2, <3>1 DEF ErrorsCounted
    <3>3. ASSUME NEW i \in 1..Len(reported'), i > Len(reported') - consecutive_errors'
          PROVE  ~reported'[i].ok
      BY <1>1, <2>1, <2>2, <2>5, <3>1, <3>3 DEF ErrorsCounted
    <3>4. ASSUME Len(reported') > consecutive_errors'
          PROVE  reported'[Len(reported') - consecutive_errors'].ok
      <4>1. /\ Len(reported') - consecutive_errors' = Len(reported) - consecutive_errors
            /\ Len(reported) - consecutive_errors \in 1..Len(reported)
        BY <2>1, <2>2, <3>1, <3>4
      <4> QED
        BY <1>1, <2>1, <2>2, <4>1 DEF ErrorsCounted
    <3> QED
      BY <2>3, <3>2, <3>3, <3>4 DEF ErrorsCounted
  <2> QED
    BY <2>4, <2>5
<1>4. CASE TakeHandler
  BY <1>1, <1>4 DEF TypeOK, ErrorsCounted, TakeHandler
<1>5. CASE \/ UNCHANGED zipkinVars
           \/ \E o \in Obj : Create(o) \/ Destroy(o) \/ Post(o)
           \/ \E o \in Obj, h \in 0..(IdMod - 1), sha \in BOOLEAN : CreateWithId(o, h, sha)
           \/ \E o, p \in Obj : Move(o, p)
           \/ ConfigInit \/ RunReturns \/ Shutdown \/ Destruct \/ Join
  BY <1>2, <1>5 DEF Create, Destroy, Post, CreateWithId, Move, ConfigInit, RunReturns, Shutdown,
                    Destruct, Join, zipkinVars, workVars
<1> QED
  BY <1>3, <1>4, <1>5 DEF ZipkinNext, Ended

\* Spans do not leave the worker's hands and come back: a step adds no number
\* to the worker's spans, but for Post, which adds that of the object.
LEMMA KnownStep ==
  ASSUME ZipkinInv, [ZipkinNext]_zipkinVars, NEW n, Known(n)'
  PROVE  Known(n) \/ \E o \in Obj : Post(o) /\ n = obj[o].n
<1>1. TypeOK
  BY DEF ZipkinInv
<1>2. CASE UNCHANGED <<queue, current, reported>>
  BY <1>2 DEF Known
<1>3. ASSUME NEW o \in Obj, Post(o) PROVE Known(n) \/ n = obj[o].n
  <2>1. /\ Len(queue') = Len(queue) + 1 /\ queue'[Len(queue) + 1] = obj[o]
        /\ \A i \in 1..Len(queue) : queue'[i] = queue[i]
    BY <1>1, <1>3 DEF TypeOK, Post
  <2>2. UNCHANGED <<current, reported>> /\ Len(queue) \in Nat
    BY <1>1, <1>3 DEF TypeOK, Post
  <2> QED
    BY <2>1, <2>2 DEF Known
<1>4. CASE TakeHandler
  <2>1. /\ current' = NoSpan \/ current' = queue[1]
        /\ queue \in Seq(Span) /\ Len(queue) \in Nat \ {0}
        /\ Len(queue') = Len(queue) - 1 /\ \A i \in 1..Len(queue') : queue'[i] = queue[i + 1]
        /\ reported' = reported
    BY <1>1, <1>4 DEF TypeOK, TakeHandler
  <2>2. CASE \E i \in 1..Len(queue') : queue'[i].n = n
    <3>1. PICK i \in 1..Len(queue') : queue'[i].n = n
      BY <2>2
    <3>2. i + 1 \in 1..Len(queue) /\ queue[i + 1].n = n
      BY <2>1, <3>1
    <3> QED
      BY <3>2 DEF Known
  <2>3. CASE current' # NoSpan /\ current'.n = n
    <3>1. queue[1].n = n /\ 1 \in 1..Len(queue)
      BY <2>1, <2>3
    <3> QED
      BY <3>1 DEF Known
  <2> QED
    BY <2>1, <2>2, <2>3 DEF Known
<1>5. ASSUME NEW ok \in BOOLEAN, PostSync(ok) PROVE Known(n)
  <2>1. /\ Len(reported') = Len(reported) + 1 /\ reported'[Len(reported) + 1].n = current.n
        /\ \A i \in 1..Len(reported) : reported'[i] = reported[i]
        /\ current # NoSpan /\ current' = NoSpan /\ queue' = queue /\ Len(reported) \in Nat
    BY <1>1, <1>5 DEF TypeOK, PostSync
  <2> QED
    BY <2>1 DEF Known
<1>6. CASE \/ UNCHANGED zipkinVars
           \/ \E o \in Obj : Create(o) \/ Destroy(o)
           \/ \E o \in Obj, h \in 0..(IdMod - 1), sha \in BOOLEAN : CreateWithId(o, h, sha)
           \/ \E o, p \in Obj : Move(o, p)
           \/ ConfigInit \/ RunReturns \/ Shutdown \/ Destruct \/ Join
  BY <1>2, <1>6 DEF Create, Destroy, CreateWithId, Move, ConfigInit, RunReturns, Shutdown,
                    Destruct, Join, zipkinVars, workVars
<1> QED
  BY <1>3, <1>4, <1>5, <1>6 DEF ZipkinNext, Ended

\* A span that is posted is not among the worker's, so that the worker's stay apart.
LEMMA WorkerApartStep == ZipkinInv /\ [ZipkinNext]_zipkinVars => WorkerApart'
<1> SUFFICES ASSUME ZipkinInv, [ZipkinNext]_zipkinVars PROVE WorkerApart'
  OBVIOUS
<1>1. TypeOK /\ HoldsSpan /\ WorkerApart /\ ObjectsApart /\ created \in Nat
  BY Constants DEF ZipkinInv, TypeOK
<1>2. created' \in Nat /\ created' >= created
  <2>1. created' = created \/ created' = created + 1
    BY DEF ZipkinNext, ConfigInit, Create, Destroy, Post, CreateWithId, Move, TakeHandler, PostSync,
           RunReturns, Shutdown, Destruct, Join, Ended, zipkinVars, spanVars
  <2> QED
    BY <1>1, <2>1
<1>3. ASSUME NEW n \in 1..MaxSpans, Known(n)' PROVE n <= created'
  <2>1. CASE Known(n)
    BY <1>1, <1>2, <2>1, Constants DEF WorkerApart
  <2>2. ASSUME NEW o \in Obj, Post(o), n = obj[o].n PROVE n <= created'
    BY <1>1, <1>2, <2>2, Constants DEF ObjectsApart, Post
  <2> QED
    BY <1>3, <2>1, <2>2, KnownStep
<1>4. ASSUME UNCHANGED <<queue, current, reported>> PROVE WorkerApart'
  BY <1>1, <1>3, <1>4 DEF WorkerApart
<1>5. ASSUME NEW o \in Obj, Post(o) PROVE WorkerApart'
  <2>1. /\ Len(queue') = Len(queue) + 1 /\ queue'[Len(queue) + 1] = obj[o]
        /\ \A i \in 1..Len(queue) : queue'[i] = queue[i]
        /\ UNCHANGED <<current, reported>> /\ Len(queue) \in Nat
    BY <1>1, <1>5 DEF TypeOK, Post
  <2>2. ~Known(obj[o].n)
    BY <1>1, <1>5 DEF HoldsSpan, ObjectsApart, Owns, Post
  <2>3. /\ \A i \in 1..Len(queue) : queue[i].n # obj[o].n
        /\ \A i \in 1..Len(reported) : reported[i].n # obj[o].n
        /\ current # NoSpan => current.n # obj[o].n
    BY <2>2 DEF Known
  <2>4. \A i, j \in 1..Len(queue') : queue'[i].n = queue'[j].n => i = j
    BY <1>1, <2>1, <2>3 DEF WorkerApart
  <2> QED
    BY <1>1, <1>3, <2>1, <2>3, <2>4 DEF WorkerApart
<1>6. CASE TakeHandler
  <2>1. /\ current' = NoSpan \/ current' = queue[1]
        /\ queue \in Seq(Span) /\ Len(queue) \in Nat \ {0}
        /\ Len(queue') = Len(queue) - 1 /\ \A i \in 1..Len(queue') : queue'[i] = queue[i + 1]
        /\ reported' = reported
    BY <1>1, <1>6 DEF TypeOK, TakeHandler
  <2>2. \A i \in 1..Len(queue') : i + 1 \in 1..Len(queue) /\ i + 1 # 1
    BY <2>1
  <2>3. 1 \in 1..Len(queue)
    BY <2>1
  <2>4. \A i, j \in 1..Len(queue') : queue'[i].n = queue'[j].n => i = j
    BY <1>1, <2>1, <2>2 DEF WorkerApart
  <2>5. \A i \in 1..Len(reported'), j \in 1..Len(queue') : reported'[i].n # queue'[j].n
    BY <1>1, <2>1, <2>2 DEF WorkerApart
  <2>6. current' # NoSpan => /\ \A i \in 1..Len(reported') : reported'[i].n # current'.n
                             /\ \A i \in 1..Len(queue') : queue'[i].n # current'.n
    BY <1>1, <2>1, <2>2, <2>3 DEF WorkerApart
  <2> QED
    BY <1>1, <1>3, <2>1, <2>4, <2>5, <2>6 DEF WorkerApart
<1>7. ASSUME NEW ok \in BOOLEAN, PostSync(ok) PROVE WorkerApart'
  <2>1. /\ Len(reported') = Len(reported) + 1 /\ reported'[Len(reported) + 1].n = current.n
        /\ \A i \in 1..Len(reported) : reported'[i] = reported[i]
        /\ current # NoSpan /\ current' = NoSpan /\ queue' = queue /\ Len(reported) \in Nat
    BY <1>1, <1>7 DEF TypeOK, PostSync
  <2>2. \A i, j \in 1..Len(reported') : reported'[i].n = reported'[j].n => i = j
    BY <1>1, <2>1 DEF WorkerApart
  <2>3. \A i \in 1..Len(reported'), j \in 1..Len(queue') : reported'[i].n # queue'[j].n
    BY <1>1, <2>1 DEF WorkerApart
  <2> QED
    BY <1>1, <1>3, <2>1, <2>2, <2>3 DEF WorkerApart
<1>8. CASE \/ UNCHANGED zipkinVars
           \/ \E o \in Obj : Create(o) \/ Destroy(o)
           \/ \E o \in Obj, h \in 0..(IdMod - 1), sha \in BOOLEAN : CreateWithId(o, h, sha)
           \/ \E o, p \in Obj : Move(o, p)
           \/ ConfigInit \/ RunReturns \/ Shutdown \/ Destruct \/ Join
  BY <1>4, <1>8 DEF Create, Destroy, CreateWithId, Move, ConfigInit, RunReturns, Shutdown,
                    Destruct, Join, zipkinVars, workVars
<1> QED
  BY <1>5, <1>6, <1>7, <1>8 DEF ZipkinNext, Ended

\* A new span has a number of its own.
LEMMA NewSpanApart ==
  ASSUME ZipkinInv, [ZipkinNext]_zipkinVars, NEW o \in Obj, NEW id,
         obj' = [obj EXCEPT ![o] = [n |-> created + 1, id |-> id]],
         at' = [at EXCEPT ![o] = "alive"], created' = created + 1, created < MaxSpans,
         UNCHANGED workVars
  PROVE  ObjectsApart'
<1>1. TypeOK /\ WorkerApart /\ ObjectsApart /\ created \in Nat
  BY Constants DEF ZipkinInv, TypeOK
<1>2. obj'[o].n = created + 1 /\ \A p \in Obj \ {o} : obj'[p] = obj[p] /\ at'[p] = at[p]
  BY <1>1 DEF TypeOK
<1>3. \A p \in Obj \ {o} : at[p] # "free" => obj[p].n <= created
  BY <1>1 DEF ObjectsApart
<1>4. \A n : Known(n)' <=> Known(n)
  BY DEF Known, workVars
<1>5. ~Known(created + 1)
  <2>1. created + 1 \in 1..MaxSpans /\ ~(created + 1 <= created)
    BY <1>1, Constants
  <2> QED
    BY <1>1, <2>1 DEF WorkerApart
<1>6. \A p \in Obj : at'[p] # "free" => obj'[p].n <= created'
  <2> SUFFICES ASSUME NEW p \in Obj, at'[p] # "free" PROVE obj'[p].n <= created'
    OBVIOUS
  <2>1. CASE p = o
    BY <1>1, <1>2, <2>1
  <2>2. CASE p # o
    <3>1. obj'[p] = obj[p] /\ obj[p].n <= created /\ obj[p] # NoSpan /\ at[p] # "free"
      BY <1>2, <1>3, <2>2 DEF ZipkinInv, HoldsSpan
    <3>2. obj[p].n \in Nat
      BY <1>1, <3>1, Constants DEF TypeOK, Span
    <3> QED
      BY <1>1, <3>1, <3>2
  <2> QED
    BY <2>1, <2>2
<1>7. \A p \in Obj \ {o} : at[p] # "free" => obj[p].n # created + 1
  BY <1>1, <1>3
<1>8. \A p \in Obj \ {o} : Owns(p)' <=> Owns(p)
  BY <1>2 DEF Owns
<1>9. \A p \in Obj : Owns(p)' => ~Known(obj'[p].n)
  BY <1>1, <1>2, <1>5, <1>8 DEF ObjectsApart
<1>10. \A p, q \in Obj : Owns(p)' /\ Owns(q)' /\ obj'[p].n = obj'[q].n => p = q
  BY <1>1, <1>2, <1>7, <1>8 DEF ObjectsApart, Owns
<1> QED
  BY <1>4, <1>6, <1>9, <1>10 DEF ObjectsApart

\* The span of an object leaves it for one other object or for the queue, and
\* a destructor that does neither forgets it.
LEMMA ObjectsApartStep == ZipkinInv /\ [ZipkinNext]_zipkinVars => ObjectsApart'
<1> SUFFICES ASSUME ZipkinInv, [ZipkinNext]_zipkinVars PROVE ObjectsApart'
  OBVIOUS
<1> USE Constants
<1>1. TypeOK /\ HoldsSpan /\ WorkerApart /\ ObjectsApart
  BY DEF ZipkinInv
<1>2. ASSUME NEW o \in Obj, Create(o) PROVE ObjectsApart'
  <2>1. PICK id : obj' = [obj EXCEPT ![o] = [n |-> created + 1, id |-> id]]
    BY <1>2 DEF Create
  <2> QED
    BY <1>2, <2>1, NewSpanApart DEF Create
<1>3. ASSUME NEW o \in Obj, NEW h \in 0..(IdMod - 1), NEW sha \in BOOLEAN, CreateWithId(o, h, sha)
      PROVE ObjectsApart'
  BY <1>3, NewSpanApart, HashedSpan DEF CreateWithId
<1>4. ASSUME NEW o \in Obj, NEW p \in Obj, Move(o, p) PROVE ObjectsApart'
  <2>1. o # p /\ obj[o] \in Span /\ ~Owns(p)
    BY <1>1, <1>4 DEF TypeOK, HoldsSpan, Move, Owns
  <2>2. obj' = [obj EXCEPT ![p] = obj[o], ![o] = [obj[o] EXCEPT !.id = 0]]
    BY <1>1, <1>4, <2>1 DEF TypeOK, Move
  <2>3. /\ obj'[p] = obj[o] /\ obj'[o].n = obj[o].n /\ obj'[o].id = 0
        /\ \A q \in Obj \ {o, p} : obj'[q] = obj[q]
        /\ at'[p] = "alive" /\ \A q \in Obj \ {p} : at'[q] = at[q]
    BY <1>1, <1>4, <2>1, <2>2 DEF TypeOK, Move, Span
  <2>4. /\ ~Owns(o)' /\ (Owns(p)' => Owns(o))
        /\ \A q \in Obj \ {o, p} : Owns(q)' <=> Owns(q)
    BY <1>4, <2>1, <2>3 DEF Owns, Move
  <2>5. \A n : Known(n)' <=> Known(n)
    BY <1>4 DEF Move, Known, workVars
  <2>6. \A q \in Obj : at'[q] # "free" => obj'[q].n <= created'
    BY <1>1, <1>4, <2>1, <2>3 DEF ObjectsApart, Move
  <2>7. \A q \in Obj : Owns(q)' => ~Known(obj'[q].n)
    BY <1>1, <2>3, <2>4 DEF ObjectsApart
  <2>8. \A q, r \in Obj : Owns(q)' /\ Owns(r)' /\ obj'[q].n = obj'[r].n => q = r
    BY <1>1, <2>3, <2>4 DEF ObjectsApart
  <2> QED
    BY <2>5, <2>6, <2>7, <2>8 DEF ObjectsApart
<1>5. ASSUME NEW o \in Obj, Destroy(o) PROVE ObjectsApart'
  <2>1. \A q \in Obj : at'[q] # "free" => at[q] # "free" /\ obj'[q] = obj[q]
    BY <1>1, <1>5 DEF TypeOK, Destroy
  <2>2. \A q \in Obj : Owns(q)' => Owns(q) /\ obj'[q] = obj[q]
    BY <2>1 DEF Owns
  <2>3. \A n : Known(n)' <=> Known(n)
    BY <1>5 DEF Destroy, Known, workVars
  <2> QED
    BY <1>1, <1>5, <2>1, <2>2, <2>3 DEF ObjectsApart, Destroy
<1>6. ASSUME NEW o \in Obj, Post(o) PROVE ObjectsApart'
  <2>1. \A q \in Obj : at'[q] # "free" => q # o /\ at[q] # "free" /\ obj'[q] = obj[q]
    BY <1>1, <1>6 DEF TypeOK, Post
  <2>2. \A q \in Obj : Owns(q)' => q # o /\ Owns(q) /\ obj'[q] = obj[q]
    BY <2>1 DEF Owns
  <2>3. Owns(o)
    BY <1>1, <1>6 DEF HoldsSpan, Owns, Post
  <2>4. \A q \in Obj : Post(q) => q = o
    BY <1>1, <1>6 DEF TypeOK, Post
  <2>5. ASSUME NEW q \in Obj, Owns(q)', NEW n, n = obj'[q].n, Known(n)' PROVE FALSE
    <3>1. n = obj[q].n /\ n # obj[o].n /\ ~Known(n)
      BY <1>1, <2>2, <2>3, <2>5 DEF ObjectsApart
    <3>2. Known(n) \/ \E r \in Obj : Post(r) /\ n = obj[r].n
      BY <2>5, KnownStep
    <3> QED
      BY <2>4, <3>1, <3>2
  <2>6. \A q \in Obj : Owns(q)' => ~Known(obj[q].n)'
    BY <2>5
  <2> QED
    BY <1>1, <1>6, <2>1, <2>2, <2>6 DEF ObjectsApart, Post
<1>7. ASSUME UNCHANGED <<obj, at, created>> PROVE ObjectsApart'
  <2>1. \A q \in Obj : Owns(q)' <=> Owns(q)
    BY <1>7 DEF Owns
  <2>2. \A q \in Obj : ~Post(q)
    BY <1>1, <1>7 DEF TypeOK, Post
  <2>3. \A n : Known(n)' => Known(n)
    BY <2>2, KnownStep
  <2> QED
    BY <1>1, <1>7, <2>1, <2>3 DEF ObjectsApart
<1>8. CASE \/ UNCHANGED zipkinVars \/ ConfigInit \/ TakeHandler \/ (\E ok \in BOOLEAN : PostSync(ok))
           \/ RunReturns \/ Shutdown \/ Destruct \/ Join
  BY <1>7, <1>8 DEF ConfigInit, TakeHandler, PostSync, RunReturns, Shutdown, Destruct, Join,
                    zipkinVars, spanVars
<1> QED
  BY <1>2, <1>3, <1>4, <1>5, <1>6, <1>8 DEF ZipkinNext, Ended

\* A step takes no span from the worker but to drop it.
LEMMA StaysKnown ==
  ASSUME ZipkinInv, [ZipkinNext]_zipkinVars, NEW n, Known(n)
  PROVE  Known(n)' \/ n \in dropped'
<1>1. TypeOK
  BY DEF ZipkinInv
<1>2. CASE UNCHANGED <<queue, current, reported>>
  BY <1>2 DEF Known
<1>3. ASSUME NEW o \in Obj, Post(o) PROVE Known(n)'
  <2>1. /\ Len(queue') = Len(queue) + 1 /\ \A i \in 1..Len(queue) : queue'[i] = queue[i]
        /\ UNCHANGED <<current, reported>> /\ Len(queue) \in Nat
    BY <1>1, <1>3 DEF TypeOK, Post
  <2> QED
    BY <2>1 DEF Known
<1>4. CASE TakeHandler
  <2>1. /\ queue \in Seq(Span) /\ Len(queue) \in Nat \ {0} /\ current = NoSpan
        /\ Len(queue') = Len(queue) - 1 /\ \A i \in 1..Len(queue') : queue'[i] = queue[i + 1]
        /\ reported' = reported
    BY <1>1, <1>4 DEF TypeOK, TakeHandler
  <2>2. queue[1] \in Span /\ (current' = queue[1] \/ queue[1].n \in dropped')
    BY <1>1, <1>4, <2>1 DEF TakeHandler
  <2>3. CASE \E i \in 1..Len(queue) : queue[i].n = n
    <3>1. PICK i \in 1..Len(queue) : queue[i].n = n
      BY <2>3
    <3>2. CASE i = 1
      BY <2>2, <3>1, <3>2, Constants DEF Known
    <3>3. CASE i # 1
      <4>1. i - 1 \in 1..Len(queue') /\ queue'[i - 1] = queue[i]
        BY <2>1, <3>1, <3>3
      <4> QED
        BY <3>1, <4>1 DEF Known
    <3> QED
      BY <3>2, <3>3
  <2> QED
    BY <2>1, <2>3 DEF Known
<1>5. ASSUME NEW ok \in BOOLEAN, PostSync(ok) PROVE Known(n)'
  <2>1. /\ Len(reported') = Len(reported) + 1 /\ reported'[Len(reported) + 1].n = current.n
        /\ \A i \in 1..Len(reported) : reported'[i] = reported[i]
        /\ queue' = queue /\ Len(reported) \in Nat
    BY <1>1, <1>5 DEF TypeOK, PostSync
  <2> QED
    BY <2>1 DEF Known
<1>6. CASE \/ UNCHANGED zipkinVars
           \/ \E o \in Obj : Create(o) \/ Destroy(o)
           \/ \E o \in Obj, h \in 0..(IdMod - 1), sha \in BOOLEAN : CreateWithId(o, h, sha)
           \/ \E o, p \in Obj : Move(o, p)
           \/ ConfigInit \/ RunReturns \/ Shutdown \/ Destruct \/ Join
  BY <1>2, <1>6 DEF Create, Destroy, CreateWithId, Move, ConfigInit, RunReturns, Shutdown,
                    Destruct, Join, zipkinVars, workVars
<1> QED
  BY <1>3, <1>4, <1>5, <1>6 DEF ZipkinNext, Ended

\* What was dropped or flagged stays so.
LEMMA HistoryGrows ==
  ASSUME [ZipkinNext]_zipkinVars PROVE dropped \subseteq dropped' /\ flagged \subseteq flagged'
BY DEF ZipkinNext, ConfigInit, Create, Destroy, Post, CreateWithId, Move, TakeHandler, PostSync,
       RunReturns, Shutdown, Destruct, Join, Ended, zipkinVars, spanVars, workVars

\* A span's owner keeps it, hands it to one other object, posts it or drops it.
LEMMA OwnedStays ==
  ASSUME ZipkinInv, [ZipkinNext]_zipkinVars, NEW o \in Obj, Owns(o), NEW n, n = obj[o].n
  PROVE  Accounted(n)'
<1>1. TypeOK /\ HoldsSpan
  BY DEF ZipkinInv
<1>2. ASSUME NEW p \in Obj, Owns(p)', obj'[p].n = n PROVE Accounted(n)'
  BY <1>2 DEF Accounted
<1>3. ASSUME obj'[o] = obj[o], at'[o] # "free" PROVE Accounted(n)'
  BY <1>2, <1>3 DEF Owns
<1>4. ASSUME NEW p \in Obj, Create(p) PROVE Accounted(n)'
  BY <1>1, <1>3, <1>4 DEF Create, Owns, TypeOK
<1>5. ASSUME NEW p \in Obj, NEW h \in 0..(IdMod - 1), NEW sha \in BOOLEAN, CreateWithId(p, h, sha)
      PROVE Accounted(n)'
  BY <1>1, <1>3, <1>5 DEF CreateWithId, Owns, TypeOK
<1>6. ASSUME NEW q \in Obj, NEW p \in Obj, Move(q, p) PROVE Accounted(n)'
  <2>1. q # p /\ p # o
    BY <1>6 DEF Move, Owns
  <2>2. CASE q = o
    <3>1. obj'[p] = obj[o] /\ at'[p] = "alive"
      BY <1>1, <1>6, <2>1, <2>2 DEF TypeOK, Move
    <3> QED
      BY <1>2, <3>1 DEF Owns
  <2>3. CASE q # o
    BY <1>1, <1>3, <1>6, <2>1, <2>3 DEF TypeOK, Move, Owns
  <2> QED
    BY <2>2, <2>3
<1>7. ASSUME NEW p \in Obj, Destroy(p) PROVE Accounted(n)'
  <2>1. CASE p # o
    BY <1>1, <1>3, <1>7, <2>1 DEF TypeOK, Destroy, Owns
  <2>2. CASE p = o
    <3>1. CASE Refuses
      BY <1>7, <2>2, <3>1 DEF Destroy, Owns, Accounted
    <3>2. CASE ~Refuses
      BY <1>1, <1>3, <1>7, <2>2, <3>2 DEF TypeOK, Destroy, Owns
    <3> QED
      BY <3>1, <3>2
  <2> QED
    BY <2>1, <2>2
<1>8. ASSUME NEW p \in Obj, Post(p) PROVE Accounted(n)'
  <2>1. CASE p # o
    BY <1>1, <1>3, <1>8, <2>1 DEF TypeOK, Post, Owns
  <2>2. CASE p = o
    <3>1. Len(queue) + 1 \in 1..Len(queue') /\ queue'[Len(queue) + 1] = obj[o]
      BY <1>1, <1>8, <2>2 DEF TypeOK, Post
    <3> QED
      BY <3>1 DEF Accounted, Known
  <2> QED
    BY <2>1, <2>2
<1>9. CASE \/ UNCHANGED zipkinVars \/ ConfigInit \/ TakeHandler \/ (\E ok \in BOOLEAN : PostSync(ok))
           \/ RunReturns \/ Shutdown \/ Destruct \/ Join
  BY <1>3, <1>9 DEF ConfigInit, TakeHandler, PostSync, RunReturns, Shutdown, Destruct, Join,
                    zipkinVars, spanVars, Owns
<1> QED
  BY <1>4, <1>5, <1>6, <1>7, <1>8, <1>9 DEF ZipkinNext, Ended

\* A span that exists stays accounted for, and a new one has an owner unless its
\* id is the 0 of the template.
LEMMA AccountedStep == ZipkinInv /\ [ZipkinNext]_zipkinVars => SpansAccounted'
<1> SUFFICES ASSUME ZipkinInv, [ZipkinNext]_zipkinVars PROVE SpansAccounted'
  OBVIOUS
<1>1. TypeOK /\ SpansAccounted /\ created \in Nat
  BY Constants DEF ZipkinInv, TypeOK
<1>2. ASSUME NEW n \in 1..created PROVE n \in flagged' \/ Accounted(n)'
  <2>1. CASE n \in flagged \/ n \in dropped
    BY <2>1, HistoryGrows DEF Accounted
  <2>2. CASE Known(n)
    BY <2>2, StaysKnown DEF Accounted
  <2>3. CASE \E o \in Obj : Owns(o) /\ obj[o].n = n
    <3>1. PICK o \in Obj : Owns(o) /\ obj[o].n = n
      BY <2>3
    <3> QED
      BY <3>1, OwnedStays
  <2> QED
    BY <1>1, <2>1, <2>2, <2>3 DEF SpansAccounted, Accounted
<1>3. ASSUME created' = created PROVE SpansAccounted'
  BY <1>2, <1>3 DEF SpansAccounted
<1>4. ASSUME created' = created + 1, NEW m, m = created + 1, m \in flagged' \/ Accounted(m)'
      PROVE SpansAccounted'
  <2>1. 1..created' = (1..created) \cup {created + 1}
    BY <1>1, <1>4
  <2> QED
    BY <1>2, <1>4, <2>1 DEF SpansAccounted
<1>5. ASSUME NEW o \in Obj, Create(o) PROVE SpansAccounted'
  <2>1. PICK id \in get_next_unique_id : obj' = [obj EXCEPT ![o] = [n |-> created + 1, id |-> id]]
    BY <1>5 DEF Create
  <2>2. id # 0
    BY <1>1, IdsInRange, Constants
  <2>3. Owns(o)' /\ obj'[o].n = created + 1
    BY <1>1, <1>5, <2>1, <2>2 DEF TypeOK, Create, Owns
  <2>4. ASSUME NEW m, m = created + 1 PROVE Accounted(m)'
    BY <2>3, <2>4 DEF Accounted
  <2> QED
    BY <1>4, <1>5, <2>4 DEF Create
<1>6. ASSUME NEW o \in Obj, NEW h \in 0..(IdMod - 1), NEW sha \in BOOLEAN, CreateWithId(o, h, sha)
      PROVE SpansAccounted'
  <2>1. CASE HashId(h, sha) = 0
    <3>1. ~sha
      BY <2>1, ToIdInRange
    <3>2. created + 1 \in flagged'
      BY <1>6, <2>1, <3>1, HashedSpan
    <3> QED
      BY <1>4, <1>6, <3>2 DEF CreateWithId
  <2>2. CASE HashId(h, sha) # 0
    <3>1. obj' = [obj EXCEPT ![o] = [n |-> created + 1, id |-> HashId(h, sha)]]
      BY <1>6, HashedSpan
    <3>2. Owns(o)' /\ obj'[o].n = created + 1
      BY <1>1, <1>6, <2>2, <3>1 DEF TypeOK, CreateWithId, Owns
    <3>3. ASSUME NEW m, m = created + 1 PROVE Accounted(m)'
      BY <3>2, <3>3 DEF Accounted
    <3> QED
      BY <1>4, <1>6, <3>3 DEF CreateWithId
  <2> QED
    BY <2>1, <2>2
<1>7. CASE \/ UNCHANGED zipkinVars \/ ConfigInit \/ TakeHandler \/ (\E ok \in BOOLEAN : PostSync(ok))
           \/ (\E o \in Obj : Destroy(o) \/ Post(o)) \/ (\E o, p \in Obj : Move(o, p))
           \/ RunReturns \/ Shutdown \/ Destruct \/ Join
  BY <1>3, <1>7 DEF ConfigInit, TakeHandler, PostSync, Destroy, Post, Move, RunReturns, Shutdown,
                    Destruct, Join, zipkinVars, spanVars
<1> QED
  BY <1>5, <1>6, <1>7 DEF ZipkinNext, Ended

\* A step accounts for no span but those accounted for before and a new one that
\* it gives to an object.
LEMMA AccountedBefore ==
  ASSUME ZipkinInv, [ZipkinNext]_zipkinVars, NEW n, Accounted(n)'
  PROVE  \/ Accounted(n)
         \/ n = created + 1 /\ created' = created + 1
<1>1. TypeOK /\ HoldsSpan
  BY DEF ZipkinInv
<1>2. CASE Known(n)'
  <2>1. CASE Known(n)
    BY <2>1 DEF Accounted
  <2>2. ASSUME NEW o \in Obj, Post(o), n = obj[o].n PROVE Accounted(n)
    <3>1. Owns(o)
      BY <1>1, <2>2 DEF HoldsSpan, Owns, Post
    <3> QED
      BY <2>2, <3>1 DEF Accounted
  <2> QED
    BY <1>2, <2>1, <2>2, KnownStep
<1>3. CASE n \in dropped'
  <2>1. CASE n \in dropped
    BY <2>1 DEF Accounted
  <2>2. ASSUME n \notin dropped, NEW o \in Obj, Destroy(o) PROVE Accounted(n)
    <3>1. obj[o].n = n /\ Owns(o)
      BY <1>3, <2>2 DEF Destroy, Owns
    <3> QED
      BY <3>1 DEF Accounted
  <2>3. ASSUME n \notin dropped, TakeHandler PROVE Accounted(n)
    <3>1. queue[1].n = n /\ 1 \in 1..Len(queue)
      BY <1>1, <1>3, <2>3 DEF TypeOK, TakeHandler
    <3> QED
      BY <3>1 DEF Accounted, Known
  <2>4. CASE \/ UNCHANGED zipkinVars \/ ConfigInit \/ (\E ok \in BOOLEAN : PostSync(ok))
             \/ (\E o \in Obj : Create(o) \/ Post(o)) \/ (\E o, p \in Obj : Move(o, p))
             \/ (\E o \in Obj, h \in 0..(IdMod - 1), sha \in BOOLEAN : CreateWithId(o, h, sha))
             \/ RunReturns \/ Shutdown \/ Destruct \/ Join
    BY <1>3, <2>1, <2>4 DEF ConfigInit, PostSync, Create, Post, Move, CreateWithId, RunReturns, Shutdown,
                            Destruct, Join, zipkinVars, workVars
  <2> QED
    BY <2>1, <2>2, <2>3, <2>4 DEF ZipkinNext, Ended
<1>4. ASSUME NEW p \in Obj, Owns(p)', obj'[p].n = n
      PROVE  Accounted(n) \/ (n = created + 1 /\ created' = created + 1)
  <2>1. ASSUME NEW q \in Obj, Owns(q), obj[q].n = n PROVE Accounted(n)
    BY <2>1 DEF Accounted
  <2>2. ASSUME at'[p] # "free" => at[p] # "free" /\ obj'[p] = obj[p] PROVE Accounted(n)
    BY <1>4, <2>1, <2>2 DEF Owns
  <2>3. ASSUME NEW o \in Obj, Create(o)
        PROVE  Accounted(n) \/ (n = created + 1 /\ created' = created + 1)
    <3>1. PICK id : obj' = [obj EXCEPT ![o] = [n |-> created + 1, id |-> id]]
      BY <2>3 DEF Create
    <3>2. CASE p = o
      BY <1>1, <1>4, <2>3, <3>1, <3>2 DEF TypeOK, Create
    <3>3. CASE p # o
      BY <1>1, <2>2, <2>3, <3>1, <3>3 DEF TypeOK, Create
    <3> QED
      BY <3>2, <3>3
  <2>4. ASSUME NEW o \in Obj, NEW h \in 0..(IdMod - 1), NEW sha \in BOOLEAN, CreateWithId(o, h, sha)
        PROVE  Accounted(n) \/ (n = created + 1 /\ created' = created + 1)
    <3>1. obj' = [obj EXCEPT ![o] = [n |-> created + 1, id |-> HashId(h, sha)]]
      BY <2>4, HashedSpan
    <3>2. CASE p = o
      BY <1>1, <1>4, <2>4, <3>1, <3>2 DEF TypeOK, CreateWithId
    <3>3. CASE p # o
      BY <1>1, <2>2, <2>4, <3>1, <3>3 DEF TypeOK, CreateWithId
    <3> QED
      BY <3>2, <3>3
  <2>5. ASSUME NEW o \in Obj, NEW q \in Obj, Move(o, q) PROVE Accounted(n)
    <3>1. o # q /\ obj[o] \in Span
      BY <1>1, <2>5 DEF TypeOK, HoldsSpan, Move
    <3>2. obj' = [obj EXCEPT ![q] = obj[o], ![o] = [obj[o] EXCEPT !.id = 0]]
      BY <1>1, <2>5, <3>1 DEF TypeOK, Move
    <3>3. /\ obj'[q] = obj[o] /\ obj'[o].id = 0 /\ \A r \in Obj \ {o, q} : obj'[r] = obj[r]
          /\ at[o] = "alive" /\ \A r \in Obj \ {q} : at'[r] = at[r]
      BY <1>1, <2>5, <3>1, <3>2 DEF TypeOK, Move, Span
    <3>4. CASE p = q
      BY <1>4, <2>1, <3>3, <3>4 DEF Owns
    <3>5. CASE p # q
      BY <1>4, <2>2, <3>3, <3>5 DEF Owns
    <3> QED
      BY <3>4, <3>5
  <2>6. ASSUME NEW o \in Obj, Destroy(o) PROVE Accounted(n)
    BY <1>1, <2>2, <2>6 DEF TypeOK, Destroy
  <2>7. ASSUME NEW o \in Obj, Post(o) PROVE Accounted(n)
    BY <1>1, <2>2, <2>7 DEF TypeOK, Post
  <2>8. CASE \/ UNCHANGED zipkinVars \/ ConfigInit \/ TakeHandler \/ (\E ok \in BOOLEAN : PostSync(ok))
             \/ RunReturns \/ Shutdown \/ Destruct \/ Join
    BY <2>2, <2>8 DEF ConfigInit, TakeHandler, PostSync, RunReturns, Shutdown, Destruct, Join,
                      zipkinVars, spanVars
  <2> QED
    BY <2>3, <2>4, <2>5, <2>6, <2>7, <2>8 DEF ZipkinNext, Ended
<1> QED
  BY <1>2, <1>3, <1>4 DEF Accounted

\* A number that was not yet given is not accounted for.
LEMMA NewNumber ==
  ASSUME ZipkinInv, NEW m, m = created + 1, created < MaxSpans PROVE ~Accounted(m)
<1>1. created \in Nat /\ m \in 1..MaxSpans /\ ~(m <= created)
  BY Constants DEF ZipkinInv, TypeOK
<1>2. ~Known(m)
  BY <1>1 DEF ZipkinInv, WorkerApart
<1>3. m \notin dropped
  BY <1>1 DEF ZipkinInv, FlaggedGone
<1>4. \A o \in Obj : Owns(o) => obj[o].n # m
  BY <1>1 DEF ZipkinInv, ObjectsApart, Owns
<1> QED
  BY <1>2, <1>3, <1>4 DEF Accounted

\* No step accounts for a span whose id is the 0 of the template.
LEMMA FlaggedStep == ZipkinInv /\ [ZipkinNext]_zipkinVars => FlaggedGone'
<1> SUFFICES ASSUME ZipkinInv, [ZipkinNext]_zipkinVars PROVE FlaggedGone'
  OBVIOUS
<1>1. TypeOK /\ FlaggedGone /\ created \in Nat
  BY Constants DEF ZipkinInv, TypeOK
<1>2. created' \in {created, created + 1}
  BY DEF ZipkinNext, ConfigInit, Create, Destroy, Post, CreateWithId, Move, TakeHandler, PostSync,
         RunReturns, Shutdown, Destruct, Join, Ended, zipkinVars, spanVars
<1>3. ASSUME NEW n \in dropped' PROVE n \in 1..created'
  <2>1. Accounted(n)'
    BY <1>3 DEF Accounted
  <2>2. CASE n = created + 1 /\ created' = created + 1
    BY <1>1, <2>2
  <2>3. CASE Accounted(n)
    <3>1. TypeOK'
      BY TypeStep
    <3>2. n \in 1..MaxSpans
      BY <1>3, <3>1 DEF TypeOK
    <3>3. CASE Known(n)
      BY <1>1, <1>2, <3>2, <3>3, Constants DEF ZipkinInv, WorkerApart
    <3>4. CASE n \in dropped
      BY <1>1, <1>2, <3>4 DEF FlaggedGone
    <3>5. CASE \E o \in Obj : Owns(o) /\ obj[o].n = n
      BY <1>1, <1>2, <3>2, <3>5, Constants DEF ZipkinInv, ObjectsApart, Owns
    <3> QED
      BY <2>3, <3>3, <3>4, <3>5 DEF Accounted
  <2> QED
    BY <2>1, <2>2, <2>3, AccountedBefore
<1>4. ASSUME NEW o \in Obj, NEW h \in 0..(IdMod - 1), NEW sha \in BOOLEAN, CreateWithId(o, h, sha)
      PROVE  FlaggedGone'
  <2>1. /\ obj' = [obj EXCEPT ![o] = [n |-> created + 1, id |-> HashId(h, sha)]]
        /\ flagged' = IF ~sha /\ HashId(h, sha) = 0 THEN flagged \cup {created + 1} ELSE flagged
        /\ created' = created + 1 /\ created < MaxSpans /\ UNCHANGED workVars
        /\ at' = [at EXCEPT ![o] = "alive"] /\ at[o] = "free"
    BY <1>4, HashedSpan DEF CreateWithId
  <2>2. ASSUME NEW n \in flagged PROVE ~Accounted(n)'
    <3>1. ~Accounted(n) /\ n # created + 1
      BY <1>1 DEF FlaggedGone
    <3> QED
      BY <3>1, AccountedBefore
  <2>3. ASSUME HashId(h, sha) = 0, NEW m, m = created + 1 PROVE ~Accounted(m)'
    <3>1. ~Accounted(m)
      BY <2>1, <2>3, NewNumber
    <3>2. ~Owns(o)' /\ \A p \in Obj \ {o} : (Owns(p)' <=> Owns(p)) /\ obj'[p] = obj[p]
      BY <1>1, <2>1, <2>3 DEF TypeOK, Owns
    <3>3. (Known(m)' <=> Known(m)) /\ dropped' = dropped
      BY <2>1 DEF Known, workVars
    <3> QED
      BY <3>1, <3>2, <3>3 DEF Accounted
  <2>4. flagged' \subseteq 1..created'
    BY <1>1, <2>1 DEF FlaggedGone
  <2> QED
    BY <1>3, <2>1, <2>2, <2>3, <2>4 DEF FlaggedGone
<1>5. ASSUME flagged' = flagged PROVE FlaggedGone'
  <2>1. ASSUME NEW n \in flagged PROVE ~Accounted(n)'
    <3>1. ~Accounted(n) /\ n # created + 1
      BY <1>1 DEF FlaggedGone
    <3> QED
      BY <3>1, AccountedBefore
  <2>2. flagged' \subseteq 1..created'
    BY <1>1, <1>2, <1>5 DEF FlaggedGone
  <2> QED
    BY <1>3, <1>5, <2>1, <2>2 DEF FlaggedGone
<1>6. CASE \/ UNCHANGED zipkinVars \/ ConfigInit \/ TakeHandler \/ (\E ok \in BOOLEAN : PostSync(ok))
           \/ (\E o \in Obj : Create(o) \/ Destroy(o) \/ Post(o)) \/ (\E o, p \in Obj : Move(o, p))
           \/ RunReturns \/ Shutdown \/ Destruct \/ Join
  BY <1>5, <1>6 DEF ConfigInit, TakeHandler, PostSync, Create, Destroy, Post, Move, RunReturns, Shutdown,
                    Destruct, Join, zipkinVars, spanVars
<1> QED
  BY <1>4, <1>6 DEF ZipkinNext, Ended

-----------------------------------------------------------------------------
(* The theorems. *)

\* Every behaviour of the client keeps the invariant.
THEOREM ZipkinInvariance == ZipkinSafeSpec => []ZipkinInv
<1>1. ZipkinInit => ZipkinInv
  BY ZipkinInitInv
<1>2. ZipkinInv /\ [ZipkinNext]_zipkinVars => ZipkinInv'
  BY TypeStep, HoldsStep, WorkerStep, ErrorsStep, WorkerApartStep, ObjectsApartStep,
     AccountedStep, FlaggedStep DEF ZipkinInv
<1> QED
  BY <1>1, <1>2, PTL DEF ZipkinSafeSpec

\* consecutive_errors counts the failures at the end, whatever their number.
LEMMA CountMeansFailed ==
  ASSUME ZipkinInv, NEW k \in Nat
  PROVE  FailedLast(k) <=> k <= consecutive_errors
<1>1. /\ reported \in Seq([n : 1..MaxSpans, ok : BOOLEAN]) /\ consecutive_errors \in Nat
      /\ Len(reported) \in Nat
  BY Constants DEF ZipkinInv, TypeOK
<1>2. ErrorsCounted
  BY DEF ZipkinInv
<1>3. ASSUME k <= consecutive_errors PROVE FailedLast(k)
  BY <1>1, <1>2, <1>3 DEF ErrorsCounted, FailedLast
<1>4. ASSUME k > consecutive_errors, FailedLast(k) PROVE FALSE
  <2>1. Len(reported) > consecutive_errors
    BY <1>1, <1>4 DEF FailedLast
  <2>2. Len(reported) - consecutive_errors \in (Len(reported) - k + 1)..Len(reported)
    BY <1>1, <1>4
  <2> QED
    BY <1>2, <1>4, <2>1, <2>2 DEF ErrorsCounted, FailedLast
<1> QED
  BY <1>1, <1>3, <1>4

\* zipkin::log and impl::log: reporting is disabled by failures in a row alone,
\* no post follows, and a joined thread has drained its queue.
THEOREM ZipkinIsSound == ZipkinSafeSpec => []ZipkinSound
<1>1. ZipkinInv => ZipkinSound
  <2> SUFFICES ASSUME ZipkinInv PROVE ZipkinSound
    OBVIOUS
  <2>1. consecutive_errors \in 0..(MaxErrors + 1) /\ MaxErrors \in Nat
    BY Constants DEF ZipkinInv, TypeOK
  <2>2. DisabledByFailures
    <3>1. FailedLast(MaxErrors + 1) <=> MaxErrors + 1 <= consecutive_errors
      BY <2>1, CountMeansFailed
    <3>2. FailedLast(MaxErrors + 2) <=> MaxErrors + 2 <= consecutive_errors
      BY <2>1, CountMeansFailed
    <3>3. current # NoSpan => consecutive_errors <= MaxErrors
      BY DEF ZipkinInv, ErrorsCounted
    <3> QED
      BY <2>1, <3>1, <3>2, <3>3 DEF DisabledByFailures
  <2>3. JoinedMeansDrained
    BY DEF ZipkinInv, WorkerLife, JoinedMeansDrained
  <2> QED
    BY <2>2, <2>3 DEF ZipkinInv, ZipkinSound
<1> QED
  BY <1>1, ZipkinInvariance, PTL

\* The elements of three sequences in a row.
LEMMA ThreeParts ==
  ASSUME NEW S, NEW a \in Seq(S), NEW b \in Seq(S), NEW d \in Seq(S)
  PROVE  /\ Len((a \o b) \o d) = Len(a) + Len(b) + Len(d)
         /\ \A i \in 1..(Len(a) + Len(b) + Len(d)) :
              ((a \o b) \o d)[i] = IF i <= Len(a) THEN a[i]
                                  ELSE IF i <= Len(a) + Len(b) THEN b[i - Len(a)]
                                  ELSE d[i - (Len(a) + Len(b))]
<1> DEFINE s == a \o b
<1>1. /\ s \in Seq(S) /\ Len(s) = Len(a) + Len(b)
      /\ \A i \in 1..Len(s) : s[i] = IF i <= Len(a) THEN a[i] ELSE b[i - Len(a)]
  BY ConcatProperties
<1> HIDE DEF s
<1>2. s \in Seq(S)
  BY <1>1
<1>3. /\ Len(s \o d) = Len(s) + Len(d)
      /\ \A i \in 1..(Len(s) + Len(d)) :
           (s \o d)[i] = IF i <= Len(s) THEN s[i] ELSE d[i - Len(s)]
  BY <1>2, ConcatProperties
<1>4. Len(a) \in Nat /\ Len(b) \in Nat /\ Len(d) \in Nat
  OBVIOUS
<1>5. /\ Len(s \o d) = Len(a) + Len(b) + Len(d)
      /\ \A i \in 1..(Len(a) + Len(b) + Len(d)) :
           (s \o d)[i] = IF i <= Len(a) THEN a[i]
                         ELSE IF i <= Len(a) + Len(b) THEN b[i - Len(a)]
                         ELSE d[i - (Len(a) + Len(b))]
  BY <1>1, <1>3, <1>4
<1> QED
  BY <1>5 DEF s

\* zipkin_span's moves and destructor: a span is logged at most once, and no
\* object still holds one that was.
THEOREM SpanLoggedOnce == ZipkinSafeSpec => []LoggedOnce
<1>1. ZipkinInv => LoggedOnce
  <2> SUFFICES ASSUME ZipkinInv PROVE LoggedOnce
    OBVIOUS
  <2> DEFINE r == Len(reported)
             q == Len(queue)
             c == IF current = NoSpan THEN 0 ELSE 1
             R == [i \in 1..r |-> reported[i].n]
             C == IF current = NoSpan THEN << >> ELSE <<current.n>>
             Q == [i \in 1..q |-> queue[i].n]
  <2>1. TypeOK /\ WorkerApart /\ ObjectsApart
    BY DEF ZipkinInv
  <2>2. r \in Nat /\ q \in Nat /\ c \in 0..1
    BY <2>1 DEF TypeOK
  <2>3. R \in Seq(1..MaxSpans) /\ Len(R) = r
    <3>1. reported \in Seq([n : 1..MaxSpans, ok : BOOLEAN])
      BY <2>1 DEF TypeOK
    <3>2. ASSUME NEW i \in 1..Len(reported) PROVE reported[i].n \in 1..MaxSpans
      <4>1. reported[i] \in [n : 1..MaxSpans, ok : BOOLEAN]
        BY <3>1, ElementOfSeq
      <4> QED
        BY <4>1
    <3> QED
      BY <2>2, <3>2
  <2>4. Q \in Seq(1..MaxSpans) /\ Len(Q) = q
    <3>1. queue \in Seq(Span)
      BY <2>1 DEF TypeOK
    <3>2. ASSUME NEW i \in 1..Len(queue) PROVE queue[i].n \in 1..MaxSpans
      <4>1. queue[i] \in Span
        BY <3>1
      <4> QED
        BY <4>1 DEF Span
    <3> QED
      BY <2>2, <3>2
  <2>5. C \in Seq(1..MaxSpans) /\ Len(C) = c
    <3>1. current # NoSpan => current.n \in 1..MaxSpans
      BY <2>1 DEF TypeOK, Span
    <3>2. CASE current = NoSpan
      BY <3>2, EmptySeq
    <3>3. CASE current # NoSpan
      BY <3>1, <3>3
    <3> QED
      BY <3>2, <3>3
  <2>6. /\ Len(Logged) = r + c + q
        /\ \A i \in 1..(r + c + q) :
             Logged[i] = IF i <= r THEN R[i] ELSE IF i <= r + c THEN C[i - r] ELSE Q[i - (r + c)]
    <3>1. Logged = (R \o C) \o Q
      BY DEF Logged
    <3> HIDE DEF r, q, c, R, C, Q
    <3>2. /\ Len((R \o C) \o Q) = Len(R) + Len(C) + Len(Q)
          /\ \A i \in 1..(Len(R) + Len(C) + Len(Q)) :
               ((R \o C) \o Q)[i] = IF i <= Len(R) THEN R[i]
                                   ELSE IF i <= Len(R) + Len(C) THEN C[i - Len(R)]
                                   ELSE Q[i - (Len(R) + Len(C))]
      <4>1. R \in Seq(1..MaxSpans) /\ C \in Seq(1..MaxSpans) /\ Q \in Seq(1..MaxSpans)
        BY <2>3, <2>4, <2>5
      <4> QED
        BY <4>1, ThreeParts
    <3>3. Len(R) = r /\ Len(C) = c /\ Len(Q) = q
      BY <2>3, <2>4, <2>5
    <3> QED
      BY <3>1, <3>2, <3>3
  <2>7. \A i \in 1..(r + c + q) :
             /\ i <= r => Logged[i] = reported[i].n
             /\ r < i /\ i <= r + c => current # NoSpan /\ i = r + 1 /\ Logged[i] = current.n
             /\ r + c < i => Logged[i] = queue[i - (r + c)].n
    <3> SUFFICES ASSUME NEW i \in 1..(r + c + q)
                 PROVE  /\ i <= r => Logged[i] = reported[i].n
                        /\ r < i /\ i <= r + c => current # NoSpan /\ i = r + 1 /\ Logged[i] = current.n
                        /\ r + c < i => Logged[i] = queue[i - (r + c)].n
      OBVIOUS
    <3>1. ASSUME i <= r PROVE Logged[i] = reported[i].n
      <4>1. i \in 1..r /\ Logged[i] = R[i]
        <5> HIDE DEF r, q, c, R, C, Q
        <5> QED
          BY <2>2, <2>6, <3>1
      <4> QED
        BY <4>1
    <3>2. ASSUME r < i, i <= r + c PROVE current # NoSpan /\ i = r + 1 /\ Logged[i] = current.n
      <4>1. c = 1 /\ i = r + 1
        <5> HIDE DEF r, q, c
        <5> QED
          BY <2>2, <3>2
      <4>2. Logged[i] = C[i - r] /\ i - r = 1
        <5> HIDE DEF r, q, c, R, C, Q
        <5> QED
          BY <2>2, <2>6, <3>2, <4>1
      <4> QED
        BY <4>1, <4>2
    <3>3. ASSUME r + c < i PROVE Logged[i] = queue[i - (r + c)].n
      <4>1. i - (r + c) \in 1..q /\ Logged[i] = Q[i - (r + c)]
        <5> HIDE DEF r, q, c, R, C, Q
        <5> QED
          BY <2>2, <2>6, <3>3
      <4> QED
        BY <4>1
    <3> QED
      BY <3>1, <3>2, <3>3
  <2>8. \A i, j \in 1..Len(Logged) : Logged[i] = Logged[j] => i = j
    <3> SUFFICES ASSUME NEW i \in 1..(r + c + q), NEW j \in 1..(r + c + q),
                        Logged[i] = Logged[j], i < j
                 PROVE  FALSE
      BY <2>2, <2>6
    <3>1. CASE j <= r
      BY <2>1, <2>2, <2>7, <3>1 DEF WorkerApart
    <3>2. CASE r < j /\ j <= r + c
      <4>1. i \in 1..r /\ Logged[i] = reported[i].n /\ current # NoSpan /\ Logged[j] = current.n
        BY <2>2, <2>7, <3>2
      <4> QED
        BY <2>1, <4>1 DEF WorkerApart
    <3>3. CASE r + c < j
      <4>1. j - (r + c) \in 1..q /\ Logged[j] = queue[j - (r + c)].n
        BY <2>2, <2>7, <3>3
      <4>2. CASE i <= r
        <5>1. i \in 1..r /\ Logged[i] = reported[i].n
          BY <2>2, <2>7, <4>2
        <5> QED
          BY <2>1, <4>1, <5>1 DEF WorkerApart
      <4>3. CASE r < i /\ i <= r + c
        <5>1. current # NoSpan /\ Logged[i] = current.n
          BY <2>7, <4>3
        <5> QED
          BY <2>1, <4>1, <5>1 DEF WorkerApart
      <4>4. CASE r + c < i
        <5>1. i - (r + c) \in 1..q /\ Logged[i] = queue[i - (r + c)].n /\ i - (r + c) # j - (r + c)
          BY <2>2, <2>7, <4>4
        <5> QED
          BY <2>1, <4>1, <5>1 DEF WorkerApart
      <4> QED
        BY <2>2, <4>2, <4>3, <4>4
    <3> QED
      BY <2>2, <3>1, <3>2, <3>3
  <2>9. \A i \in 1..Len(Logged) : Known(Logged[i])
    <3> SUFFICES ASSUME NEW i \in 1..(r + c + q) PROVE Known(Logged[i])
      BY <2>6
    <3>1. CASE i <= r
      BY <2>2, <2>7, <3>1 DEF Known
    <3>2. CASE r < i /\ i <= r + c
      BY <2>7, <3>2 DEF Known
    <3>3. CASE r + c < i
      <4>1. i - (r + c) \in 1..q /\ Logged[i] = queue[i - (r + c)].n
        BY <2>2, <2>7, <3>3
      <4> QED
        BY <4>1 DEF Known
    <3> QED
      BY <2>2, <3>1, <3>2, <3>3
  <2> QED
    BY <2>1, <2>8, <2>9 DEF LoggedOnce, ObjectsApart, Owns
<1> QED
  BY <1>1, ZipkinInvariance, PTL

\* get_next_unique_id, to_id, the moves and the destructor: every span created is
\* held, logged or refused, exactly unless the template to_id gave it the id 0.
THEOREM NoSpanLost == ZipkinSafeSpec => []NothingLost
<1>1. ZipkinInv => NothingLost
  BY DEF ZipkinInv, SpansAccounted, FlaggedGone, NothingLost
<1> QED
  BY <1>1, ZipkinInvariance, PTL
=============================================================================
