------------------------------ MODULE ByteQueue ------------------------------
(***************************************************************************)
(* What fc::message_buffer promises to its client: a queue of bytes with a *)
(* read end, a write end and a cursor that peeks into the unread bytes.    *)
(* No chain, no indices, no memory: those are the business of              *)
(* MessageBuffer, which is shown to implement this specification.          *)
(***************************************************************************)
EXTENDS Naturals, Sequences

CONSTANT Byte

VARIABLES
  queue,   \* the unread bytes, oldest first
  cursor,  \* number of unread bytes the peek stream has passed
  got      \* bytes handed to the call being executed, or to the last one

vars == <<queue, cursor, got>>

Init == queue = << >> /\ cursor = 0 /\ got = << >>

\* Bytes arrive at the write end.
Put ==
  /\ queue' \in Seq(Byte)
  /\ Len(queue) <= Len(queue')
  /\ SubSeq(queue', 1, Len(queue)) = queue
  /\ UNCHANGED <<cursor, got>>

\* A call starts with nothing copied; a new peek stream starts at the front.
Begin(c) ==
  /\ cursor' = c
  /\ got' = << >>
  /\ UNCHANGED queue

\* The next k unread bytes are handed out, in order, and consumed.
Take(k) ==
  /\ k <= Len(queue)
  /\ got' = got \o SubSeq(queue, 1, k)
  /\ queue' = SubSeq(queue, k + 1, Len(queue))
  /\ cursor' = 0

\* The next k bytes at the cursor are handed out and stay unread.
Look(k) ==
  /\ cursor + k <= Len(queue)
  /\ got' = got \o SubSeq(queue, cursor + 1, cursor + k)
  /\ cursor' = cursor + k
  /\ UNCHANGED queue

\* k unread bytes are dropped without being handed out.
Drop(k) ==
  /\ k <= Len(queue)
  /\ queue' = SubSeq(queue, k + 1, Len(queue))
  /\ cursor' = 0
  /\ UNCHANGED got

\* The cursor passes k bytes without handing them out.
Pass(k) ==
  /\ cursor + k <= Len(queue)
  /\ cursor' = cursor + k
  /\ UNCHANGED <<queue, got>>

Next ==
  \/ Put
  \/ \E c \in {0, cursor} : Begin(c)
  \/ \E k \in 0..Len(queue) : Take(k) \/ Look(k) \/ Drop(k) \/ Pass(k)

Spec == Init /\ [][Next]_vars
=============================================================================
