---------------------------- MODULE RateLimiter ----------------------------
(***************************************************************************)
(* rate_limiting_group: the token bucket that fibers' reads (or writes) go *)
(* through.  Both directions run the same code on lists of their own; a    *)
(* behaviour is about one of them.  The loop is a fiber: it runs from one  *)
(* wait to the next without interruption.  Time is counted in ticks,       *)
(* Second of them in a second.  The order of a list decides nothing, as    *)
(* the operations are sorted before the tokens are given out: a list says  *)
(* how often each operation is in it.                                      *)
(***************************************************************************)
EXTENDS Integers, FiniteSets, SequencesExt

CONSTANTS Op,           \* fibers that read or write
          Length,       \* the lengths they ask for
          Rate, Burst,  \* _download_bytes_per_second, _burstiness_in_seconds
          Second, MaxTicks, MaxSwitches

ASSUME LimiterAssumption ==
  /\ {Rate, Burst, Second} \subseteq Nat \ {0} /\ {MaxTicks, MaxSwitches} \subseteq Nat /\ Length \subseteq Nat \ {0}
  /\ IsFiniteSet(Op)

VARIABLES direction, limit, tokens, unused, waiting, progress, op, loop, ticks,
          elapsed,      \* ticks since the last iteration
          granted,      \* ghost: the bytes permitted so far, less those given back
          switches      \* ghost: how often the limit was changed
limiterVars == <<direction, limit, tokens, unused, waiting, progress, op, loop, ticks, elapsed, granted, switches>>

NoOp == [pc |-> "idle", length |-> 0, permitted |-> 0]
NoOps == [o \in Op |-> 0]

LimiterInit ==
  /\ direction \in {"read", "write"} /\ limit = Rate /\ tokens = Rate /\ unused = 0
  /\ waiting = NoOps /\ progress = NoOps /\ op = [o \in Op |-> NoOp]
  /\ loop = "none" /\ ticks = 0 /\ elapsed = Second + 1 /\ granted = 0 /\ switches = 0

-----------------------------------------------------------------------------
\* The loop is started, or woken if it waits.
Signal == "ready"

\* readsome_impl: queue the operation, or perform it at once without a limit.
Submit(o, len) ==
  /\ op[o].pc = "idle"
  /\ IF limit > 0
     THEN /\ op' = [op EXCEPT ![o] = [pc |-> "queued", length |-> len, permitted |-> 0]]
          /\ waiting' = [waiting EXCEPT ![o] = @ + 1] /\ loop' = Signal
     ELSE /\ op' = [op EXCEPT ![o] = [pc |-> "direct", length |-> len, permitted |-> len]]
          /\ UNCHANGED <<waiting, loop>>
  /\ UNCHANGED <<direction, limit, tokens, unused, progress, ticks, elapsed, granted, switches>>
readsome_impl(o, len) == direction = "read" /\ Submit(o, len)
writesome_impl(o, len) == direction = "write" /\ Submit(o, len)

\* The socket moved n bytes: the rest of the permission comes back.
Complete(o, n) ==
  /\ op[o].pc \in {"performed", "direct"} /\ n <= op[o].permitted
  /\ op' = [op EXCEPT ![o] = NoOp]
  /\ IF op[o].pc = "performed"
     THEN unused' = unused + op[o].permitted - n /\ granted' = granted - (op[o].permitted - n)
     ELSE UNCHANGED <<unused, granted>>
  /\ UNCHANGED <<direction, limit, tokens, waiting, progress, loop, ticks, elapsed, switches>>

Removed(o) == waiting' = [waiting EXCEPT ![o] = 0] /\ progress' = [progress EXCEPT ![o] = 0]
\* The wait throws: the operation leaves the lists, its tokens are not returned.
Fail(o) ==
  /\ op[o].pc \in {"queued", "performed", "direct"}
  /\ Removed(o) /\ op' = [op EXCEPT ![o] = NoOp]
  /\ UNCHANGED <<direction, limit, tokens, unused, loop, ticks, elapsed, granted, switches>>

-----------------------------------------------------------------------------
(* process_pending_operations *)

Least(a, b) == IF a < b THEN a ELSE b
Earned == (limit * Least(elapsed, Second)) \div Second
\* Mutant: the bucket has no bottom: what was not used piles up.
Refilled_NoCap == tokens + Earned + unused
Refilled == Least(tokens + Earned + unused, limit * Burst)

\* The orders in which std::sort may leave the operations: shortest first.
Orders(ops) ==
  {s \in SetToSeqs({o \in Op : ops[o] > 0}) :
     \A i, j \in DOMAIN s : i < j => op[s[i]].length <= op[s[j]].length}
\* What is left of the tokens after each operation: one gets no more than an
\* equal share of what was left before it.
Left(order) ==
  LET left[i \in 0..Len(order)] ==
        IF i = 0 THEN Refilled
        ELSE left[i - 1] - Least(op[order[i]].length, left[i - 1] \div (Len(order) - i + 1))
  IN  left
Share(order) ==
  [o \in Op |-> LET left == Left(order)
                    at == {i \in DOMAIN order : order[i] = o}
                IN  IF at = {} THEN 0 ELSE LET i == CHOOSE i \in at : TRUE IN left[i - 1] - left[i]]

Limited(ops) ==
  \E order \in Orders(ops) :
    LET rest == Left(order)[Len(order)]
        share == Share(order)
    IN /\ tokens' = rest /\ unused' = 0
       /\ progress' = [o \in Op |-> IF share[o] > 0 THEN 0 ELSE ops[o]]
       /\ op' = [o \in Op |-> IF share[o] > 0 THEN [op[o] EXCEPT !.pc = "performed", !.permitted = share[o]] ELSE op[o]]
       /\ granted' = granted + Refilled - rest
\* The limit was lifted: everything goes, and no tokens are taken.
Unlimited(ops) ==
  /\ progress' = NoOps
  /\ op' = [o \in Op |-> IF ops[o] > 0 THEN [op[o] EXCEPT !.pc = "performed", !.permitted = op[o].length] ELSE op[o]]
  /\ UNCHANGED <<tokens, unused, granted>>

\* One iteration of the loop, up to its wait: for good when nothing is in
\* progress, else for the granularity.
process_pending_operations ==
  LET ops == [o \in Op |-> progress[o] + waiting[o]] IN
  /\ loop = "ready"
  /\ waiting' = NoOps
  /\ IF limit > 0 THEN Limited(ops) ELSE Unlimited(ops)
  /\ loop' = IF progress' = NoOps THEN "asleep" ELSE "timed"
  /\ elapsed' = 0
  /\ UNCHANGED <<direction, limit, ticks, switches>>
\* wait(_granularity) times out.
Timeout ==
  /\ loop = "timed" /\ loop' = "ready"
  /\ UNCHANGED <<direction, limit, tokens, unused, waiting, progress, op, ticks, elapsed, granted, switches>>

Tick ==
  /\ ticks < MaxTicks /\ ticks' = ticks + 1 /\ elapsed' = elapsed + 1
  /\ UNCHANGED <<direction, limit, tokens, unused, waiting, progress, op, loop, granted, switches>>
\* set_download_limit: the loop is not told.
set_limit(bytes) ==
  /\ switches < MaxSwitches /\ bytes # limit
  /\ limit' = bytes /\ switches' = switches + 1
  /\ UNCHANGED <<direction, tokens, unused, waiting, progress, op, loop, ticks, elapsed, granted>>

Read == \E o \in Op, len \in Length : readsome_impl(o, len)
Write == \E o \in Op, len \in Length : writesome_impl(o, len)
Finish == \E o \in Op : \E n \in 0..op[o].permitted : Complete(o, n)
Failure == \E o \in Op : Fail(o)
SetLimit == \E bytes \in {0, Rate} : set_limit(bytes)
LimiterNext == Read \/ Write \/ Finish \/ Failure \/ process_pending_operations \/ Timeout \/ Tick \/ SetLimit

LimiterSpec == LimiterInit /\ [][LimiterNext]_limiterVars

-----------------------------------------------------------------------------
\* Without a change of the limit, never more bytes are permitted than one full
\* bucket and what was earned since: the burst is not repeated, neither by
\* tokens that come back nor by operations that fail.
RateKept == switches = 0 => Second * granted <= Second * Rate * Burst + Rate * ticks

\* A queued operation is in one list, once, and an operation that ended is in
\* none: its fiber's stack, which the lists point to, is gone.
QueuedOnce == \A o \in Op : waiting[o] + progress[o] = (IF op[o].pc = "queued" THEN 1 ELSE 0)

\* The loop sleeps without a timeout only when there is nothing to do.
AsleepMeansIdle == loop \in {"none", "asleep"} => waiting = NoOps /\ progress = NoOps

\* The limit is kept, and no operation is queued twice or left behind asleep.
LimiterSound == RateKept /\ QueuedOnce /\ AsleepMeansIdle
=============================================================================
