----------------------------- MODULE ClientCall -----------------------------
(***************************************************************************)
(* The pure functions of the library have no state of their own: a client  *)
(* calls one of them with some input, and the invariants relate what it    *)
(* returns to a reference definition.  A module of pure functions extends  *)
(* this one and has one action per family of calls.                        *)
(***************************************************************************)
EXTENDS Integers, Sequences

VARIABLE call      \* the call the client made: its name and input

NoCall == [name |-> "none", in |-> 0]

CallInit == call = NoCall

\* The client calls function "name" with any input of the set.
Calls(name, inputs) ==
  /\ call.name = "none"
  /\ \E i \in inputs : call' = [name |-> name, in |-> i]

\* A conversion returns a value or throws.
Ok(v) == [ok |-> TRUE, value |-> v]
Throw(v) == [ok |-> FALSE, value |-> v]    \* v: any value of the result's type
=============================================================================
