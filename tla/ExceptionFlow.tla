---------------------------- MODULE ExceptionFlow ----------------------------
(***************************************************************************)
(* An exception on its way: thrown by code or by a third-party library,    *)
(* caught and rethrown by the FC_* macros of every frame it passes, copied *)
(* with dynamic_copy_exception, sent as a variant, and thrown again with   *)
(* dynamic_rethrow_exception.                                              *)
(*                                                                         *)
(* Types: "exception" (the base), "unhandled", "wrapper"                   *)
(* (std_exception_wrapper), the registered derived types, "custom" (derived*)
(* but not registered) and, from outside, "std", "other", "bad_alloc".     *)
(***************************************************************************)
EXTENDS Naturals, Sequences

CONSTANTS
  Registered,      \* the types of FC_REGISTER_EXCEPTIONS
  Code,            \* type -> its code_value
  MaxLog           \* log messages an exception collects

Foreign == {"std", "other", "bad_alloc"}
Fc == Registered \cup {"exception", "unhandled", "wrapper", "custom"}

ASSUME ExceptionAssumption ==
  /\ DOMAIN Code = Fc /\ MaxLog \in Nat
  /\ Registered \cap (Foreign \cup {"exception", "unhandled", "wrapper", "custom"}) = {}
  /\ \A t, u \in Registered : Code[t] = Code[u] => t = u         \* asserted by register_exception

VARIABLES
  exc,        \* the exception: type, code, log, and the foreign exception it holds
  where,      \* "none", "flying", "stored" (a copy) or "variant"
  trail,      \* the frames that added to the log since it was thrown
  born        \* the type and code it was thrown with

excVars == <<exc, where, trail, born>>

Exc(type, code, lg, inner) == [type |-> type, code |-> code, log |-> lg, inner |-> inner]
NoExc == Exc("exception", 0, << >>, "none")
Quiet == exc = NoExc /\ where = "none" /\ trail = << >> /\ born = NoExc
ExcInit == Quiet

\* FC_THROW_EXCEPTION and FC_ASSERT: one message, the code of the type.  (The
\* constructors of unhandled_exception leave the code 0.)
CodeThrown(t) == IF t = "unhandled" THEN 0 ELSE Code[t]
ThrowFc(t) ==
  /\ where = "none"
  /\ exc' = Exc(t, CodeThrown(t), <<"throw">>, "none")
  /\ where' = "flying" /\ trail' = <<"throw">> /\ born' = exc'

ThrowForeign(t) ==
  /\ where = "none"
  /\ exc' = Exc(t, 0, << >>, "none")
  /\ where' = "flying" /\ trail' = << >> /\ born' = exc'

\* append_log
Appended(lg, m) == Append(lg, m)

\* What a frame's handler makes of a foreign exception.
Wrapped(e, m) == IF e.type = "std" THEN Exc("wrapper", Code["wrapper"], <<m>>, "std")
                 ELSE Exc("unhandled", 0, <<m>>, "other")

Passes(e) == e.type = "bad_alloc"

\* FC_RETHROW_EXCEPTIONS, FC_CAPTURE_AND_RETHROW, FC_LOG_AND_RETHROW: bad_alloc
\* passes, an fc exception gets a message, everything else is wrapped.
Rethrow(m) ==
  /\ where = "flying" /\ ~Passes(exc) /\ Len(exc.log) < MaxLog
  /\ exc' = IF exc.type \in Fc THEN [exc EXCEPT !.log = Appended(@, m)] ELSE Wrapped(exc, m)
  /\ trail' = Append(trail, m)
  /\ born' = IF exc.type \in {"std", "other"} THEN exc' ELSE born
  /\ UNCHANGED where

\* FC_CAPTURE_AND_LOG, FC_LOG_AND_DROP: logged and gone, but for bad_alloc.
Drop ==
  /\ where = "flying" /\ ~Passes(exc)
  /\ exc' = NoExc /\ where' = "none" /\ trail' = << >> /\ born' = NoExc

\* bad_alloc reaches the end of the thread, or a handler of the program's own.
Terminate ==
  /\ where = "flying" /\ Passes(exc)
  /\ exc' = NoExc /\ where' = "none" /\ trail' = << >> /\ born' = NoExc

\* dynamic_copy_exception: a copy of the most derived type, with its inner exception.
Copy ==
  /\ where = "flying" /\ exc.type \in Fc
  /\ where' = "stored"
  /\ UNCHANGED <<exc, trail, born>>

\* to_variant and from_variant into an fc::exception: code, name, what and log
\* remain; the type and the inner exception do not cross.
Convert ==
  /\ where \in {"flying", "stored"} /\ exc.type \in Fc
  /\ where' = "variant"
  /\ exc' = [exc EXCEPT !.type = "exception", !.inner = "none"]
  /\ UNCHANGED <<trail, born>>

\* exception_factory::rethrow: the type registered for the code, else the base.
FactoryType(code) == IF \E t \in Registered : Code[t] = code
                     THEN CHOOSE t \in Registered : Code[t] = code ELSE "exception"
\* Mutant: a derived type is thrown as the base.
RethrownType_Base(e) == IF e.type \in Registered \cup {"custom"} THEN "exception" ELSE FactoryType(e.code)
RethrownType(e) == IF e.type \in Registered \cup {"custom"} /\ e.code = Code[e.type] THEN e.type
                   ELSE FactoryType(e.code)

\* dynamic_rethrow_exception: the inner exception of a wrapper, else by type and code.
DynamicRethrow ==
  /\ where \in {"stored", "variant"}
  /\ where' = "flying"
  /\ IF exc.inner # "none"
     THEN exc' = Exc(exc.inner, 0, << >>, "none") /\ trail' = << >> /\ born' = exc'
     ELSE exc' = [exc EXCEPT !.type = RethrownType(exc)] /\ UNCHANGED <<trail, born>>

ExcNext ==
  \/ \E t \in Fc \ {"wrapper"} : ThrowFc(t)
  \/ \E t \in Foreign : ThrowForeign(t)
  \/ \E m \in {"a", "b"} : Rethrow(m)
  \/ Drop \/ Terminate \/ Copy \/ Convert \/ DynamicRethrow

ExcSpec == ExcInit /\ [][ExcNext]_excVars

-----------------------------------------------------------------------------
\* The log of an fc exception is the list of the frames it passed, in order,
\* through every copy, conversion to and from a variant, and rethrow.
LogIsTrail == exc.type \in Fc => exc.log = trail

\* A registered type survives: whoever catches the exception gets the type it
\* was thrown as, also after it crossed a process boundary as a variant.  Only
\* types without a registered code come back as the base.
TypeSurvives ==
  where = "flying" /\ exc.type \in Fc /\ born.type \in Registered => exc.type = born.type

\* The code never changes on the way, and no handler of the macros hides a bad_alloc.
CodeSurvives == /\ where # "none" /\ exc.type \in Fc => exc.code = born.code
                /\ born.type = "bad_alloc" => exc = born /\ where = "flying"

\* An exception keeps its log, its type and its code wherever it goes.
TrailSurvives == LogIsTrail /\ TypeSurvives /\ CodeSurvives
=============================================================================
