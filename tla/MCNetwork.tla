----------------------------- MODULE MCNetwork -----------------------------
(***************************************************************************)
(* The parts of the library in which fibers and threads wait for the       *)
(* network: udt sockets, the ntp client, and the reads of message_buffer.  *)
(* They do not interact, so a behaviour exercises one of them, "part", and *)
(* leaves the others in their first state, in which no action with         *)
(* fairness is enabled.                                                    *)
(***************************************************************************)
EXTENDS Udt, Ntp, Sequences

CONSTANTS BufferLen, Byte, NoByte, Addr, MaxChain, MaxBytes, SaneLimit, U32    \* MessageBuffer

VARIABLES part, buffers, read_ind, write_ind, sanity_check, pool, mem, handed, index, call, dest, exited

Buffer == INSTANCE MessageBuffer WITH pending <- handed

-----------------------------------------------------------------------------

\* One server is ahead, one behind.
Skews == [s \in Server |-> IF s = "a" THEN 4 ELSE -3]

bufferVars == <<buffers, read_ind, write_ind, sanity_check, pool, mem, handed, index, call, dest, exited>>
vars == <<part, udtVars, ntpVars, bufferVars>>

Init ==
  /\ part \in {"udt", "ntp", "buffer"}
  /\ UdtInit /\ NtpInit /\ Buffer!Init
  \* A buffer that is not exercised has one first state.
  /\ part # "buffer" => buffers = <<CHOOSE a \in Addr : TRUE>>

UdtStep == part = "udt" /\ UdtNext /\ UNCHANGED <<part, ntpVars, bufferVars>>
NtpStep == part = "ntp" /\ NtpNext /\ UNCHANGED <<part, udtVars, bufferVars>>
BufferStep == part = "buffer" /\ Buffer!Next /\ UNCHANGED <<part, udtVars, ntpVars>>

Next == UdtStep \/ NtpStep \/ BufferStep

Spec == Init /\ [][Next]_vars /\ UdtFairness /\ NtpFairness /\ Buffer!Fairness

\* Waits end: a fiber runs again when its socket gets what it waits for, or is
\* closed behind its registration (one that registers while close is under way
\* may not); the destructor of the ntp client returns, and so does every read and
\* peek of a message_buffer.
WaitsEnd == DataWakes /\ CloseWakes /\ DestroyReturns /\ Buffer!CallEnds
=============================================================================
