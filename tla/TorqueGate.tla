----------------------------- MODULE TorqueGate -----------------------------
(***************************************************************************)
(* What the engine promises about the torque it commands, without threads, *)
(* queues, filters or ramps.                                               *)
(*                                                                         *)
(* While a session is live torque is commanded within the limit.  Once a   *)
(* session has latched (a fault or an emergency stop), zero is the only    *)
(* torque it commands, and only a new session removes the latch.           *)
(***************************************************************************)
EXTENDS Integers

CONSTANT Limit   \* the largest torque ever commanded

VARIABLES
  live,      \* a session is in progress
  latched,   \* the session has tripped
  command    \* the last torque commanded

vars == <<live, latched, command>>

Init == ~live /\ ~latched /\ command = 0

Start ==
  /\ ~live
  /\ live' = TRUE
  /\ latched' = FALSE
  /\ UNCHANGED command

Command ==
  /\ live
  /\ command' \in (-Limit)..Limit
  /\ latched => command' = 0
  /\ UNCHANGED <<live, latched>>

Latch ==
  /\ live
  /\ latched' = TRUE
  /\ UNCHANGED command
  /\ live' \in BOOLEAN

End ==
  /\ live
  /\ live' = FALSE
  /\ UNCHANGED <<latched, command>>

Next == Start \/ Command \/ Latch \/ End

Spec == Init /\ [][Next]_vars
=============================================================================
