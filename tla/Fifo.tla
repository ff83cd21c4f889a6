-------------------------------- MODULE Fifo --------------------------------
(***************************************************************************)
(* What the shared-memory channel of a native plugin promises              *)
(* (crates/openracing-native-plugin/src/spsc.rs): a bounded first-in       *)
(* first-out queue of whole frames.  Image(n) is frame number n.           *)
(***************************************************************************)
EXTENDS Naturals, Sequences

CONSTANTS
  Capacity,   \* frames the queue holds
  Image(_)    \* the n-th frame

VARIABLES
  queue,      \* frames written and not yet read, oldest first
  written,    \* number of frames written so far
  received    \* frames handed to the reader, oldest first

vars == <<queue, written, received>>

Init == queue = <<>> /\ written = 0 /\ received = <<>>

\* A frame is written when there is room for it.
Put ==
  /\ Len(queue) < Capacity
  /\ queue' = Append(queue, Image(written + 1))
  /\ written' = written + 1
  /\ UNCHANGED received

\* The oldest frame is read.
Get ==
  /\ queue # <<>>
  /\ received' = Append(received, Head(queue))
  /\ queue' = Tail(queue)
  /\ UNCHANGED written

Next == Put \/ Get

Spec == Init /\ [][Next]_vars
=============================================================================
