------------------------------ MODULE KeyQueue ------------------------------
(***************************************************************************)
(* What the keyboard queue is for: characters come out in the order in     *)
(* which they were typed, and one is lost only when Capacity are pending.  *)
(***************************************************************************)
EXTENDS Naturals, Sequences

CONSTANT Capacity

VARIABLE pending

QueueInit == pending = <<>>

\* A character is typed; when the queue is full it is lost.
Arrive(c) == pending' = IF Len(pending) < Capacity THEN Append(pending, c) ELSE pending

Take == pending # <<>> /\ pending' = Tail(pending)

\* Everything pending is forgotten: when this may happen is for the user to say.
Clear == pending' = <<>>
=============================================================================
