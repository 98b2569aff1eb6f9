------------------------------ MODULE TrbQueue ------------------------------
(***************************************************************************)
(* What a transfer ring is for: the driver hands numbered transfer         *)
(* requests to the host controller, and the controller executes them once  *)
(* each, in order, and never one it was not given.                         *)
(***************************************************************************)
EXTENDS Naturals

VARIABLES
  pushed,    \* the number of the last request the driver pushed
  done       \* the number of the last request the controller executed

QueueInit == pushed = 0 /\ done = 0

QueuePush    == pushed' = pushed + 1 /\ done' = done
QueueExecute == done < pushed /\ done' = done + 1 /\ pushed' = pushed

QueueNext == QueuePush \/ QueueExecute

QueueSpec == QueueInit /\ [][QueueNext]_<<pushed, done>>
=============================================================================
