------------------------------ MODULE Processes ------------------------------
(***************************************************************************)
(* What the scheduler is for: each task runs its own program, one step     *)
(* after the other, as if it had the machine to itself.  A task can start  *)
(* another one, which begins at its entry point; nothing else moves a task *)
(* that is not running its own step.                                       *)
(***************************************************************************)
EXTENDS Naturals

CONSTANTS
  Tasks,      \* task numbers
  Points,     \* program points, "none" before the task is created
  Program     \* Program[p]: the points a task at point p can go to

VARIABLE at   \* at[t]: where task t is in its program

ProcessInit == at = [t \in Tasks |-> IF t = 0 THEN "poll" ELSE "none"]

RunStep(t) == \E q \in Program[at[t]] : at' = [at EXCEPT ![t] = q]

Spawn(t) ==
  \E u \in Tasks : \E q \in Program[at[t]] :
    /\ at[u] = "none"
    /\ at' = [at EXCEPT ![t] = q, ![u] = "entry"]

ProcessSpec == ProcessInit /\ [][\E t \in Tasks : RunStep(t) \/ Spawn(t)]_at
==============================================================================
