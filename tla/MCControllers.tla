---------------------------- MODULE MCControllers ----------------------------
(***************************************************************************)
(* Instances of Controllers: three machines.                               *)
(***************************************************************************)
EXTENDS Controllers

Low32  == [class |-> "xhci", low |-> 112, high |-> 1, wide |-> FALSE, base |-> 112]
High64 == [class |-> "xhci", low |-> 6, high |-> 1, wide |-> TRUE, base |-> 134]
Bridge == [NoFunction EXCEPT !.class = "other"]

Card(multi, echoes, f0, f1) ==
  [multi |-> multi, echoes |-> echoes, functions |-> [f \in 0 .. 1 |-> IF f = 0 THEN f0 ELSE f1]]

MCMachines == {
  \* A card that answers for all functions, and an empty slot.
  <<Card(FALSE, TRUE, Low32, NoFunction), Card(FALSE, FALSE, NoFunction, NoFunction)>>,
  \* Two controllers, one of them behind another function.
  <<Card(TRUE, FALSE, Bridge, High64), Card(FALSE, FALSE, Low32, NoFunction)>>,
  \* A chipset that hides function 0.
  <<Card(FALSE, TRUE, Bridge, NoFunction), Card(TRUE, FALSE, NoFunction, High64)>>}

\* Slots are numbered from 0.
MCSlots == {[s \in 0 .. 1 |-> m[s + 1]] : m \in MCMachines}
=============================================================================
