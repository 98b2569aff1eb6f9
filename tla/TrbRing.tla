------------------------------- MODULE TrbRing -------------------------------
(***************************************************************************)
(* A TRB ring of the xHCI driver, between the driver (producer) and the    *)
(* host controller (consumer).  The command ring, the EP0 ring and the     *)
(* interrupt ring of each device are all built and pushed to in the same   *)
(* way: xhci_cmd_ring_push and xhci_ep0_ring_push in                       *)
(* src/kernel/drivers/usb/xhci/xhci.c, xhci_intr_ring_push in xhci_hid.c.  *)
(*                                                                         *)
(* A TRB is owned by the controller when its cycle bit equals the          *)
(* controller's cycle state.  The last TRB of the ring is a Link TRB that  *)
(* sends the controller back to the first and toggles its cycle state.     *)
(* The driver writes the Link TRB once, when the ring is allocated.        *)
(***************************************************************************)
EXTENDS Integers

CONSTANTS
  N,        \* TRBs in the ring, the Link TRB included (256)
  Window,   \* most TRBs the driver has in flight: 1 on an interrupt ring
            \* (re-armed from the completion), 3 for one control transfer
  MaxPush   \* bound: TRBs pushed in all

ASSUME RingAssumption ==
  /\ N \in Nat /\ N >= 3
  /\ Window \in 1 .. N - 2
  /\ MaxPush \in Nat

VARIABLES
  ring,     \* ring[i]: the cycle bit and the number of the TRB at index i
  index,    \* the driver's enqueue index
  cycle,    \* the driver's cycle bit
  pushed,   \* number of TRBs pushed; it numbers the next one
  deq,      \* the controller's dequeue index
  ccs,      \* the controller's cycle state
  done      \* the number of the TRB the controller executed last

driver     == <<index, cycle, pushed>>
controller == <<deq, ccs, done>>
vars == <<ring, driver, controller>>

Link  == N - 1
Cells == 0 .. N - 1

\* xhci_alloc_tr_ring and the endpoint or CRCR set-up: all TRBs are zero, the
\* Link TRB has its cycle bit set, and both sides start at TRB 0 with cycle 1.
Init ==
  /\ ring = [i \in Cells |-> [cycle |-> IF i = Link THEN 1 ELSE 0, trb |-> 0]]
  /\ index = 0 /\ cycle = 1 /\ pushed = 0
  /\ deq = 0 /\ ccs = 1 /\ done = 0

-----------------------------------------------------------------------------
(* The driver. *)

\* Seeded fault: the driver steps onto the Link TRB before it wraps.
PushOverLink ==
  /\ pushed < MaxPush /\ pushed - done < Window
  /\ ring' = [ring EXCEPT ![index] = [cycle |-> cycle, trb |-> pushed + 1]]
  /\ index' = IF index = Link THEN 0 ELSE index + 1
  /\ cycle' = IF index = Link THEN 1 - cycle ELSE cycle
  /\ pushed' = pushed + 1
  /\ UNCHANGED controller

\* Seeded fault: the cycle bit is not toggled when the index wraps.
PushNoToggle ==
  /\ pushed < MaxPush /\ pushed - done < Window
  /\ ring' = [ring EXCEPT ![index] = [cycle |-> cycle, trb |-> pushed + 1]]
  /\ index' = IF index + 1 = Link THEN 0 ELSE index + 1
  /\ pushed' = pushed + 1
  /\ UNCHANGED <<cycle, controller>>

\* The TRB is written with the driver's cycle bit; one short of the Link TRB the
\* index goes back to 0 and the cycle bit is toggled.  The Link TRB is not
\* touched: its cycle bit stays what Init made it.
Push ==
  /\ pushed < MaxPush /\ pushed - done < Window
  /\ ring' = [ring EXCEPT ![index] = [cycle |-> cycle, trb |-> pushed + 1]]
  /\ index' = IF index + 1 = Link THEN 0 ELSE index + 1
  /\ cycle' = IF index + 1 = Link THEN 1 - cycle ELSE cycle
  /\ pushed' = pushed + 1
  /\ UNCHANGED controller

-----------------------------------------------------------------------------
(* The controller (hardware; it is modelled by what the driver relies on). *)

Owned(i) == ring[i].cycle = ccs

Execute ==
  /\ deq # Link /\ Owned(deq)
  /\ done' = ring[deq].trb
  /\ deq' = deq + 1
  /\ UNCHANGED <<ring, driver, ccs>>

FollowLink ==
  /\ deq = Link /\ Owned(Link)
  /\ deq' = 0 /\ ccs' = 1 - ccs
  /\ UNCHANGED <<ring, driver, done>>

-----------------------------------------------------------------------------

Next == Push \/ Execute \/ FollowLink

\* The controller keeps fetching once the doorbell is rung; nothing obliges the
\* driver to push.
Fairness == WF_vars(Execute \/ FollowLink)

Spec == Init /\ [][Next]_vars /\ Fairness

-----------------------------------------------------------------------------
(* Properties. *)

\* Types of the variables.
TypeOK ==
  /\ ring \in [Cells -> [cycle : {0, 1}, trb : Nat]]
  /\ index \in 0 .. N - 2 /\ cycle \in {0, 1} /\ pushed \in Nat
  /\ deq \in Cells /\ ccs \in {0, 1} /\ done \in Nat

\* The controller never executes a TRB left over from an earlier lap and never
\* skips one: what it would fetch next is the oldest TRB in flight.
ExecutesInOrder ==
  deq # Link /\ Owned(deq) => done < pushed /\ ring[deq].trb = done + 1

\* The driver never writes over a TRB the controller still has to execute.
NoOverwrite ==
  \A k \in done + 1 .. pushed : \E i \in 0 .. N - 2 : ring[i].trb = k

\* The ring behaves as a queue.
Queue == INSTANCE TrbQueue
ImplementsQueue == Queue!QueueSpec

\* xhci.c:339 says the driver "writes to link TRB (already initialized), then
\* toggles cycle state": the ring works lap after lap.
EveryTrbExecuted == \A k \in 1 .. MaxPush : pushed >= k ~> done >= k

-----------------------------------------------------------------------------
(* The inductive invariant.  The first TRB of the driver's lap is number     *)
(* Base + 1, that of the controller's lap CBase + 1; either both are in the  *)
(* same lap or the controller is one behind.                                 *)

Base  == pushed - index
CBase == done - deq

SameLap   == Base = CBase /\ cycle = ccs
LapBehind == Base = CBase + (N - 1) /\ cycle = 1 - ccs

\* TRBs already written in this lap.
Fresh ==
  \A i \in 0 .. index - 1 :
    ring[i].cycle = cycle /\ ring[i].trb = Base + i + 1

\* TRBs left from the lap before, or never written.
Stale ==
  \A i \in index .. N - 2 :
    /\ ring[i].cycle = 1 - cycle
    /\ Base = 0 \/ ring[i].trb = Base - (N - 1) + i + 1

RingInv ==
  /\ TypeOK
  /\ done <= pushed /\ pushed - done <= Window
  /\ Base >= 0 /\ CBase >= 0
  /\ Base = 0 \/ Base >= N - 1
  /\ SameLap \/ LapBehind
  /\ Fresh
  /\ Stale
=============================================================================
