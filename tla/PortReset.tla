------------------------------ MODULE PortReset ------------------------------
(***************************************************************************)
(* One root port of the xHCI controller while the driver makes it ready:   *)
(* power, reset and retries (xhci_force_port_ready and its helpers in      *)
(* src/kernel/drivers/usb/xhci/xhci.c, called from the port scan there).   *)
(*                                                                         *)
(* PORTSC is a register the hardware changes at any time, and every write  *)
(* writes back what an earlier read returned, with some bits changed.  So  *)
(* reads and writes are steps of their own.  What a write of an old value  *)
(* does depends on the bit: change bits are cleared by a 1, PR starts a    *)
(* reset, and PED is cleared by a 1 -- on a controller that follows the    *)
(* specification to the letter (strict); one that ignores it is not.       *)
(***************************************************************************)
EXTENDS Naturals

CONSTANTS
  PowerPolls,    \* times the scan looks at the power of all ports (21)
  Attempts,      \* passes of xhci_force_port_ready (4)
  MaxEarly,      \* bound: waits that give up while the port is still busy
  MaxFaults      \* bound: resets that fail, links that do not train,
                 \* unplugging, loss of power

ASSUME PortAssumption ==
  PowerPolls \in Nat \ {0} /\ Attempts \in Nat \ {0} /\ MaxEarly \in Nat /\ MaxFaults \in Nat

VARIABLES
  port,      \* PORTSC
  device,    \* what is plugged in: "none", "usb2" or "usb3"
  strict,    \* whether writing 1 to PED disables the port
  pc,        \* what the driver does next
  ps,        \* ps: PORTSC as last read
  round,     \* number of the poll, then of the attempt
  reset,     \* the reset of this attempt: "none", "warm" or "cold"
  verdict,   \* what the driver made of the port
  early,     \* waits that gave up too early
  faults,    \* hardware failures
  usable     \* history: the port could be used when xhci_force_port_ready began

driver == <<pc, ps, round, reset, verdict, usable>>
vars   == <<port, device, strict, driver, early, faults>>

Off == [ccs |-> FALSE, pp |-> FALSE, ped |-> FALSE, u0 |-> FALSE, pr |-> FALSE,
        speed |-> "none", change |-> FALSE]

Speed(d) == IF d = "usb3" THEN "super" ELSE "high"

\* xhci_port_ready
Ready(r) == r.ccs /\ r.ped /\ r.speed # "none" /\ r.u0

Init ==
  /\ device \in {"none", "usb2", "usb3"} /\ strict \in BOOLEAN
  /\ port \in {Off, [Off EXCEPT !.pp = TRUE]}
  /\ pc = "poll" /\ ps = Off /\ round = 1 /\ reset = "none" /\ verdict = "none"
  /\ early = 0 /\ faults = 0 /\ usable = FALSE

-----------------------------------------------------------------------------
(* The port (hardware, as far as the driver depends on it). *)

Fault == faults < MaxFaults /\ faults' = faults + 1

\* A powered port sees its device; a USB 3 link trains and enables the port by
\* itself, a USB 2 port has to be reset first.
Connecting == port.pp /\ device # "none" /\ ~port.ccs

Connect ==
  /\ Connecting
  /\ \E trained \in BOOLEAN :
       /\ IF trained \/ device = "usb2" THEN UNCHANGED faults ELSE Fault
       /\ LET up == trained /\ device = "usb3"
          IN port' = [port EXCEPT !.ccs = TRUE, !.change = TRUE, !.ped = up, !.u0 = up,
                                  !.speed = Speed(device)]
  /\ UNCHANGED <<device, strict, driver, early>>

FinishReset ==
  /\ port.pr
  /\ \E ok \in BOOLEAN :
       /\ IF ok THEN UNCHANGED faults ELSE Fault
       /\ port' = [port EXCEPT !.pr = FALSE, !.change = TRUE,
                               !.ped = ok /\ port.ccs, !.u0 = ok /\ port.ccs]
  /\ UNCHANGED <<device, strict, driver, early>>

Unplug ==
  /\ port.ccs /\ Fault
  /\ device' = "none"
  /\ port' = [Off EXCEPT !.pp = port.pp, !.change = TRUE]
  /\ UNCHANGED <<strict, driver, early>>

\* An over-current condition switches the port off.
PowerLoss ==
  /\ port.pp /\ Fault
  /\ port' = [Off EXCEPT !.change = TRUE]
  /\ UNCHANGED <<device, strict, driver, early>>

\* The port will change without the driver doing anything.
Busy == Connecting \/ port.pr

-----------------------------------------------------------------------------
(* Register accesses. *)

Goto(p) == pc' = p
Read == ps' = port

\* Which change bits v clears is w1c; lws is the strobe that forces U0.
Write(v, w1c, lws) ==
  /\ LET off   == v.ped /\ strict
         start == v.pr /\ port.ccs
     IN port' = [port EXCEPT !.pp = v.pp, !.change = @ /\ ~w1c,
                             !.pr = @ \/ start,
                             !.ped = @ /\ ~off /\ ~start,
                             !.u0 = (@ \/ (lws /\ port.ped)) /\ ~off /\ ~start]
  /\ UNCHANGED <<device, strict, early, faults>>

NoWrite == UNCHANGED <<port, device, strict, faults>>

\* A wait that ends without success: nothing more will happen, or it is early.
GiveUp == IF Busy THEN early < MaxEarly /\ early' = early + 1 ELSE UNCHANGED early

Same(S) == UNCHANGED S

-----------------------------------------------------------------------------
(* The scan: all ports are powered, and after a while looked at. *)

Poll ==
  /\ pc = "poll" /\ Read
  /\ Goto(IF port.pp THEN "polled" ELSE "power")
  /\ NoWrite /\ UNCHANGED <<round, reset, verdict, usable, early>>

Power ==
  /\ pc = "power" /\ Goto("polled")
  /\ Write([ps EXCEPT !.pp = TRUE], FALSE, FALSE)
  /\ UNCHANGED <<ps, round, reset, verdict, usable>>

\* Seeded fault: the ports are looked at without a delay.
PolledHasty ==
  /\ pc = "polled"
  /\ round' = 1 /\ Goto("look") /\ UNCHANGED early
  /\ NoWrite /\ UNCHANGED <<ps, reset, verdict, usable>>

\* The delays are long enough for the device to be seen, or they are not.
Polled ==
  /\ pc = "polled"
  /\ IF round < PowerPolls
     THEN round' = round + 1 /\ Goto("poll") /\ UNCHANGED early
     ELSE round' = 1 /\ Goto("look") /\ GiveUp
  /\ NoWrite /\ UNCHANGED <<ps, reset, verdict, usable>>

Look ==
  /\ pc = "look" /\ Read
  /\ IF port.ccs THEN Goto("begin") /\ UNCHANGED verdict
                 ELSE Goto("done") /\ verdict' = "empty"
  /\ NoWrite /\ UNCHANGED <<round, reset, usable, early>>

-----------------------------------------------------------------------------
(* xhci_force_port_ready. *)

Begin ==
  /\ pc = "begin" /\ Read /\ usable' = Ready(port)
  /\ Goto(IF port.pp THEN "clear" ELSE "powerOn")
  /\ NoWrite /\ UNCHANGED <<round, reset, verdict, early>>

\* xhci_port_power_on
PowerOn ==
  /\ pc = "powerOn" /\ Goto("reread")
  /\ Write([ps EXCEPT !.pp = TRUE], FALSE, FALSE)
  /\ UNCHANGED <<ps, round, reset, verdict, usable>>

Reread ==
  /\ pc = "reread" /\ Read /\ Goto("clear")
  /\ NoWrite /\ UNCHANGED <<round, reset, verdict, usable, early>>

\* xhci_port_clear_w1c: all of ps is written back, and read again.
Clear ==
  /\ pc = "clear"
  /\ IF ps.change
     THEN Goto("cleared") /\ Write(ps, TRUE, FALSE)
     ELSE Goto("check") /\ NoWrite /\ UNCHANGED early
  /\ UNCHANGED <<ps, round, reset, verdict, usable>>

Cleared ==
  /\ pc = "cleared" /\ Read /\ Goto("check")
  /\ NoWrite /\ UNCHANGED <<round, reset, verdict, usable, early>>

Finish(v) == Goto("done") /\ verdict' = v

\* Seeded fault: the port is reset whatever state it is in.
CheckNever ==
  /\ pc = "check"
  /\ Goto(IF reset = "none" THEN "attempt" ELSE "wait")
  /\ NoWrite /\ UNCHANGED <<ps, round, reset, verdict, usable, early>>

\* A port that is ready at the start is left alone; after a reset, wait for it.
Check ==
  /\ pc = "check"
  /\ IF reset # "none" THEN Goto("wait") /\ UNCHANGED verdict
     ELSE IF Ready(ps) THEN Finish("ready")
     ELSE Goto("attempt") /\ UNCHANGED verdict
  /\ NoWrite /\ UNCHANGED <<ps, round, reset, usable, early>>

Attempt ==
  /\ pc = "attempt"
  /\ IF round > Attempts \/ ~ps.ccs
     THEN Finish("notReady") /\ UNCHANGED reset
     ELSE /\ reset' = IF ps.speed = "super" THEN "warm" ELSE "cold"
          /\ Goto("reset") /\ UNCHANGED verdict
  /\ NoWrite /\ UNCHANGED <<ps, round, usable, early>>

\* xhci_port_warm_reset, xhci_port_cold_reset
ResetRead ==
  /\ pc = "reset" /\ Read /\ Goto("resetWrite")
  /\ NoWrite /\ UNCHANGED <<round, reset, verdict, usable, early>>

ResetWrite ==
  /\ pc = "resetWrite" /\ Goto("resetWait")
  /\ Write([ps EXCEPT !.pr = TRUE], FALSE, FALSE)
  /\ UNCHANGED <<ps, round, reset, verdict, usable>>

\* WPR reads as 0 from the start, PR until the reset is over; then ps is read.
ResetWait ==
  /\ pc = "resetWait" /\ Read /\ Goto("clear")
  /\ IF port.pr /\ reset = "cold" THEN GiveUp ELSE UNCHANGED early
  /\ NoWrite /\ UNCHANGED <<round, reset, verdict, usable>>

\* Seeded fault: a wait that gives up starts the attempt over.
WaitAgain(here, next) ==
  /\ pc = here /\ Read
  /\ \/ Ready(port) /\ Finish("ready") /\ UNCHANGED <<early, round, reset>>
     \/ /\ ~Ready(port) /\ GiveUp /\ UNCHANGED <<verdict, reset, round>>
        /\ Goto(IF next = "next" THEN "reset" ELSE next)
  /\ NoWrite /\ UNCHANGED usable

\* xhci_port_wait_ready: the port becomes ready, or the wait gives up and the
\* driver goes on at next; after both waits of a reset comes the next reset.
Wait(here, next) ==
  /\ pc = here /\ Read
  /\ \/ Ready(port) /\ Finish("ready") /\ UNCHANGED <<early, round, reset>>
     \/ /\ ~Ready(port) /\ GiveUp /\ UNCHANGED verdict
        /\ IF next # "next" THEN Goto(next) /\ UNCHANGED <<round, reset>>
           ELSE IF reset = "warm" THEN Goto("reset") /\ reset' = "cold" /\ UNCHANGED round
           ELSE Goto("attempt") /\ round' = round + 1 /\ UNCHANGED reset
  /\ NoWrite /\ UNCHANGED usable

\* xhci_port_force_u0
ForceU0 ==
  /\ pc = "u0" /\ Read
  /\ Goto(IF port.ccs /\ ~port.u0 THEN "u0Write" ELSE "wait2")
  /\ NoWrite /\ UNCHANGED <<round, reset, verdict, usable, early>>

ForceU0Write ==
  /\ pc = "u0Write" /\ Goto("wait2")
  /\ Write(ps, FALSE, TRUE)
  /\ UNCHANGED <<ps, round, reset, verdict, usable>>

-----------------------------------------------------------------------------

Driver ==
  \/ Poll \/ Power \/ Polled \/ Look
  \/ Begin \/ PowerOn \/ Reread \/ Clear \/ Cleared \/ Check \/ Attempt
  \/ ResetRead \/ ResetWrite \/ ResetWait
  \/ Wait("wait", "u0") \/ ForceU0 \/ ForceU0Write \/ Wait("wait2", "next")

Hardware == Connect \/ FinishReset

Next == Driver \/ Hardware \/ Unplug \/ PowerLoss

\* The driver runs, and the hardware ends what it began.
Spec == Init /\ [][Next]_vars /\ WF_vars(Driver) /\ WF_vars(Hardware)

-----------------------------------------------------------------------------
(* Properties. *)

\* The verdict is right.  A port said to be ready is still ready when the driver
\* goes on to enumerate it (nothing it did before is still under way), and a
\* device that works is found and made ready -- by a controller that does not
\* take the 1 written back to PED for a command.
VerdictRight ==
  pc = "done" =>
    /\ verdict = "ready" /\ faults = 0 => Ready(port) /\ ~port.pr
    /\ ~strict /\ faults = 0 /\ early = 0 =>
         verdict = IF device = "none" THEN "empty" ELSE "ready"

\* xhci.c:1249: "If the port is already usable, do NOT reset it", whatever the
\* port does between the reads.  (A strict controller disables it when the change
\* bits are cleared, and then it is reset.)
UsableNotReset ==
  [][usable /\ ~strict /\ faults = 0 => (port'.pr => port.pr)]_vars

\* The scan comes to an end at every port, even one that is unplugged, never
\* trains, or falls back each time the driver touches it.
ScanEnds == <>(pc = "done")
==============================================================================
