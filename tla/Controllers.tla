----------------------------- MODULE Controllers -----------------------------
(***************************************************************************)
(* The search for xHCI controllers at boot (pci_enumerate in pci.c) and    *)
(* the start of each one that is found (xhci_init in xhci.c, up to the     *)
(* ports), on the memory of Pages: what a controller is given to work with *)
(* are pages, which it uses on its own from the moment it runs.            *)
(*                                                                         *)
(* One bus is scanned.  The registers of a controller are one page; of     *)
(* enumeration (PortReset, XhciHid) only the pages it takes are here.      *)
(***************************************************************************)
EXTENDS Pages

CONSTANTS
  LastSlot,    \* slots are 0 to LastSlot (31)
  LastFunc,    \* functions are 0 to LastFunc (7)
  FourGig,     \* pages below 4 GiB
  Machines,    \* what may be plugged in: by slot, a device (see IsDevice)
  Scratchpads  \* numbers of scratchpads a controller may want

\* A function: its class, its two BARs, and where its registers really are.
NoFunction == [class |-> "none", low |-> 0, high |-> 0, wide |-> FALSE, base |-> 0]

IsDevice(d) ==
  /\ d.multi \in BOOLEAN                  \* bit 7 of the header type
  /\ d.echoes \in BOOLEAN                 \* answers for every function number
  /\ ~(d.multi /\ d.echoes)
  /\ DOMAIN d.functions = 0 .. LastFunc
  /\ \A f \in DOMAIN d.functions :
       /\ d.functions[f].class \in {"none", "other", "xhci"}
       /\ d.functions[f].class = "xhci" => d.functions[f].base \in Mmio
       /\ d.functions[f].class = "xhci" =>                   \* as the BARs say
            d.functions[f].base = d.functions[f].low + (IF d.functions[f].wide
                                                        THEN FourGig * d.functions[f].high ELSE 0)
       /\ ~d.multi /\ f > 0 => d.functions[f] = NoFunction

\* No two controllers have their registers at the same place.
ApartFrom(m) ==
  \A s, t \in DOMAIN m, f, g \in 0 .. LastFunc :
    /\ m[s].functions[f].class = "xhci" /\ m[t].functions[g].class = "xhci"
    /\ m[s].functions[f].base = m[t].functions[g].base
    => s = t /\ f = g

ASSUME ControllersAssumption ==
  /\ LastSlot \in Nat /\ LastFunc \in Nat /\ FourGig \in Nat /\ Scratchpads \subseteq Nat
  /\ \A m \in Machines :
       DOMAIN m = 0 .. LastSlot /\ (\A s \in DOMAIN m : IsDevice(m[s])) /\ ApartFrom(m)

VARIABLES
  machine,   \* the devices
  at,        \* bus position of the scan
  stage,     \* where the driver is with the function at that position
  mmio,      \* cap_regs: the controller xhci_init is at
  ctl        \* the controllers, by the address of their registers

pci   == <<machine, at, stage, mmio, ctl>>
cvars == <<vars, pci>>

Bases(m) ==
  {b \in Mmio : \E s \in DOMAIN m, f \in 0 .. LastFunc :
                  m[s].functions[f].class = "xhci" /\ m[s].functions[f].base = b}

\* Firmware may have left a controller running, on memory of its own, and may
\* own it.
CInit ==
  /\ Init
  /\ machine \in Machines
  /\ \E running, owned \in BOOLEAN, n \in Scratchpads :
       ctl = [b \in Bases(machine) |->
                [run |-> running, halted |-> ~running, resetting |-> FALSE,
                 notReady |-> FALSE, owned |-> owned, asked |-> FALSE,
                 scratch |-> n, mem |-> <<>>, reset |-> FALSE, starts |-> 0]]
  /\ at = [slot |-> 0, func |-> 0] /\ stage = "probe" /\ mmio = 0

-----------------------------------------------------------------------------
(* pci_enumerate *)

\* What configuration space says: a device that does not decode the function
\* number shows its one function everywhere.
Seen ==
  LET d == machine[at.slot]
  IN IF d.echoes THEN d.functions[0] ELSE d.functions[at.func]

MmioBase(fn) == fn.low + (IF fn.wide THEN FourGig * fn.high ELSE 0)

NextSlot ==
  IF at.slot < LastSlot
  THEN stage' = "probe" /\ at' = [slot |-> at.slot + 1, func |-> 0]
  ELSE stage' = "over" /\ UNCHANGED at

\* Seeded fault: all functions of every device are looked at.
OnwardAll ==
  IF at.func < LastFunc
  THEN stage' = "probe" /\ at' = [at EXCEPT !.func = @ + 1]
  ELSE NextSlot

\* Of a device with one function the others are not looked at.
Onward ==
  LET single == at.func = 0 /\ Seen.class # "none" /\ ~machine[at.slot].multi
  IN IF ~single /\ at.func < LastFunc
     THEN stage' = "probe" /\ at' = [at EXCEPT !.func = @ + 1]
     ELSE NextSlot

Probe ==
  /\ pc = "drivers" /\ stage = "probe"
  /\ IF Seen.class = "xhci"
     THEN mmio' = MmioBase(Seen) /\ stage' = "map" /\ UNCHANGED at
     ELSE Onward /\ UNCHANGED mmio
  /\ UNCHANGED <<vars, machine, ctl>>

-----------------------------------------------------------------------------
(* xhci_init *)

At(s) == pc = "drivers" /\ stage = s
Goto(s) == stage' = s /\ UNCHANGED <<machine, at, mmio>>
This == ctl[mmio]

MapRegisters == At("map") /\ MapDevice(mmio) /\ Goto("handoff") /\ UNCHANGED ctl

\* xhci_bios_handoff: without the capability the firmware never owned it.
Handoff ==
  /\ At("handoff") /\ Goto("await firmware")
  /\ ctl' = [ctl EXCEPT ![mmio].asked = TRUE]
  /\ UNCHANGED vars

\* Seeded fault: the firmware is waited for without a limit.
FirmwareAwaitedLong ==
  /\ At("await firmware") /\ ~This.owned /\ Goto("stop")
  /\ UNCHANGED <<vars, ctl>>

\* It is given up, or the limit is reached: the driver goes on in either case.
FirmwareAwaited == At("await firmware") /\ Goto("stop") /\ UNCHANGED <<vars, ctl>>

ClearRun ==
  /\ At("stop") /\ Goto("await halt")
  /\ ctl' = [ctl EXCEPT ![mmio].run = FALSE]
  /\ UNCHANGED vars

\* A reset makes the controller forget the memory it was given.
Reset ==
  /\ At("await halt") /\ This.halted /\ Goto("await reset")
  /\ ctl' = [ctl EXCEPT ![mmio].resetting = TRUE, ![mmio].mem = <<>>]
  /\ UNCHANGED vars

\* Two waits without a limit: HCRST and CNR have to clear.
ResetAwaited ==
  /\ At("await reset") /\ ~This.resetting /\ ~This.notReady /\ Goto("memory")
  /\ UNCHANGED <<vars, ctl>>

\* The pages a controller is started with, in the order they are taken.
Wanted(c) ==
  <<"contexts">>
  \o (IF c.scratch = 0 THEN <<>>
      ELSE <<"scratchpads">> \o [i \in 1 .. c.scratch |-> "scratchpad"])
  \o <<"commands", "events", "segments">>

\* The page goes to the controller, if there was one.
Give == ctl' = [ctl EXCEPT ![mmio].mem = @ \o SetToSeq(driver' \ driver)]

TakeMemory ==
  /\ At("memory") /\ Len(This.mem) < Len(Wanted(This))
  /\ TakePage(Wanted(This)[Len(This.mem) + 1] # "scratchpad")
  /\ Give /\ Goto("memory")

Run ==
  /\ At("memory") /\ Len(This.mem) = Len(Wanted(This)) /\ Goto("ports")
  /\ ctl' = [ctl EXCEPT ![mmio].run = TRUE, ![mmio].halted = FALSE,
                        ![mmio].starts = @ + 1]
  /\ UNCHANGED vars

\* Enumeration takes a page for every ring, context and buffer of a device.
Enumerate == At("ports") /\ TakePage(TRUE) /\ Give /\ Goto("ports")

\* The ports are done; pci_enumerate goes on behind the controller.
Enumerated == At("ports") /\ Onward /\ UNCHANGED <<vars, machine, mmio, ctl>>

-----------------------------------------------------------------------------
(* The controllers and the firmware (hardware, as the driver relies on it). *)

FirmwareReleases(b) ==
  /\ ctl[b].owned /\ ctl[b].asked
  /\ ctl' = [ctl EXCEPT ![b].owned = FALSE]
  /\ UNCHANGED <<vars, machine, at, stage, mmio>>

Halts(b) ==
  /\ ~ctl[b].run /\ ~ctl[b].halted
  /\ ctl' = [ctl EXCEPT ![b].halted = TRUE]
  /\ UNCHANGED <<vars, machine, at, stage, mmio>>

ResetEnds(b) ==
  /\ ctl[b].resetting
  /\ ctl' = [ctl EXCEPT ![b].resetting = FALSE, ![b].notReady = TRUE, ![b].reset = TRUE]
  /\ UNCHANGED <<vars, machine, at, stage, mmio>>

BecomesReady(b) ==
  /\ ctl[b].notReady
  /\ ctl' = [ctl EXCEPT ![b].notReady = FALSE]
  /\ UNCHANGED <<vars, machine, at, stage, mmio>>

-----------------------------------------------------------------------------

Kernel ==
  \/ PmmInit \/ VmmInit \/ MapNext \/ Activate \/ GrowHeap \/ HeapReady
  \/ LaunchMap \/ LaunchStack

Driver ==
  \/ Probe \/ MapRegisters \/ Handoff \/ FirmwareAwaited \/ ClearRun \/ Reset \/ ResetAwaited
  \/ TakeMemory \/ Run \/ Enumerate \/ Enumerated

CNext ==
  \/ Kernel /\ UNCHANGED pci
  \/ At("over") /\ Launch /\ UNCHANGED pci
  \/ Driver
  \/ \E b \in DOMAIN ctl : FirmwareReleases(b) \/ Halts(b) \/ ResetEnds(b) \/ BecomesReady(b)

\* The processor runs and a controller does what its registers ask for; firmware
\* need not give anything up, and the user need not start the task.
CFairness ==
  /\ WF_cvars(Kernel /\ UNCHANGED pci) /\ WF_cvars(Driver)
  /\ \A b \in Mmio : WF_cvars(b \in DOMAIN ctl /\ (Halts(b) \/ ResetEnds(b) \/ BecomesReady(b)))

CSpec == CInit /\ [][CNext]_cvars /\ CFairness

-----------------------------------------------------------------------------
(* Properties. *)

\* A controller that the kernel has started was reset before, was ready, and got
\* all it wants.
StartedInOrder ==
  \A b \in DOMAIN ctl : LET c == ctl[b] IN
    c.starts > 0 => /\ c.run /\ c.reset /\ ~c.resetting /\ ~c.notReady
                    /\ Len(c.mem) >= Len(Wanted(c))

\* The memory a controller uses on its own was taken for it: no page twice, and
\* none that another controller was given -- also when the driver has turned to
\* the next one and its variables point there.
MemoryOfItsOwn ==
  \A b \in DOMAIN ctl :
    /\ IsInjective(ctl[b].mem) /\ Range(ctl[b].mem) \subseteq driver
    /\ \A d \in DOMAIN ctl \ {b} : Range(ctl[b].mem) \cap Range(ctl[d].mem) = {}

\* No controller is started twice, whatever else its device answers for, and none
\* is left out, wherever its registers are.
StartedOnce ==
  /\ \A b \in DOMAIN ctl : ctl[b].starts <= 1
  /\ stage = "over" => \A b \in DOMAIN ctl : ctl[b].starts = 1

ControllersInv == StartedInOrder /\ MemoryOfItsOwn /\ StartedOnce

\* The scan comes to an end, whatever the firmware does: the waits without a
\* limit are for things a controller has to do.
ScanOver == <>(stage = "over" \/ pc \in {"overlap", "astray", "fault", "noMemory", "scattered"})
=============================================================================
