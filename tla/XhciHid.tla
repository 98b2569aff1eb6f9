------------------------------- MODULE XhciHid -------------------------------
(***************************************************************************)
(* USB keyboards and mice behind the xHCI controller: enumeration at boot  *)
(* and polling in the main loop (src/kernel/drivers/usb/xhci: xhci.c,      *)
(* xhci_hid.c, xhci_events.c).                                             *)
(*                                                                         *)
(* The driver is sequential: it enumerates one port after the other, each  *)
(* time pushing a command or a control transfer and then waiting.  The     *)
(* controller answers on its own time, in order per ring, through the one  *)
(* event ring that all waits and the main loop read.  A wait takes the     *)
(* first event that looks like its answer and DROPS every event before it. *)
(*                                                                         *)
(* Abstractions: the ports of Ports are connected and became ready; the    *)
(* rings themselves are TrbRing.tla.  Configuration descriptors are parsed *)
(* (ConfigDescriptor); of report descriptors and reports only the time of  *)
(* arrival counts here, PointerPath has their bits.                        *)
(***************************************************************************)
EXTENDS ConfigDescriptor, FiniteSets

CONSTANTS
  NPorts,      \* connected ports, enumerated in order
  Config,      \* by port, the configuration descriptor of the device
  Hids,        \* the ports of keyboards and mice, as the devices are built
  Interface,   \* by port in Hids, the number of the HID interface
  Endpoint,    \* by port in Hids, its interrupt IN endpoint
  Resize,      \* full-speed ones whose EP0 packet size is not 8
  MaxTrouble,  \* bound: commands and stages that end in an error, plus waits
               \* that give up before the answer comes
  MaxBehind,   \* bound: stages the controller is behind when more are asked for
  EventRing    \* events the event ring has room for (255)

Ports == 1 .. NPorts
Slots == 1 .. NPorts      \* slot ids the controller hands out

ASSUME HidAssumption ==
  /\ NPorts \in Nat \ {0} /\ MaxTrouble \in Nat /\ MaxBehind \in Nat /\ EventRing \in Nat
  /\ Config \in [Ports -> Seq(0 .. 255)]
  /\ Hids \subseteq Ports /\ Resize \subseteq Ports

VARIABLES
  pc,        \* what the driver does next
  port,      \* the port it enumerates
  step,      \* the command or control request it is at
  slot,      \* slot_id of the port it enumerates
  devs,      \* g_devs: by slot, the port, whether its configuration was read
             \*   and whether it is polled
  commands,  \* command ring: what the controller has not executed
  cmds,      \* number of commands pushed; it identifies the last one
  ep0,       \* by slot, the stages of control transfers not executed
  halted,    \* by slot, whether EP0 halted on an error
  armed,     \* by slot, TRBs on the interrupt ring not executed
  slots,     \* slots the controller has enabled
  events,    \* event ring: what the driver has not read
  pending,   \* by slot, whether the device has input to report
  eager,     \* whether the controller answers before the driver goes on
  faults,    \* errors so far
  slow,      \* waits that gave up early
  dropped    \* history: slots whose input event was dropped by a wait

driver     == <<pc, port, step, slot, devs>>
controller == <<commands, cmds, ep0, halted, armed, slots, events>>
counters   == <<eager, faults, slow>>
vars == <<driver, controller, pending, counters, dropped>>

-----------------------------------------------------------------------------

CommandSteps == {"enable", "address", "evaluate", "configure"}
WithData == {"dev8", "dev18", "cfg9", "cfg", "report"}
ControlSteps == WithData \cup {"setcfg", "protocol", "idle"}

NoDev == [port |-> 0, hid |-> FALSE, polled |-> FALSE]

\* What the walk over the configuration descriptor finds, of each port.
HidOfPort == [p \in Ports |-> HidOf(Config[p])]

\* Every stage TRB asks for an event of its own (IOC is set on all of them).
StagesOf(s) ==
  IF s \in WithData THEN <<<<s, "setup">>, <<s, "data">>, <<s, "status">>>>
                    ELSE <<<<s, "setup">>, <<s, "status">>>>

CommandEvent(id, s, ok) == [type |-> "command", id |-> id, slot |-> s, ep |-> "none", ok |-> ok]
TransferEvent(s, ep, ok) == [type |-> "transfer", id |-> 0, slot |-> s, ep |-> ep, ok |-> ok]

Init ==
  /\ pc = "command" /\ port = 1 /\ step = "enable" /\ slot = 0
  /\ devs = [s \in Slots |-> NoDev]
  /\ commands = <<>> /\ cmds = 0
  /\ ep0 = [s \in Slots |-> <<>>] /\ halted = [s \in Slots |-> FALSE]
  /\ armed = [s \in Slots |-> 0] /\ slots = 0
  /\ events = <<>>
  /\ pending = [s \in Slots |-> FALSE]
  /\ eager \in BOOLEAN /\ faults = 0 /\ slow = 0
  /\ dropped = {}

-----------------------------------------------------------------------------
(* Where the driver goes after each request. *)

Goto(p, s) == pc' = p /\ step' = s /\ UNCHANGED port

NextPort ==
  /\ pc' = IF port = NPorts THEN "poll" ELSE "command"
  /\ step' = "enable"
  /\ port' = IF port = NPorts THEN port ELSE port + 1

\* Has the data stage of the request already been executed?
Arrived(s) == \A i \in DOMAIN ep0[slot] : ep0[slot][i] # <<s, "data">>

\* xhci_hid_start_polling: one more TRB on the interrupt ring.
StartPolling(s) == armed' = [armed EXCEPT ![s] = @ + 1]

\* Seeded fault: the completion code of ENABLE_SLOT is not looked at.
CommandResultUnchecked(ok, s) ==
  IF step = "enable" THEN
       /\ slot' = (IF ok THEN s ELSE slot) /\ Goto("command", "address")
       /\ UNCHANGED <<devs, armed>>
  ELSE /\ devs' = [devs EXCEPT ![slot] = [NoDev EXCEPT !.port = port]]
       /\ NextPort /\ UNCHANGED <<slot, armed>>

\* xhci_cmd_address_device: after each command.  A late completion can make two
\* ports share a slot: the driver then has rings the controller does not know,
\* and the model follows it no further ("shared").  s is the slot the event names.
CommandResult(ok, s) ==
  CASE step = "enable" ->
         /\ IF ok THEN slot' = s /\ Goto("command", "address")
                  ELSE NextPort /\ UNCHANGED slot
         /\ UNCHANGED <<devs, armed>>
    [] step = "address" ->
         /\ IF ok THEN /\ devs' = [devs EXCEPT ![slot] = [NoDev EXCEPT !.port = port]]
                       /\ Goto(IF devs[slot].port = 0 THEN "control" ELSE "shared", "dev8")
                  ELSE NextPort /\ UNCHANGED devs
         /\ UNCHANGED <<slot, armed>>
    [] step = "evaluate" ->
         /\ Goto("control", IF ok /\ s = slot THEN "dev18" ELSE "cfg9")
         /\ UNCHANGED <<slot, devs, armed>>
    [] step = "configure" ->
         /\ IF ok THEN /\ devs' = [devs EXCEPT ![slot].polled = TRUE]
                       /\ StartPolling(slot)
                  ELSE UNCHANGED <<devs, armed>>
         /\ NextPort /\ UNCHANGED slot

\* What g_devs says of the HID interface: a page of zeros holds none.
Hid(s) == IF devs[s].hid THEN HidOfPort[devs[s].port] ELSE NoHid

\* xhci_cmd_configure_intr_in_ep: without an endpoint there is nothing to poll.
Configure ==
  IF Hid(slot).ep = 0 \/ Hid(slot).mps = 0
  THEN NextPort ELSE Goto("command", "configure")

MaxReportLen == 4096

\* ... and after each control transfer.  A failed GET_DESCRIPTOR of the
\* configuration ends the enumeration of the port, other failures do not.
AfterControl(ok) ==
  CASE step = "dev8" ->
         IF ~ok THEN Goto("control", "cfg9")
         ELSE IF port \in Resize /\ Arrived("dev8") THEN Goto("command", "evaluate")
         ELSE Goto("control", "dev18")
    [] step = "dev18" -> Goto("control", "cfg9")
    [] step = "cfg9"  -> IF ok THEN Goto("control", "cfg") ELSE NextPort
    [] step = "cfg"   -> IF ok THEN Goto("control", "setcfg") ELSE NextPort
    [] step = "setcfg" ->
         IF Hid(slot).ifnum = NoInterface THEN NextPort
         ELSE Goto("control", IF Hid(slot).sub = BootSub THEN "protocol" ELSE "idle")
    [] step = "protocol" -> Goto("control", "idle")
    [] step = "idle"     -> IF Hid(slot).reportLen \in 1 .. MaxReportLen
                            THEN Goto("control", "report") ELSE Configure
    [] step = "report"   -> Configure

\* Descriptors are parsed whether or not they have arrived.
ControlResult(ok) ==
  /\ AfterControl(ok)
  /\ devs' = IF ok /\ step = "cfg"
             THEN [devs EXCEPT ![slot].hid = Arrived("cfg")]
             ELSE devs

-----------------------------------------------------------------------------
(* The driver. *)

\* An eager controller leaves the driver no time.
Idle == commands = <<>> /\ \A s \in Slots : ep0[s] = <<>> \/ halted[s]
Turn == eager => Idle

\* xhci_cmd_ring_push and the doorbell.
PushCommand ==
  /\ pc = "command" /\ Turn
  /\ commands' = Append(commands, [id |-> cmds + 1, kind |-> step, slot |-> slot])
  /\ cmds' = cmds + 1
  /\ pc' = "awaitCommand"
  /\ UNCHANGED <<port, step, slot, devs, ep0, halted, armed, slots, events, pending, counters,
                 dropped>>

NotFarBehind == \A s \in Slots : halted[s] \/ Len(ep0[s]) <= MaxBehind

\* xhci_ep0_control_in and _no_data_out, up to the doorbell.
PushControl ==
  /\ pc = "control" /\ Turn /\ NotFarBehind
  /\ ep0' = [ep0 EXCEPT ![slot] = @ \o StagesOf(step)]
  /\ pc' = "awaitControl"
  /\ UNCHANGED <<port, step, slot, devs, commands, cmds, halted, armed, slots, events, pending,
                 counters, dropped>>

Drop(e) == dropped' = IF e.ep = "intr" THEN dropped \cup {e.slot} ELSE dropped

\* Seeded fault: any event ends the wait.
AwaitCommandAny ==
  /\ pc = "awaitCommand" /\ Turn /\ events # <<>>
  /\ events' = Tail(events)
  /\ CommandResult(Head(events).ok, Head(events).slot)
  /\ Drop(Head(events))
  /\ UNCHANGED <<commands, cmds, ep0, halted, slots, pending, counters>>

\* xhci_wait_for_command_completion: any completion is taken for the answer.
AwaitCommand ==
  /\ pc = "awaitCommand" /\ Turn /\ events # <<>>
  /\ LET e == Head(events)
     IN /\ events' = Tail(events)
        /\ IF e.type = "command"
           THEN CommandResult(e.ok, e.slot) /\ UNCHANGED dropped
           ELSE Drop(e) /\ UNCHANGED <<driver, armed>>
  /\ UNCHANGED <<commands, cmds, ep0, halted, slots, pending, counters>>

\* Seeded fault: the wait ends with an event of another device.
AwaitControlFirst ==
  /\ pc = "awaitControl" /\ Turn /\ events # <<>>
  /\ LET e == Head(events)
         own == e.type = "transfer" /\ e.slot = slot
     IN /\ events' = Tail(events)
        /\ ControlResult(own /\ e.ok)
        /\ IF own THEN UNCHANGED dropped ELSE Drop(e)
  /\ UNCHANGED <<slot, commands, cmds, ep0, halted, armed, slots, pending, counters>>

\* xhci_wait_for_transfer_event: any transfer event of the slot is taken for the
\* answer, whatever stage or endpoint it is from.
AwaitControl ==
  /\ pc = "awaitControl" /\ Turn /\ events # <<>>
  /\ LET e == Head(events)
     IN /\ events' = Tail(events)
        /\ IF e.type = "transfer" /\ e.slot = slot
           THEN ControlResult(e.ok) /\ UNCHANGED <<slot, dropped>>
           ELSE Drop(e) /\ UNCHANGED driver
  /\ UNCHANGED <<commands, cmds, ep0, halted, armed, slots, pending, counters>>

\* A wait gives up: no answer will come, or it is late.
GiveUp(answerComing) ==
  /\ events = <<>> /\ Turn
  /\ IF answerComing THEN faults + slow < MaxTrouble /\ slow' = slow + 1 ELSE UNCHANGED slow

CommandTimeout ==
  /\ pc = "awaitCommand" /\ GiveUp(commands # <<>>)
  /\ CommandResult(FALSE, 0)
  /\ UNCHANGED <<commands, cmds, ep0, halted, slots, events, pending, eager, faults, dropped>>

\* Seeded fault: the wait has no limit as long as the request is on the ring.
ControlTimeoutPatient ==
  /\ pc = "awaitControl" /\ GiveUp(FALSE) /\ ep0[slot] = <<>>
  /\ ControlResult(FALSE)
  /\ UNCHANGED <<slot, controller, pending, eager, faults, dropped>>

ControlTimeout ==
  /\ pc = "awaitControl" /\ GiveUp(ep0[slot] # <<>> /\ ~halted[slot])
  /\ ControlResult(FALSE)
  /\ UNCHANGED <<slot, controller, pending, eager, faults, dropped>>

\* Seeded fault: an event is handled without re-arming the endpoint.
PollEventNoRearm ==
  /\ pc = "poll" /\ Turn /\ events # <<>>
  /\ events' = Tail(events)
  /\ UNCHANGED <<driver, commands, cmds, ep0, halted, armed, slots, pending, counters, dropped>>

\* Seeded fault: the endpoint the event is from is not looked at.
PollEventAnyEp ==
  /\ pc = "poll" /\ Turn /\ events # <<>>
  /\ LET e == Head(events)
     IN /\ events' = Tail(events)
        /\ IF e.type = "transfer" /\ devs[e.slot].polled
           THEN StartPolling(e.slot) ELSE UNCHANGED armed
  /\ UNCHANGED <<driver, commands, cmds, ep0, halted, slots, pending, counters, dropped>>

\* xhci_poll_events, one event: an interrupt event of a device is handed to the
\* input layer and the endpoint is armed again, even after an error.
PollEvent ==
  /\ pc = "poll" /\ Turn /\ events # <<>>
  /\ LET e == Head(events)
     IN /\ events' = Tail(events)
        /\ IF e.type = "transfer" /\ e.ep = "intr" /\ Hid(e.slot).ep # 0
           THEN StartPolling(e.slot) ELSE UNCHANGED armed
  /\ UNCHANGED <<driver, commands, cmds, ep0, halted, slots, pending, counters, dropped>>

-----------------------------------------------------------------------------
(* The controller and the devices (hardware, as the driver relies on it). *)

Outcome(ok) ==
  IF ok THEN UNCHANGED faults ELSE faults + slow < MaxTrouble /\ faults' = faults + 1

ExecuteCommand ==
  /\ commands # <<>>
  /\ \E ok \in BOOLEAN :
       LET c == Head(commands)
           s == IF c.kind = "enable" THEN (IF ok THEN slots + 1 ELSE 0) ELSE c.slot
       IN /\ Outcome(ok)
          /\ events' = Append(events, CommandEvent(c.id, s, ok))
          /\ slots' = IF c.kind = "enable" /\ ok THEN slots + 1 ELSE slots
  /\ commands' = Tail(commands)
  /\ UNCHANGED <<driver, cmds, ep0, halted, armed, pending, eager, slow, dropped>>

\* A stage that fails halts EP0: nothing in the driver resets it.
ExecuteStage(s) ==
  /\ ep0[s] # <<>> /\ ~halted[s]
  /\ \E ok \in BOOLEAN :
       /\ Outcome(ok)
       /\ events' = Append(events, TransferEvent(s, "ep0", ok))
       /\ halted' = [halted EXCEPT ![s] = ~ok]
       /\ ep0' = IF ok THEN [ep0 EXCEPT ![s] = Tail(@)] ELSE ep0
  /\ UNCHANGED <<driver, commands, cmds, armed, slots, pending, eager, slow, dropped>>

\* The user types or moves the mouse (input from before the device is polled
\* waits in the device, and is as good as input made right after).
UserActs(s) ==
  /\ devs[s].polled /\ ~pending[s]
  /\ pending' = [pending EXCEPT ![s] = TRUE]
  /\ UNCHANGED <<driver, controller, counters, dropped>>

\* A configured device with an armed endpoint reports.
Configured(s) == \A i \in DOMAIN ep0[s] : ep0[s][i] # <<"setcfg", "status">>

Report(s) ==
  /\ pending[s] /\ armed[s] > 0 /\ Configured(s)
  /\ armed' = [armed EXCEPT ![s] = @ - 1]
  /\ pending' = [pending EXCEPT ![s] = FALSE]
  /\ events' = Append(events, TransferEvent(s, "intr", TRUE))
  /\ UNCHANGED <<driver, commands, cmds, ep0, halted, slots, counters, dropped>>

-----------------------------------------------------------------------------

Driver ==
  \/ PushCommand \/ PushControl
  \/ AwaitCommand \/ AwaitControl \/ CommandTimeout \/ ControlTimeout
  \/ PollEvent

Next ==
  \/ Driver \/ ExecuteCommand
  \/ \E s \in Slots : ExecuteStage(s) \/ UserActs(s) \/ Report(s)

\* The main loop polls for ever, the controller answers what it was asked, and
\* a device with an armed endpoint reports.  The user need not do anything.
Fairness ==
  /\ WF_vars(Driver) /\ WF_vars(ExecuteCommand)
  /\ \A s \in Slots : WF_vars(ExecuteStage(s)) /\ WF_vars(Report(s))

Spec == Init /\ [][Next]_vars /\ Fairness

-----------------------------------------------------------------------------
(* Properties. *)

Events == [type : {"command", "transfer"}, id : 0 .. cmds, slot : Slots \cup {0},
           ep : {"none", "ep0", "intr"}, ok : BOOLEAN]

\* Types of the variables.
TypeOK ==
  /\ pc \in {"command", "awaitCommand", "control", "awaitControl", "poll", "shared"}
  /\ port \in Ports /\ step \in CommandSteps \cup ControlSteps
  /\ slot \in Slots \cup {0}
  /\ \A s \in Slots : devs[s].port \in Ports \cup {0} /\ DOMAIN devs[s] = DOMAIN NoDev
  /\ armed \in [Slots -> {0, 1}]
  /\ slots \in Slots \cup {0}
  /\ events \in Seq(Events)
  /\ dropped \subseteq Slots

EventsOf(s) == Cardinality({i \in DOMAIN events : events[i].slot = s /\ events[i].ep = "intr"})

\* A polled device has exactly one transfer in flight: on its ring, or as an
\* event not yet read.  None would leave it mute, two would let a report
\* overwrite intr_buf before it was decoded.  The one exception is a device
\* whose event a wait for another port dropped.
OneTransferInFlight ==
  pc # "shared" =>
    \A s \in Slots :
      armed[s] + EventsOf(s) = IF devs[s].polled /\ s \notin dropped THEN 1 ELSE 0

\* What a device leaves on the event ring: the stages of its control transfers
\* post up to 21 events, the eight waits take one each, and a report waits.
PerDevice == 14

\* Unread events pile up while the system boots, one more for each wait that gave
\* up before its answer came, and a ring with room for these never overflows.
EventsFit == PerDevice * NPorts + slow <= EventRing => Len(events) <= EventRing

\* The state of the driver stays in its types, what it polls stays armed, and
\* the event ring never fills up.
HidInv == TypeOK /\ OneTransferInFlight /\ EventsFit

\* As long as no wait gave up early, the completion a command wait takes is that
\* of its own command, although nothing compares them.
CompletionsMatch ==
  [][(pc = "awaitCommand" /\ pc' # pc /\ events' # events /\ slow = 0)
     => Head(events).id = cmds]_vars

\* The entry of g_devs a port got is not overwritten for a later port, as long
\* as no wait gave up early.  (When one did, the late completion of a command of
\* the first port is taken for that of the next ENABLE_SLOT, slot id and all.)
DevsKept ==
  [][slow = 0 => \A s \in Slots : devs[s].port # 0 => devs'[s].port = devs[s].port]_vars

\* What the walk over the configuration descriptor of a keyboard or mouse finds:
\* its HID interface, and its interrupt endpoint with a packet size.
WalkFinds ==
  \A p \in Hids :
    /\ HidOfPort[p].ifnum = Interface[p] /\ Interface[p] # NoInterface
    /\ HidOfPort[p].ep = Endpoint[p] /\ Endpoint[p] # 0 /\ HidOfPort[p].mps # 0

\* With a controller that answers at once and never fails, every keyboard and
\* mouse is polled after boot, requests went to its HID interface and reports
\* come from the endpoint of that interface: reading events that are one
\* transfer behind (each transfer posts up to three, each wait takes one) loses
\* nothing then.
EagerBootFindsAll ==
  (eager /\ faults = 0 /\ pc = "poll") =>
     \A p \in Hids : \E s \in Slots :
        /\ devs[s].port = p /\ devs[s].polled
        /\ Hid(s).ifnum = Interface[p] /\ Hid(s).ep = Endpoint[p]

\* Boot always ends: no wait lasts for ever, whatever was dropped.
BootEnds == <>(pc \in {"poll", "shared"})

\* Input of a device that is polled and whose events were never dropped reaches
\* the main loop.
UndroppedInputArrives ==
  \A s \in Slots :
    (devs[s].polled /\ pending[s]) ~>
      (~pending[s] \/ s \in dropped \/ slow > 0 \/ faults > 0)

\* main.c:349: polling keeps mouse and keyboard responsive: input of a device
\* that was armed at boot reaches the main loop, without any error or time-out.
InputStaysResponsive ==
  \A s \in Slots :
    (devs[s].polled /\ pending[s]) ~> (~pending[s] \/ slow > 0 \/ faults > 0)

\* xhci.c:322 reports "SET_CONFIGURATION done" when the wait ends well.
SetConfigurationIsDone ==
  [][(pc = "awaitControl" /\ step = "setcfg" /\ pc' # pc /\ events' # events
      /\ Head(events).ok)
     => Configured(slot)]_vars
==============================================================================
