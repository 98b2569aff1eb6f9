---------------------------- MODULE XhciHid_proofs ----------------------------
(***************************************************************************)
(* Proofs about enumeration and polling, for any number of ports, any      *)
(* configuration descriptors, errors, early time-outs and controllers that *)
(* are any number of stages behind.                                        *)
(*                                                                         *)
(* That a polled device has one transfer in flight is inductive once it is *)
(* known that a device is polled only after everything the driver asked of *)
(* it (Working) and that its events lead back to an endpoint (Polled).     *)
(* That the event ring never fills up is an account of what the controller *)
(* has still to answer (Load) against what the driver has asked for        *)
(* (Asked): each wait takes an answer, or gives up on one and is counted.  *)
(* That a completion is that of its own command holds as long as no wait   *)
(* gave up early, because then there never are two (Calm).                 *)
(* That a controller that answers at once gets every keyboard and mouse    *)
(* polled is EagerInv: no answer is an error, what the driver waits for is *)
(* there when it looks, and the ports behind it are done.                  *)
(***************************************************************************)
EXTENDS XhciHid, FiniteSetTheorems, SequenceTheorems, TLAPS

-----------------------------------------------------------------------------
(* The inductive invariant. *)

Stages == ControlSteps \X {"setup", "data", "status"}
Commands ==
  [id : Nat, kind : {"enable"}, slot : Slots \cup {0}]
    \cup [id : Nat, kind : CommandSteps \ {"enable"}, slot : Slots]

\* An event that reports success names a slot.
CommandEvents ==
  [type : {"command"}, id : Nat, slot : Slots, ep : {"none"}, ok : BOOLEAN]
    \cup [type : {"command"}, id : Nat, slot : {0}, ep : {"none"}, ok : {FALSE}]
TransferEvents ==
  [type : {"transfer"}, id : {0}, slot : Slots, ep : {"ep0", "intr"}, ok : BOOLEAN]

Enumerating == pc \in {"command", "awaitCommand", "control", "awaitControl"}

HTypes ==
  /\ pc \in {"command", "awaitCommand", "control", "awaitControl", "poll", "shared"}
  /\ port \in Ports /\ step \in CommandSteps \cup ControlSteps /\ slot \in Slots \cup {0}
  /\ pc \in {"command", "awaitCommand"} => step \in CommandSteps
  /\ pc \in {"control", "awaitControl"} => step \in ControlSteps
  /\ devs \in [Slots -> [port : Ports \cup {0}, hid : BOOLEAN, polled : BOOLEAN]]
  /\ commands \in Seq(Commands) /\ cmds \in Nat /\ slots \in Nat
  /\ ep0 \in [Slots -> Seq(Stages)] /\ halted \in [Slots -> BOOLEAN]
  /\ armed \in [Slots -> {0, 1}]
  /\ events \in Seq(CommandEvents \cup TransferEvents)
  /\ slow \in Nat /\ dropped \subseteq Slots

\* Commands are numbered as they are pushed, and so are their completions.
Numbered ==
  /\ \A i \in 1 .. Len(commands) : commands[i].id = cmds - Len(commands) + i
  /\ \A i \in 1 .. Len(events) : events[i].id <= cmds

\* Each port has asked for one slot so far.
Enables == {commands[i].id : i \in {j \in 1 .. Len(commands) : commands[j].kind = "enable"}}

Enabled ==
  /\ IsFiniteSet(Enables)
  /\ slots + Cardinality(Enables) <= IF pc = "command" /\ step = "enable" THEN port - 1 ELSE port

\* The slot the driver works at belongs to its port, and is not yet polled.
Working ==
  /\ Enumerating /\ step # "enable" => slot \in Slots
  /\ Enumerating /\ step \notin {"enable", "address"} =>
       devs[slot].port = port /\ ~devs[slot].polled
  /\ Enumerating /\ step = "configure" => Hid(slot).ep # 0

IntrOf(s) == {i \in 1 .. Len(events) : events[i].slot = s /\ events[i].ep = "intr"}

InFlight(s) ==
  IF devs[s].polled /\ s \notin dropped
  THEN \/ armed[s] = 1 /\ IntrOf(s) = {}
       \/ armed[s] = 0 /\ \E i \in IntrOf(s) : IntrOf(s) = {i}
  ELSE armed[s] = 0 /\ IntrOf(s) = {}

Polled ==
  pc # "shared" =>
    \A s \in Slots :
      /\ InFlight(s)
      /\ devs[s].polled => devs[s].port # 0 /\ Hid(s).ep # 0
      /\ s \in dropped => devs[s].polled

\* What the controller has not yet answered, or the driver not yet read.
StagesLeft == {x \in Slots \X Nat : ~halted[x[1]] /\ x[2] \in 1 .. Len(ep0[x[1]])}
ArmedSlots == {s \in Slots : armed[s] = 1}

Load == Len(events) + Len(commands) + Cardinality(StagesLeft) + Cardinality(ArmedSlots)

\* The events left of one port before a request, as each wait takes one.
Before(s) ==
  IF s \in {"enable", "address", "dev8"} THEN 0
  ELSE IF s \in {"evaluate", "dev18"} THEN 2
  ELSE IF s = "cfg9" THEN 4
  ELSE IF s = "cfg" THEN 6
  ELSE IF s = "setcfg" THEN 8
  ELSE IF s = "protocol" THEN 9
  ELSE IF s = "idle" THEN 10
  ELSE IF s = "report" THEN 11
  ELSE 13

Posts(s) == IF s \in WithData THEN 3 ELSE 2

Used ==
  IF ~Enumerating THEN PerDevice
  ELSE Before(step) + (IF pc = "awaitCommand" THEN 1
                       ELSE IF pc = "awaitControl" THEN Posts(step) ELSE 0)

Asked == PerDevice * (port - 1) + Used + slow

\* While the driver waits, there is an answer on its way; but for a halted
\* endpoint, whose stages are not executed and leave no event either.
Loaded ==
  /\ IsFiniteSet(StagesLeft) /\ IsFiniteSet(ArmedSlots)
  /\ Load <= Asked
  /\ pc = "awaitCommand" =>
       commands # <<>> \/ \E i \in 1 .. Len(events) : events[i].type = "command"
  /\ pc = "awaitControl" =>
       \/ \E i \in 1 .. Len(events) : events[i].type = "transfer" /\ events[i].slot = slot
       \/ ~halted[slot] /\ ep0[slot] # <<>>
       \/ Load < Asked

\* The one command and its completion, and the slots that were handed out.
NoCompletion == \A i \in 1 .. Len(events) : events[i].type # "command"

Completion(i) ==
  /\ events[i].type = "command" /\ events[i].id = cmds
  /\ step = "enable" /\ events[i].ok => events[i].slot = slots /\ devs[slots].port = 0
  /\ \A j \in 1 .. Len(events) : events[j].type = "command" => j = i

Calm ==
  slow = 0 =>
    /\ pc # "awaitCommand" => commands = <<>> /\ NoCompletion
    /\ pc = "awaitCommand" =>
         \/ /\ commands = <<[id |-> cmds, kind |-> step, slot |-> slot]>>
            /\ NoCompletion
         \/ commands = <<>> /\ \E i \in 1 .. Len(events) : Completion(i)
    /\ slot <= slots /\ \A s \in Slots : s > slots => devs[s].port = 0
    /\ Enumerating /\ step = "address" => devs[slot].port = 0

EnumInv == HTypes /\ Numbered /\ Enabled /\ Working /\ Polled /\ Loaded /\ Calm


-----------------------------------------------------------------------------
(* Where the driver goes. *)

Quota == PerDevice * (port - 1) + Used

LEMMA StagesPosted ==
  ASSUME NEW s \in ControlSteps
  PROVE  StagesOf(s) \in Seq(Stages) /\ Len(StagesOf(s)) = Posts(s)
<1>1. CASE s \in WithData
  BY <1>1 DEF StagesOf, Posts, Stages
<1>2. CASE s \notin WithData
  BY <1>2 DEF StagesOf, Posts, Stages
<1> QED BY <1>1, <1>2

LEMMA Tails ==
  ASSUME NEW S, NEW q \in Seq(S), q # <<>>
  PROVE  /\ Head(q) \in S /\ Head(q) = q[1] /\ Tail(q) \in Seq(S)
         /\ Len(q) \in Nat \ {0} /\ Len(Tail(q)) = Len(q) - 1
         /\ \A i \in 1 .. Len(q) - 1 : Tail(q)[i] = q[i + 1]
OBVIOUS

LEMMA Appends ==
  ASSUME NEW S, NEW q \in Seq(S), NEW x \in S
  PROVE  /\ Append(q, x) \in Seq(S) /\ Len(q) \in Nat /\ Len(Append(q, x)) = Len(q) + 1
         /\ \A i \in 1 .. Len(q) : Append(q, x)[i] = q[i]
         /\ Append(q, x)[Len(q) + 1] = x
OBVIOUS

LEMMA UsedIs == HTypes => Used \in 0 .. 14 /\ Quota = 14 * (port - 1) + Used
<1> SUFFICES ASSUME HTypes PROVE Used \in 0 .. 14 /\ Quota = 14 * (port - 1) + Used
  OBVIOUS
<1>1. CASE pc = "awaitCommand" \/ pc = "command"
  <2>1. step \in {"enable", "address", "evaluate", "configure"}
    BY <1>1 DEF HTypes, CommandSteps
  <2>2. Before(step) \in {0, 2, 13}
    BY <2>1 DEF Before
  <2>3. Used \in {Before(step), Before(step) + 1}
    BY <1>1, <2>2 DEF Used, Enumerating
  <2> QED BY <2>2, <2>3 DEF Quota, PerDevice
<1>2. CASE pc = "awaitControl" \/ pc = "control"
  <2>1. step \in {"dev8", "dev18", "cfg9", "cfg", "report", "setcfg", "protocol", "idle"}
    BY <1>2 DEF HTypes, ControlSteps, WithData
  <2>2. Before(step) \in 0 .. 11 /\ Posts(step) \in {2, 3}
    BY <2>1 DEF Before, Posts
  <2>3. Used \in {Before(step), Before(step) + Posts(step)}
    BY <1>2, <2>2 DEF Used, Enumerating
  <2> QED BY <2>2, <2>3 DEF Quota, PerDevice
<1>3. CASE ~Enumerating
  BY <1>3 DEF Used, PerDevice, Quota
<1> QED BY <1>1, <1>2, <1>3 DEF Enumerating

LEMMA PortMoves ==
  ASSUME HTypes, Enumerating, NextPort
  PROVE  /\ pc' \in {"poll", "command"} /\ step' = "enable" /\ port' \in Ports
         /\ (port' = port /\ pc' = "poll") \/ (port' = port + 1 /\ pc' = "command")
         /\ Quota' \in Int /\ Quota \in Int /\ Quota <= Quota'
<1>1. /\ pc' \in {"poll", "command"} /\ step' = "enable" /\ port' \in Ports
      /\ (port' = port /\ pc' = "poll") \/ (port' = port + 1 /\ pc' = "command")
  BY HidAssumption DEF NextPort, HTypes, Ports
<1>2. pc' = "poll" => Used' = 14
  BY DEF Used, Enumerating, PerDevice
<1>3. pc' = "command" => Used' = 0
  BY <1>1 DEF Used, Enumerating, PerDevice, Before
<1>4. port \in Nat
  BY DEF HTypes, Ports
<1>5. Quota' = 14 * (port' - 1) + Used'
  BY DEF Quota, PerDevice
<1> QED BY <1>1, <1>2, <1>3, <1>4, <1>5, UsedIs

Arming ==
  /\ step = "configure" /\ devs' = [devs EXCEPT ![slot].polled = TRUE]
  /\ armed' = [armed EXCEPT ![slot] = @ + 1]

\* After a command.
LEMMA CommandMoves ==
  ASSUME HTypes, pc = "awaitCommand", NEW ok, NEW s, CommandResult(ok, s)
  PROVE  \/ NextPort /\ ~ok /\ UNCHANGED <<slot, devs, armed>>
         \/ /\ step = "enable" /\ ok /\ pc' = "command" /\ step' = "address" /\ slot' = s
            /\ UNCHANGED <<port, devs, armed>>
         \/ /\ step = "address" /\ ok /\ step' = "dev8"
            /\ pc' = IF devs[slot].port = 0 THEN "control" ELSE "shared"
            /\ devs' = [devs EXCEPT ![slot] = [NoDev EXCEPT !.port = port]]
            /\ UNCHANGED <<port, slot, armed>>
         \/ /\ step = "evaluate" /\ pc' = "control" /\ step' \in {"dev18", "cfg9"}
            /\ UNCHANGED <<port, slot, devs, armed>>
         \/ Arming /\ ok /\ NextPort /\ UNCHANGED slot
<1>1. step \in {"enable", "address", "evaluate", "configure"}
  BY DEF HTypes, CommandSteps
<1>2. CASE step = "enable"
  BY <1>2 DEF CommandResult, Goto
<1>3. CASE step = "address"
  BY <1>3 DEF CommandResult, Goto
<1>4. CASE step = "evaluate"
  BY <1>4 DEF CommandResult, Goto
<1>5. CASE step = "configure"
  BY <1>5 DEF CommandResult, StartPolling, Arming
<1> QED BY <1>1, <1>2, <1>3, <1>4, <1>5

\* After a control transfer.
LEMMA ControlMoves ==
  ASSUME HTypes, pc = "awaitControl", NEW ok, ControlResult(ok)
  PROVE  /\ \/ devs' = devs
            \/ step = "cfg" /\ \E h \in BOOLEAN : devs' = [devs EXCEPT ![slot].hid = h]
         /\ \/ NextPort
            \/ /\ step = "dev8" /\ pc' = "command" /\ step' = "evaluate" /\ UNCHANGED port
            \/ /\ step \in {"idle", "report"} /\ Hid(slot).ep # 0 /\ devs' = devs
               /\ pc' = "command" /\ step' = "configure" /\ UNCHANGED port
            \/ /\ pc' = "control" /\ step' \in ControlSteps /\ UNCHANGED port
               /\ Before(step) + Posts(step) - 1 <= Before(step')
<1>1. step \in {"dev8", "dev18", "cfg9", "cfg", "report", "setcfg", "protocol", "idle"}
  BY DEF HTypes, ControlSteps, WithData
<1>2. AfterControl(ok)
  BY DEF ControlResult
<1>3. Arrived("cfg") \in BOOLEAN
  BY Zenon DEF Arrived
<1>4. /\ step # "cfg" => devs' = devs
      /\ step = "cfg" => devs' = devs \/ devs' = [devs EXCEPT ![slot].hid = Arrived("cfg")]
  BY DEF ControlResult
<1>5. Configure => \/ NextPort
                   \/ Hid(slot).ep # 0 /\ pc' = "command" /\ step' = "configure" /\ UNCHANGED port
  BY DEF Configure, Goto
<1> USE DEF AfterControl, Goto, Before, Posts, WithData, ControlSteps
<1>6. CASE step = "dev8"
  BY <1>2, <1>4, <1>6
<1>7. CASE step = "dev18"
  BY <1>2, <1>4, <1>7
<1>8. CASE step = "cfg9"
  BY <1>2, <1>4, <1>8
<1>9. CASE step = "cfg"
  <2> HIDE DEF Arrived
  <2> QED BY <1>2, <1>3, <1>4, <1>9
<1>10. CASE step = "report"
  BY <1>2, <1>4, <1>5, <1>10
<1>11. CASE step = "setcfg"
  BY <1>2, <1>4, <1>11
<1>12. CASE step = "protocol"
  BY <1>2, <1>4, <1>12
<1>13. CASE step = "idle"
  BY <1>2, <1>4, <1>5, <1>13
<1> QED BY <1>1, <1>6, <1>7, <1>8, <1>9, <1>10, <1>11, <1>12, <1>13


-----------------------------------------------------------------------------
(* Types, and the slot the driver works at. *)

LEMMA EventIs ==
  ASSUME NEW e \in CommandEvents \cup TransferEvents
  PROVE  /\ e.type \in {"command", "transfer"} /\ e.id \in Nat /\ e.slot \in Slots \cup {0}
         /\ e.ep \in {"none", "ep0", "intr"} /\ e.ok \in BOOLEAN
         /\ e.type = "command" => e.ep = "none"
         /\ e.type = "transfer" => e.slot \in Slots /\ e.id = 0 /\ e.ep # "none"
         /\ e.ok => e.slot \in Slots
<1>1. \/ e \in [type : {"command"}, id : Nat, slot : Slots, ep : {"none"}, ok : BOOLEAN]
      \/ e \in [type : {"command"}, id : Nat, slot : {0}, ep : {"none"}, ok : {FALSE}]
      \/ e \in [type : {"transfer"}, id : {0}, slot : Slots, ep : {"ep0", "intr"}, ok : BOOLEAN]
  BY DEF CommandEvents, TransferEvents
<1>2. e.ok \in BOOLEAN /\ (e.ok => e.slot \in Slots)
  <2>1. e.ok = FALSE => e.ok \in BOOLEAN /\ ~e.ok
    BY Zenon
  <2>2. e.ok \in BOOLEAN \/ e.ok = FALSE
    BY <1>1
  <2>3. e.slot \in Slots \/ e.ok = FALSE
    BY <1>1
  <2> QED BY <2>1, <2>2, <2>3, Zenon
<1>3. e.slot \in Slots \cup {0} /\ e.id \in Nat /\ e.ep \in {"none", "ep0", "intr"}
      /\ e.type \in {"command", "transfer"} /\ (e.type = "command" => e.ep = "none")
  <2>1. CASE e \in [type : {"command"}, id : Nat, slot : Slots, ep : {"none"}, ok : BOOLEAN]
    BY <2>1
  <2>2. CASE e \in [type : {"command"}, id : Nat, slot : {0}, ep : {"none"}, ok : {FALSE}]
    BY <2>2
  <2>3. CASE e \in [type : {"transfer"}, id : {0}, slot : Slots, ep : {"ep0", "intr"},
                    ok : BOOLEAN]
    BY <2>3
  <2> QED BY <1>1, <2>1, <2>2, <2>3
<1>4. e.type = "transfer" => e.slot \in Slots /\ e.id = 0 /\ e.ep # "none"
  BY <1>1
<1> QED BY <1>2, <1>3, <1>4

\* An endpoint is armed where nothing is armed.
LEMMA ArmedOnce ==
  ASSUME HTypes, Working, Polled
  PROVE  /\ pc = "awaitCommand" /\ step = "configure" => slot \in Slots /\ armed[slot] = 0
         /\ pc = "poll" /\ events # <<>> /\ Head(events).ep = "intr" =>
              Head(events).slot \in Slots /\ armed[Head(events).slot] = 0
<1>1. ASSUME pc = "awaitCommand", step = "configure" PROVE slot \in Slots /\ armed[slot] = 0
  BY <1>1 DEF Working, Polled, InFlight, Enumerating
<1>2. ASSUME pc = "poll", events # <<>>, Head(events).ep = "intr"
      PROVE  Head(events).slot \in Slots /\ armed[Head(events).slot] = 0
  <2>1. Head(events) \in CommandEvents \cup TransferEvents /\ Head(events) = events[1]
        /\ 1 \in 1 .. Len(events)
    BY <1>2, Tails DEF HTypes
  <2>2. Head(events).slot \in Slots
    BY <1>2, <2>1, EventIs
  <2>3. 1 \in IntrOf(Head(events).slot)
    BY <1>2, <2>1 DEF IntrOf
  <2> QED BY <1>2, <2>2, <2>3 DEF Polled, InFlight
<1> QED BY <1>1, <1>2

\* Devices stay devices.
LEMMA DevKept ==
  ASSUME NEW d \in [Slots -> [port : Ports \cup {0}, hid : BOOLEAN, polled : BOOLEAN]],
         NEW t, NEW h \in BOOLEAN
  PROVE  /\ [d EXCEPT ![t].hid = h] \in
              [Slots -> [port : Ports \cup {0}, hid : BOOLEAN, polled : BOOLEAN]]
         /\ [d EXCEPT ![t].polled = h] \in
              [Slots -> [port : Ports \cup {0}, hid : BOOLEAN, polled : BOOLEAN]]
<1> DEFINE D == [port : Ports \cup {0}, hid : BOOLEAN, polled : BOOLEAN]
<1>1. \A x \in D : [x EXCEPT !.hid = h] \in D /\ [x EXCEPT !.polled = h] \in D
  OBVIOUS
<1> HIDE DEF D
<1>2. d \in [Slots -> D]
  BY DEF D
<1>3. /\ [d EXCEPT ![t].hid = h] \in [Slots -> D]
      /\ [d EXCEPT ![t].polled = h] \in [Slots -> D]
  BY <1>1, <1>2
<1> QED BY <1>3 DEF D

LEMMA EnumStarts == Init => EnumInv
<1> SUFFICES ASSUME Init PROVE EnumInv
  OBVIOUS
<1> USE HidAssumption DEF Init
<1>1. HTypes
  <2>1. halted \in [Slots -> BOOLEAN]
    BY Zenon
  <2>2. NoDev \in [port : Ports \cup {0}, hid : BOOLEAN, polled : BOOLEAN]
    BY DEF NoDev
  <2> QED BY <2>1, <2>2 DEF HTypes, CommandSteps, Ports
<1>2. Numbered
  BY DEF Numbered
<1>3. Enabled
  <2>1. Enables = {}
    BY DEF Enables
  <2> QED BY <2>1, FS_EmptySet DEF Enabled
<1>4. Working
  BY DEF Working, CommandSteps
<1>5. Polled
  BY DEF Polled, InFlight, IntrOf, NoDev
<1>6. Loaded
  <2>1. StagesLeft = {} /\ ArmedSlots = {}
    BY DEF StagesLeft, ArmedSlots
  <2>2. Load = 0
    BY <2>1, FS_EmptySet DEF Load
  <2>3. Quota = 0
    BY <1>1, UsedIs DEF Used, Enumerating, Before
  <2>4. Asked = 0
    BY <2>3 DEF Asked, Quota
  <2> QED BY <2>1, <2>2, <2>4, FS_EmptySet DEF Loaded
<1>7. Calm
  BY DEF Calm, NoCompletion, NoDev
<1> QED BY <1>1, <1>2, <1>3, <1>4, <1>5, <1>6, <1>7 DEF EnumInv

LEMMA TypesStep == EnumInv /\ [Next]_vars => HTypes'
<1> SUFFICES ASSUME EnumInv, [Next]_vars PROVE HTypes'
  OBVIOUS
<1>0. HTypes /\ Working /\ Polled
  BY DEF EnumInv
<1> USE <1>0, HidAssumption
<1>1. CASE PushCommand
  <2>1. [id |-> cmds + 1, kind |-> step, slot |-> slot] \in Commands
    BY <1>1 DEF HTypes, PushCommand, Working, Enumerating, Commands
  <2> QED BY <1>1, <2>1 DEF HTypes, PushCommand, counters
<1>2. CASE PushControl
  <2>1. slot \in Slots /\ step \in ControlSteps
    BY <1>2 DEF HTypes, PushControl, Working, Enumerating, ControlSteps, WithData
  <2>2. ep0[slot] \o StagesOf(step) \in Seq(Stages)
    BY <2>1, StagesPosted DEF HTypes
  <2>3. ep0' \in [Slots -> Seq(Stages)]
    BY <1>2, <2>1, <2>2 DEF HTypes, PushControl
  <2> QED BY <1>2, <2>1, <2>3 DEF HTypes, PushControl, counters
<1>3. ASSUME NEW ok, NEW s \in Slots \cup {0}, ok => s \in Slots, pc = "awaitCommand",
             CommandResult(ok, s)
      PROVE  /\ pc' \in {"command", "control", "poll", "shared"} /\ port' \in Ports
             /\ pc' = "command" => step' \in CommandSteps
             /\ pc' = "control" => step' \in ControlSteps
             /\ step' \in CommandSteps \cup ControlSteps /\ slot' \in Slots \cup {0}
             /\ devs' \in [Slots -> [port : Ports \cup {0}, hid : BOOLEAN, polled : BOOLEAN]]
             /\ armed' \in [Slots -> {0, 1}]
  <2>1. /\ NextPort => pc' \in {"poll", "command"} /\ step' = "enable" /\ port' \in Ports
        /\ "enable" \in CommandSteps /\ "address" \in CommandSteps
        /\ "dev8" \in ControlSteps /\ "dev18" \in ControlSteps /\ "cfg9" \in ControlSteps
    BY <1>3, PortMoves DEF Enumerating, CommandSteps, ControlSteps, WithData
  <2>2. CASE NextPort /\ UNCHANGED <<slot, devs, armed>>
    BY <2>1, <2>2 DEF HTypes
  <2>3. CASE /\ ok /\ pc' = "command" /\ step' = "address" /\ slot' = s
             /\ UNCHANGED <<port, devs, armed>>
    BY <1>3, <2>1, <2>3 DEF HTypes
  <2>4. CASE /\ step' = "dev8" /\ pc' \in {"control", "shared"} /\ step = "address"
             /\ devs' = [devs EXCEPT ![slot] = [NoDev EXCEPT !.port = port]]
             /\ UNCHANGED <<port, slot, armed>>
    <3>1. [NoDev EXCEPT !.port = port] \in [port : Ports \cup {0}, hid : BOOLEAN, polled : BOOLEAN]
      BY DEF NoDev, HTypes
    <3> QED BY <2>1, <2>4, <3>1 DEF HTypes
  <2>5. CASE /\ pc' = "control" /\ step' \in {"dev18", "cfg9"}
             /\ UNCHANGED <<port, slot, devs, armed>>
    BY <2>1, <2>5 DEF HTypes
  <2>6. CASE Arming /\ NextPort /\ UNCHANGED slot
    <3>1. slot \in Slots /\ armed[slot] = 0
      BY <1>3, <2>6, ArmedOnce DEF Arming
    <3>2. armed' \in [Slots -> {0, 1}]
      BY <2>6, <3>1 DEF HTypes, Arming
    <3>3. devs' \in [Slots -> [port : Ports \cup {0}, hid : BOOLEAN, polled : BOOLEAN]]
      <4>1. \E h \in BOOLEAN : devs' = [devs EXCEPT ![slot].polled = h]
        BY <2>6, Zenon DEF Arming
      <4>2. devs \in [Slots -> [port : Ports \cup {0}, hid : BOOLEAN, polled : BOOLEAN]]
        BY DEF HTypes
      <4>3. ASSUME NEW h \in BOOLEAN
            PROVE  [devs EXCEPT ![slot].polled = h] \in
                     [Slots -> [port : Ports \cup {0}, hid : BOOLEAN, polled : BOOLEAN]]
        BY <4>2, DevKept, ZenonT(30)
      <4> QED BY <4>1, <4>3, ZenonT(30)
    <3> QED BY <2>1, <2>6, <3>2, <3>3 DEF HTypes
  <2> QED BY <1>3, <2>2, <2>3, <2>4, <2>5, <2>6, CommandMoves
<1>4. ASSUME NEW ok, pc = "awaitControl", ControlResult(ok)
      PROVE  /\ pc' \in {"command", "control", "poll"} /\ port' \in Ports
             /\ pc' = "command" => step' \in CommandSteps
             /\ pc' = "control" => step' \in ControlSteps
             /\ step' \in CommandSteps \cup ControlSteps
             /\ devs' \in [Slots -> [port : Ports \cup {0}, hid : BOOLEAN, polled : BOOLEAN]]
  <2>1. NextPort => pc' \in {"poll", "command"} /\ step' = "enable" /\ port' \in Ports
    BY <1>4, PortMoves DEF Enumerating
  <2>2. {"enable", "evaluate", "configure"} \subseteq CommandSteps
    BY DEF CommandSteps
  <2>3. devs' \in [Slots -> [port : Ports \cup {0}, hid : BOOLEAN, polled : BOOLEAN]]
    <3>1. devs' = devs \/ \E h \in BOOLEAN : devs' = [devs EXCEPT ![slot].hid = h]
      BY <1>4, ControlMoves
    <3>2. devs \in [Slots -> [port : Ports \cup {0}, hid : BOOLEAN, polled : BOOLEAN]]
      BY DEF HTypes
    <3>3. ASSUME NEW h \in BOOLEAN
          PROVE  [devs EXCEPT ![slot].hid = h] \in
                   [Slots -> [port : Ports \cup {0}, hid : BOOLEAN, polled : BOOLEAN]]
      BY <3>2, DevKept, ZenonT(30)
    <3> QED BY <3>1, <3>2, <3>3, ZenonT(30)
  <2>4. port \in Ports
    BY DEF HTypes
  <2> QED BY <1>4, <2>1, <2>2, <2>3, <2>4, ControlMoves
<1>5. events # <<>> =>
        /\ Head(events) \in CommandEvents \cup TransferEvents
        /\ Tail(events) \in Seq(CommandEvents \cup TransferEvents)
  BY Tails DEF HTypes
<1>6. ASSUME NEW e \in CommandEvents \cup TransferEvents
      PROVE  IF e.ep = "intr" THEN dropped \cup {e.slot} \subseteq Slots ELSE dropped \subseteq Slots
  BY EventIs DEF HTypes
<1>7. CASE AwaitCommand
  <2>1. /\ pc = "awaitCommand" /\ events # <<>> /\ events' = Tail(events)
        /\ UNCHANGED <<commands, cmds, ep0, halted, slots, slow>>
        /\ \/ CommandResult(Head(events).ok, Head(events).slot) /\ dropped' = dropped
           \/ Drop(Head(events)) /\ UNCHANGED <<driver, armed>>
    BY <1>7 DEF AwaitCommand, counters
  <2>2. CASE CommandResult(Head(events).ok, Head(events).slot) /\ dropped' = dropped
    <3>1. Head(events).slot \in Slots \cup {0} /\ (Head(events).ok => Head(events).slot \in Slots)
      BY <1>5, <2>1, EventIs
    <3> HIDE DEF HTypes
    <3>2. /\ pc' \in {"command", "control", "poll", "shared"} /\ port' \in Ports
          /\ pc' = "command" => step' \in CommandSteps
          /\ pc' = "control" => step' \in ControlSteps
          /\ step' \in CommandSteps \cup ControlSteps /\ slot' \in Slots \cup {0}
          /\ devs' \in [Slots -> [port : Ports \cup {0}, hid : BOOLEAN, polled : BOOLEAN]]
          /\ armed' \in [Slots -> {0, 1}]
      BY <1>3, <2>1, <2>2, <3>1
    <3> QED BY <1>5, <2>1, <2>2, <3>2 DEF HTypes
  <2>3. CASE Drop(Head(events)) /\ UNCHANGED <<driver, armed>>
    BY <1>5, <1>6, <2>1, <2>3 DEF HTypes, Drop, driver
  <2> QED BY <2>1, <2>2, <2>3
<1>8. CASE AwaitControl
  <2>1. /\ pc = "awaitControl" /\ events # <<>> /\ events' = Tail(events)
        /\ UNCHANGED <<commands, cmds, ep0, halted, slots, slow, armed>>
        /\ \/ ControlResult(Head(events).ok) /\ UNCHANGED <<slot, dropped>>
           \/ Drop(Head(events)) /\ UNCHANGED driver
    BY <1>8 DEF AwaitControl, counters
  <2>2. CASE ControlResult(Head(events).ok) /\ UNCHANGED <<slot, dropped>>
    BY <1>4, <1>5, <2>1, <2>2 DEF HTypes
  <2>3. CASE Drop(Head(events)) /\ UNCHANGED driver
    BY <1>5, <1>6, <2>1, <2>3 DEF HTypes, Drop, driver
  <2> QED BY <2>1, <2>2, <2>3
<1>9. CASE CommandTimeout
  <2>0. slow' = slow \/ slow' = slow + 1
    BY <1>9 DEF CommandTimeout, GiveUp
  <2>1. /\ pc = "awaitCommand" /\ slow' \in Nat /\ CommandResult(FALSE, 0)
        /\ UNCHANGED <<commands, cmds, ep0, halted, slots, events, dropped>>
    <3>1. slow' \in Nat
      BY <2>0 DEF HTypes
    <3> QED BY <1>9, <3>1 DEF CommandTimeout
  <2>2. /\ pc' \in {"command", "control", "poll", "shared"} /\ port' \in Ports
        /\ pc' = "command" => step' \in CommandSteps
        /\ pc' = "control" => step' \in ControlSteps
        /\ step' \in CommandSteps \cup ControlSteps /\ slot' \in Slots \cup {0}
        /\ devs' \in [Slots -> [port : Ports \cup {0}, hid : BOOLEAN, polled : BOOLEAN]]
        /\ armed' \in [Slots -> {0, 1}]
    BY <1>3, <2>1
  <2> QED BY <2>1, <2>2 DEF HTypes
<1>10. CASE ControlTimeout
  <2>0. slow' = slow \/ slow' = slow + 1
    BY <1>10 DEF ControlTimeout, GiveUp
  <2>1. /\ pc = "awaitControl" /\ slow' \in Nat /\ ControlResult(FALSE)
        /\ UNCHANGED <<slot, commands, cmds, ep0, halted, slots, events, dropped, armed>>
    <3>1. slow' \in Nat
      BY <2>0 DEF HTypes
    <3> QED BY <1>10, <3>1 DEF ControlTimeout, controller
  <2> QED BY <1>4, <2>1 DEF HTypes
<1>11. CASE PollEvent
  <2>1. /\ pc = "poll" /\ events # <<>> /\ events' = Tail(events)
        /\ UNCHANGED <<pc, port, step, slot, devs, commands, cmds, ep0, halted, slots, slow, dropped>>
        /\ \/ Head(events).ep = "intr" /\ StartPolling(Head(events).slot)
           \/ armed' = armed
    BY <1>11 DEF PollEvent, driver, counters
  <2>2. ASSUME Head(events).ep = "intr", StartPolling(Head(events).slot)
        PROVE  armed' \in [Slots -> {0, 1}]
    <3> DEFINE t == Head(events).slot
    <3>1. t \in Slots /\ armed[t] = 0
      BY <2>1, <2>2, ArmedOnce
    <3>2. armed' = [armed EXCEPT ![t] = armed[t] + 1] /\ armed \in [Slots -> {0, 1}]
      BY <2>2 DEF StartPolling, HTypes
    <3> HIDE DEF t
    <3> QED BY <3>1, <3>2
  <2>3. armed' \in [Slots -> {0, 1}]
    BY <2>1, <2>2 DEF HTypes
  <2> QED BY <1>5, <2>1, <2>3 DEF HTypes
<1>12. CASE ExecuteCommand
  <2>1. PICK ok \in BOOLEAN, s \in Slots \cup {0} \cup {slots + 1} :
          /\ commands # <<>> /\ commands' = Tail(commands)
          /\ s = IF Head(commands).kind = "enable" THEN (IF ok THEN slots + 1 ELSE 0)
                 ELSE Head(commands).slot
          /\ events' = Append(events, CommandEvent(Head(commands).id, s, ok))
          /\ slots' = IF Head(commands).kind = "enable" /\ ok THEN slots + 1 ELSE slots
    <3>1. commands # <<>> => Head(commands) \in Commands
      BY Tails DEF HTypes
    <3>2. commands # <<>> => Head(commands).slot \in Slots \cup {0}
      BY <3>1 DEF Commands
    <3> QED BY <1>12, <3>2 DEF ExecuteCommand
  <2>2. Head(commands) \in Commands /\ Tail(commands) \in Seq(Commands)
    BY <2>1, Tails DEF HTypes
  <2>3. /\ Head(commands).id \in Nat
        /\ Head(commands).kind # "enable" => Head(commands).slot \in Slots
    BY <2>2 DEF Commands
  <2>4. Head(commands).kind = "enable" => slots + 1 \in Slots
    <3>1. ASSUME Head(commands).kind = "enable" PROVE slots + 1 \in Slots
      <4>0. Head(commands) = commands[1] /\ 1 \in 1 .. Len(commands)
        BY <2>1, Tails DEF HTypes
      <4>1. Head(commands).id \in Enables
        BY <3>1, <4>0 DEF Enables
      <4>2. Cardinality(Enables) \in Nat \ {0}
        BY <4>1, FS_CardinalityType, FS_EmptySet DEF EnumInv, Enabled
      <4>3. slots + 1 <= port
        BY <4>2 DEF EnumInv, Enabled, HTypes, Ports
      <4> QED BY <4>3 DEF HTypes, Ports, Slots
    <3> QED BY <3>1
  <2>5. CommandEvent(Head(commands).id, s, ok) \in CommandEvents
    BY <2>1, <2>3, <2>4 DEF CommandEvent, CommandEvents
  <2>6. events' \in Seq(CommandEvents \cup TransferEvents)
    BY <2>1, <2>5, Appends DEF HTypes
  <2>7. slots' \in Nat
    BY <2>1 DEF HTypes
  <2> QED BY <1>12, <2>1, <2>2, <2>6, <2>7 DEF ExecuteCommand, HTypes, driver
<1>13. ASSUME NEW s \in Slots, ExecuteStage(s) PROVE HTypes'
  <2>1. PICK ok \in BOOLEAN :
          /\ ep0[s] # <<>>
          /\ events' = Append(events, TransferEvent(s, "ep0", ok))
          /\ halted' = [halted EXCEPT ![s] = ~ok]
          /\ ep0' = IF ok THEN [ep0 EXCEPT ![s] = Tail(ep0[s])] ELSE ep0
    BY <1>13 DEF ExecuteStage
  <2>2. TransferEvent(s, "ep0", ok) \in TransferEvents
    BY DEF TransferEvent, TransferEvents
  <2>3. events' \in Seq(CommandEvents \cup TransferEvents)
    BY <2>1, <2>2, Appends DEF HTypes
  <2>4. halted' \in [Slots -> BOOLEAN]
    <3>1. (~ok) \in BOOLEAN
      BY Zenon
    <3> QED BY <2>1, <3>1 DEF HTypes
  <2>5. ep0' \in [Slots -> Seq(Stages)]
    BY <2>1, Tails DEF HTypes
  <2> QED BY <1>13, <2>3, <2>4, <2>5 DEF ExecuteStage, HTypes, driver
<1>14. ASSUME NEW s \in Slots, Report(s) PROVE HTypes'
  <2>1. TransferEvent(s, "intr", TRUE) \in TransferEvents
    BY DEF TransferEvent, TransferEvents
  <2>2. events' \in Seq(CommandEvents \cup TransferEvents)
    BY <1>14, <2>1, Appends DEF HTypes, Report
  <2>3. armed' \in [Slots -> {0, 1}]
    BY <1>14 DEF Report, HTypes
  <2> QED BY <1>14, <2>2, <2>3 DEF Report, HTypes, driver, counters
<1>15. ASSUME UNCHANGED <<driver, controller, counters, dropped>> PROVE HTypes'
  BY <1>15 DEF HTypes, driver, controller, counters
<1>16. \A s \in Slots : UserActs(s) => UNCHANGED <<driver, controller, counters, dropped>>
  BY DEF UserActs
<1> QED
  BY <1>1, <1>2, <1>7, <1>8, <1>9, <1>10, <1>11, <1>12, <1>13, <1>14, <1>15, <1>16
     DEF Next, Driver, vars


LEMMA NumberedStep == EnumInv /\ [Next]_vars => Numbered'
<1> SUFFICES ASSUME EnumInv, [Next]_vars PROVE Numbered'
  OBVIOUS
<1>0. HTypes /\ Numbered
  BY DEF EnumInv
<1>1. ASSUME UNCHANGED <<commands, cmds>>,
             \/ events' = events
             \/ events # <<>> /\ events' = Tail(events)
             \/ \E e \in TransferEvents : events' = Append(events, e)
      PROVE  Numbered'
  <2>1. \A i \in 1 .. Len(commands') : commands'[i].id = cmds' - Len(commands') + i
    BY <1>0, <1>1 DEF Numbered
  <2>2. CASE events' = events
    BY <1>0, <1>1, <2>1, <2>2 DEF Numbered
  <2>3. CASE events # <<>> /\ events' = Tail(events)
    BY <1>0, <1>1, <2>1, <2>3, Tails DEF Numbered, HTypes
  <2>4. ASSUME NEW e \in TransferEvents, events' = Append(events, e) PROVE Numbered'
    <3>1. e \in CommandEvents \cup TransferEvents /\ e.id = 0
      BY DEF TransferEvents
    <3>2. \A i \in 1 .. Len(events') : events'[i].id <= cmds
      <4>1. /\ Len(events) \in Nat /\ Len(events') = Len(events) + 1
            /\ \A i \in 1 .. Len(events) : events'[i] = events[i]
            /\ events'[Len(events) + 1] = e
        BY <1>0, <2>4, <3>1, Appends DEF HTypes
      <4>2. cmds \in Nat
        BY <1>0 DEF HTypes
      <4> QED BY <1>0, <3>1, <4>1, <4>2 DEF Numbered
    <3> QED BY <1>1, <2>1, <3>2 DEF Numbered
  <2> QED BY <1>1, <2>2, <2>3, <2>4
<1>2. CASE PushCommand
  <2> DEFINE c == [id |-> cmds + 1, kind |-> step, slot |-> slot]
  <2>1. c \in Commands /\ c.id = cmds + 1
    BY <1>0, <1>2 DEF EnumInv, HTypes, PushCommand, Working, Enumerating, Commands
  <2>2. commands' = Append(commands, c) /\ cmds' = cmds + 1 /\ events' = events
    BY <1>2 DEF PushCommand
  <2> HIDE DEF c
  <2>3. \A i \in 1 .. Len(commands') : commands'[i].id = cmds' - Len(commands') + i
    BY <1>0, <2>1, <2>2, Appends DEF Numbered, HTypes
  <2>4. \A i \in 1 .. Len(events) : events[i].id \in Nat
    BY <1>0, EventIs DEF HTypes
  <2>5. \A i \in 1 .. Len(events) : events[i].id <= cmds'
    BY <1>0, <2>2, <2>4 DEF Numbered, HTypes
  <2> QED BY <2>2, <2>3, <2>5 DEF Numbered
<1>3. CASE ExecuteCommand
  <2>1. PICK s, ok : /\ commands # <<>> /\ commands' = Tail(commands) /\ cmds' = cmds
                     /\ events' = Append(events, CommandEvent(Head(commands).id, s, ok))
    BY <1>3 DEF ExecuteCommand
  <2>2. /\ Head(commands) = commands[1] /\ Len(commands) \in Nat \ {0}
        /\ Len(commands') = Len(commands) - 1
        /\ \A i \in 1 .. Len(commands) - 1 : commands'[i] = commands[i + 1]
    BY <1>0, <2>1, Tails DEF HTypes
  <2>3. \A i \in 1 .. Len(commands') : commands'[i].id = cmds' - Len(commands') + i
    BY <1>0, <2>1, <2>2 DEF Numbered, HTypes
  <2>4. Head(commands).id <= cmds
    BY <1>0, <2>2 DEF Numbered, HTypes
  <2>5. /\ Len(events') = Len(events) + 1 /\ Len(events) \in Nat
        /\ \A i \in 1 .. Len(events) : events'[i] = events[i]
        /\ events'[Len(events) + 1].id = Head(commands).id
    BY <1>0, <2>1 DEF HTypes, CommandEvent
  <2>6. \A i \in 1 .. Len(events') : events'[i].id <= cmds'
    BY <1>0, <2>1, <2>4, <2>5 DEF Numbered
  <2> QED BY <2>3, <2>6 DEF Numbered
<1>4. \A s \in Slots : Report(s) \/ ExecuteStage(s) =>
        /\ UNCHANGED <<commands, cmds>>
        /\ \E e \in TransferEvents : events' = Append(events, e)
  BY DEF Report, ExecuteStage, TransferEvent, TransferEvents
<1>5. PushControl \/ CommandTimeout \/ ControlTimeout \/ UNCHANGED vars
      => UNCHANGED <<commands, cmds, events>>
  BY DEF PushControl, CommandTimeout, ControlTimeout, controller, vars
<1>6. AwaitCommand \/ AwaitControl \/ PollEvent
      => UNCHANGED <<commands, cmds>> /\ events # <<>> /\ events' = Tail(events)
  BY DEF AwaitCommand, AwaitControl, PollEvent
<1>7. \A s \in Slots : UserActs(s) => UNCHANGED <<commands, cmds, events>>
  BY DEF UserActs, controller
<1> QED BY <1>1, <1>2, <1>3, <1>4, <1>5, <1>6, <1>7 DEF Next, Driver

-----------------------------------------------------------------------------
(* Slots. *)

LEMMA EnablesPushed ==
  ASSUME HTypes, PushCommand
  PROVE  Enables' = IF step = "enable" THEN Enables \cup {cmds + 1} ELSE Enables
<1> DEFINE c == [id |-> cmds + 1, kind |-> step, slot |-> slot]
<1>1. c.id = cmds + 1 /\ c.kind = step /\ commands' = Append(commands, c)
  BY DEF PushCommand
<1> HIDE DEF c
<1>2. /\ Len(commands) \in Nat /\ Len(commands') = Len(commands) + 1
      /\ \A i \in 1 .. Len(commands) : commands'[i] = commands[i]
      /\ commands'[Len(commands) + 1] = c
  BY <1>1 DEF HTypes
<1>3. Enables' = {commands'[i].id : i \in {j \in 1 .. Len(commands') : commands'[j].kind = "enable"}}
  BY DEF Enables
<1>4. 1 .. Len(commands') = (1 .. Len(commands)) \cup {Len(commands) + 1}
  BY <1>2
<1>5. CASE step = "enable"
  <2>1. ASSUME NEW x \in Enables' PROVE x \in Enables \cup {cmds + 1}
    BY <1>1, <1>2, <1>3, <1>4, <2>1 DEF Enables
  <2>2. ASSUME NEW x \in Enables PROVE x \in Enables'
    BY <1>2, <1>3, <1>4, <2>2 DEF Enables
  <2>3. cmds + 1 \in Enables'
    BY <1>1, <1>2, <1>3, <1>4, <1>5
  <2> QED BY <1>5, <2>1, <2>2, <2>3
<1>6. CASE step # "enable"
  <2>1. ASSUME NEW x \in Enables' PROVE x \in Enables
    BY <1>1, <1>2, <1>3, <1>4, <1>6, <2>1 DEF Enables
  <2>2. ASSUME NEW x \in Enables PROVE x \in Enables'
    BY <1>2, <1>3, <1>4, <2>2 DEF Enables
  <2> QED BY <1>6, <2>1, <2>2
<1> QED BY <1>5, <1>6

LEMMA EnablesTaken ==
  ASSUME HTypes, Numbered, commands # <<>>, commands' = Tail(commands)
  PROVE  Enables' = IF Head(commands).kind = "enable" THEN Enables \ {Head(commands).id} ELSE Enables
<1>1. /\ Head(commands) = commands[1] /\ Len(commands) \in Nat \ {0}
      /\ Len(commands') = Len(commands) - 1
      /\ \A i \in 1 .. Len(commands) - 1 : commands'[i] = commands[i + 1]
  BY Tails DEF HTypes
<1>2. Enables' = {commands'[i].id : i \in {j \in 1 .. Len(commands') : commands'[j].kind = "enable"}}
  BY DEF Enables
<1>3. \A i \in 2 .. Len(commands) : commands[i].id # commands[1].id
  BY <1>1 DEF Numbered, HTypes
<1>4. ASSUME NEW x \in Enables' PROVE x \in Enables /\ x # Head(commands).id
  <2>1. PICK i \in 1 .. Len(commands) - 1 : commands'[i].kind = "enable" /\ x = commands'[i].id
    BY <1>1, <1>2
  <2>2. i + 1 \in 2 .. Len(commands) /\ commands'[i] = commands[i + 1]
    BY <1>1
  <2> QED BY <1>1, <1>3, <2>1, <2>2 DEF Enables
<1>5. ASSUME NEW x \in Enables, x # Head(commands).id \/ Head(commands).kind # "enable"
      PROVE  x \in Enables'
  <2>1. PICK i \in 1 .. Len(commands) : commands[i].kind = "enable" /\ x = commands[i].id
    BY DEF Enables
  <2>2. i # 1
    BY <1>1, <1>5, <2>1
  <2>3. i - 1 \in 1 .. Len(commands') /\ commands'[i - 1] = commands[i]
    BY <1>1, <2>2
  <2> QED BY <1>2, <2>1, <2>3
<1> QED BY <1>4, <1>5

Ceiling == IF pc = "command" /\ step = "enable" THEN port - 1 ELSE port

LEMMA CeilingRises ==
  /\ HTypes /\ pc = "awaitCommand" => \A ok, s : CommandResult(ok, s) => Ceiling <= Ceiling'
  /\ HTypes /\ pc = "awaitControl" => \A ok : ControlResult(ok) => Ceiling <= Ceiling'
<1>1. HTypes => port \in Nat
  BY DEF HTypes, Ports
<1>2. ASSUME HTypes, Enumerating, NextPort, ~(pc = "command" /\ step = "enable")
      PROVE  Ceiling <= Ceiling'
  BY <1>1, <1>2, PortMoves DEF Ceiling
<1>3. ASSUME HTypes, pc = "awaitCommand", NEW ok, NEW s, CommandResult(ok, s)
      PROVE  Ceiling <= Ceiling'
  <2>1. NextPort \/ (port' = port /\ (pc' = "command" => step' = "address"))
    BY <1>3, CommandMoves DEF Arming
  <2> QED BY <1>1, <1>2, <1>3, <2>1 DEF Ceiling, Enumerating
<1>4. ASSUME HTypes, pc = "awaitControl", NEW ok, ControlResult(ok) PROVE Ceiling <= Ceiling'
  <2>1. NextPort \/ (port' = port /\ (pc' = "command" => step' # "enable"))
    BY <1>4, ControlMoves
  <2> QED BY <1>1, <1>2, <1>4, <2>1 DEF Ceiling, Enumerating
<1> QED BY <1>3, <1>4

LEMMA EnabledStep == EnumInv /\ [Next]_vars => Enabled'
<1> SUFFICES ASSUME EnumInv, [Next]_vars PROVE Enabled'
  OBVIOUS
<1>0. HTypes /\ Numbered /\ Enabled /\ HTypes'
  BY TypesStep DEF EnumInv
<1>1. /\ IsFiniteSet(Enables) /\ Cardinality(Enables) \in Nat /\ slots \in Nat /\ port \in Nat
      /\ slots + Cardinality(Enables) <= Ceiling /\ Ceiling \in Int /\ Ceiling' \in Int
  BY <1>0, FS_CardinalityType DEF Enabled, HTypes, Ceiling, Ports
<1>2. ASSUME UNCHANGED <<commands, slots>>, Ceiling <= Ceiling' PROVE Enabled'
  <2>1. Enables' = Enables
    BY <1>2 DEF Enables
  <2>2. slots' + Cardinality(Enables') <= Ceiling'
    BY <1>1, <1>2, <2>1
  <2> QED BY <1>1, <2>1, <2>2 DEF Enabled, Ceiling
<1>3. ASSUME UNCHANGED <<commands, slots, pc, step, port>> PROVE Enabled'
  BY <1>1, <1>2, <1>3 DEF Ceiling
<1>4. CASE PushCommand
  <2>1. slots' = slots /\ pc = "command" /\ pc' = "awaitCommand" /\ port' = port
    BY <1>4 DEF PushCommand
  <2>2. CASE step = "enable"
    <3>1. Enables' = Enables \cup {cmds + 1}
      BY <1>0, <1>4, <2>2, EnablesPushed
    <3>2. IsFiniteSet(Enables') /\ Cardinality(Enables') <= Cardinality(Enables) + 1
          /\ Cardinality(Enables') \in Nat
      <4>1. IsFiniteSet(Enables \cup {cmds + 1})
            /\ Cardinality(Enables \cup {cmds + 1}) \in
                 {Cardinality(Enables), Cardinality(Enables) + 1}
        BY <1>1, FS_AddElement
      <4> QED BY <1>1, <3>1, <4>1
    <3>3. Ceiling = port - 1 /\ Ceiling' = port
      BY <2>1, <2>2 DEF Ceiling
    <3>4. slots' + Cardinality(Enables') <= Ceiling'
      BY <1>1, <2>1, <3>2, <3>3
    <3> QED BY <3>2, <3>4 DEF Enabled, Ceiling
  <2>3. CASE step # "enable"
    <3>1. Enables' = Enables
      BY <1>0, <1>4, <2>3, EnablesPushed
    <3>2. Ceiling' = Ceiling
      BY <2>1, <2>3 DEF Ceiling
    <3> QED BY <1>1, <2>1, <3>1, <3>2 DEF Enabled, Ceiling
  <2> QED BY <2>2, <2>3
<1>5. CASE ExecuteCommand
  <2>1. /\ commands # <<>> /\ commands' = Tail(commands) /\ UNCHANGED <<pc, step, port>>
        /\ \/ slots' = slots
           \/ slots' = slots + 1 /\ Head(commands).kind = "enable"
    BY <1>5 DEF ExecuteCommand, driver
  <2>2. Ceiling' = Ceiling
    BY <2>1 DEF Ceiling
  <2>3. CASE Head(commands).kind = "enable"
    <3>1. Enables' = Enables \ {Head(commands).id}
      BY <1>0, <2>1, <2>3, EnablesTaken
    <3>0. Head(commands) = commands[1] /\ 1 \in 1 .. Len(commands)
      BY <1>0, <2>1, Tails DEF HTypes
    <3>2. Head(commands).id \in Enables
      BY <2>3, <3>0 DEF Enables
    <3>3. IsFiniteSet(Enables') /\ Cardinality(Enables') = Cardinality(Enables) - 1
      BY <1>1, <3>1, <3>2, FS_RemoveElement
    <3>4. slots' + Cardinality(Enables') <= Ceiling'
      BY <1>1, <2>1, <2>2, <3>3
    <3> QED BY <3>3, <3>4 DEF Enabled, Ceiling
  <2>4. CASE Head(commands).kind # "enable"
    <3>1. Enables' = Enables
      BY <1>0, <2>1, <2>4, EnablesTaken
    <3> QED BY <1>1, <2>1, <2>2, <2>4, <3>1 DEF Enabled, Ceiling
  <2> QED BY <2>3, <2>4
<1>6. AwaitCommand \/ AwaitControl \/ CommandTimeout \/ ControlTimeout
      => \/ UNCHANGED <<commands, slots, pc, step, port>>
         \/ /\ UNCHANGED <<commands, slots>>
            /\ \/ pc = "awaitCommand" /\ \E ok, s : CommandResult(ok, s)
               \/ pc = "awaitControl" /\ \E ok : ControlResult(ok)
  BY DEF AwaitCommand, AwaitControl, CommandTimeout, ControlTimeout, driver, controller
<1>7. PollEvent \/ (\E s \in Slots : ExecuteStage(s) \/ UserActs(s) \/ Report(s)) \/ UNCHANGED vars
      => UNCHANGED <<commands, slots, pc, step, port>>
  BY DEF PollEvent, ExecuteStage, UserActs, Report, driver, controller, vars
<1>8. PushControl => UNCHANGED <<commands, slots, step, port>> /\ pc = "control" /\ pc' = "awaitControl"
  BY DEF PushControl
<1>9. PushControl => UNCHANGED <<commands, slots>> /\ Ceiling <= Ceiling'
  BY <1>1, <1>8 DEF Ceiling
<1> QED BY <1>0, <1>2, <1>3, <1>4, <1>5, <1>6, <1>7, <1>9, CeilingRises DEF Next, Driver

LEMMA WorkingStep == EnumInv /\ [Next]_vars => Working'
<1> SUFFICES ASSUME EnumInv, [Next]_vars PROVE Working'
  OBVIOUS
<1>0. HTypes /\ Working
  BY DEF EnumInv
<1>1. ASSUME UNCHANGED <<port, step, slot, devs>>, Enumerating' => Enumerating PROVE Working'
  BY <1>0, <1>1 DEF Working, Hid
<1>2. ASSUME NEW ok, NEW s, ok => s \in Slots, pc = "awaitCommand", CommandResult(ok, s)
      PROVE  Working'
  <2>1. CASE NextPort
    BY <1>0, <1>2, <2>1, PortMoves DEF Working, Enumerating
  <2>2. CASE ok /\ step' = "address" /\ slot' = s
    BY <1>2, <2>2 DEF Working
  <2>3. CASE /\ step = "address" /\ ok /\ step' = "dev8" /\ UNCHANGED <<port, slot, armed>>
             /\ devs' = [devs EXCEPT ![slot] = [NoDev EXCEPT !.port = port]]
    <3>1. slot \in Slots
      BY <1>0, <1>2, <2>3 DEF Working, Enumerating
    <3>2. devs'[slot].port = port /\ ~devs'[slot].polled
      BY <1>0, <2>3, <3>1 DEF HTypes, NoDev
    <3> QED BY <2>3, <3>1, <3>2 DEF Working
  <2>4. CASE step = "evaluate" /\ step' \in {"dev18", "cfg9"} /\ UNCHANGED <<port, slot, devs, armed>>
    BY <1>0, <1>2, <2>4 DEF Working, Enumerating
  <2> QED BY <1>0, <1>2, <2>1, <2>2, <2>3, <2>4, CommandMoves
<1>3. ASSUME NEW ok, pc = "awaitControl", ControlResult(ok), slot' = slot PROVE Working'
  <2>1. CASE NextPort
    BY <1>0, <1>3, <2>1, PortMoves DEF Working, Enumerating
  <2>2. ASSUME port' = port PROVE Working'
    <3>1. step \in ControlSteps /\ step \notin {"enable", "address"}
      BY <1>0, <1>3 DEF HTypes, ControlSteps, WithData
    <3>2. slot \in Slots /\ devs[slot].port = port /\ ~devs[slot].polled
      BY <1>0, <1>3, <3>1 DEF Working, Enumerating
    <3>3. devs'[slot].port = port /\ ~devs'[slot].polled
      BY <1>0, <1>3, <3>2, ControlMoves DEF HTypes
    <3>4. NextPort \/ step' # "configure" \/ (Hid(slot).ep # 0 /\ devs' = devs)
      <4>1. "configure" \notin ControlSteps
        BY DEF ControlSteps, WithData
      <4> QED BY <1>0, <1>3, <4>1, ControlMoves
    <3>5. NextPort \/ step' # "configure" \/ (Hid(slot).ep # 0)'
      BY <1>3, <3>4 DEF Hid
    <3> QED BY <1>3, <2>1, <2>2, <3>2, <3>3, <3>5 DEF Working
  <2> QED BY <1>0, <1>3, <2>1, <2>2, ControlMoves
<1>4. events # <<>> => (Head(events).ok => Head(events).slot \in Slots)
  BY <1>0, Tails, EventIs DEF HTypes
<1>5. AwaitCommand \/ AwaitControl \/ CommandTimeout \/ ControlTimeout
      => \/ UNCHANGED driver
         \/ pc = "awaitCommand" /\ events # <<>> /\ CommandResult(Head(events).ok, Head(events).slot)
         \/ pc = "awaitCommand" /\ CommandResult(FALSE, 0)
         \/ pc = "awaitControl" /\ slot' = slot /\ \E ok : ControlResult(ok)
  BY DEF AwaitCommand, AwaitControl, CommandTimeout, ControlTimeout
<1>6. UNCHANGED driver => Working'
  BY <1>1 DEF driver, Enumerating
<1>7. PollEvent \/ ExecuteCommand \/ (\E s \in Slots : ExecuteStage(s) \/ UserActs(s) \/ Report(s))
      \/ UNCHANGED vars => UNCHANGED driver
  BY DEF PollEvent, ExecuteCommand, ExecuteStage, UserActs, Report, vars
<1>8. PushCommand \/ PushControl => UNCHANGED <<port, step, slot, devs>> /\ Enumerating
  BY DEF PushCommand, PushControl, Enumerating
<1> QED BY <1>1, <1>2, <1>3, <1>4, <1>5, <1>6, <1>7, <1>8 DEF Next, Driver


-----------------------------------------------------------------------------
(* Transfers in flight. *)

OneOf(s) == \E i \in IntrOf(s) : IntrOf(s) = {i}

\* The oldest event is read.
LEMMA IntrRead ==
  ASSUME HTypes, events # <<>>, events' = Tail(events), NEW s \in Slots
  PROVE  /\ IntrOf(s) = {} => IntrOf(s)' = {}
         /\ Head(events).slot = s /\ Head(events).ep = "intr" =>
              IntrOf(s) # {} /\ (OneOf(s) => IntrOf(s)' = {})
         /\ ~(Head(events).slot = s /\ Head(events).ep = "intr") /\ OneOf(s) => OneOf(s)'
<1>1. /\ Head(events) = events[1] /\ Len(events) \in Nat \ {0} /\ Len(events') = Len(events) - 1
      /\ \A i \in 1 .. Len(events) - 1 : events'[i] = events[i + 1]
  BY Tails DEF HTypes
<1>2. IntrOf(s)' = {i \in 1 .. Len(events') : events'[i].slot = s /\ events'[i].ep = "intr"}
  BY DEF IntrOf
<1>3. \A i \in 1 .. Len(events) - 1 : i \in IntrOf(s)' <=> i + 1 \in IntrOf(s)
  BY <1>1, <1>2 DEF IntrOf
<1>4. IntrOf(s)' \subseteq 1 .. Len(events) - 1 /\ IntrOf(s) \subseteq 1 .. Len(events)
  BY <1>1, <1>2 DEF IntrOf
<1>5. 1 \in IntrOf(s) <=> Head(events).slot = s /\ Head(events).ep = "intr"
  BY <1>1 DEF IntrOf
<1>6. IntrOf(s) = {} => IntrOf(s)' = {}
  BY <1>1, <1>3, <1>4
<1>7. 1 \in IntrOf(s) /\ OneOf(s) => IntrOf(s)' = {}
  <2>1. 1 \in IntrOf(s) /\ OneOf(s) => IntrOf(s) = {1}
    BY DEF OneOf
  <2> QED BY <1>1, <1>3, <1>4, <2>1
<1>8. ASSUME 1 \notin IntrOf(s), OneOf(s) PROVE OneOf(s)'
  <2>1. PICK i \in IntrOf(s) : IntrOf(s) = {i}
    BY <1>8 DEF OneOf
  <2>2. i \in 2 .. Len(events)
    BY <1>1, <1>4, <1>8, <2>1
  <2>3. i - 1 \in IntrOf(s)' /\ \A j \in IntrOf(s)' : j = i - 1
    BY <1>1, <1>3, <1>4, <2>1, <2>2
  <2>4. IntrOf(s)' = {i - 1}
    BY <2>3
  <2> QED BY <2>3, <2>4 DEF OneOf
<1> QED BY <1>5, <1>6, <1>7, <1>8

\* An event is posted.
LEMMA IntrPosted ==
  ASSUME HTypes, NEW e \in CommandEvents \cup TransferEvents, events' = Append(events, e),
         NEW s \in Slots
  PROVE  /\ ~(e.slot = s /\ e.ep = "intr") => IntrOf(s)' = IntrOf(s)
         /\ e.slot = s /\ e.ep = "intr" /\ IntrOf(s) = {} => OneOf(s)'
<1>1. /\ Len(events) \in Nat /\ Len(events') = Len(events) + 1
      /\ \A i \in 1 .. Len(events) : events'[i] = events[i]
      /\ events'[Len(events) + 1] = e
  BY Appends DEF HTypes
<1>2. IntrOf(s)' = {i \in 1 .. Len(events') : events'[i].slot = s /\ events'[i].ep = "intr"}
  BY DEF IntrOf
<1>3. \A i \in 1 .. Len(events) : i \in IntrOf(s)' <=> i \in IntrOf(s)
  BY <1>1, <1>2 DEF IntrOf
<1>4. /\ IntrOf(s) \subseteq 1 .. Len(events)
      /\ IntrOf(s)' \subseteq 1 .. Len(events) + 1
      /\ Len(events) + 1 \in IntrOf(s)' <=> e.slot = s /\ e.ep = "intr"
  BY <1>1, <1>2 DEF IntrOf
<1>5. ASSUME ~(e.slot = s /\ e.ep = "intr") PROVE IntrOf(s)' = IntrOf(s)
  <2>1. IntrOf(s)' \subseteq 1 .. Len(events)
    BY <1>1, <1>4, <1>5
  <2> QED BY <1>3, <1>4, <2>1
<1>6. ASSUME e.slot = s /\ e.ep = "intr", IntrOf(s) = {} PROVE OneOf(s)'
  <2>1. IntrOf(s)' = {Len(events) + 1}
    BY <1>1, <1>3, <1>4, <1>6
  <2> QED BY <2>1 DEF OneOf
<1> QED BY <1>5, <1>6

LEMMA PolledStep == EnumInv /\ [Next]_vars => Polled'
<1> SUFFICES ASSUME EnumInv, [Next]_vars, pc' # "shared"
             PROVE  \A s \in Slots :
                      /\ InFlight(s)'
                      /\ devs'[s].polled => devs'[s].port # 0 /\ (Hid(s).ep # 0)'
                      /\ s \in dropped' => devs'[s].polled
  BY DEF Polled
<1>0. HTypes /\ Working /\ Polled
  BY DEF EnumInv
<1> DEFINE Good(s) ==
             /\ InFlight(s)
             /\ devs[s].polled => devs[s].port # 0 /\ Hid(s).ep # 0
             /\ s \in dropped => devs[s].polled
<1>g. pc # "shared" => \A s \in Slots : Good(s)
  BY <1>0 DEF Polled
<1> SUFFICES \A s \in Slots : Good(s)'
  OBVIOUS
<1>f. \A s : InFlight(s) = IF devs[s].polled /\ s \notin dropped
                          THEN (armed[s] = 1 /\ IntrOf(s) = {}) \/ (armed[s] = 0 /\ OneOf(s))
                          ELSE armed[s] = 0 /\ IntrOf(s) = {}
  BY DEF InFlight, OneOf
<1>h. \A s : InFlight(s)' = IF devs'[s].polled /\ s \notin dropped'
                           THEN (armed'[s] = 1 /\ IntrOf(s)' = {}) \/ (armed'[s] = 0 /\ OneOf(s)')
                           ELSE armed'[s] = 0 /\ IntrOf(s)' = {}
  BY DEF InFlight, OneOf
\* A device of which nothing changes.
<1>1. ASSUME NEW s \in Slots, Good(s), devs'[s] = devs[s], armed'[s] = armed[s],
             s \in dropped' <=> s \in dropped,
             IntrOf(s) = {} => IntrOf(s)' = {}, OneOf(s) => OneOf(s)'
      PROVE  Good(s)'
  <2>1. InFlight(s)'
    BY <1>1, <1>f, <1>h
  <2>2. Hid(s)' = Hid(s)
    BY <1>1 DEF Hid
  <2> QED BY <1>1, <2>1, <2>2
<1>2. ASSUME UNCHANGED <<devs, armed, dropped, events>>, pc # "shared" PROVE \A s \in Slots : Good(s)'
  <2>1. \A s : IntrOf(s)' = IntrOf(s) /\ OneOf(s)' = OneOf(s)
    BY <1>2 DEF IntrOf, OneOf
  <2> HIDE DEF Good
  <2> QED BY <1>1, <1>2, <1>g, <2>1
<1>e. events # <<>> => Head(events) \in CommandEvents \cup TransferEvents
  BY <1>0, Tails DEF HTypes
\* An event that is not of an interrupt endpoint is read.
<1>r. ASSUME events # <<>>, events' = Tail(events), Head(events).ep # "intr", NEW s \in Slots
      PROVE  (IntrOf(s) = {} => IntrOf(s)' = {}) /\ (OneOf(s) => OneOf(s)')
  BY <1>0, <1>r, IntrRead
<1>3. ASSUME NEW ok, NEW t, pc = "awaitCommand", CommandResult(ok, t), dropped' = dropped,
             events' = events \/ (events # <<>> /\ events' = Tail(events) /\ Head(events).ep # "intr")
      PROVE  \A s \in Slots : Good(s)'
  <2>0. \A s \in Slots : (IntrOf(s) = {} => IntrOf(s)' = {}) /\ (OneOf(s) => OneOf(s)')
    <3>1. events' = events => \A s : IntrOf(s)' = IntrOf(s) /\ OneOf(s)' = OneOf(s)
      BY DEF IntrOf, OneOf
    <3> QED BY <1>3, <1>r, <3>1
  <2>1. \A s \in Slots : Good(s)
    BY <1>3, <1>g
  <2>2. CASE UNCHANGED <<devs, armed>>
    <3> HIDE DEF Good
    <3> QED BY <1>1, <1>3, <2>0, <2>1, <2>2
  <2>3. CASE /\ step = "address" /\ pc' = IF devs[slot].port = 0 THEN "control" ELSE "shared"
             /\ devs' = [devs EXCEPT ![slot] = [NoDev EXCEPT !.port = port]]
             /\ UNCHANGED armed
    <3>1. PICK w \in Slots : w = slot /\ devs[w].port = 0
      BY <1>0, <1>3, <2>3 DEF Working, Enumerating
    <3>2. ~devs[w].polled /\ w \notin dropped
      BY <2>1, <3>1
    <3>3. ~devs'[w].polled /\ \A s \in Slots \ {w} : devs'[s] = devs[s]
      BY <1>0, <2>3, <3>1 DEF HTypes, NoDev
    <3>4. armed[w] = 0 /\ IntrOf(w) = {}
      BY <1>f, <2>1, <3>1, <3>2
    <3>5. InFlight(w)'
      BY <1>h, <2>0, <2>3, <3>1, <3>3, <3>4
    <3>6. Good(w)'
      BY <1>3, <3>1, <3>2, <3>3, <3>5
    <3> HIDE DEF Good
    <3> QED BY <1>1, <1>3, <2>0, <2>1, <2>3, <3>3, <3>6
  <2>4. CASE Arming
    <3>1. PICK w \in Slots : w = slot /\ ~devs[w].polled /\ devs[w].port # 0 /\ Hid(w).ep # 0
      BY <1>0, <1>3, <2>4 DEF Arming, Working, Enumerating, HTypes, Ports
    <3>2. w \notin dropped /\ armed[w] = 0 /\ IntrOf(w) = {}
      BY <1>f, <2>1, <3>1
    <3>3. /\ devs'[w].polled /\ devs'[w].port = devs[w].port
          /\ devs'[w].hid = devs[w].hid
          /\ armed'[w] = 1
          /\ \A s \in Slots \ {w} : devs'[s] = devs[s] /\ armed'[s] = armed[s]
      BY <1>0, <2>4, <3>1, <3>2 DEF HTypes, Arming
    <3>4. Hid(w)' = Hid(w)
      BY <3>3 DEF Hid
    <3>5. InFlight(w)'
      <4>1. IntrOf(w)' = {}
        BY <2>0, <3>1, <3>2
      <4> QED BY <1>3, <1>h, <3>2, <3>3, <4>1
    <3>6. Good(w)'
      BY <3>1, <3>3, <3>4, <3>5
    <3> HIDE DEF Good
    <3> QED BY <1>1, <1>3, <2>0, <2>1, <3>3, <3>6
  <2> QED BY <1>0, <1>3, <2>2, <2>3, <2>4, CommandMoves

\* An event is read and dropped by a wait.
<1>4. ASSUME events # <<>>, events' = Tail(events), Drop(Head(events)), UNCHANGED <<devs, armed>>,
             pc # "shared"
      PROVE  \A s \in Slots : Good(s)'
  <2> DEFINE e == Head(events)
  <2>1. \A s \in Slots : Good(s)
    BY <1>4, <1>g
  <2>2. CASE e.ep # "intr"
    <3>1. dropped' = dropped
      BY <1>4, <2>2 DEF Drop
    <3> HIDE DEF Good
    <3> QED BY <1>1, <1>4, <1>r, <2>1, <2>2, <3>1
  <2>3. CASE e.ep = "intr"
    <3>1. PICK w \in Slots : w = e.slot
      BY <1>4, <1>e, <2>3, EventIs
    <3>2. dropped' = dropped \cup {w}
      BY <1>4, <2>3, <3>1 DEF Drop
    <3>3. IntrOf(w) # {} /\ (OneOf(w) => IntrOf(w)' = {})
      BY <1>0, <1>4, <2>3, <3>1, IntrRead
    <3>4. devs[w].polled /\ armed[w] = 0 /\ OneOf(w)
      BY <1>f, <2>1, <3>1, <3>3
    <3>5. InFlight(w)'
      BY <1>4, <1>h, <3>1, <3>2, <3>3, <3>4
    <3>6. Hid(w)' = Hid(w)
      BY <1>4 DEF Hid
    <3>7. Good(w)'
      BY <1>4, <2>1, <3>1, <3>4, <3>5, <3>6
    <3>8. ASSUME NEW s \in Slots, s # w PROVE Good(s)'
      <4>1. (IntrOf(s) = {} => IntrOf(s)' = {}) /\ (OneOf(s) => OneOf(s)')
        BY <1>0, <1>4, <3>1, <3>8, IntrRead
      <4> HIDE DEF Good
      <4> QED BY <1>1, <1>4, <2>1, <3>2, <3>8, <4>1
    <3> QED BY <3>7, <3>8
  <2> QED BY <2>2, <2>3
\* The answer of a control transfer: the device is not polled yet.
<1>5. ASSUME NEW ok, pc = "awaitControl", ControlResult(ok), UNCHANGED <<slot, dropped, armed>>,
             \/ events' = events
             \/ events # <<>> /\ events' = Tail(events) /\ Head(events).slot = slot
      PROVE  \A s \in Slots : Good(s)'
  <2>1. \A s \in Slots : Good(s)
    BY <1>5, <1>g
  <2>2. PICK w \in Slots : w = slot /\ ~devs[w].polled
    BY <1>0, <1>5 DEF Working, Enumerating, HTypes, ControlSteps, WithData
  <2>3. w \notin dropped /\ armed[w] = 0 /\ IntrOf(w) = {}
    BY <1>f, <2>1, <2>2
  <2>4. events' # events => events # <<>> /\ events' = Tail(events) /\ Head(events).ep # "intr"
    BY <1>0, <1>5, <2>2, <2>3, IntrRead
  <2>5. \A s \in Slots : (IntrOf(s) = {} => IntrOf(s)' = {}) /\ (OneOf(s) => OneOf(s)')
    <3>1. events' = events => \A s : IntrOf(s)' = IntrOf(s) /\ OneOf(s)' = OneOf(s)
      BY DEF IntrOf, OneOf
    <3> QED BY <1>r, <2>4, <3>1
  <2>6. ~devs'[w].polled /\ \A s \in Slots \ {w} : devs'[s] = devs[s]
    BY <1>0, <1>5, <2>2, ControlMoves DEF HTypes
  <2>7. InFlight(w)'
    BY <1>5, <1>h, <2>2, <2>3, <2>5, <2>6
  <2>8. Good(w)'
    BY <1>5, <2>2, <2>3, <2>6, <2>7
  <2> HIDE DEF Good
  <2> QED BY <1>1, <1>5, <2>1, <2>5, <2>6, <2>8
<1>6. CASE PollEvent
  <2> DEFINE e == Head(events)
  <2>1. /\ pc = "poll" /\ events # <<>> /\ events' = Tail(events) /\ UNCHANGED <<devs, dropped>>
        /\ IF e.type = "transfer" /\ e.ep = "intr" /\ Hid(e.slot).ep # 0
           THEN StartPolling(e.slot) ELSE UNCHANGED armed
    BY <1>6 DEF PollEvent, driver
  <2>2. \A s \in Slots : Good(s)
    BY <1>g, <2>1
  <2>3. CASE e.ep # "intr"
    <3>1. armed' = armed
      BY <2>1, <2>3
    <3> HIDE DEF Good
    <3> QED BY <1>1, <1>r, <2>1, <2>2, <2>3, <3>1
  <2>4. CASE e.ep = "intr"
    <3>1. e.type = "transfer" /\ e.slot \in Slots
      BY <1>e, <2>1, <2>4, EventIs
    <3>2. PICK w \in Slots : w = e.slot
      BY <3>1
    <3>3. IntrOf(w) # {} /\ (OneOf(w) => IntrOf(w)' = {})
      BY <1>0, <2>1, <2>4, <3>2, IntrRead
    <3>4. devs[w].polled /\ armed[w] = 0 /\ OneOf(w) /\ w \notin dropped
      BY <1>f, <2>2, <3>2, <3>3
    <3>5. Hid(w).ep # 0
      BY <2>2, <3>2, <3>4
    <3>6. armed' = [armed EXCEPT ![w] = armed[w] + 1]
      <4> HIDE DEF e, Good
      <4> QED BY <2>1, <2>4, <3>1, <3>2, <3>5 DEF StartPolling
    <3>7. armed'[w] = 1 /\ \A s \in Slots \ {w} : armed'[s] = armed[s]
      BY <1>0, <3>2, <3>4, <3>6 DEF HTypes
    <3>8. InFlight(w)'
      BY <1>h, <2>1, <3>2, <3>3, <3>4, <3>7
    <3>9. Hid(w)' = Hid(w)
      BY <2>1 DEF Hid
    <3>10. Good(w)'
      BY <2>1, <2>2, <3>2, <3>4, <3>8, <3>9
    <3>11. ASSUME NEW s \in Slots, s # w PROVE Good(s)'
      <4>1. (IntrOf(s) = {} => IntrOf(s)' = {}) /\ (OneOf(s) => OneOf(s)')
        BY <1>0, <2>1, <3>2, <3>11, IntrRead
      <4> HIDE DEF Good
      <4> QED BY <1>1, <2>1, <2>2, <3>7, <3>11, <4>1
    <3> QED BY <3>10, <3>11
  <2> QED BY <2>3, <2>4
\* The controller answers.
<1>7. ASSUME NEW x \in CommandEvents \cup TransferEvents, x.ep # "intr",
             events' = Append(events, x), UNCHANGED <<devs, armed, dropped>>, pc # "shared"
      PROVE  \A s \in Slots : Good(s)'
  <2>1. \A s \in Slots : IntrOf(s)' = IntrOf(s)
    BY <1>0, <1>7, IntrPosted
  <2>2. \A s \in Slots : OneOf(s)' = OneOf(s)
    BY <2>1 DEF OneOf
  <2> HIDE DEF Good
  <2> QED BY <1>1, <1>7, <1>g, <2>1, <2>2
<1>8. ASSUME NEW w \in Slots, Report(w) PROVE \A s \in Slots : Good(s)'
  <2> DEFINE x == TransferEvent(w, "intr", TRUE)
  <2>1. /\ armed[w] > 0 /\ armed' = [armed EXCEPT ![w] = armed[w] - 1]
        /\ events' = Append(events, x) /\ UNCHANGED <<devs, dropped, pc>>
    BY <1>8 DEF Report, driver
  <2>2. x \in CommandEvents \cup TransferEvents /\ x.slot = w /\ x.ep = "intr"
    BY DEF TransferEvent, TransferEvents
  <2> HIDE DEF x
  <2>3. \A s \in Slots : Good(s)
    BY <1>g, <2>1
  <2>4. /\ armed[w] = 1 /\ armed'[w] = 0 /\ \A s \in Slots \ {w} : armed'[s] = armed[s]
    BY <1>0, <2>1 DEF HTypes
  <2>5. devs[w].polled /\ w \notin dropped /\ IntrOf(w) = {}
    <3>1. InFlight(w)
      BY <2>3
    <3>2. armed[w] # 0
      BY <2>4
    <3> HIDE DEF Good
    <3> QED BY <1>f, <3>1, <3>2, Zenon
  <2>6. OneOf(w)'
    BY <1>0, <2>1, <2>2, <2>5, IntrPosted
  <2>7. InFlight(w)'
    BY <1>h, <2>1, <2>4, <2>5, <2>6
  <2>8. Hid(w)' = Hid(w)
    BY <2>1 DEF Hid
  <2>9. Good(w)'
    BY <2>1, <2>3, <2>5, <2>7, <2>8
  <2>10. ASSUME NEW s \in Slots, s # w PROVE Good(s)'
    <3>1. IntrOf(s)' = IntrOf(s)
      BY <1>0, <2>1, <2>2, <2>10, IntrPosted
    <3>2. OneOf(s)' = OneOf(s)
      BY <3>1 DEF OneOf
    <3> HIDE DEF Good
    <3> QED BY <1>1, <2>1, <2>3, <2>4, <2>10, <3>1, <3>2
  <2> QED BY <2>9, <2>10
<1> HIDE DEF Good
<1>9. CASE AwaitCommand
  <2>1. /\ pc = "awaitCommand" /\ events # <<>> /\ events' = Tail(events)
        /\ \/ /\ Head(events).type = "command"
              /\ CommandResult(Head(events).ok, Head(events).slot) /\ dropped' = dropped
           \/ Drop(Head(events)) /\ UNCHANGED <<devs, armed>>
    BY <1>9 DEF AwaitCommand, driver
  <2>2. Head(events).type = "command" => Head(events).ep # "intr"
    BY <1>e, <2>1, EventIs
  <2> QED BY <1>3, <1>4, <2>1, <2>2
<1>10. CASE AwaitControl
  <2>1. /\ pc = "awaitControl" /\ events # <<>> /\ events' = Tail(events) /\ armed' = armed
        /\ \/ /\ Head(events).slot = slot
              /\ ControlResult(Head(events).ok) /\ UNCHANGED <<slot, dropped>>
           \/ Drop(Head(events)) /\ UNCHANGED devs
    BY <1>10 DEF AwaitControl, driver
  <2> QED BY <1>4, <1>5, <2>1
<1>11. CASE CommandTimeout
  BY <1>3, <1>11 DEF CommandTimeout
<1>12. CASE ControlTimeout
  BY <1>5, <1>12 DEF ControlTimeout, controller
<1>13. CASE ExecuteCommand
  <2>1. PICK ok, s : events' = Append(events, CommandEvent(Head(commands).id, s, ok))
    BY <1>13 DEF ExecuteCommand
  <2>2. UNCHANGED <<devs, armed, dropped, pc>>
    BY <1>13 DEF ExecuteCommand, driver
  <2>3. HTypes' /\ Len(events) \in Nat /\ events' \in Seq(CommandEvents \cup TransferEvents)
    BY <1>0, TypesStep DEF HTypes
  <2> DEFINE x == CommandEvent(Head(commands).id, s, ok)
  <2>4. x.ep # "intr"
    BY DEF CommandEvent
  <2>5. x \in CommandEvents \cup TransferEvents
    <3> HIDE DEF x
    <3>1. Len(events') = Len(events) + 1 /\ events'[Len(events) + 1] = x
      BY <1>0, <2>1 DEF HTypes, x
    <3> QED BY <2>3, <3>1
  <2> HIDE DEF x
  <2> QED BY <1>7, <2>1, <2>2, <2>4, <2>5 DEF x
<1>14. ASSUME NEW w \in Slots, ExecuteStage(w) PROVE \A s \in Slots : Good(s)'
  <2>1. PICK ok \in BOOLEAN : events' = Append(events, TransferEvent(w, "ep0", ok))
    BY <1>14 DEF ExecuteStage
  <2>2. UNCHANGED <<devs, armed, dropped, pc>>
    BY <1>14 DEF ExecuteStage, driver
  <2>3. /\ TransferEvent(w, "ep0", ok) \in CommandEvents \cup TransferEvents
        /\ TransferEvent(w, "ep0", ok).ep # "intr"
    BY DEF TransferEvent, TransferEvents
  <2> QED BY <1>7, <2>1, <2>2, <2>3
<1>15. PushCommand \/ PushControl \/ (\E s \in Slots : UserActs(s)) \/ UNCHANGED vars
       => UNCHANGED <<devs, armed, dropped, events>> /\ pc # "shared"
  <2>1. pc' # "shared" /\ UNCHANGED pc => pc # "shared"
    OBVIOUS
  <2> QED BY <2>1 DEF PushCommand, PushControl, UserActs, driver, controller, vars
<1> QED
  BY <1>2, <1>6, <1>8, <1>9, <1>10, <1>11, <1>12, <1>13, <1>14, <1>15 DEF Next, Driver


-----------------------------------------------------------------------------
(* The event ring. *)

LEMMA CardSub ==
  ASSUME NEW S, IsFiniteSet(S), NEW T, T \subseteq S
  PROVE  /\ IsFiniteSet(T) /\ Cardinality(T) \in Nat /\ Cardinality(S) \in Nat
         /\ Cardinality(T) <= Cardinality(S)
BY FS_Subset, FS_CardinalityType

LEMMA CardLess ==
  ASSUME NEW S, IsFiniteSet(S), NEW x \in S, NEW T, T \subseteq S \ {x}
  PROVE  /\ IsFiniteSet(T) /\ Cardinality(T) \in Nat /\ Cardinality(S) \in Nat
         /\ Cardinality(T) + 1 <= Cardinality(S)
<1>1. IsFiniteSet(S \ {x}) /\ Cardinality(S \ {x}) = Cardinality(S) - 1
  BY FS_RemoveElement
<1>2. Cardinality(S) \in Nat
  BY FS_CardinalityType
<1> QED BY <1>1, <1>2, CardSub

LEMMA CardMore ==
  ASSUME NEW S, IsFiniteSet(S), NEW x, NEW T, T \subseteq S \cup {x}
  PROVE  /\ IsFiniteSet(T) /\ Cardinality(T) \in Nat /\ Cardinality(S) \in Nat
         /\ Cardinality(T) <= Cardinality(S) + 1
<1>1. /\ IsFiniteSet(S \cup {x})
      /\ Cardinality(S \cup {x}) = Cardinality(S) \/ Cardinality(S \cup {x}) = Cardinality(S) + 1
  BY FS_AddElement
<1>2. Cardinality(S) \in Nat
  BY FS_CardinalityType
<1> QED BY <1>1, <1>2, CardSub

LEMMA StagesMore ==
  ASSUME HTypes, IsFiniteSet(StagesLeft), pc = "control", Working, PushControl
  PROVE  /\ IsFiniteSet(StagesLeft') /\ Cardinality(StagesLeft') \in Nat
         /\ Cardinality(StagesLeft') <= Cardinality(StagesLeft) + Posts(step)
         /\ halted[slot] => StagesLeft' = StagesLeft
         /\ ep0'[slot] # <<>>
<1>1. step \in ControlSteps /\ slot \in Slots
  BY DEF HTypes, Working, Enumerating, ControlSteps, WithData
<1>2. /\ StagesOf(step) \in Seq(Stages) /\ Len(StagesOf(step)) = Posts(step) /\ Posts(step) \in {2, 3}
      /\ Posts(step) = 2 \/ Posts(step) = 3
  BY <1>1, StagesPosted DEF Posts
<1> DEFINE n == Len(ep0[slot])
<1>3. /\ ep0' = [ep0 EXCEPT ![slot] = ep0[slot] \o StagesOf(step)] /\ halted' = halted
  BY DEF PushControl
<1>4. ep0[slot] \in Seq(Stages) /\ n \in Nat
  BY <1>1 DEF HTypes
<1>5. /\ ep0'[slot] = ep0[slot] \o StagesOf(step) /\ Len(ep0'[slot]) = n + Posts(step)
      /\ \A s \in Slots \ {slot} : ep0'[s] = ep0[s]
  <2>1. ep0'[slot] = ep0[slot] \o StagesOf(step) /\ \A s \in Slots \ {slot} : ep0'[s] = ep0[s]
    BY <1>1, <1>3 DEF HTypes
  <2>2. Len(ep0[slot] \o StagesOf(step)) = n + Posts(step)
    BY <1>2, <1>4, ConcatProperties
  <2> QED BY <2>1, <2>2
<1> HIDE DEF n
<1>6. StagesLeft' = {x \in Slots \X Nat : ~halted'[x[1]] /\ x[2] \in 1 .. Len(ep0'[x[1]])}
  BY DEF StagesLeft
<1>7. ASSUME NEW x \in StagesLeft'
      PROVE  \/ x \in StagesLeft
             \/ /\ ~halted[slot]
                /\ \/ x = <<slot, n + 1>> \/ x = <<slot, n + 2>>
                   \/ (Posts(step) = 3 /\ x = <<slot, n + 3>>)
  <2>1. /\ x \in Slots \X Nat /\ x = <<x[1], x[2]>> /\ ~halted[x[1]]
        /\ x[2] \in 1 .. Len(ep0'[x[1]])
    BY <1>3, <1>6, <1>7
  <2>2. CASE x[1] = slot
    <3>1. x[2] \in 1 .. n + Posts(step) /\ x = <<slot, x[2]>>
      BY <1>5, <2>1, <2>2
    <3>2. x[2] \in 1 .. n \/ x[2] = n + 1 \/ x[2] = n + 2 \/ (Posts(step) = 3 /\ x[2] = n + 3)
      BY <1>2, <1>4, <3>1
    <3> QED BY <2>1, <2>2, <3>1, <3>2 DEF StagesLeft, n
  <2>3. CASE x[1] # slot
    BY <1>5, <2>1, <2>3 DEF StagesLeft
  <2> QED BY <2>2, <2>3
<1>8. ASSUME NEW x \in StagesLeft PROVE x \in StagesLeft'
  <2>1. /\ x \in Slots \X Nat /\ ~halted[x[1]] /\ x[2] \in 1 .. Len(ep0[x[1]])
    BY <1>8 DEF StagesLeft
  <2>2. x[2] \in 1 .. Len(ep0'[x[1]])
    BY <1>2, <1>4, <1>5, <2>1, SMTT(30) DEF n
  <2> QED BY <1>3, <1>6, <2>1, <2>2
<1>9. halted[slot] => StagesLeft' = StagesLeft
  BY <1>7, <1>8
<1>10. /\ IsFiniteSet(StagesLeft') /\ Cardinality(StagesLeft') \in Nat
       /\ Cardinality(StagesLeft') <= Cardinality(StagesLeft) + Posts(step)
  <2> DEFINE A == StagesLeft \cup {<<slot, n + 1>>}
             B == A \cup {<<slot, n + 2>>}
             C == B \cup {<<slot, n + 3>>}
  <2>1. IsFiniteSet(A) /\ Cardinality(A) <= Cardinality(StagesLeft) + 1
        /\ Cardinality(A) \in Nat /\ Cardinality(StagesLeft) \in Nat
    BY CardMore
  <2>2. StagesLeft' \subseteq C /\ (Posts(step) = 2 => StagesLeft' \subseteq B)
    BY <1>7
  <2> HIDE DEF A
  <2>3. IsFiniteSet(B) /\ Cardinality(B) <= Cardinality(A) + 1 /\ Cardinality(B) \in Nat
    BY <2>1, CardMore
  <2> HIDE DEF B
  <2>4. IsFiniteSet(C) /\ Cardinality(C) <= Cardinality(B) + 1 /\ Cardinality(C) \in Nat
    BY <2>3, CardMore
  <2> HIDE DEF C
  <2>5. CASE Posts(step) = 2
    <3>1. IsFiniteSet(StagesLeft') /\ Cardinality(StagesLeft') \in Nat
          /\ Cardinality(StagesLeft') <= Cardinality(B)
      BY <2>2, <2>3, <2>5, CardSub
    <3> QED BY <2>1, <2>3, <2>5, <3>1
  <2>6. CASE Posts(step) = 3
    <3>1. IsFiniteSet(StagesLeft') /\ Cardinality(StagesLeft') \in Nat
          /\ Cardinality(StagesLeft') <= Cardinality(C)
      BY <2>2, <2>4, <2>6, CardSub
    <3> QED BY <2>1, <2>3, <2>4, <2>6, <3>1
  <2> QED BY <1>2, <2>5, <2>6
<1>11. ep0'[slot] # <<>>
  <2>1. n \in Nat
    BY <1>4
  <2>2. Posts(step) = 2 \/ Posts(step) = 3
    BY <1>2
  <2>3. Len(ep0'[slot]) = n + Posts(step)
    BY <1>5
  <2>4. n + Posts(step) # 0
    BY <2>1, <2>2
  <2>5. Len(<<>>) = 0
    OBVIOUS
  <2> QED BY <2>3, <2>4, <2>5, Zenon
<1> QED BY <1>9, <1>10, <1>11

LEMMA StagesLess ==
  ASSUME HTypes, IsFiniteSet(StagesLeft), NEW s \in Slots, ExecuteStage(s)
  PROVE  /\ IsFiniteSet(StagesLeft') /\ Cardinality(StagesLeft') \in Nat
         /\ Cardinality(StagesLeft') + 1 <= Cardinality(StagesLeft)
<1> DEFINE n == Len(ep0[s])
<1>1. PICK ok \in BOOLEAN :
          /\ ep0[s] # <<>> /\ ~halted[s]
          /\ halted' = [halted EXCEPT ![s] = ~ok]
          /\ ep0' = IF ok THEN [ep0 EXCEPT ![s] = Tail(ep0[s])] ELSE ep0
  BY DEF ExecuteStage
<1>2. n \in Nat \ {0} /\ Len(Tail(ep0[s])) = n - 1
  BY <1>1, Tails DEF HTypes
<1>3. <<s, n>> \in StagesLeft
  <2>1. n \in 1 .. Len(ep0[s]) /\ n \in Nat
    BY <1>2
  <2> HIDE DEF n
  <2>2. <<s, n>>[1] = s /\ <<s, n>>[2] = n
    OBVIOUS
  <2> QED BY <1>1, <2>1, <2>2 DEF StagesLeft
<1>4. /\ halted'[s] = ~ok /\ \A t \in Slots \ {s} : halted'[t] = halted[t] /\ ep0'[t] = ep0[t]
      /\ ok => ep0'[s] = Tail(ep0[s])
  BY <1>1 DEF HTypes
<1>5. StagesLeft' = {x \in Slots \X Nat : ~halted'[x[1]] /\ x[2] \in 1 .. Len(ep0'[x[1]])}
  BY DEF StagesLeft
<1>6. ASSUME NEW x \in StagesLeft' PROVE x \in StagesLeft /\ x # <<s, n>>
  <2>1. /\ x \in Slots \X Nat /\ x = <<x[1], x[2]>> /\ ~halted'[x[1]]
        /\ x[2] \in 1 .. Len(ep0'[x[1]])
    BY <1>5, <1>6
  <2>2. CASE x[1] = s
    <3>1. ok
      BY <1>4, <2>1, <2>2
    <3>2. x[2] \in 1 .. n - 1
      BY <1>2, <1>4, <2>1, <2>2, <3>1
    <3>3. x[2] \in 1 .. Len(ep0[s]) /\ x[2] # n
      BY <1>2, <3>2
    <3> QED BY <1>1, <2>1, <2>2, <3>3 DEF StagesLeft
  <2>3. CASE x[1] # s
    BY <1>4, <2>1, <2>3 DEF StagesLeft
  <2> QED BY <2>2, <2>3
<1>7. StagesLeft' \subseteq StagesLeft \ {<<s, n>>}
  BY <1>6
<1> HIDE DEF n
<1> QED BY <1>3, <1>7, CardLess

LEMMA QuotaAnswered ==
  /\ HTypes /\ pc = "awaitCommand" =>
       \A ok, s : CommandResult(ok, s) =>
          /\ Quota \in Int /\ Quota' \in Int /\ Quota - 1 <= Quota'
          /\ Arming => Quota <= Quota' \/ armed' = armed
  /\ HTypes /\ pc = "awaitControl" =>
       \A ok : ControlResult(ok) => Quota \in Int /\ Quota' \in Int /\ Quota - 1 <= Quota'
<1>1. Quota' = 14 * (port' - 1) + Used'
  BY DEF Quota, PerDevice
<1>2. HTypes => Quota \in Int /\ Quota = 14 * (port - 1) + Used /\ port \in Nat
  BY UsedIs, SMTT(30) DEF HTypes, Ports
<1>3. ASSUME HTypes, pc = "awaitCommand", NEW ok, NEW s, CommandResult(ok, s)
      PROVE  /\ Quota \in Int /\ Quota' \in Int /\ Quota - 1 <= Quota'
             /\ Arming => Quota <= Quota' \/ armed' = armed
  <2>1. CASE NextPort
    BY <1>3, <2>1, PortMoves DEF Enumerating
  <2>2. CASE step = "enable" /\ pc' = "command" /\ step' = "address" /\ port' = port
    BY <1>1, <1>2, <1>3, <2>2 DEF Used, Enumerating, Before, Arming
  <2>3. CASE step = "address" /\ step' = "dev8" /\ pc' \in {"control", "shared"} /\ port' = port
    BY <1>1, <1>2, <1>3, <2>3 DEF Used, Enumerating, Before, Arming, PerDevice
  <2>4. CASE step = "evaluate" /\ pc' = "control" /\ step' \in {"dev18", "cfg9"} /\ port' = port
    BY <1>1, <1>2, <1>3, <2>4 DEF Used, Enumerating, Before, Arming
  <2> QED BY <1>3, <2>1, <2>2, <2>3, <2>4, CommandMoves
<1>4. ASSUME HTypes, pc = "awaitControl", NEW ok, ControlResult(ok)
      PROVE  Quota \in Int /\ Quota' \in Int /\ Quota - 1 <= Quota'
  <2>0. Used = Before(step) + Posts(step) /\ Posts(step) \in {2, 3} /\ Before(step) \in Nat
    BY <1>4 DEF Used, Enumerating, Posts, Before
  <2>1. CASE NextPort
    BY <1>4, <2>1, PortMoves DEF Enumerating
  <2>2. CASE step = "dev8" /\ pc' = "command" /\ step' = "evaluate" /\ port' = port
    BY <1>1, <1>2, <1>4, <2>2 DEF Used, Enumerating, Before, Posts, WithData
  <2>3. CASE step \in {"idle", "report"} /\ pc' = "command" /\ step' = "configure" /\ port' = port
    BY <1>1, <1>2, <1>4, <2>3 DEF Used, Enumerating, Before, Posts, WithData
  <2>4. CASE pc' = "control" /\ port' = port /\ Before(step) + Posts(step) - 1 <= Before(step')
    <3>1. Used' = Before(step') /\ Before(step') \in Nat
      BY <2>4 DEF Used, Enumerating, Before
    <3> QED BY <1>1, <1>2, <1>4, <2>0, <2>4, <3>1
  <2> QED BY <1>4, <2>1, <2>2, <2>3, <2>4, ControlMoves
<1> QED BY <1>3, <1>4

LEMMA ArmedMore ==
  ASSUME HTypes, IsFiniteSet(ArmedSlots), NEW w \in Slots, armed' = [armed EXCEPT ![w] = @ + 1]
  PROVE  /\ IsFiniteSet(ArmedSlots') /\ Cardinality(ArmedSlots') \in Nat
         /\ Cardinality(ArmedSlots') <= Cardinality(ArmedSlots) + 1
<1>1. \A s \in Slots \ {w} : armed'[s] = armed[s]
  BY DEF HTypes
<1>2. ArmedSlots' \subseteq ArmedSlots \cup {w}
  BY <1>1 DEF ArmedSlots
<1> QED BY <1>2, CardMore

LEMMA ArmedLess ==
  ASSUME HTypes, IsFiniteSet(ArmedSlots), NEW w \in Slots, armed[w] > 0,
         armed' = [armed EXCEPT ![w] = @ - 1]
  PROVE  /\ IsFiniteSet(ArmedSlots') /\ Cardinality(ArmedSlots') \in Nat
         /\ Cardinality(ArmedSlots') + 1 <= Cardinality(ArmedSlots)
<1>1. armed[w] = 1 /\ armed'[w] = 0 /\ \A s \in Slots \ {w} : armed'[s] = armed[s]
  BY DEF HTypes
<1>2. w \in ArmedSlots /\ ArmedSlots' \subseteq ArmedSlots \ {w}
  BY <1>1 DEF ArmedSlots
<1> QED BY <1>2, CardLess

\* The answers of the two waits, on the event ring.
CommandCame == \E i \in 1 .. Len(events) : events[i].type = "command"
TransferCame == \E i \in 1 .. Len(events) : events[i].type = "transfer" /\ events[i].slot = slot

LEMMA CamePosted ==
  ASSUME HTypes, NEW x \in CommandEvents \cup TransferEvents, events' = Append(events, x)
  PROVE  /\ CommandCame \/ x.type = "command" => CommandCame'
         /\ slot' = slot /\ TransferCame => TransferCame'
         /\ slot' = slot /\ x.type = "transfer" /\ x.slot = slot => TransferCame'
<1>1. Len(events') = Len(events) + 1 /\ events'[Len(events) + 1] = x
      /\ (\A i \in 1 .. Len(events) : events'[i] = events[i]) /\ Len(events) \in Nat
  BY Appends DEF HTypes
<1>2. Len(events) + 1 \in 1 .. Len(events')
  BY <1>1
<1>3. \A i \in 1 .. Len(events) : i \in 1 .. Len(events') /\ events'[i] = events[i]
  BY <1>1
<1> QED BY <1>1, <1>2, <1>3 DEF CommandCame, TransferCame

LEMMA CameRead ==
  ASSUME HTypes, events # <<>>, events' = Tail(events)
  PROVE  /\ CommandCame /\ Head(events).type # "command" => CommandCame'
         /\ /\ slot' = slot /\ TransferCame
            /\ ~(Head(events).type = "transfer" /\ Head(events).slot = slot)
            => TransferCame'
<1>1. Head(events) = events[1] /\ Len(events') = Len(events) - 1 /\ Len(events) \in Nat
      /\ (\A i \in 1 .. Len(events) - 1 : events'[i] = events[i + 1])
  BY Tails DEF HTypes
<1>2. ASSUME NEW i \in 1 .. Len(events), i # 1
      PROVE  i - 1 \in 1 .. Len(events') /\ events'[i - 1] = events[i]
  BY <1>1, <1>2
<1>3. ASSUME CommandCame, Head(events).type # "command" PROVE CommandCame'
  <2>1. PICK i \in 1 .. Len(events) : events[i].type = "command"
    BY <1>3 DEF CommandCame
  <2> QED BY <1>1, <1>2, <1>3, <2>1 DEF CommandCame
<1>4. ASSUME slot' = slot, TransferCame,
             ~(Head(events).type = "transfer" /\ Head(events).slot = slot)
      PROVE  TransferCame'
  <2>1. PICK i \in 1 .. Len(events) : events[i].type = "transfer" /\ events[i].slot = slot
    BY <1>4 DEF TransferCame
  <2>2. i # 1
    BY <1>1, <1>4, <2>1
  <2> QED BY <1>2, <1>4, <2>1, <2>2 DEF TransferCame
<1> QED BY <1>3, <1>4

LEMMA LoadedStep == EnumInv /\ [Next]_vars => Loaded'
<1> SUFFICES ASSUME EnumInv, [Next]_vars
             PROVE  /\ IsFiniteSet(StagesLeft') /\ IsFiniteSet(ArmedSlots')
                    /\ Load' <= Asked'
                    /\ pc' = "awaitCommand" => commands' # <<>> \/ CommandCame'
                    /\ pc' = "awaitControl" =>
                         \/ TransferCame' \/ (~halted'[slot'] /\ ep0'[slot'] # <<>>)
                         \/ Load' < Asked'
  BY DEF Loaded, CommandCame, TransferCame
<1>0. HTypes /\ Working /\ Polled /\ Loaded /\ HTypes'
  BY TypesStep DEF EnumInv
<1>1. /\ IsFiniteSet(StagesLeft) /\ IsFiniteSet(ArmedSlots) /\ Load <= Asked
      /\ pc = "awaitCommand" => commands # <<>> \/ CommandCame
      /\ pc = "awaitControl" =>
           TransferCame \/ (~halted[slot] /\ ep0[slot] # <<>>) \/ Load < Asked
  BY <1>0 DEF Loaded, CommandCame, TransferCame
<1>2. /\ Load = Len(events) + Len(commands) + Cardinality(StagesLeft) + Cardinality(ArmedSlots)
      /\ Load' = Len(events') + Len(commands') + Cardinality(StagesLeft') + Cardinality(ArmedSlots')
      /\ Asked = Quota + slow /\ Asked' = Quota' + slow'
  BY DEF Load, Asked, Quota
<1>3. /\ Len(events) \in Nat /\ Len(commands) \in Nat /\ slow \in Nat /\ slow' \in Nat
      /\ Cardinality(StagesLeft) \in Nat /\ Cardinality(ArmedSlots) \in Nat
      /\ Quota \in Int
  <2>1. Cardinality(StagesLeft) \in Nat /\ Cardinality(ArmedSlots) \in Nat
    BY <1>1, FS_CardinalityType
  <2>2. Quota \in Int
    <3>1. port \in Nat
      BY <1>0 DEF HTypes, Ports
    <3>2. Quota = 14 * (port - 1) + Used /\ Used \in Int
      BY <1>0, UsedIs
    <3> QED BY <3>1, <3>2
  <2> QED BY <1>0, <2>1, <2>2 DEF HTypes
<1>l. Len(events) + Len(commands) + Cardinality(StagesLeft) + Cardinality(ArmedSlots)
        <= Quota + slow
  BY <1>1, <1>2
<1>m. /\ Len(events') + Len(commands') + Cardinality(StagesLeft') + Cardinality(ArmedSlots')
            <= Quota' + slow' => Load' <= Asked'
      /\ Len(events') + Len(commands') + Cardinality(StagesLeft') + Cardinality(ArmedSlots')
            < Quota' + slow' => Load' < Asked'
  BY <1>2
<1> DEFINE Sum == Len(events) + Len(commands) + Cardinality(StagesLeft) + Cardinality(ArmedSlots)
<1>4. /\ UNCHANGED <<ep0, halted>> => StagesLeft' = StagesLeft
      /\ armed' = armed => ArmedSlots' = ArmedSlots
      /\ UNCHANGED <<pc, port, step>> => Quota' = Quota
  <2>1. UNCHANGED <<ep0, halted>> => StagesLeft' = StagesLeft
    BY DEF StagesLeft
  <2>2. armed' = armed => ArmedSlots' = ArmedSlots
    BY DEF ArmedSlots
  <2>3. UNCHANGED <<pc, port, step>> => Quota' = Quota
    BY DEF Quota, Used, Enumerating, Before, Posts
  <2> QED BY <2>1, <2>2, <2>3
<1>5. events # <<>> => Len(Tail(events)) = Len(events) - 1
                       /\ Head(events) \in CommandEvents \cup TransferEvents
  BY <1>0, Tails DEF HTypes
<1>6. commands # <<>> => Len(Tail(commands)) = Len(commands) - 1
  BY <1>0, Tails DEF HTypes
<1>7. /\ UNCHANGED events /\ CommandCame => CommandCame'
      /\ UNCHANGED <<events, slot>> /\ TransferCame => TransferCame'
  BY DEF CommandCame, TransferCame
\* The driver does nothing and the rings keep their loads.
<1>8. CASE UNCHANGED vars \/ \E s \in Slots : UserActs(s)
  <2>1. UNCHANGED <<pc, port, step, slot, commands, ep0, halted, armed, events, slow>>
    BY <1>8 DEF vars, UserActs, driver, controller, counters
  <2>2. StagesLeft' = StagesLeft /\ ArmedSlots' = ArmedSlots /\ Load' = Load /\ Asked' = Asked
    BY <1>2, <1>4, <2>1
  <2> QED BY <1>1, <1>7, <2>1, <2>2
<1>9. CASE PushCommand
  <2>1. /\ pc = "command" /\ pc' = "awaitCommand"
        /\ commands' = Append(commands, [id |-> cmds + 1, kind |-> step, slot |-> slot])
        /\ UNCHANGED <<port, step, ep0, halted, armed, events, slow>>
    BY <1>9 DEF PushCommand, counters
  <2>2. Len(commands') = Len(commands) + 1 /\ commands' # <<>>
    <3> DEFINE x == [id |-> cmds + 1, kind |-> step, slot |-> slot]
    <3>1. commands \in Seq(Commands \cup {x}) /\ x \in Commands \cup {x}
      BY <1>0 DEF HTypes
    <3> HIDE DEF x
    <3> QED BY <2>1, <3>1 DEF x
  <2>3. Quota' = Quota + 1
    <3>1. step \in {"enable", "address", "evaluate", "configure"} /\ port \in Nat
      BY <1>0, <2>1 DEF HTypes, CommandSteps, Ports
    <3> QED BY <2>1, <3>1 DEF Quota, Used, Enumerating, Before, PerDevice
  <2>4. StagesLeft' = StagesLeft /\ ArmedSlots' = ArmedSlots
    BY <1>4, <2>1
  <2>5. Len(events') = Len(events) /\ slow' = slow
    BY <2>1
  <2>6. Load' <= Asked'
    <3>a. Sum' <= Quota' + slow'
      BY <1>l, <1>3, <2>2, <2>3, <2>4, <2>5, SMTT(30)
    <3> QED BY <1>m, <3>a
  <2> QED BY <1>1, <2>1, <2>2, <2>4, <2>6
<1>10. CASE PushControl
  <2>1. /\ pc = "control" /\ pc' = "awaitControl"
        /\ UNCHANGED <<port, step, slot, commands, halted, armed, events, slow>>
    BY <1>10 DEF PushControl, counters
  <2>2. /\ IsFiniteSet(StagesLeft') /\ Cardinality(StagesLeft') \in Nat
        /\ Cardinality(StagesLeft') <= Cardinality(StagesLeft) + Posts(step)
        /\ halted[slot] => StagesLeft' = StagesLeft
        /\ ep0'[slot] # <<>>
    BY <1>0, <1>1, <1>10, <2>1, StagesMore
  <2>3. Quota' = Quota + Posts(step) /\ Posts(step) \in {2, 3}
    <3>1. step \in {"dev8", "dev18", "cfg9", "cfg", "report", "setcfg", "protocol", "idle"}
          /\ port \in Nat
      BY <1>0, <2>1 DEF HTypes, ControlSteps, WithData, Ports
    <3>2. Posts(step) \in {2, 3} /\ Before(step) \in Nat
      BY <3>1 DEF Posts, Before
    <3>3. Used = Before(step) /\ Used' = Before(step) + Posts(step)
      BY <2>1, <3>2 DEF Used, Enumerating
    <3> QED BY <2>1, <3>1, <3>2, <3>3 DEF Quota, PerDevice
  <2>4. ArmedSlots' = ArmedSlots
    BY <1>4, <2>1
  <2>5. Len(events') = Len(events) /\ Len(commands') = Len(commands) /\ slow' = slow
    BY <2>1
  <2>6. Load' <= Asked'
    <3>1. Cardinality(StagesLeft') \in Nat
          /\ Cardinality(StagesLeft') <= Cardinality(StagesLeft) + Posts(step)
      BY <2>2
    <3>2. Quota' = Quota + Posts(step) /\ Posts(step) \in Int
      BY <2>3
    <3>3. Sum' <= Quota' + slow'
      BY <1>l, <1>3, <2>4, <2>5, <3>1, <3>2, SMTT(30)
    <3> QED BY <1>m, <3>3
  <2>7. halted[slot] => Load' < Asked'
    <3>1. CASE StagesLeft' = StagesLeft
      <4>a. Sum' < Quota' + slow'
        BY <1>l, <1>3, <2>3, <2>4, <2>5, <3>1, SMTT(30)
      <4> QED BY <1>m, <4>a
    <3> QED BY <2>2, <3>1
  <2> QED BY <1>1, <2>1, <2>2, <2>4, <2>6, <2>7
<1>11. CASE AwaitCommand
  <2>1. /\ pc = "awaitCommand" /\ events # <<>> /\ events' = Tail(events)
        /\ UNCHANGED <<commands, ep0, halted, slow>>
        /\ \/ Head(events).type = "command" /\ CommandResult(Head(events).ok, Head(events).slot)
           \/ Head(events).type # "command" /\ UNCHANGED <<driver, armed>>
    BY <1>11 DEF AwaitCommand, counters
  <2>2. StagesLeft' = StagesLeft /\ Len(events') = Len(events) - 1
    BY <1>4, <1>5, <2>1
  <2>5. Len(commands') = Len(commands) /\ slow' = slow
    BY <2>1
  <2>3. CASE Head(events).type # "command" /\ UNCHANGED <<driver, armed>>
    <3>1. UNCHANGED <<pc, port, step>>
      BY <2>3 DEF driver
    <3>2. ArmedSlots' = ArmedSlots /\ Quota' = Quota
      BY <1>4, <2>3, <3>1
    <3>3. Load' <= Asked'
      <4>a. Sum' <= Quota' + slow'
        BY <1>l, <1>3, <2>2, <2>5, <3>2, SMTT(30)
      <4> QED BY <1>m, <4>a
    <3>4. commands' # <<>> \/ CommandCame'
      BY <1>0, <1>1, <2>1, <2>3, CameRead
    <3> QED BY <1>1, <2>1, <2>2, <3>1, <3>2, <3>3, <3>4
  <2>4. CASE CommandResult(Head(events).ok, Head(events).slot)
    <3>1. pc' \notin {"awaitCommand", "awaitControl"}
      BY <1>0, <2>1, <2>4, CommandMoves, PortMoves DEF Enumerating
    <3>2. Quota' \in Int /\ Quota - 1 <= Quota' /\ (Arming => Quota <= Quota' \/ armed' = armed)
      BY <1>0, <2>1, <2>4, QuotaAnswered
    <3>q. Quota' \in Int /\ Quota - 1 <= Quota'
      BY <3>2
    <3>3. CASE armed' = armed
      <4>1. ArmedSlots' = ArmedSlots
        BY <1>4, <3>3
      <4>2. Load' <= Asked'
        <5>a. Sum' <= Quota' + slow'
          BY <1>l, <1>3, <2>2, <2>5, <3>q, <4>1, SMTT(30)
        <5> QED BY <1>m, <5>a
      <4> QED BY <1>1, <2>2, <3>1, <4>1, <4>2
    <3>4. CASE Arming /\ Quota <= Quota'
      <4>1. slot \in Slots
        BY <1>0, <2>1, <3>4, ArmedOnce DEF Arming
      <4>2. /\ IsFiniteSet(ArmedSlots') /\ Cardinality(ArmedSlots') \in Nat
            /\ Cardinality(ArmedSlots') <= Cardinality(ArmedSlots) + 1
        BY <1>0, <1>1, <3>4, <4>1, ArmedMore DEF Arming
      <4>3. Load' <= Asked'
        <5>a. Sum' <= Quota' + slow'
          BY <1>l, <1>3, <2>2, <2>5, <3>q, <3>4, <4>2, SMTT(30)
        <5> QED BY <1>m, <5>a
      <4> QED BY <1>1, <2>2, <3>1, <4>2, <4>3
    <3> QED BY <1>0, <2>1, <2>4, <3>2, <3>3, <3>4, CommandMoves
  <2> QED BY <2>1, <2>3, <2>4
<1>12. CASE AwaitControl
  <2>1. /\ pc = "awaitControl" /\ events # <<>> /\ events' = Tail(events)
        /\ UNCHANGED <<commands, ep0, halted, armed, slow>>
        /\ \/ ControlResult(Head(events).ok)
           \/ /\ ~(Head(events).type = "transfer" /\ Head(events).slot = slot)
              /\ UNCHANGED driver
    BY <1>12 DEF AwaitControl, counters
  <2>2. StagesLeft' = StagesLeft /\ ArmedSlots' = ArmedSlots /\ Len(events') = Len(events) - 1
    BY <1>4, <1>5, <2>1
  <2>5. Len(commands') = Len(commands) /\ slow' = slow
    BY <2>1
  <2>3. CASE ~(Head(events).type = "transfer" /\ Head(events).slot = slot) /\ UNCHANGED driver
    <3>1. UNCHANGED <<pc, port, step, slot>>
      BY <2>3 DEF driver
    <3>2. Quota' = Quota
      BY <1>4, <3>1
    <3>3. Load' < Asked'
      <4>a. Sum' < Quota' + slow'
        BY <1>l, <1>3, <2>2, <2>5, <3>2, SMTT(30)
      <4> QED BY <1>m, <4>a
    <3>4. Load' <= Asked'
      <4>a. Sum' <= Quota' + slow'
        BY <1>l, <1>3, <2>2, <2>5, <3>2, SMTT(30)
      <4> QED BY <1>m, <4>a
    <3> QED BY <1>1, <2>1, <2>2, <3>1, <3>3, <3>4
  <2>4. CASE ControlResult(Head(events).ok)
    <3>1. pc' \notin {"awaitCommand", "awaitControl"}
      BY <1>0, <2>1, <2>4, ControlMoves, PortMoves DEF Enumerating
    <3>2. Quota' \in Int /\ Quota - 1 <= Quota'
      BY <1>0, <2>1, <2>4, QuotaAnswered
    <3>3. Load' <= Asked'
      <4>a. Sum' <= Quota' + slow'
        BY <1>l, <1>3, <2>2, <2>5, <3>2, SMTT(30)
      <4> QED BY <1>m, <4>a
    <3> QED BY <1>1, <2>2, <3>1, <3>3
  <2> QED BY <2>1, <2>3, <2>4
\* A wait gives up: on an answer that is on its way, or on one that never comes.
<1>13. CASE CommandTimeout
  <2>1. /\ pc = "awaitCommand" /\ CommandResult(FALSE, 0) /\ events = <<>>
        /\ UNCHANGED <<commands, ep0, halted, events>>
        /\ commands # <<>> => slow' = slow + 1
    BY <1>13 DEF CommandTimeout, GiveUp
  <2>2. slow' = slow + 1 /\ Len(events') = Len(events) /\ Len(commands') = Len(commands)
    <3>1. ~CommandCame
      BY <2>1 DEF CommandCame
    <3> QED BY <1>1, <2>1, <3>1
  <2>3. pc' \notin {"awaitCommand", "awaitControl"} /\ armed' = armed
    <3>1. pc' \notin {"awaitCommand", "awaitControl"}
      BY <1>0, <2>1, CommandMoves, PortMoves DEF Enumerating
    <3>2. armed' = armed
      BY <1>0, <2>1, CommandMoves
    <3> QED BY <3>1, <3>2
  <2>4. Quota' \in Int /\ Quota - 1 <= Quota'
    BY <1>0, <2>1, QuotaAnswered
  <2>5. StagesLeft' = StagesLeft /\ ArmedSlots' = ArmedSlots
    BY <1>4, <2>1, <2>3
  <2>6. Load' <= Asked'
    <3>1. Sum' <= Quota' + slow'
      BY <1>l, <1>3, <2>2, <2>4, <2>5, SMTT(30)
    <3> QED BY <1>m, <3>1
  <2> QED BY <1>1, <2>3, <2>5, <2>6
<1>14. CASE ControlTimeout
  <2>1. /\ pc = "awaitControl" /\ ControlResult(FALSE) /\ events = <<>>
        /\ UNCHANGED <<commands, ep0, halted, events, armed>>
        /\ slow' = slow + 1 \/ ((halted[slot] \/ ep0[slot] = <<>>) /\ slow' = slow)
    BY <1>14 DEF ControlTimeout, GiveUp, controller
  <2>2. Len(events') = Len(events) /\ Len(commands') = Len(commands)
    BY <2>1
  <2>3. pc' \notin {"awaitCommand", "awaitControl"}
    BY <1>0, <2>1, ControlMoves, PortMoves DEF Enumerating
  <2>4. Quota' \in Int /\ Quota - 1 <= Quota'
    BY <1>0, <2>1, QuotaAnswered
  <2>5. StagesLeft' = StagesLeft /\ ArmedSlots' = ArmedSlots
    BY <1>4, <2>1
  <2>6. Load' <= Asked'
    <3>1. ~TransferCame
      BY <2>1 DEF TransferCame
    <3>2. slow' = slow + 1 \/ (Load < Asked /\ slow' = slow)
      BY <1>1, <2>1, <3>1
    <3>3. Load < Asked => Sum < Quota + slow
      BY <1>2
    <3>4. CASE slow' = slow + 1
      <4>1. Sum' <= Quota' + slow'
        BY <1>l, <1>3, <2>2, <2>4, <2>5, <3>4, SMTT(30)
      <4> QED BY <1>m, <4>1
    <3>5. CASE Sum < Quota + slow /\ slow' = slow
      <4>1. Sum' <= Quota' + slow'
        BY <1>3, <2>2, <2>4, <2>5, <3>5
      <4> QED BY <1>m, <4>1
    <3> QED BY <3>2, <3>3, <3>4, <3>5
  <2> QED BY <1>1, <2>3, <2>5, <2>6
<1>15. CASE PollEvent
  <2>1. /\ pc = "poll" /\ events # <<>> /\ events' = Tail(events)
        /\ UNCHANGED <<pc, port, step, commands, ep0, halted, slow>>
        /\ \/ armed' = armed
           \/ Head(events).type = "transfer" /\ StartPolling(Head(events).slot)
    BY <1>15 DEF PollEvent, driver, counters
  <2>2. StagesLeft' = StagesLeft /\ Quota' = Quota /\ Len(events') = Len(events) - 1
        /\ Len(commands') = Len(commands) /\ slow' = slow
    BY <1>4, <1>5, <2>1
  <2>3. /\ IsFiniteSet(ArmedSlots') /\ Cardinality(ArmedSlots') \in Nat
        /\ Cardinality(ArmedSlots') <= Cardinality(ArmedSlots) + 1
    <3>1. CASE armed' = armed
      <4>1. ArmedSlots' = ArmedSlots
        BY <1>4, <3>1
      <4> QED BY <1>1, <1>3, <4>1
    <3>2. CASE Head(events).type = "transfer" /\ StartPolling(Head(events).slot)
      <4>1. Head(events).slot \in Slots
        BY <1>5, <2>1, <3>2, EventIs
      <4> QED BY <1>0, <1>1, <3>2, <4>1, ArmedMore DEF StartPolling
    <3> QED BY <2>1, <3>1, <3>2
  <2>4. Load' <= Asked'
    <3>1. Sum' <= Quota' + slow'
      BY <1>l, <1>3, <2>2, <2>3, SMTT(30)
    <3> QED BY <1>m, <3>1
  <2> QED BY <1>1, <2>1, <2>2, <2>3, <2>4
\* The controller: a command or a stage for an event.
<1>16. CASE ExecuteCommand
  <2>1. PICK ok, s : events' = Append(events, CommandEvent(Head(commands).id, s, ok))
    BY <1>16 DEF ExecuteCommand
  <2>2. /\ commands # <<>> /\ commands' = Tail(commands)
        /\ UNCHANGED <<pc, port, step, slot, ep0, halted, armed, slow>>
    BY <1>16 DEF ExecuteCommand, driver
  <2> DEFINE x == CommandEvent(Head(commands).id, s, ok)
  <2>3. x.type = "command"
    BY DEF CommandEvent
  <2> HIDE DEF x
  <2>4. Len(events') = Len(events) + 1 /\ events'[Len(events) + 1] = x
    BY <1>0, <2>1 DEF HTypes, x
  <2>5. x \in CommandEvents \cup TransferEvents
    <3>1. events' \in Seq(CommandEvents \cup TransferEvents)
      BY <1>0 DEF HTypes
    <3>2. Len(events) + 1 \in 1 .. Len(events')
      BY <1>3, <2>4
    <3> QED BY <2>4, <3>1, <3>2
  <2>6. CommandCame' /\ (TransferCame => TransferCame')
    BY <1>0, <2>1, <2>2, <2>3, <2>5, CamePosted DEF x
  <2>7. StagesLeft' = StagesLeft /\ ArmedSlots' = ArmedSlots /\ Quota' = Quota /\ slow' = slow
        /\ Len(commands') = Len(commands) - 1
    BY <1>4, <1>6, <2>2
  <2>8. Sum' = Sum
    BY <1>3, <2>4, <2>7
  <2>9. Load' = Load /\ Asked' = Asked
    BY <1>2, <2>7, <2>8
  <2> QED BY <1>1, <2>2, <2>6, <2>7, <2>9
<1>17. ASSUME NEW s \in Slots, ExecuteStage(s)
       PROVE  /\ IsFiniteSet(StagesLeft') /\ IsFiniteSet(ArmedSlots')
              /\ Load' <= Asked'
              /\ pc' = "awaitCommand" => commands' # <<>> \/ CommandCame'
              /\ pc' = "awaitControl" =>
                   \/ TransferCame' \/ (~halted'[slot'] /\ ep0'[slot'] # <<>>)
                   \/ Load' < Asked'
  <2>1. PICK ok \in BOOLEAN :
            /\ events' = Append(events, TransferEvent(s, "ep0", ok))
            /\ halted' = [halted EXCEPT ![s] = ~ok]
            /\ ep0' = IF ok THEN [ep0 EXCEPT ![s] = Tail(@)] ELSE ep0
    BY <1>17 DEF ExecuteStage
  <2>2. UNCHANGED <<pc, port, step, slot, commands, armed, slow>>
    BY <1>17 DEF ExecuteStage, driver
  <2> DEFINE x == TransferEvent(s, "ep0", ok)
  <2>3. x \in CommandEvents \cup TransferEvents /\ x.type = "transfer" /\ x.slot = s
    BY DEF TransferEvent, TransferEvents
  <2> HIDE DEF x
  <2>4. Len(events') = Len(events) + 1
    BY <1>0, <2>1, <2>3, Appends DEF HTypes, x
  <2>5. /\ CommandCame => CommandCame' 
        /\ TransferCame \/ slot = s => TransferCame'
    BY <1>0, <2>1, <2>2, <2>3, CamePosted DEF x
  <2>6. /\ IsFiniteSet(StagesLeft') /\ Cardinality(StagesLeft') \in Nat
        /\ Cardinality(StagesLeft') + 1 <= Cardinality(StagesLeft)
    BY <1>0, <1>1, <1>17, StagesLess
  <2>7. ArmedSlots' = ArmedSlots /\ Quota' = Quota /\ slow' = slow
        /\ Len(commands') = Len(commands)
    BY <1>4, <2>2
  <2>8. Load' <= Asked'
    <3>1. Sum' <= Quota' + slow'
      BY <1>l, <1>3, <2>4, <2>6, <2>7, SMTT(30)
    <3> QED BY <1>m, <3>1
  <2>9. Load < Asked => Load' < Asked'
    <3>1. Load < Asked => Sum < Quota + slow
      BY <1>2
    <3>2. Sum < Quota + slow => Sum' < Quota' + slow'
      BY <1>3, <2>4, <2>6, <2>7
    <3> QED BY <1>m, <3>1, <3>2
  <2>10. slot # s /\ pc = "awaitControl" => halted'[slot] = halted[slot] /\ ep0'[slot] = ep0[slot]
    <3>1. pc = "awaitControl" => slot \in Slots
      BY <1>0 DEF Working, Enumerating, HTypes, ControlSteps, WithData
    <3> QED BY <1>0, <2>1, <3>1 DEF HTypes
  <2> QED BY <1>1, <2>2, <2>5, <2>6, <2>7, <2>8, <2>9, <2>10
<1>18. ASSUME NEW w \in Slots, Report(w)
       PROVE  /\ IsFiniteSet(StagesLeft') /\ IsFiniteSet(ArmedSlots')
              /\ Load' <= Asked'
              /\ pc' = "awaitCommand" => commands' # <<>> \/ CommandCame'
              /\ pc' = "awaitControl" =>
                   \/ TransferCame' \/ (~halted'[slot'] /\ ep0'[slot'] # <<>>)
                   \/ Load' < Asked'
  <2>1. /\ armed[w] > 0 /\ armed' = [armed EXCEPT ![w] = @ - 1]
        /\ events' = Append(events, TransferEvent(w, "intr", TRUE))
        /\ UNCHANGED <<pc, port, step, slot, commands, ep0, halted, slow>>
    BY <1>18 DEF Report, driver, counters
  <2> DEFINE x == TransferEvent(w, "intr", TRUE)
  <2>3. x \in CommandEvents \cup TransferEvents
    BY DEF TransferEvent, TransferEvents
  <2> HIDE DEF x
  <2>4. Len(events') = Len(events) + 1
    BY <1>0, <2>1, <2>3, Appends DEF HTypes, x
  <2>5. (CommandCame => CommandCame') /\ (TransferCame => TransferCame')
    BY <1>0, <2>1, <2>3, CamePosted DEF x
  <2>6. /\ IsFiniteSet(ArmedSlots') /\ Cardinality(ArmedSlots') \in Nat
        /\ Cardinality(ArmedSlots') + 1 <= Cardinality(ArmedSlots)
    BY <1>0, <1>1, <2>1, ArmedLess
  <2>7. StagesLeft' = StagesLeft /\ Quota' = Quota /\ slow' = slow
        /\ Len(commands') = Len(commands)
    BY <1>4, <2>1
  <2>8. Load' <= Asked'
    <3>1. Sum' <= Quota' + slow'
      BY <1>l, <1>3, <2>4, <2>6, <2>7, SMTT(30)
    <3> QED BY <1>m, <3>1
  <2>9. Load < Asked => Load' < Asked'
    <3>1. Load < Asked => Sum < Quota + slow
      BY <1>2
    <3>2. Sum < Quota + slow => Sum' < Quota' + slow'
      BY <1>3, <2>4, <2>6, <2>7
    <3> QED BY <1>m, <3>1, <3>2
  <2> QED BY <1>1, <2>1, <2>5, <2>6, <2>7, <2>8, <2>9
<1> QED
  BY <1>8, <1>9, <1>10, <1>11, <1>12, <1>13, <1>14, <1>15, <1>16, <1>17, <1>18
     DEF Next, Driver

-----------------------------------------------------------------------------
(* One command, one completion. *)

Completed == \E i \in 1 .. Len(events) : Completion(i)

LEMMA CalmPosted ==
  ASSUME HTypes, NEW x \in CommandEvents \cup TransferEvents, x.type # "command",
         events' = Append(events, x), UNCHANGED <<cmds, step, slots, devs>>
  PROVE  (NoCompletion => NoCompletion') /\ (Completed => Completed')
<1>1. Len(events') = Len(events) + 1 /\ events'[Len(events) + 1] = x
      /\ (\A i \in 1 .. Len(events) : events'[i] = events[i]) /\ Len(events) \in Nat
  BY Appends DEF HTypes
<1>2. \A i \in 1 .. Len(events') : i = Len(events) + 1 \/ i \in 1 .. Len(events)
  BY <1>1
<1>3. NoCompletion => NoCompletion'
  BY <1>1, <1>2 DEF NoCompletion
<1>4. ASSUME Completed PROVE Completed'
  <2>1. PICK i \in 1 .. Len(events) : Completion(i)
    BY <1>4 DEF Completed
  <2>2. i \in 1 .. Len(events') /\ events'[i] = events[i]
    BY <1>1
  <2>3. \A j \in 1 .. Len(events') : events'[j].type = "command" => j = i
    BY <1>1, <1>2, <2>1 DEF Completion
  <2>4. Completion(i)'
    BY <2>1, <2>2, <2>3 DEF Completion
  <2> QED BY <2>2, <2>4 DEF Completed
<1> QED BY <1>3, <1>4

LEMMA CalmRead ==
  ASSUME HTypes, events # <<>>, events' = Tail(events)
  PROVE  /\ NoCompletion => Head(events).type # "command" /\ NoCompletion'
         /\ Completed /\ Head(events).type # "command" /\ UNCHANGED <<cmds, step, slots, devs>>
              => Completed'
         /\ Completed /\ Head(events).type = "command" => Completion(1) /\ NoCompletion'
<1>1. Head(events) = events[1] /\ Len(events') = Len(events) - 1 /\ Len(events) \in Nat \ {0}
      /\ (\A i \in 1 .. Len(events) - 1 : events'[i] = events[i + 1])
  BY Tails DEF HTypes
<1>2. \A i \in 1 .. Len(events') : i + 1 \in 1 .. Len(events) /\ events'[i] = events[i + 1]
                                   /\ i + 1 # 1
  BY <1>1
<1>3. 1 \in 1 .. Len(events)
  BY <1>1
<1>4. NoCompletion => Head(events).type # "command" /\ NoCompletion'
  BY <1>1, <1>2, <1>3 DEF NoCompletion
<1>5. ASSUME Completed, Head(events).type # "command", UNCHANGED <<cmds, step, slots, devs>>
      PROVE  Completed'
  <2>1. PICK i \in 1 .. Len(events) : Completion(i)
    BY <1>5 DEF Completed
  <2>2. i # 1
    BY <1>1, <1>5, <2>1 DEF Completion
  <2>3. i - 1 \in 1 .. Len(events') /\ events'[i - 1] = events[i]
    BY <1>1, <2>2
  <2>4. ASSUME NEW j \in 1 .. Len(events'), events'[j].type = "command" PROVE j = i - 1
    <3>1. j + 1 = i
      BY <1>2, <2>1, <2>4 DEF Completion
    <3> QED BY <1>1, <3>1
  <2>5. Completion(i - 1)'
    BY <1>5, <2>1, <2>3, <2>4 DEF Completion
  <2> QED BY <2>3, <2>5 DEF Completed
<1>6. ASSUME Completed, Head(events).type = "command" PROVE Completion(1) /\ NoCompletion'
  <2>1. PICK i \in 1 .. Len(events) : Completion(i)
    BY <1>6 DEF Completed
  <2>2. i = 1
    BY <1>1, <1>3, <1>6, <2>1 DEF Completion
  <2>3. NoCompletion'
    BY <1>2, <2>1, <2>2 DEF Completion, NoCompletion
  <2> QED BY <2>1, <2>2, <2>3
<1> QED BY <1>4, <1>5, <1>6

LEMMA CalmStep == EnumInv /\ [Next]_vars => Calm'
<1> DEFINE Given == /\ slot <= slots /\ \A s \in Slots : s > slots => devs[s].port = 0
                    /\ Enumerating /\ step = "address" => devs[slot].port = 0
           None == commands = <<>> /\ NoCompletion
           Out == commands = <<[id |-> cmds, kind |-> step, slot |-> slot]>> /\ NoCompletion
           Back == commands = <<>> /\ Completed
<1> SUFFICES ASSUME EnumInv, [Next]_vars, slow' = 0
             PROVE  /\ pc' # "awaitCommand" => None'
                    /\ pc' = "awaitCommand" => Out' \/ Back'
                    /\ Given'
  BY DEF Calm, Completed
<1>0. HTypes /\ HTypes' /\ Working /\ Numbered /\ Enabled'
  BY TypesStep, EnabledStep DEF EnumInv
<1>1. ASSUME slow = 0
      PROVE  /\ pc # "awaitCommand" => None
             /\ pc = "awaitCommand" => Out \/ Back
             /\ Given
  BY <1>1 DEF EnumInv, Calm, Completed
<1>2. slow \in Nat
  BY <1>0 DEF HTypes
<1> HIDE DEF Given, None, Out, Back
<1>3. UNCHANGED <<slot, slots, devs>> /\ Given /\ (Enumerating' /\ step' = "address" =>
         Enumerating /\ step = "address") => Given'
  BY DEF Given
<1>4. UNCHANGED <<commands, events>> /\ None => None'
  BY DEF None, NoCompletion
<1>5. CASE UNCHANGED vars \/ \E s \in Slots : UserActs(s)
  <2>1. UNCHANGED <<pc, step, slot, devs, commands, cmds, slots, events, slow>>
    BY <1>5 DEF vars, UserActs, driver, controller, counters
  <2>2. None' = None /\ Out' = Out /\ Back' = Back /\ Given' = Given
    BY <2>1 DEF None, Out, Back, Given, NoCompletion, Completed, Completion, Enumerating
  <2> QED BY <1>1, <2>1, <2>2
<1>6. CASE PushCommand
  <2>1. /\ pc = "command" /\ pc' = "awaitCommand" /\ cmds' = cmds + 1
        /\ commands' = Append(commands, [id |-> cmds + 1, kind |-> step, slot |-> slot])
        /\ UNCHANGED <<step, slot, devs, slots, events, slow>>
    BY <1>6 DEF PushCommand, counters
  <2>2. None /\ Given
    BY <1>1, <2>1
  <2>3. Out'
    BY <2>1, <2>2 DEF Out, None, NoCompletion
  <2>4. Given'
    BY <1>3, <2>1, <2>2 DEF Enumerating
  <2> QED BY <2>1, <2>3, <2>4
<1>7. CASE PushControl
  <2>1. /\ pc = "control" /\ pc' = "awaitControl"
        /\ UNCHANGED <<step, slot, devs, slots, events, commands, slow>>
    BY <1>7 DEF PushControl, counters
  <2>2. None /\ Given
    BY <1>1, <2>1
  <2> QED BY <1>3, <1>4, <2>1, <2>2 DEF Enumerating
<1>8. CASE AwaitCommand
  <2>1. /\ pc = "awaitCommand" /\ events # <<>> /\ events' = Tail(events)
        /\ UNCHANGED <<commands, cmds, slots, slow>>
        /\ \/ /\ Head(events).type = "command"
              /\ CommandResult(Head(events).ok, Head(events).slot)
           \/ Head(events).type # "command" /\ UNCHANGED driver
    BY <1>8 DEF AwaitCommand, counters
  <2>2. (Out \/ Back) /\ Given
    BY <1>1, <2>1
  <2>3. CASE Head(events).type # "command" /\ UNCHANGED driver
    <3>1. UNCHANGED <<pc, step, slot, devs>>
      BY <2>3 DEF driver
    <3>2. Out' \/ Back'
      BY <1>0, <2>1, <2>2, <2>3, <3>1, CalmRead DEF Out, Back
    <3>3. Given'
      BY <1>3, <2>1, <2>2, <3>1 DEF Enumerating
    <3> QED BY <2>1, <3>1, <3>2, <3>3
  <2>4. CASE Head(events).type = "command" /\ CommandResult(Head(events).ok, Head(events).slot)
    <3>1. Completion(1) /\ NoCompletion' /\ commands = <<>>
      BY <1>0, <2>1, <2>2, <2>4, CalmRead DEF Out, Back
    <3>2. None' /\ pc' # "awaitCommand"
      <4>1. pc' # "awaitCommand"
        BY <1>0, <2>1, <2>4, CommandMoves, PortMoves DEF Enumerating
      <4> QED BY <2>1, <3>1, <4>1 DEF None
    <3>3. Head(events) = events[1]
      BY <1>0, <2>1, Tails DEF HTypes
    <3>4. CASE NextPort /\ UNCHANGED <<slot, devs>>
      <4>1. step' = "enable"
        BY <3>4 DEF NextPort
      <4> QED BY <1>3, <2>1, <2>2, <3>2, <3>4, <4>1
    <3>5. CASE step = "enable" /\ Head(events).ok /\ slot' = Head(events).slot /\ UNCHANGED devs
      <4>1. slot' = slots /\ devs[slots].port = 0
        BY <3>1, <3>3, <3>5 DEF Completion
      <4>2. Given'
        BY <1>0, <2>1, <2>2, <3>5, <4>1 DEF Given, HTypes
      <4> QED BY <3>2, <4>2
    <3>6. CASE /\ step = "address" /\ step' = "dev8" /\ UNCHANGED slot
               /\ devs' = [devs EXCEPT ![slot] = [NoDev EXCEPT !.port = port]]
      <4>1. slot \in Slots
        BY <1>0, <2>1, <3>6 DEF Working, Enumerating
      <4>2. \A s \in Slots \ {slot} : devs'[s] = devs[s]
        BY <1>0, <3>6 DEF HTypes
      <4>3. slots \in Nat /\ slot \in Nat
        BY <1>0, <4>1 DEF HTypes, Slots
      <4>4. Given'
        BY <2>1, <2>2, <3>6, <4>2, <4>3 DEF Given, Slots
      <4> QED BY <3>2, <4>4
    <3>7. CASE step = "evaluate" /\ step' \in {"dev18", "cfg9"} /\ UNCHANGED <<slot, devs>>
      BY <1>3, <2>1, <2>2, <3>2, <3>7
    <3>8. CASE Arming /\ NextPort /\ UNCHANGED slot
      <4>1. step' = "enable" /\ \A s \in Slots : devs'[s].port = devs[s].port
        BY <1>0, <3>8 DEF HTypes, Arming, NextPort
      <4>2. Given'
        BY <2>1, <2>2, <3>8, <4>1 DEF Given
      <4> QED BY <3>2, <4>2
    <3> QED BY <1>0, <2>1, <2>4, <3>4, <3>5, <3>6, <3>7, <3>8, CommandMoves
  <2> QED BY <2>1, <2>3, <2>4
\* The answer of a control transfer, and a drop.
<1>9. ASSUME NEW ok, pc = "awaitControl", ControlResult(ok), None, Given, UNCHANGED <<slot, slots>>
      PROVE  pc' # "awaitCommand" /\ Given'
  <2>1. pc' # "awaitCommand" /\ step' # "address"
    <3>1. step' \in ControlSteps => step' # "address"
      BY DEF ControlSteps, WithData
    <3> QED BY <1>0, <1>9, <3>1, ControlMoves, PortMoves DEF Enumerating
  <2>2. \A s \in Slots : devs'[s].port = devs[s].port
    <3>1. CASE \E h \in BOOLEAN : devs' = [devs EXCEPT ![slot].hid = h]
      <4>1. PICK h \in BOOLEAN : devs' = [devs EXCEPT ![slot].hid = h]
        BY <3>1
      <4> QED BY <1>0, <4>1 DEF HTypes
    <3> QED BY <1>0, <1>9, <3>1, ControlMoves
  <2> QED BY <1>9, <2>1, <2>2 DEF Given
<1>10. CASE AwaitControl
  <2>1. /\ pc = "awaitControl" /\ events # <<>> /\ events' = Tail(events)
        /\ UNCHANGED <<commands, slots, slow>>
        /\ (ControlResult(Head(events).ok) /\ UNCHANGED slot) \/ UNCHANGED driver
    BY <1>10 DEF AwaitControl, counters
  <2>2. None /\ Given
    BY <1>1, <2>1
  <2>3. None'
    BY <1>0, <2>1, <2>2, CalmRead DEF None
  <2>4. UNCHANGED driver => pc' # "awaitCommand" /\ Given'
    BY <1>3, <2>1, <2>2 DEF driver, Enumerating
  <2> QED BY <1>9, <2>1, <2>2, <2>3, <2>4
<1>11. CASE ControlTimeout
  <2>1. /\ pc = "awaitControl" /\ ControlResult(FALSE)
        /\ UNCHANGED <<commands, slots, events, slot>> /\ slow' \in {slow, slow + 1}
    BY <1>11 DEF ControlTimeout, GiveUp, controller
  <2>2. None /\ Given
    BY <1>1, <1>2, <2>1
  <2> QED BY <1>4, <1>9, <2>1, <2>2
\* No wait gives up on a command while there is one to come.
<1>12. CASE CommandTimeout
  <2>1. /\ pc = "awaitCommand" /\ events = <<>>
        /\ slow' = slow + 1 \/ (commands = <<>> /\ slow' = slow)
    BY <1>12 DEF CommandTimeout, GiveUp
  <2>2. (Out \/ Back) /\ commands = <<>>
    BY <1>1, <1>2, <2>1
  <2>3. ~Completed
    BY <2>1 DEF Completed
  <2> QED BY <2>2, <2>3 DEF Out, Back
<1>13. CASE PollEvent
  <2>1. /\ pc = "poll" /\ events # <<>> /\ events' = Tail(events)
        /\ UNCHANGED <<pc, step, slot, devs, commands, slots, slow>>
    BY <1>13 DEF PollEvent, driver, counters
  <2>2. None /\ Given
    BY <1>1, <2>1
  <2>3. None'
    BY <1>0, <2>1, <2>2, CalmRead DEF None
  <2> QED BY <1>3, <2>1, <2>2, <2>3 DEF Enumerating
<1>14. CASE ExecuteCommand
  <2>1. PICK ok \in BOOLEAN :
          LET c == Head(commands)
              s == IF c.kind = "enable" THEN (IF ok THEN slots + 1 ELSE 0) ELSE c.slot
          IN /\ events' = Append(events, CommandEvent(c.id, s, ok))
             /\ slots' = IF c.kind = "enable" /\ ok THEN slots + 1 ELSE slots
    BY <1>14 DEF ExecuteCommand
  <2>2. /\ commands # <<>> /\ commands' = Tail(commands)
        /\ UNCHANGED <<pc, port, step, slot, devs, cmds, slow>>
    BY <1>14 DEF ExecuteCommand, driver
  <2>3. Out /\ Given /\ pc = "awaitCommand"
    BY <1>1, <2>2 DEF None, Back
  <2> DEFINE c == Head(commands)
             s == IF c.kind = "enable" THEN (IF ok THEN slots + 1 ELSE 0) ELSE c.slot
             x == CommandEvent(c.id, s, ok)
  <2>4. c = [id |-> cmds, kind |-> step, slot |-> slot] /\ commands' = <<>> /\ NoCompletion
    BY <2>2, <2>3 DEF Out
  <2>5. events' = Append(events, x)
    BY <2>1
  <2>6. x.type = "command" /\ x.id = cmds /\ x.slot = s /\ x.ok = ok
    BY <2>4 DEF CommandEvent
  <2>7. step = "enable" /\ ok => s = slots + 1 /\ slots' = slots + 1
    BY <2>1, <2>4
  <2>8. slots' = slots \/ slots' = slots + 1
    BY <2>1
  <2> HIDE DEF c, s, x
  <2>n. PICK n \in Nat : n = Len(events)
    BY <1>0 DEF HTypes
  <2>9. /\ Len(events') = n + 1 /\ events'[n + 1] = x
        /\ \A i \in 1 .. n : events'[i] = events[i]
    BY <1>0, <2>5, <2>n DEF HTypes
  <2>10. slots \in Nat /\ slot \in Nat /\ (\A t \in Slots : t \in Nat)
    BY <1>0, HidAssumption DEF HTypes, Slots
  <2>11. slots' \in Slots \cup {0}
    <3>1. IsFiniteSet(Enables') /\ Cardinality(Enables') \in Nat
      BY <1>0, FS_CardinalityType DEF Enabled
    <3>2. slots' + Cardinality(Enables') <= port' /\ port' \in 1 .. NPorts /\ slots' \in Nat
      BY <1>0, <2>2, <2>3 DEF Enabled, HTypes, Ports
    <3> QED BY <3>1, <3>2, HidAssumption DEF Slots
  <2>12. step = "enable" /\ ok => devs[slots'].port = 0
    <3>1. slots + 1 > slots /\ slots + 1 # 0
      BY <2>10
    <3> QED BY <2>3, <2>7, <2>11, <3>1 DEF Given
  <2>13. Completed'
    <3>1. n + 1 \in 1 .. Len(events') /\ \A j \in 1 .. Len(events') : j = n + 1 \/ j \in 1 .. n
      BY <2>9
    <3>2. \A j \in 1 .. Len(events') : events'[j].type = "command" => j = n + 1
      BY <2>4, <2>9, <2>n, <3>1 DEF NoCompletion
    <3>3. Completion(n + 1)'
      BY <2>2, <2>6, <2>7, <2>9, <2>12, <3>2 DEF Completion
    <3> QED BY <3>1, <3>3 DEF Completed
  <2>14. Given'
    BY <2>2, <2>3, <2>8, <2>10 DEF Given, Enumerating
  <2> QED BY <2>2, <2>3, <2>4, <2>13, <2>14 DEF Back
<1>15. ASSUME NEW x \in CommandEvents \cup TransferEvents, x.type # "command",
              events' = Append(events, x),
              UNCHANGED <<pc, step, slot, devs, commands, cmds, slots, slow>>
       PROVE  /\ pc' # "awaitCommand" => None'
              /\ pc' = "awaitCommand" => Out' \/ Back'
              /\ Given'
  <2>1. (NoCompletion => NoCompletion') /\ (Completed => Completed')
    BY <1>0, <1>15, CalmPosted
  <2>2. (None => None') /\ (Out => Out') /\ (Back => Back')
    BY <1>15, <2>1 DEF None, Out, Back
  <2>3. Given => Given'
    BY <1>3, <1>15 DEF Enumerating
  <2> QED BY <1>1, <1>15, <2>2, <2>3
<1>16. ASSUME NEW s \in Slots, ExecuteStage(s) \/ Report(s)
       PROVE  /\ pc' # "awaitCommand" => None'
              /\ pc' = "awaitCommand" => Out' \/ Back'
              /\ Given'
  <2>1. PICK ep \in {"ep0", "intr"}, ok \in BOOLEAN :
            events' = Append(events, TransferEvent(s, ep, ok))
    BY <1>16 DEF ExecuteStage, Report
  <2>2. UNCHANGED <<pc, step, slot, devs, commands, cmds, slots, slow>>
    BY <1>16 DEF ExecuteStage, Report, driver, counters
  <2>3. TransferEvent(s, ep, ok) \in CommandEvents \cup TransferEvents
        /\ TransferEvent(s, ep, ok).type # "command"
    BY DEF TransferEvent, TransferEvents
  <2> QED BY <1>15, <2>1, <2>2, <2>3
<1> QED
  BY <1>5, <1>6, <1>7, <1>8, <1>10, <1>11, <1>12, <1>13, <1>14, <1>16 DEF Next, Driver

-----------------------------------------------------------------------------
(* Theorems. *)

\* What the driver, the controller and the devices know of each other stays
\* consistent through enumeration and polling.
THEOREM EnumInvariant == Spec => []EnumInv
<1>1. EnumInv /\ [Next]_vars => EnumInv'
  BY TypesStep, NumberedStep, EnabledStep, WorkingStep, PolledStep, LoadedStep, CalmStep
     DEF EnumInv
<1> QED BY <1>1, EnumStarts, PTL DEF Spec

LEMMA EnumTypes == EnumInv => TypeOK
<1> SUFFICES ASSUME EnumInv PROVE TypeOK
  OBVIOUS
<1>0. HTypes /\ Numbered /\ Enabled
  BY DEF EnumInv
<1>1. \A s \in Slots : devs[s].port \in Ports \cup {0} /\ DOMAIN devs[s] = DOMAIN NoDev
  BY <1>0 DEF HTypes, NoDev
<1>2. slots \in Slots \cup {0}
  <2>1. IsFiniteSet(Enables) /\ Cardinality(Enables) \in Nat
    BY <1>0, FS_CardinalityType DEF Enabled
  <2>2. port \in 1 .. NPorts /\ slots \in Nat
    BY <1>0 DEF HTypes, Ports
  <2>3. slots + Cardinality(Enables) <= port - 1 \/ slots + Cardinality(Enables) <= port
    BY <1>0 DEF Enabled
  <2>4. slots <= NPorts
    BY <2>1, <2>2, <2>3, HidAssumption
  <2> QED BY <2>2, <2>4, HidAssumption DEF Slots
<1>3. events \in Seq(Events)
  <2>1. ASSUME NEW i \in 1 .. Len(events) PROVE events[i] \in Events
    <3>1. events[i] \in CommandEvents \cup TransferEvents /\ events[i].id <= cmds /\ cmds \in Nat
      BY <1>0 DEF HTypes, Numbered
    <3>2. PICK e \in CommandEvents \cup TransferEvents : e = events[i] /\ e.id <= cmds
      BY <3>1
    <3>3. /\ e.id \in 0 .. cmds /\ e.slot \in Slots \cup {0} /\ e.ok \in BOOLEAN
          /\ e.type \in {"command", "transfer"} /\ e.ep \in {"none", "ep0", "intr"}
      BY <3>1, <3>2, EventIs
    <3>4. e = [type |-> e.type, id |-> e.id, slot |-> e.slot, ep |-> e.ep, ok |-> e.ok]
      <4>1. CASE e \in [type : {"command"}, id : Nat, slot : Slots, ep : {"none"}, ok : BOOLEAN]
        BY <4>1
      <4>2. CASE e \in [type : {"command"}, id : Nat, slot : {0}, ep : {"none"}, ok : {FALSE}]
        BY <4>2
      <4>3. CASE e \in TransferEvents
        BY <4>3 DEF TransferEvents
      <4> QED BY <4>1, <4>2, <4>3 DEF CommandEvents
    <3> QED BY <3>2, <3>3, <3>4 DEF Events
  <2> QED BY <1>0, <2>1 DEF HTypes
<1> QED BY <1>0, <1>1, <1>2, <1>3 DEF HTypes, TypeOK

LEMMA EnumFlight == EnumInv => OneTransferInFlight
<1> SUFFICES ASSUME EnumInv, pc # "shared", NEW s \in Slots
             PROVE  armed[s] + EventsOf(s) = IF devs[s].polled /\ s \notin dropped THEN 1 ELSE 0
  BY DEF OneTransferInFlight
<1>1. InFlight(s) /\ armed[s] \in {0, 1}
  BY DEF EnumInv, Polled, HTypes
<1>2. EventsOf(s) = Cardinality(IntrOf(s))
  <2>1. DOMAIN events = 1 .. Len(events)
    BY DEF EnumInv, HTypes
  <2> QED BY <2>1 DEF EventsOf, IntrOf
<1>3. CASE IntrOf(s) = {}
  <2>1. EventsOf(s) = 0
    BY <1>2, <1>3, FS_EmptySet
  <2> QED BY <1>1, <1>3, <2>1 DEF InFlight
<1>4. CASE \E i : IntrOf(s) = {i}
  <2>1. EventsOf(s) = 1
    BY <1>2, <1>4, FS_Singleton
  <2>2. armed[s] = 0 /\ devs[s].polled /\ s \notin dropped
    BY <1>1, <1>4 DEF InFlight
  <2> QED BY <2>1, <2>2
<1> QED BY <1>1, <1>3, <1>4 DEF InFlight

LEMMA EnumFits == EnumInv => EventsFit
<1> SUFFICES ASSUME EnumInv, PerDevice * NPorts + slow <= EventRing PROVE Len(events) <= EventRing
  BY DEF EventsFit
<1>0. HTypes /\ Loaded
  BY DEF EnumInv
<1>1. Len(events) \in Nat /\ Len(commands) \in Nat /\ slow \in Nat /\ port \in 1 .. NPorts
      /\ NPorts \in Nat /\ EventRing \in Nat
  BY <1>0, HidAssumption DEF HTypes, Ports
<1>2. Cardinality(StagesLeft) \in Nat /\ Cardinality(ArmedSlots) \in Nat
  BY <1>0, FS_CardinalityType DEF Loaded
<1>3. Len(events) + Len(commands) + Cardinality(StagesLeft) + Cardinality(ArmedSlots)
        <= 14 * (port - 1) + Used + slow
  BY <1>0 DEF Loaded, Load, Asked, PerDevice
<1>4. Used \in 0 .. 14
  BY <1>0, UsedIs
<1>5. Len(events) <= 14 * (port - 1) + Used + slow
  BY <1>1, <1>2, <1>3, <1>4
<1>6. 14 * (port - 1) + Used + slow <= 14 * NPorts + slow
  BY <1>1, <1>4
<1>7. 14 * NPorts + slow <= EventRing
  BY DEF PerDevice
<1> QED BY <1>1, <1>4, <1>5, <1>6, <1>7

\* Whatever fails or is late, the state of the driver stays in its types, a
\* polled device has exactly one transfer in flight unless a wait dropped its
\* event, and an event ring with room for 14 events of each device, and one for
\* each wait that gave up early, never overflows.
THEOREM HidInvariant == Spec => []HidInv
<1>1. EnumInv => HidInv
  BY EnumTypes, EnumFlight, EnumFits DEF HidInv
<1> QED BY <1>1, EnumInvariant, PTL

\* As long as no wait gave up early, the completion a command wait takes is that
\* of the command it waits for.
THEOREM CompletionsAreOwn == Spec => CompletionsMatch
<1> DEFINE Own == (pc = "awaitCommand" /\ pc' # pc /\ events' # events /\ slow = 0)
                  => Head(events).id = cmds
<1>1. EnumInv /\ [Next]_vars => [Own]_vars
  <2> SUFFICES ASSUME EnumInv, [Next]_vars, pc = "awaitCommand", pc' # pc, events' # events, slow = 0
               PROVE  Head(events).id = cmds
    OBVIOUS
  <2>1. AwaitCommand
    BY DEF Next, Driver, PushCommand, PushControl, AwaitControl, CommandTimeout, ControlTimeout,
           PollEvent, ExecuteCommand, ExecuteStage, UserActs, Report, vars, driver, controller
  <2>2. /\ events # <<>> /\ events' = Tail(events) /\ Head(events).type = "command"
    BY <2>1 DEF AwaitCommand, driver
  <2>3. HTypes /\ (NoCompletion \/ Completed)
    BY DEF EnumInv, Calm, Completed
  <2>4. Completion(1) /\ Head(events) = events[1]
    BY <2>2, <2>3, CalmRead, Tails DEF HTypes
  <2> QED BY <2>4 DEF Completion
<1> QED BY <1>1, EnumInvariant, PTL DEF Spec, CompletionsMatch

\* The entry of g_devs a port got is not overwritten for a later port, as long
\* as no wait gave up early.
THEOREM DevicesKept == Spec => DevsKept
<1> DEFINE Kept == slow = 0 => \A s \in Slots : devs[s].port # 0 => devs'[s].port = devs[s].port
<1>1. EnumInv /\ [Next]_vars => [Kept]_vars
  <2> SUFFICES ASSUME EnumInv, [Next]_vars, slow = 0, NEW s \in Slots, devs[s].port # 0,
                      devs' # devs
               PROVE  devs'[s].port = devs[s].port
    OBVIOUS
  <2>1. HTypes
    BY DEF EnumInv
  <2>2. \/ pc = "awaitCommand" /\ \E ok, t : CommandResult(ok, t)
        \/ pc = "awaitControl" /\ \E ok : ControlResult(ok)
    BY DEF Next, Driver, PushCommand, PushControl, AwaitCommand, AwaitControl, CommandTimeout,
           ControlTimeout, PollEvent, ExecuteCommand, ExecuteStage, UserActs, Report, vars, driver,
           controller
  <2>3. CASE pc = "awaitCommand" /\ \E ok, t : CommandResult(ok, t)
    <3>1. CASE step = "address" /\ devs' = [devs EXCEPT ![slot] = [NoDev EXCEPT !.port = port]]
      <4>1. devs[slot].port = 0
        BY <2>3, <3>1 DEF EnumInv, Calm, Enumerating
      <4>2. slot # s
        BY <4>1
      <4> QED BY <2>1, <3>1, <4>2 DEF HTypes
    <3>2. CASE devs' = [devs EXCEPT ![slot].polled = TRUE]
      BY <2>1, <3>2 DEF HTypes
    <3> QED BY <2>1, <2>3, <3>1, <3>2, CommandMoves DEF Arming
  <2>4. CASE pc = "awaitControl" /\ \E ok : ControlResult(ok)
    <3>1. PICK h : devs' = [devs EXCEPT ![slot].hid = h]
      BY <2>1, <2>4, ControlMoves
    <3> QED BY <2>1, <3>1 DEF HTypes
  <2> QED BY <2>2, <2>3, <2>4
<1> QED BY <1>1, EnumInvariant, PTL DEF Spec, DevsKept


-----------------------------------------------------------------------------
(* A controller that answers at once and never fails. *)

AllWell ==
  /\ \A s \in Slots : ~halted[s]
  /\ \A i \in 1 .. Len(events) : events[i].ok

\* The driver waits for something that comes.
Answered == pc = "awaitControl" => ep0[slot] # <<>> \/ TransferCame

\* The ports get the slots in order, the first slot for the first port.
InOrder ==
  /\ slots = IF step = "enable" /\ (pc = "command" \/ (pc = "awaitCommand" /\ commands # <<>>))
             THEN port - 1 ELSE port
  /\ Enumerating /\ step # "enable" => slot = port

AfterConfig == {"setcfg", "protocol", "idle", "report", "configure"}

\* The descriptors of the port the driver is at had arrived when they were parsed,
\* and the keyboards and mice of the ports before it are polled.
Known ==
  /\ Enumerating /\ step \in AfterConfig => devs[slot].hid
  /\ \A p \in Hids : p < port \/ pc = "poll" =>
       devs[p].port = p /\ devs[p].hid /\ devs[p].polled

EagerInv ==
  /\ faults \in Nat
  /\ eager => slow = 0
  /\ eager /\ faults = 0 => pc # "shared" /\ AllWell /\ Answered /\ InOrder /\ Known

LEMMA WellPosted ==
  ASSUME HTypes, AllWell, NEW x \in CommandEvents \cup TransferEvents, x.ok,
         events' = Append(events, x), \A s \in Slots : ~halted'[s]
  PROVE  AllWell'
<1>1. Len(events') = Len(events) + 1 /\ events'[Len(events) + 1] = x
      /\ (\A i \in 1 .. Len(events) : events'[i] = events[i]) /\ Len(events) \in Nat
  BY Appends DEF HTypes
<1>2. \A i \in 1 .. Len(events') : i = Len(events) + 1 \/ i \in 1 .. Len(events)
  BY <1>1
<1> QED BY <1>1, <1>2 DEF AllWell

LEMMA WellRead ==
  ASSUME HTypes, AllWell, events # <<>>, events' = Tail(events), halted' = halted
  PROVE  AllWell' /\ Head(events).ok /\ Head(events) = events[1] /\ 1 \in 1 .. Len(events)
<1>1. Head(events) = events[1] /\ Len(events') = Len(events) - 1 /\ Len(events) \in Nat \ {0}
      /\ (\A i \in 1 .. Len(events) - 1 : events'[i] = events[i + 1])
  BY Tails DEF HTypes
<1>2. \A i \in 1 .. Len(events') : i + 1 \in 1 .. Len(events) /\ events'[i] = events[i + 1]
  BY <1>1
<1>3. 1 \in 1 .. Len(events)
  BY <1>1
<1> QED BY <1>1, <1>2, <1>3 DEF AllWell

\* What is known of the ports before stays known when another slot changes.
LEMMA KnownKept ==
  ASSUME HTypes, Known, pc # "poll", pc' # "poll", port' = port, slot = port,
         \A s \in Slots : s # slot => devs'[s] = devs[s],
         Enumerating' /\ step' \in AfterConfig => devs'[slot'].hid
  PROVE  Known'
<1>1. port \in Nat
  BY DEF HTypes, Ports
<1>2. \A p \in Hids : p \in Slots /\ p \in Nat
  BY HidAssumption DEF Ports, Slots
<1>3. ASSUME NEW p \in Hids, p < port PROVE devs'[p] = devs[p]
  BY <1>1, <1>2, <1>3
<1> QED BY <1>3 DEF Known

\* The enumeration of a port ends: if it is a keyboard or mouse, it is polled.
LEMMA PortDone ==
  ASSUME HTypes, HTypes', Known, pc # "poll", Enumerating, NextPort, slot = port,
         \A s \in Slots : s # slot => devs'[s] = devs[s],
         port \in Hids => devs'[port].port = port /\ devs'[port].hid /\ devs'[port].polled
  PROVE  Known'
<1>1. port \in Nat /\ port \in 1 .. NPorts /\ NPorts \in Nat
  BY HidAssumption DEF HTypes, Ports
<1>2. \A p \in Hids : p \in Slots /\ p \in Nat /\ p <= NPorts
  BY HidAssumption DEF Ports, Slots
<1>3. ASSUME NEW p \in Hids, p < port' \/ pc' = "poll"
      PROVE  devs'[p].port = p /\ devs'[p].hid /\ devs'[p].polled
  <2>1. p < port \/ p = port
    BY <1>1, <1>2, <1>3 DEF NextPort
  <2>2. CASE p < port
    <3>1. p # slot /\ p \in Slots
      BY <1>1, <1>2, <2>2
    <3> QED BY <2>2, <3>1 DEF Known
  <2>3. CASE p = port
    BY <2>3
  <2> QED BY <2>1, <2>2, <2>3
<1>4. step' = "enable" /\ "enable" \notin AfterConfig
  BY DEF NextPort, AfterConfig
<1> QED BY <1>3, <1>4 DEF Known

\* After a command that succeeded.
LEMMA EagerCommand ==
  ASSUME EnumInv, HTypes', InOrder, Known, slow = 0, pc = "awaitCommand", commands = <<>>,
         commands' = commands, slots' = slots, NEW s \in Slots, CommandResult(TRUE, s),
         step = "enable" => s = slots
  PROVE  pc' \in {"command", "control", "poll"} /\ InOrder' /\ Known'
<1>0. HTypes /\ Working /\ Calm /\ Enumerating /\ slots = port /\ (step # "enable" => slot = port)
  BY DEF EnumInv, InOrder, Enumerating
<1>1. port \in Nat /\ \A p \in Hids : p \in Slots /\ p \in Nat
  BY <1>0, HidAssumption DEF HTypes, Ports, Slots
<1>2. step \in {"enable", "address", "evaluate", "configure"}
  BY <1>0 DEF HTypes, CommandSteps
<1>3. CASE step = "enable"
  <2>1. slot' = s /\ pc' = "command" /\ step' = "address" /\ UNCHANGED <<port, devs>>
    BY <1>3 DEF CommandResult, Goto
  <2>2. InOrder'
    BY <1>0, <1>3, <2>1 DEF InOrder
  <2>3. Known'
    BY <2>1 DEF Known, AfterConfig
  <2> QED BY <2>1, <2>2, <2>3
<1>4. CASE step = "address"
  <2>1. devs[slot].port = 0
    BY <1>0, <1>4 DEF Calm
  <2>2. /\ pc' = "control" /\ step' = "dev8" /\ UNCHANGED <<port, slot>>
        /\ devs' = [devs EXCEPT ![slot] = [NoDev EXCEPT !.port = port]]
    BY <1>4, <2>1 DEF CommandResult, Goto
  <2>3. InOrder'
    BY <1>0, <1>4, <2>2 DEF InOrder
  <2>4. \A t \in Slots : t # slot => devs'[t] = devs[t]
    BY <1>0, <2>2 DEF HTypes
  <2>5. step' \notin AfterConfig
    BY <2>2 DEF AfterConfig
  <2> QED BY <1>0, <1>4, <2>2, <2>3, <2>4, <2>5, KnownKept
<1>5. CASE step = "evaluate"
  <2>1. /\ pc' = "control" /\ step' \in {"dev18", "cfg9"} /\ UNCHANGED <<port, slot, devs>>
    BY <1>5 DEF CommandResult, Goto
  <2>2. InOrder'
    BY <1>0, <1>5, <2>1 DEF InOrder
  <2>3. step' \notin AfterConfig
    BY <2>1 DEF AfterConfig
  <2> QED BY <1>0, <1>5, <2>1, <2>2, <2>3, KnownKept
<1>6. CASE step = "configure"
  <2>1. devs' = [devs EXCEPT ![slot].polled = TRUE] /\ NextPort /\ slot' = slot
    BY <1>6 DEF CommandResult
  <2>2. slot \in Slots /\ devs[slot].port = port /\ devs[slot].hid
    BY <1>0, <1>6 DEF Working, Known, AfterConfig
  <2>3. /\ \A t \in Slots : t # slot => devs'[t] = devs[t]
        /\ devs'[slot].port = port /\ devs'[slot].hid /\ devs'[slot].polled
    BY <1>0, <2>1, <2>2 DEF HTypes
  <2>4. Known'
    BY <1>0, <1>6, <2>1, <2>3, PortDone
  <2>5. pc' \in {"command", "poll"} /\ InOrder'
    BY <1>0, <1>1, <2>1 DEF NextPort, InOrder, Enumerating
  <2> QED BY <2>4, <2>5
<1> QED BY <1>2, <1>3, <1>4, <1>5, <1>6

\* After a control transfer that succeeded, with nothing left on the ring of EP0.
LEMMA EagerControl ==
  ASSUME WalkFinds, EnumInv, HTypes', InOrder, Known, pc = "awaitControl", commands = <<>>,
         ep0[slot] = <<>>, commands' = commands, slots' = slots, slot' = slot,
         ControlResult(TRUE)
  PROVE  pc' \in {"command", "control", "poll"} /\ InOrder' /\ Known'
<1>0. /\ HTypes /\ Working /\ Enumerating
      /\ step \in {"dev8", "dev18", "cfg9", "cfg", "report", "setcfg", "protocol", "idle"}
  BY DEF EnumInv, Enumerating, HTypes, ControlSteps, WithData
<1>1. /\ slots = port /\ slot = port /\ slot \in Slots /\ devs[slot].port = port
      /\ port \in Ports /\ port \in Nat
  BY <1>0 DEF InOrder, Working, HTypes, Ports
<1>2. AfterControl(TRUE) /\ devs' = IF step = "cfg" THEN [devs EXCEPT ![slot].hid = Arrived("cfg")]
                                    ELSE devs
  BY DEF ControlResult
<1>3. Arrived("cfg")
  BY DEF Arrived
<1>4. /\ \A s \in Slots : s # slot => devs'[s] = devs[s]
      /\ devs[slot].hid \/ step = "cfg" => devs'[slot].hid
  BY <1>0, <1>1, <1>2, <1>3 DEF HTypes
<1>5. devs[slot].hid => Hid(slot) = HidOfPort[port]
  BY <1>1 DEF Hid
<1>6. step \in AfterConfig => devs[slot].hid
  BY <1>0 DEF Known
<1>7. port \in Hids /\ step \in AfterConfig =>
        /\ Hid(slot).ifnum # NoInterface /\ Hid(slot).ep # 0 /\ Hid(slot).mps # 0
  BY <1>5, <1>6 DEF WalkFinds
<1>8. \/ /\ pc' \in {"command", "control"} /\ port' = port /\ step' # "enable"
         /\ step' \in AfterConfig => step = "cfg" \/ step \in AfterConfig
      \/ NextPort /\ port \notin Hids
  <2>1. CASE step \in {"dev8", "dev18", "cfg9", "cfg"}
    BY <1>2, <2>1 DEF AfterControl, Goto, AfterConfig
  <2>2. CASE step \in {"setcfg", "protocol", "idle", "report"}
    <3>1. step \in AfterConfig
      BY <2>2 DEF AfterConfig
    <3>2. Configure => \/ NextPort /\ port \notin Hids
                       \/ pc' = "command" /\ port' = port /\ step' = "configure"
      BY <1>7, <3>1 DEF Configure, Goto
    <3>3. CASE step = "setcfg"
      BY <1>2, <1>7, <3>1, <3>3 DEF AfterControl, Goto
    <3>4. CASE step = "protocol"
      BY <1>2, <3>1, <3>4 DEF AfterControl, Goto
    <3>5. CASE step = "idle" \/ step = "report"
      BY <1>2, <3>1, <3>2, <3>5 DEF AfterControl, Goto
    <3> QED BY <2>2, <3>3, <3>4, <3>5
  <2> QED BY <1>0, <2>1, <2>2
<1>9. CASE /\ pc' \in {"command", "control"} /\ port' = port /\ step' # "enable"
           /\ step' \in AfterConfig => step = "cfg" \/ step \in AfterConfig
  <2>1. InOrder'
    BY <1>1, <1>9 DEF InOrder
  <2>2. step' \in AfterConfig => devs'[slot'].hid
    BY <1>4, <1>6, <1>9
  <2> QED BY <1>0, <1>1, <1>4, <1>9, <2>1, <2>2, KnownKept
<1>10. CASE NextPort /\ port \notin Hids
  <2>1. Known'
    BY <1>0, <1>1, <1>4, <1>10, PortDone
  <2>2. pc' \in {"command", "poll"} /\ InOrder'
    BY <1>1, <1>10 DEF NextPort, InOrder, Enumerating
  <2> QED BY <2>1, <2>2
<1> QED BY <1>8, <1>9, <1>10

LEMMA EagerStarts == Init => EagerInv
<1> SUFFICES ASSUME Init PROVE EagerInv
  OBVIOUS
<1>1. events = <<>> /\ pc = "command" /\ step = "enable" /\ port = 1 /\ slots = 0
      /\ faults = 0 /\ slow = 0 /\ \A s \in Slots : ~halted[s]
  BY DEF Init
<1>2. AllWell
  BY <1>1 DEF AllWell
<1>3. \A p \in Hids : ~(p < 1)
  BY HidAssumption DEF Ports
<1>4. Answered /\ InOrder /\ Known
  BY <1>1, <1>3 DEF Answered, InOrder, Known, AfterConfig
<1> QED BY <1>1, <1>2, <1>4 DEF EagerInv

\* An eager controller makes no wait give up, and without an error each wait has
\* its answer.
LEMMA EagerWaits ==
  ASSUME EnumInv, EagerInv, eager, [Next]_vars
  PROVE  /\ slow = 0 /\ slow' = 0 /\ faults' \in Nat /\ (faults' = 0 => faults = 0)
         /\ faults = 0 => ~CommandTimeout /\ ~ControlTimeout
<1>0. slow = 0 /\ faults \in Nat /\ HTypes /\ Calm /\ Working
  BY DEF EagerInv, EnumInv
<1>1. ASSUME CommandTimeout PROVE slow' = slow /\ commands = <<>> /\ events = <<>>
  BY <1>1 DEF CommandTimeout, GiveUp, Turn, Idle
<1>2. ASSUME ControlTimeout
      PROVE  slow' = slow /\ (ep0[slot] = <<>> \/ halted[slot]) /\ events = <<>> /\ slot \in Slots
  <2>1. pc = "awaitControl"
    BY <1>2 DEF ControlTimeout
  <2>2. step \notin {"enable", "address"} /\ Enumerating
    BY <1>0, <2>1 DEF HTypes, ControlSteps, WithData, Enumerating
  <2>3. slot \in Slots
    BY <1>0, <2>2 DEF Working
  <2> QED BY <1>2, <2>3 DEF ControlTimeout, GiveUp, Turn, Idle
<1>3. slow' = slow
  BY <1>1, <1>2 DEF Next, Driver, PushCommand, PushControl, AwaitCommand, AwaitControl, PollEvent,
     ExecuteCommand, ExecuteStage, UserActs, Report, counters, vars
<1>4. faults' = faults \/ faults' = faults + 1
  BY DEF Next, Driver, PushCommand, PushControl, AwaitCommand, AwaitControl, CommandTimeout,
     ControlTimeout, PollEvent, ExecuteCommand, ExecuteStage, UserActs, Report, counters, vars,
     Outcome
<1>5. faults' \in Nat /\ (faults' = 0 => faults = 0)
  BY <1>0, <1>4
<1>6. ASSUME faults = 0 PROVE ~CommandTimeout /\ ~ControlTimeout
  <2>1. Len(events) \in Nat /\ (events = <<>> => 1 .. Len(events) = {})
    BY <1>0 DEF HTypes
  <2>2. ~CommandTimeout
    <3> SUFFICES ASSUME CommandTimeout PROVE FALSE
      OBVIOUS
    <3>1. pc = "awaitCommand" /\ commands = <<>> /\ events = <<>>
      BY <1>1 DEF CommandTimeout
    <3>2. commands # <<[id |-> cmds, kind |-> step, slot |-> slot]>>
      BY <3>1
    <3>3. \E i \in 1 .. Len(events) : Completion(i)
      BY <1>0, <3>1, <3>2 DEF Calm
    <3> QED BY <2>1, <3>1, <3>3
  <2>3. ~ControlTimeout
    <3> SUFFICES ASSUME ControlTimeout PROVE FALSE
      OBVIOUS
    <3>1. pc = "awaitControl" /\ (ep0[slot] = <<>> \/ halted[slot]) /\ events = <<>> /\ slot \in Slots
      BY <1>2 DEF ControlTimeout
    <3>2. ep0[slot] # <<>> \/ TransferCame
      BY <1>6, <3>1 DEF EagerInv, Answered
    <3>3. ~halted[slot]
      BY <1>6, <3>1 DEF EagerInv, AllWell
    <3> QED BY <2>1, <3>1, <3>2, <3>3 DEF TransferCame
  <2> QED BY <2>2, <2>3
<1> QED BY <1>0, <1>3, <1>5, <1>6

LEMMA EagerStep == WalkFinds /\ EnumInv /\ EnumInv' /\ EagerInv /\ [Next]_vars => EagerInv'
<1> SUFFICES ASSUME WalkFinds, EnumInv, EnumInv', EagerInv, [Next]_vars PROVE EagerInv'
  OBVIOUS
<1>0. HTypes /\ HTypes' /\ Calm /\ Working /\ eager' = eager
  BY DEF EnumInv, Next, Driver, PushCommand, PushControl, AwaitCommand, AwaitControl,
     CommandTimeout, ControlTimeout, PollEvent, ExecuteCommand, ExecuteStage, UserActs, Report,
     counters, vars
<1>1. faults' \in Nat
  <2>1. faults' = faults \/ faults' = faults + 1
    BY DEF Next, Driver, PushCommand, PushControl, AwaitCommand, AwaitControl, CommandTimeout,
       ControlTimeout, PollEvent, ExecuteCommand, ExecuteStage, UserActs, Report, counters, vars,
       Outcome
  <2> QED BY <2>1 DEF EagerInv
<1>2. SUFFICES ASSUME eager, faults' = 0
               PROVE  pc' # "shared" /\ AllWell' /\ Answered' /\ InOrder' /\ Known'
  BY <1>0, <1>1, EagerWaits DEF EagerInv
<1>3. slow = 0 /\ faults = 0 /\ ~CommandTimeout /\ ~ControlTimeout
  BY <1>2, EagerWaits
<1>4. pc # "shared" /\ AllWell /\ Answered /\ InOrder /\ Known
  BY <1>2, <1>3 DEF EagerInv
<1>5. CASE UNCHANGED vars \/ \E s \in Slots : UserActs(s)
  <2>1. UNCHANGED <<pc, port, step, slot, devs, commands, slots, events, halted, ep0>>
    BY <1>5 DEF vars, UserActs, driver, controller
  <2> QED BY <1>4, <2>1 DEF AllWell, Answered, TransferCame, InOrder, Known, Enumerating
<1>6. CASE PushCommand
  <2>1. /\ pc = "command" /\ pc' = "awaitCommand" /\ commands' # <<>>
        /\ UNCHANGED <<port, step, slot, devs, slots, events, halted>>
    BY <1>0, <1>6 DEF PushCommand, HTypes
  <2>2. AllWell' /\ Answered' /\ InOrder'
    BY <1>4, <2>1 DEF AllWell, Answered, InOrder, Enumerating
  <2>3. Known'
    BY <1>4, <2>1 DEF Known, Enumerating
  <2> QED BY <2>1, <2>2, <2>3
<1>7. CASE PushControl
  <2>1. /\ pc = "control" /\ pc' = "awaitControl" /\ ep0' = [ep0 EXCEPT ![slot] = @ \o StagesOf(step)]
        /\ UNCHANGED <<port, step, slot, devs, commands, slots, events, halted>>
    BY <1>7 DEF PushControl
  <2>2. step \in ControlSteps /\ step \notin {"enable", "address"} /\ Enumerating
    BY <1>0, <2>1 DEF HTypes, ControlSteps, WithData, Enumerating
  <2>3. slot \in Slots /\ ep0[slot] \in Seq(Stages) /\ StagesOf(step) \in Seq(Stages)
        /\ Len(StagesOf(step)) \in {2, 3}
    BY <1>0, <2>2, StagesPosted DEF Working, HTypes, Posts
  <2>4. ep0'[slot'] # <<>>
    <3>1. ep0'[slot'] = ep0[slot] \o StagesOf(step)
      BY <1>0, <2>1, <2>3 DEF HTypes
    <3>2. Len(ep0[slot] \o StagesOf(step)) = Len(ep0[slot]) + Len(StagesOf(step))
      BY <2>3, ConcatProperties
    <3>3. Len(ep0[slot]) \in Nat
      BY <2>3
    <3>4. Len(ep0'[slot']) # 0
      BY <2>3, <3>1, <3>2, <3>3
    <3> QED BY <3>4
  <2>5. AllWell' /\ Answered' /\ InOrder'
    BY <1>4, <2>1, <2>2, <2>4 DEF AllWell, Answered, InOrder, Enumerating
  <2>6. Known'
    BY <1>4, <2>1 DEF Known, Enumerating
  <2> QED BY <2>1, <2>5, <2>6
<1>8. CASE AwaitCommand
  <2>1. /\ pc = "awaitCommand" /\ events # <<>> /\ events' = Tail(events) /\ commands = <<>>
        /\ UNCHANGED <<commands, cmds, ep0, halted, slots>>
    BY <1>2, <1>8 DEF AwaitCommand, Turn, Idle
  <2>2. AllWell' /\ Head(events).ok /\ Head(events) = events[1] /\ 1 \in 1 .. Len(events)
    BY <1>0, <1>4, <2>1, WellRead
  <2>3. CASE Head(events).type = "command"
    <3>1. CommandResult(Head(events).ok, Head(events).slot)
      BY <1>8, <2>3 DEF AwaitCommand
    <3>2. Head(events) \in CommandEvents \cup TransferEvents /\ Head(events).ok = TRUE
      BY <1>0, <2>1, <2>2, Tails, EventIs DEF HTypes
    <3>3. CommandResult(TRUE, Head(events).slot) /\ Head(events).slot \in Slots
      BY <3>1, <3>2, EventIs
    <3>4. step = "enable" => Head(events).slot = slots
      <4>1. commands # <<[id |-> cmds, kind |-> step, slot |-> slot]>>
        BY <2>1
      <4>2. \E i \in 1 .. Len(events) : Completion(i)
        BY <1>0, <1>3, <2>1, <4>1 DEF Calm
      <4> QED BY <2>2, <2>3, <4>2 DEF Completion
    <3>5. pc' \in {"command", "control", "poll"} /\ InOrder' /\ Known'
      BY <1>0, <1>3, <1>4, <2>1, <3>3, <3>4, EagerCommand
    <3> QED BY <2>2, <3>5 DEF Answered
  <2>4. CASE Head(events).type # "command"
    <3>1. UNCHANGED <<pc, port, step, slot, devs>>
      BY <1>8, <2>4 DEF AwaitCommand, driver
    <3>2. Answered' /\ InOrder' /\ Known'
      BY <1>4, <2>1, <3>1 DEF Answered, InOrder, Known, Enumerating
    <3> QED BY <1>4, <2>2, <3>1, <3>2
  <2> QED BY <2>3, <2>4
<1>9. CASE AwaitControl
  <2>1. /\ pc = "awaitControl" /\ events # <<>> /\ events' = Tail(events)
        /\ UNCHANGED <<commands, cmds, ep0, halted, slots, slot>>
        /\ commands = <<>> /\ \A s \in Slots : ep0[s] = <<>> \/ halted[s]
    BY <1>2, <1>9 DEF AwaitControl, Turn, Idle, driver
  <2>2. AllWell' /\ Head(events).ok
    BY <1>0, <1>4, <2>1, WellRead
  <2>3. slot \in Slots /\ ep0[slot] = <<>>
    <3>1. step \notin {"enable", "address"} /\ Enumerating
      BY <1>0, <2>1 DEF HTypes, ControlSteps, WithData, Enumerating
    <3>2. slot \in Slots
      BY <1>0, <3>1 DEF Working
    <3> QED BY <1>4, <2>1, <3>2 DEF AllWell
  <2>4. CASE Head(events).type = "transfer" /\ Head(events).slot = slot
    <3>1. ControlResult(Head(events).ok)
      BY <1>9, <2>4 DEF AwaitControl
    <3>2. Head(events) \in CommandEvents \cup TransferEvents /\ Head(events).ok = TRUE
      BY <1>0, <2>1, <2>2, Tails, EventIs DEF HTypes
    <3>3. ControlResult(TRUE)
      BY <3>1, <3>2
    <3>4. pc' \in {"command", "control", "poll"} /\ InOrder' /\ Known'
      BY <1>0, <1>4, <2>1, <2>3, <3>3, EagerControl
    <3> QED BY <2>2, <3>4 DEF Answered
  <2>5. CASE ~(Head(events).type = "transfer" /\ Head(events).slot = slot)
    <3>1. UNCHANGED <<pc, port, step, slot, devs>>
      BY <1>9, <2>5 DEF AwaitControl, driver
    <3>2. Answered'
      BY <1>0, <1>4, <2>1, <2>5, <3>1, CameRead DEF Answered
    <3>3. InOrder' /\ Known'
      BY <1>4, <2>1, <3>1 DEF InOrder, Known, Enumerating
    <3> QED BY <1>4, <2>2, <3>1, <3>2, <3>3
  <2> QED BY <2>4, <2>5
<1>10. CASE PollEvent
  <2>1. /\ pc = "poll" /\ events # <<>> /\ events' = Tail(events)
        /\ UNCHANGED <<pc, port, step, slot, devs, commands, ep0, halted, slots>>
    BY <1>10 DEF PollEvent, driver
  <2>2. AllWell'
    BY <1>0, <1>4, <2>1, WellRead
  <2>3. Answered' /\ InOrder' /\ Known'
    BY <1>4, <2>1 DEF Answered, InOrder, Known, Enumerating
  <2> QED BY <2>1, <2>2, <2>3
<1>11. CASE ExecuteCommand
  <2>1. /\ commands # <<>> /\ commands' = Tail(commands)
        /\ UNCHANGED <<pc, port, step, slot, devs, halted, ep0>>
    BY <1>11 DEF ExecuteCommand, driver
  <2>2. pc = "awaitCommand" /\ commands = <<[id |-> cmds, kind |-> step, slot |-> slot]>>
    BY <1>0, <1>3, <2>1 DEF Calm
  <2>3. commands' = <<>> /\ Head(commands).kind = step
    BY <2>1, <2>2
  <2>4. PICK ok \in BOOLEAN :
          /\ Outcome(ok)
          /\ events' = Append(events, CommandEvent(Head(commands).id,
               IF Head(commands).kind = "enable" THEN (IF ok THEN slots + 1 ELSE 0)
               ELSE Head(commands).slot, ok))
          /\ slots' = IF Head(commands).kind = "enable" /\ ok THEN slots + 1 ELSE slots
    BY <1>11 DEF ExecuteCommand
  <2>5. ok
    BY <1>2, <1>3, <2>4 DEF Outcome
  <2>6. AllWell'
    <3> DEFINE x == CommandEvent(Head(commands).id,
                      IF Head(commands).kind = "enable" THEN (IF ok THEN slots + 1 ELSE 0)
                      ELSE Head(commands).slot, ok)
    <3>1. x.ok
      BY <2>5 DEF CommandEvent
    <3>2. events' = Append(events, x)
      BY <2>4
    <3> HIDE DEF x
    <3>3. Len(events') = Len(events) + 1 /\ events'[Len(events) + 1] = x
          /\ (\A i \in 1 .. Len(events) : events'[i] = events[i]) /\ Len(events) \in Nat
      BY <1>0, <3>2 DEF HTypes
    <3>4. \A i \in 1 .. Len(events') : i = Len(events) + 1 \/ i \in 1 .. Len(events)
      BY <3>3
    <3> QED BY <1>4, <2>1, <3>1, <3>3, <3>4 DEF AllWell
  <2>7. InOrder'
    <3>1. port \in Nat
      BY <1>0 DEF HTypes, Ports
    <3>2. CASE step = "enable"
      <4>1. slots = port - 1 /\ slots' = slots + 1
        BY <1>4, <2>1, <2>2, <2>3, <2>4, <2>5, <3>2 DEF InOrder
      <4> QED BY <2>1, <2>2, <2>3, <3>1, <3>2, <4>1 DEF InOrder
    <3>3. CASE step # "enable"
      BY <1>4, <2>1, <2>3, <2>4, <3>3 DEF InOrder, Enumerating
    <3> QED BY <3>2, <3>3
  <2>8. Answered' /\ Known'
    BY <1>4, <2>1, <2>2 DEF Answered, Known, Enumerating
  <2> QED BY <1>4, <2>1, <2>6, <2>7, <2>8
<1>12. CASE \E s \in Slots : ExecuteStage(s)
  <2>1. PICK s \in Slots : ExecuteStage(s)
    BY <1>12
  <2>2. PICK ok \in BOOLEAN :
          /\ Outcome(ok) /\ events' = Append(events, TransferEvent(s, "ep0", ok))
          /\ halted' = [halted EXCEPT ![s] = ~ok]
          /\ ep0' = IF ok THEN [ep0 EXCEPT ![s] = Tail(@)] ELSE ep0
          /\ UNCHANGED <<pc, port, step, slot, devs, commands, slots>>
    BY <2>1 DEF ExecuteStage, driver
  <2>3. ok
    BY <1>2, <1>3, <2>2 DEF Outcome
  <2> DEFINE x == TransferEvent(s, "ep0", ok)
  <2>4. x.ok /\ x.type = "transfer" /\ x.slot = s /\ x \in TransferEvents
    BY <2>3 DEF TransferEvent, TransferEvents
  <2> HIDE DEF x
  <2>5. AllWell'
    <3>1. \A t \in Slots : ~halted'[t]
      BY <1>0, <1>4, <2>2, <2>3 DEF HTypes, AllWell
    <3> QED BY <1>0, <1>4, <2>2, <2>4, <3>1, WellPosted DEF x
  <2>6. Answered'
    <3>1. CASE s = slot
      BY <1>0, <2>2, <2>4, <3>1, CamePosted DEF Answered, x
    <3>2. CASE s # slot
      <4>1. ep0'[slot] = ep0[slot]
        BY <1>0, <2>2, <3>2 DEF HTypes
      <4> QED BY <1>0, <1>4, <2>2, <2>4, <4>1, CamePosted DEF Answered, x
    <3> QED BY <3>1, <3>2
  <2>7. InOrder' /\ Known'
    BY <1>4, <2>2 DEF InOrder, Known, Enumerating
  <2> QED BY <1>4, <2>2, <2>5, <2>6, <2>7
<1>13. CASE \E s \in Slots : Report(s)
  <2>1. PICK s \in Slots : Report(s)
    BY <1>13
  <2> DEFINE x == TransferEvent(s, "intr", TRUE)
  <2>2. /\ events' = Append(events, x)
        /\ UNCHANGED <<pc, port, step, slot, devs, commands, ep0, halted, slots>>
    BY <2>1 DEF Report, driver
  <2>3. x.ok /\ x \in TransferEvents
    BY DEF TransferEvent, TransferEvents
  <2> HIDE DEF x
  <2>4. AllWell'
    <3>1. \A t \in Slots : ~halted'[t]
      BY <1>4, <2>2 DEF AllWell
    <3> QED BY <1>0, <1>4, <2>2, <2>3, <3>1, WellPosted
  <2>5. Answered'
    BY <1>0, <1>4, <2>2, <2>3, CamePosted DEF Answered
  <2>6. InOrder' /\ Known'
    BY <1>4, <2>2 DEF InOrder, Known, Enumerating
  <2> QED BY <1>4, <2>2, <2>4, <2>5, <2>6
<1> QED BY <1>3, <1>5, <1>6, <1>7, <1>8, <1>9, <1>10, <1>11, <1>12, <1>13 DEF Next, Driver

\* With a controller that answers at once and never fails, every keyboard and mouse
\* in whose configuration descriptor the walk finds the HID interface and its
\* endpoint is polled after boot, on that endpoint: to read events one transfer
\* behind loses nothing then, however many ports there are.
THEOREM EagerBoot == WalkFinds => (Spec => []EagerBootFindsAll)
<1> SUFFICES ASSUME WalkFinds PROVE Spec => []EagerBootFindsAll
  OBVIOUS
<1>1. EnumInv /\ EnumInv' /\ EagerInv /\ [Next]_vars => EagerInv'
  BY EagerStep
<1>2. EagerInv => EagerBootFindsAll
  <2> SUFFICES ASSUME EagerInv, eager, faults = 0, pc = "poll", NEW p \in Hids
               PROVE  \E s \in Slots : /\ devs[s].port = p /\ devs[s].polled
                                       /\ Hid(s).ifnum = Interface[p] /\ Hid(s).ep = Endpoint[p]
    BY DEF EagerBootFindsAll
  <2>1. devs[p].port = p /\ devs[p].hid /\ devs[p].polled
    BY DEF EagerInv, Known
  <2>2. p \in Slots
    BY HidAssumption DEF Ports, Slots
  <2>3. Hid(p) = HidOfPort[p]
    BY <2>1 DEF Hid
  <2> QED BY <2>1, <2>2, <2>3 DEF WalkFinds
<1> QED BY EnumInvariant, EagerStarts, <1>1, <1>2, PTL DEF Spec

=============================================================================
