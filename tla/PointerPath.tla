----------------------------- MODULE PointerPath -----------------------------
(***************************************************************************)
(* The way of a movement from a pointing device to the pointer: over the   *)
(* interrupt ring of the device (TrbRing), through intr_buf and            *)
(* xhci_poll_events (HidReport), to the input layer (core/input.c).        *)
(*                                                                         *)
(* The same rings carry commands and control transfers.  A behaviour       *)
(* either follows such a ring (no device: TrbRing as it stands), or the    *)
(* interrupt ring of one device, where the driver pushes a TRB when it     *)
(* starts polling and one more after each report it has read.              *)
(*                                                                         *)
(* Enumeration, and the ways in which it fails, are in XhciHid: here the   *)
(* descriptor of the device either was read, or was not.                   *)
(***************************************************************************)
EXTENDS TrbRing, HidReport

CONSTANTS
  Device,     \* the pointing devices by name: see DeviceType
  Width,      \* g_w: the screen, in pixels
  Height      \* g_h

Buttons  == 0 .. 255
Devices  == DOMAIN Device
NoDevice == "none"                    \* the ring is not an interrupt ring

DeviceType ==
  [boot : BOOLEAN,                      \* subclass 1: SET_PROTOCOL(boot) is sent
   proto : {0, 1, 2},                   \* hid_proto
   desc : Seq(0 .. 255),                \* the report descriptor
   report : Seq([what : {"id", "buttons", "x", "y", "rest"}, bits : Nat]),
   id : 0 .. 255,                       \* the report id of its mouse, if it has one
   other : Seq({0, 1}),                 \* a report that is not the mouse's, if any
   max : Nat,                           \* largest position, 0 for a relative device
   moves : SUBSET [x : Int, y : Int, buttons : Buttons]]

ASSUME PathAssumption ==
  /\ NoDevice \notin Devices /\ \A d \in Devices : Device[d] \in DeviceType
  /\ Width \in Nat \ {0} /\ Height \in Nat \ {0}

VARIABLES
  dev,       \* the device at the end of the ring, or NoDevice
  layout,    \* hid_mouse_valid and the hid_..._bitoff, _bits, _is_relative
  buf,       \* intr_buf
  unread,    \* transfer events of the device the driver has not read
  pointer,   \* g_ptr: x, y and buttons
  input,     \* what the device has to report, NoInput if nothing
  hand       \* history: where the user has moved the pointer to

path     == <<buf, unread, pointer, input, hand>>
pathVars == <<vars, dev, layout, path>>

NoInput == [kind |-> "none"]
Centre  == [x |-> Width \div 2, y |-> Height \div 2, buttons |-> 0]

\* input_init; xhci_hid_try_parse_mouse_report_desc, which may have read nothing.
PathInit ==
  /\ Init
  /\ dev \in Devices \cup {NoDevice}
  /\ \/ layout = NoLayout
     \/ dev # NoDevice /\ layout = LayoutOf(Device[dev].desc)
  /\ buf = <<>> /\ unread = 0
  /\ pointer = Centre /\ hand = Centre /\ input = NoInput

-----------------------------------------------------------------------------
(* core/input.c *)

Clamp(v, hi) == IF v < 0 THEN 0 ELSE IF v > hi THEN hi ELSE v

PlaceAt(x, y, buttons) ==
  [x |-> Clamp(x, Width - 1), y |-> Clamp(y, Height - 1), buttons |-> buttons]

ScaleMax == 32767

\* input_pointer_set_abs_scaled, of one coordinate.
Scaled(v, size) == (v * (size - 1)) \div ScaleMax

\* What a decoded report does to the pointer.
Moved(p, motion) ==
  CASE motion.kind = "relative" -> PlaceAt(p.x + motion.x, p.y + motion.y, motion.buttons)
    [] motion.kind = "absolute" ->
         PlaceAt(Scaled(motion.x, Width), Scaled(motion.y, Height), motion.buttons)
    [] OTHER -> p

-----------------------------------------------------------------------------
(* The device (external). *)

\* v, which may be negative, in two's complement.
BitsOf(v, bits) ==
  LET half[n \in 0 .. bits] == IF n = 0 THEN v ELSE half[n - 1] \div 2
  IN [i \in 1 .. bits |-> half[i - 1] % 2]

\* In the boot protocol a mouse reports in the layout of the HID specification.
BootReport == << [what |-> "buttons", bits |-> 8], [what |-> "x", bits |-> 8],
                 [what |-> "y", bits |-> 8] >>

FieldsOf(d) == IF d.boot THEN BootReport ELSE d.report

\* What the device has to say in a field.
Said(d, move, what) ==
  CASE what = "id" -> d.id
    [] what = "buttons" -> move.buttons
    [] what = "x" -> move.x
    [] what = "y" -> move.y
    [] what = "rest" -> 0

\* Field after field.
Encoded(d, move) ==
  LET fields == FieldsOf(d)
      upTo[n \in 0 .. Len(fields)] ==
        IF n = 0 THEN <<>>
        ELSE upTo[n - 1] \o BitsOf(Said(d, move, fields[n].what), fields[n].bits)
  IN upTo[Len(fields)]

\* Where the user means the pointer to be: a device with a largest position
\* covers the screen from edge to edge.
Meant(p, d, move) ==
  IF d.max = 0
  THEN PlaceAt(p.x + move.x, p.y + move.y, move.buttons)
  ELSE [x |-> (move.x * (Width - 1)) \div d.max, y |-> (move.y * (Height - 1)) \div d.max,
        buttons |-> move.buttons]

UserMoves ==
  /\ dev # NoDevice /\ input = NoInput
  /\ \E move \in Device[dev].moves :
       /\ input' = [kind |-> "move", bits |-> Encoded(Device[dev], move)]
       /\ hand' = Meant(hand, Device[dev], move)
  /\ UNCHANGED <<vars, dev, layout, buf, unread, pointer>>

\* Something else at the same device: a key of a keyboard with a mouse built in.
UserTypes ==
  /\ dev # NoDevice /\ input = NoInput /\ Device[dev].other # <<>>
  /\ input' = [kind |-> "other", bits |-> Device[dev].other]
  /\ UNCHANGED <<vars, dev, layout, buf, unread, pointer, hand>>

\* The controller executes the TRB when the device has something to report; a
\* report shorter than the one before leaves the rest of that in the buffer.
DeviceReports ==
  /\ dev # NoDevice /\ input # NoInput
  /\ Execute
  /\ LET n == Len(input.bits)
     IN buf' = input.bits \o SubSeq(buf, n + 1, Len(buf))
  /\ unread' = unread + 1 /\ input' = NoInput
  /\ UNCHANGED <<dev, layout, pointer, hand>>

-----------------------------------------------------------------------------
(* The driver. *)

\* Seeded fault: polling is started again before the first report.
StartPollingAgain ==
  /\ dev # NoDevice /\ done = 0
  /\ Push
  /\ UNCHANGED <<dev, layout, path>>

\* xhci_hid_start_polling at the end of enumeration: the first TRB.
StartPolling ==
  /\ dev # NoDevice /\ pushed = 0
  /\ Push
  /\ UNCHANGED <<dev, layout, path>>

\* Seeded fault: after the first report the endpoint is not armed again.
ReadReportNoRearm ==
  /\ unread > 0 /\ unread' = unread - 1
  /\ pointer' = Moved(pointer, Decode(layout, Device[dev].proto, buf))
  /\ UNCHANGED <<vars, dev, layout, buf, input, hand>>

\* xhci_poll_events, one transfer event of the device: the report in intr_buf,
\* and the next TRB -- whatever the report was.
ReadReport ==
  /\ unread > 0 /\ unread' = unread - 1
  /\ pointer' = Moved(pointer, Decode(layout, Device[dev].proto, buf))
  /\ Push
  /\ UNCHANGED <<dev, layout, buf, input, hand>>

\* The command ring, and the EP0 ring of a device.
OtherRing == dev = NoDevice /\ (Push \/ Execute) /\ UNCHANGED <<dev, layout, path>>

Wrap == FollowLink /\ UNCHANGED <<dev, layout, path>>

-----------------------------------------------------------------------------

PathNext ==
  \/ OtherRing \/ Wrap
  \/ UserMoves \/ UserTypes \/ DeviceReports
  \/ StartPolling \/ ReadReport

\* The controller keeps fetching, a device with input reports it as soon as a
\* TRB is there, and the main loop polls for ever.  The user need not act.
PathFairness ==
  /\ WF_pathVars(dev = NoDevice /\ Execute /\ UNCHANGED <<dev, layout, path>>)
  /\ WF_pathVars(Wrap) /\ WF_pathVars(DeviceReports)
  /\ WF_pathVars(StartPolling) /\ WF_pathVars(ReadReport)

PathSpec == PathInit /\ [][PathNext]_pathVars /\ PathFairness

-----------------------------------------------------------------------------
(* Properties. *)

\* Types of the variables.
PathTypeOK ==
  /\ dev \in Devices \cup {NoDevice}
  /\ pointer \in [x : 0 .. Width - 1, y : 0 .. Height - 1, buttons : Nat]
  /\ unread \in {0, 1}
  /\ buf \in Seq({0, 1})

\* In a layout like that of the boot protocol the fields lie in the same place.
BootLike(l) ==
  /\ ~l.hasId /\ l.buttons.off = 0
  /\ l.x = [off |-> 8, bits |-> 8, rel |-> TRUE] /\ l.y = [off |-> 16, bits |-> 8, rel |-> TRUE]

\* The driver can make sense of the device: it read the descriptor, which tells
\* of the reports the device sends, its mouse's last; or it did not, and the
\* device sends boot reports.
Understood(d, l) ==
  IF l.valid THEN (d.boot => BootLike(l)) /\ (l.hasId => l.id = d.id)
  ELSE d.proto = 2 /\ d.boot

\* So many bits are the first n fields of a report.
Ends(d) ==
  LET fields == FieldsOf(d)
      at[n \in 0 .. Len(fields)] == IF n = 0 THEN 0 ELSE at[n - 1] + fields[n].bits
  IN at

\* The reports of d say what from bit off on.
HasField(d, what, off, bits) ==
  \E n \in 1 .. Len(FieldsOf(d)) :
    /\ FieldsOf(d)[n].what = what /\ bits <= FieldsOf(d)[n].bits
    /\ Ends(d)[n - 1] = off

\* The layout the driver goes by: without one, that of the boot protocol.
BootLayout ==
  LET byte(n) == [off |-> 8 * n, bits |-> 8, rel |-> TRUE]
  IN [valid |-> TRUE, hasId |-> FALSE, id |-> 0,
      buttons |-> byte(0), x |-> byte(1), y |-> byte(2)]

InForce(l) == IF l.valid THEN l ELSE BootLayout

\* v in two's complement has so many bits.
Fits(v, bits) == bits \in 1 .. 31 /\ -(2 ^ (bits - 1)) <= v /\ v < 2 ^ (bits - 1)

\* The fields are wide enough for a movement, and positions are in range.
MoveFits(d, r, m) ==
  /\ Fits(m.x, r.x.bits) /\ Fits(m.y, r.y.bits) /\ m.buttons < 2 ^ r.buttons.bits
  /\ d.max # 0 => m.x \in 0 .. d.max /\ m.y \in 0 .. d.max

\* The layout l tells how d reports: where the fields are, that all movements fit
\* into them, and what a position is measured in; and what is not of the mouse has
\* an id of its own.
Described(d, l) ==
  LET r    == InForce(l)
      base == IF r.hasId THEN 8 ELSE 0
  IN /\ HasField(d, "x", base + r.x.off, r.x.bits)
     /\ HasField(d, "y", base + r.y.off, r.y.bits)
     /\ r.buttons.bits \in 1 .. 31
     /\ HasField(d, "buttons", base + r.buttons.off, r.buttons.bits)
     /\ r.hasId => HasField(d, "id", 0, 8)
     /\ d.max = (IF r.x.rel /\ r.y.rel THEN 0 ELSE ScaleMax)
     /\ \A m \in d.moves : MoveFits(d, r, m)
     /\ d.other # <<>> => r.hasId /\ Len(d.other) >= 8 /\ Unsigned(d.other, 0, 8) # d.id

\* Whenever the driver can make sense of a device it has its layout right.
ReportsDescribed ==
  \A d \in Devices : \A l \in {NoLayout, LayoutOf(Device[d].desc)} :
    Understood(Device[d], l) => Described(Device[d], l)

\* Once everything the user did has been read, the pointer is where the user
\* moved it and the buttons are those held: fields are cut out of the report
\* where the descriptor put them, with their sign; positions cover the screen
\* from edge to edge; each report counts once, lap after lap of the ring; and
\* reports of other parts of the device move nothing.
PointerFollows ==
  (dev # NoDevice /\ Understood(Device[dev], layout) /\ input = NoInput /\ unread = 0)
    => pointer = hand

\* One buffer serves all reports of a device: there is never a TRB armed while
\* a report is waiting to be read, or the device would write over it.
BufferNotShared == dev # NoDevice => (pushed - done) + unread <= 1

PathInv == PathTypeOK /\ PointerFollows

TwoLaps == 2 * (N - 1)

\* On the first two laps the controller catches up with the driver, and whatever
\* the user does reaches the pointer.  (Then the ring stops: EveryTrbExecuted.)
TwoLapsServed ==
  /\ (dev = NoDevice /\ done < TwoLaps) ~> (done = pushed \/ done >= TwoLaps)
  /\ (input # NoInput /\ done < TwoLaps) ~> unread = 1
  /\ (unread = 1) ~> (unread = 0)
=============================================================================
