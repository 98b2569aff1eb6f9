------------------------------ MODULE HidReport ------------------------------
(***************************************************************************)
(* How the driver reads a pointing device: it parses the report descriptor *)
(* once (xhci_hid_parse_report_desc_mouse in xhci_hid.c) and afterwards    *)
(* picks bit fields out of every report (xhci_poll_events in               *)
(* xhci_events.c).                                                         *)
(*                                                                         *)
(* A descriptor is a sequence of bytes.  A report is a sequence of bits,   *)
(* lowest bit of each byte first, which is the order the code counts in.   *)
(***************************************************************************)
EXTENDS Integers, Sequences, FiniteSetsExt

-----------------------------------------------------------------------------
(* Bit fields, as the loops in xhci_poll_events cut them out.  (What        *)
(* xhci_hid.c has for this, xhci_hid_get_bits_u32 and _s32, is not called.)  *)

\* intr_buf is a page that starts out as zeros.
Bit(buf, b) == IF b < Len(buf) THEN buf[b + 1] ELSE 0

\* At most 32 bits are read.
Taken(bits) == IF bits < 32 THEN bits ELSE 32

BitField(buf, off, bits) == [i \in 1 .. Taken(bits) |-> Bit(buf, off + i - 1)]

\* The number that the first bits of a field make, lowest bit first.
Value(field) ==
  LET low[n \in 0 .. Len(field)] ==
        IF n = 0 THEN 0 ELSE low[n - 1] + field[n] * 2 ^ (n - 1)
  IN low[Len(field)]

Unsigned(buf, off, bits) == Value(BitField(buf, off, bits))

\* The sign is that of the bits that are read.
Signed(buf, off, bits) ==
  LET u == Unsigned(buf, off, bits)
      w == Taken(bits)
  IN IF w > 0 /\ u >= 2 ^ (w - 1) THEN u - 2 ^ w ELSE u

-----------------------------------------------------------------------------
(* The items of a report descriptor.  Parsing stops at an item that is cut   *)
(* off; long items are skipped.                                              *)

LittleEndian(d, i, size) ==
  LET low[k \in 0 .. size] == IF k = 0 THEN 0 ELSE low[k - 1] + d[i + k] * 256 ^ (k - 1)
  IN low[size]

ItemsOf(d) ==
  LET n == Len(d)
      from[i \in 0 .. n] ==
        IF i = n THEN <<>>
        ELSE LET prefix == d[i + 1]
                 size   == IF prefix % 4 = 3 THEN 4 ELSE prefix % 4
                 next   == i + 1 + size
             IN IF prefix = 254
                THEN IF i + 3 > n THEN <<>>
                     ELSE IF i + 3 + d[i + 2] > n THEN <<>> ELSE from[i + 3 + d[i + 2]]
                ELSE IF next > n THEN <<>>
                ELSE <<[type  |-> (prefix \div 4) % 4, tag |-> prefix \div 16,
                        value |-> LittleEndian(d, i + 1, size)]>> \o from[next]
  IN from[0]

-----------------------------------------------------------------------------
(* xhci_hid_parse_report_desc_mouse: what is remembered from item to item,   *)
(* and what is found.                                                        *)

MaxUsages == 16
NoField   == [off |-> 0, bits |-> 0, rel |-> FALSE]

Blank == [page |-> 0, size |-> 0, count |-> 0, pos |-> 0, id |-> 0, hasId |-> FALSE,
          usages |-> <<>>, low |-> 0, high |-> 0, range |-> FALSE,
          app |-> FALSE, phys |-> FALSE, seen |-> FALSE,
          buttons |-> NoField, x |-> NoField, y |-> NoField, wheel |-> NoField]

\* Type 1.  Each report has bit positions of its own.
Global(st, item) ==
  CASE item.tag = 0 -> [st EXCEPT !.page = item.value]
    [] item.tag = 7 -> [st EXCEPT !.size = item.value]
    [] item.tag = 8 -> [st EXCEPT !.id = item.value, !.hasId = TRUE, !.pos = 0]
    [] item.tag = 9 -> [st EXCEPT !.count = item.value]
    [] OTHER -> st

\* Type 2.
Local(st, item) ==
  CASE item.tag = 0 /\ Len(st.usages) < MaxUsages ->
         [st EXCEPT !.usages = Append(@, item.value)]
    [] item.tag = 1 -> [st EXCEPT !.low = item.value, !.range = TRUE]
    [] item.tag = 2 -> [st EXCEPT !.high = item.value, !.range = TRUE]
    [] OTHER -> st

Forget(st) == [st EXCEPT !.usages = <<>>, !.range = FALSE]

\* A collection of usage Mouse, and those inside it; two levels are counted.
Collection(st) ==
  LET seen == st.seen \/ (st.page = 1 /\ st.usages # <<>> /\ st.usages[1] = 2)
  IN Forget([st EXCEPT !.seen = seen, !.app = @ \/ seen, !.phys = @ \/ (seen /\ st.app)])

EndCollection(st) ==
  Forget([st EXCEPT !.phys = FALSE, !.app = @ /\ st.phys])

\* The usage of the f-th field of an item (f from 0), 0 if it has none.
UsageOf(st, f) ==
  IF st.range THEN IF st.low + f <= st.high THEN st.low + f ELSE 0
  ELSE IF f < Len(st.usages) THEN st.usages[f + 1] ELSE 0

\* The first field of the item with this usage, unless one was found before.
FindAxis(st, usage, rel, found) ==
  LET fields == {f \in 0 .. st.count - 1 : UsageOf(st, f) = usage}
  IN IF found.bits # 0 \/ fields = {} THEN found
     ELSE [off |-> (st.pos + Min(fields) * st.size) % 2 ^ 16, bits |-> st.size % 2 ^ 8,
           rel |-> rel]

Room(st, item) == st.count * st.size

\* Input and Output items: count fields of size bits each.
Fields(st, item) ==
  LET rel   == (item.value \div 4) % 2 = 1
      mouse == (st.app \/ st.phys) /\ Room(st, item) # 0
      new   ==
        IF mouse /\ st.page = 9 /\ st.buttons.bits = 0
        THEN [st EXCEPT !.buttons = [off  |-> st.pos % 2 ^ 16,
                                     bits |-> Room(st, item) % 2 ^ 16, rel |-> rel]]
        ELSE IF mouse /\ st.page = 1
        THEN [st EXCEPT !.x     = FindAxis(st, 48, rel, @),
                        !.y     = FindAxis(st, 49, rel, @),
                        !.wheel = FindAxis(st, 56, rel, @)]
        ELSE st
  IN Forget([new EXCEPT !.pos = @ + Room(st, item)])

Apply(st, item) ==
  CASE item.type = 1 -> Global(st, item)
    [] item.type = 2 -> Local(st, item)
    [] item.type = 0 /\ item.tag = 10 -> Collection(st)
    [] item.type = 0 /\ item.tag = 12 -> EndCollection(st)
    [] item.type = 0 /\ item.tag \in {8, 9} -> Fields(st, item)
    [] OTHER -> st

NoLayout == [valid |-> FALSE, hasId |-> FALSE, id |-> 0,
             buttons |-> NoField, x |-> NoField, y |-> NoField]

\* The id is that of the last report of the descriptor.  (The wheel is decoded
\* and thrown away by xhci_poll_events; it is followed no further.)
LayoutOf(d) ==
  LET items == ItemsOf(d)
      after[n \in 0 .. Len(items)] ==
        IF n = 0 THEN Blank ELSE Apply(after[n - 1], items[n])
      st == after[Len(items)]
  IN IF st.x.bits = 0 \/ st.y.bits = 0 THEN NoLayout
     ELSE [valid |-> TRUE, hasId |-> st.hasId, id |-> st.id % 256,
           buttons |-> st.buttons, x |-> st.x, y |-> st.y]

-----------------------------------------------------------------------------
(* xhci_poll_events: a report of a pointing device.                          *)

Nothing == [kind |-> "none", x |-> 0, y |-> 0, buttons |-> 0]

\* Seeded fault: the fields are taken from every report, whatever its id.
DecodeEvery(layout, buf) ==
  LET base == IF layout.hasId THEN 8 ELSE 0
      field(f) == Signed(buf, base + f.off, f.bits)
  IN [kind |-> IF layout.x.rel /\ layout.y.rel THEN "relative" ELSE "absolute",
      x |-> field(layout.x), y |-> field(layout.y),
      buttons |-> Unsigned(buf, base + layout.buttons.off, layout.buttons.bits)]

\* By the layout.  A report of another id is none of the mouse.
DecodeByLayout(layout, buf) ==
  LET base == IF layout.hasId THEN 8 ELSE 0
      field(f) == Signed(buf, base + f.off, f.bits)
  IN IF layout.hasId /\ Unsigned(buf, 0, 8) # layout.id
     THEN Nothing
     ELSE [kind |-> IF layout.x.rel /\ layout.y.rel THEN "relative" ELSE "absolute",
           x |-> field(layout.x), y |-> field(layout.y),
           buttons |-> Unsigned(buf, base + layout.buttons.off, layout.buttons.bits)]

\* By the boot protocol.
DecodeBoot(buf) ==
  [kind |-> "relative", x |-> Signed(buf, 8, 8), y |-> Signed(buf, 16, 8),
   buttons |-> Unsigned(buf, 0, 8)]

Decode(layout, proto, buf) ==
  IF layout.valid THEN DecodeByLayout(layout, buf)
  ELSE IF proto = 2 THEN DecodeBoot(buf) ELSE Nothing
=============================================================================
