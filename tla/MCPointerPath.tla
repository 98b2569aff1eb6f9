--------------------------- MODULE MCPointerPath ---------------------------
(***************************************************************************)
(* Instances of PointerPath: real report descriptors, byte for byte.       *)
(***************************************************************************)
EXTENDS PointerPath

\* The first collections of all: usage page Generic Desktop, usage Mouse, and
\* a physical collection of usage Pointer inside.
MouseCollection == <<5, 1, 9, 2, 161, 1, 9, 1, 161, 0>>

\* Three buttons and five bits of padding.
ThreeButtons ==
  <<5, 9, 25, 1, 41, 3, 21, 0, 37, 1, 149, 3, 117, 1, 129, 2, 149, 1, 117, 5, 129, 1>>

\* QEMU's usb-mouse: X, Y and wheel, 8 bits, relative.
MouseDesc ==
  MouseCollection \o ThreeButtons \o
  <<5, 1, 9, 48, 9, 49, 9, 56, 21, 129, 37, 127, 117, 8, 149, 3, 129, 6, 192, 192>>

\* QEMU's usb-tablet (run.sh:154): X and Y, 16 bits, 0 to 7FFF, and a wheel.
TabletDesc ==
  MouseCollection \o ThreeButtons \o
  <<5, 1, 9, 48, 9, 49, 21, 0, 38, 255, 127, 53, 0, 70, 255, 127, 117, 16, 149, 2, 129, 2,
    5, 1, 9, 56, 21, 129, 37, 127, 53, 0, 69, 0, 117, 8, 149, 1, 129, 6, 192, 192>>

\* A keyboard (report 1, with its LEDs as an output) and a mouse (report 2, X
\* and Y of 12 bits) behind one receiver.
ComboDesc ==
  <<5, 1, 9, 6, 161, 1, 133, 1, 5, 7, 25, 224, 41, 231, 21, 0, 37, 1, 117, 1, 149, 8, 129, 2,
    149, 3, 5, 8, 25, 1, 41, 3, 145, 2, 149, 1, 117, 8, 129, 1, 192,
    5, 1, 9, 2, 161, 1, 133, 2, 9, 1, 161, 0>> \o ThreeButtons \o
  <<5, 1, 22, 1, 248, 38, 255, 7, 9, 48, 9, 49, 117, 12, 149, 2, 129, 6, 192, 192>>

\* A mouse without a collection inside, X and Y (16 bits) given as a range of
\* usages and before the buttons, and a long item, which is skipped.
WideDesc ==
  <<5, 1, 9, 2, 161, 1, 254, 2, 16, 9, 9, 25, 48, 41, 49, 22, 0, 128, 38, 255, 127,
    117, 16, 149, 2, 129, 6>> \o ThreeButtons \o <<192>>

Field(what, bits) == [what |-> what, bits |-> bits]

Mouse ==
  [boot |-> TRUE, proto |-> 2, desc |-> MouseDesc, id |-> 0, other |-> <<>>, max |-> 0,
   report |-> <<Field("buttons", 8), Field("x", 8), Field("y", 8), Field("rest", 8)>>,
   moves |-> {[x |-> -128, y |-> 1, buttons |-> 1], [x |-> 2, y |-> 127, buttons |-> 0],
              [x |-> 127, y |-> -1, buttons |-> 6]}]

Tablet ==
  [boot |-> FALSE, proto |-> 0, desc |-> TabletDesc, id |-> 0, other |-> <<>>, max |-> 32767,
   report |-> <<Field("buttons", 8), Field("x", 16), Field("y", 16), Field("rest", 8)>>,
   moves |-> {[x |-> 0, y |-> 32767, buttons |-> 1], [x |-> 32767, y |-> 16383, buttons |-> 0],
              [x |-> 16384, y |-> 0, buttons |-> 4]}]

Combo ==
  [boot |-> FALSE, proto |-> 1, desc |-> ComboDesc, id |-> 2, max |-> 0,
   other |-> BitsOf(1, 8) \o BitsOf(255, 8) \o BitsOf(4, 8),
   report |-> <<Field("id", 8), Field("buttons", 3), Field("rest", 5),
                Field("x", 12), Field("y", 12)>>,
   moves |-> {[x |-> -2048, y |-> 1, buttons |-> 1], [x |-> 1, y |-> 2047, buttons |-> 0],
              [x |-> 300, y |-> -1, buttons |-> 5]}]

Wide ==
  [boot |-> FALSE, proto |-> 2, desc |-> WideDesc, id |-> 0, other |-> <<>>, max |-> 0,
   report |-> <<Field("x", 16), Field("y", 16), Field("buttons", 3), Field("rest", 5)>>,
   moves |-> {[x |-> -32768, y |-> 1, buttons |-> 1], [x |-> 2, y |-> 256, buttons |-> 7],
              [x |-> 384, y |-> -1, buttons |-> 0]}]

MCDevice == [mouse |-> Mouse, tablet |-> Tablet, combo |-> Combo, wide |-> Wide]

\* The hypothesis of the theorem about PathInv holds of these devices.
ASSUME DescribedAssumption == ReportsDescribed
=============================================================================
