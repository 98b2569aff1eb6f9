--------------------------- MODULE ConfigDescriptor ---------------------------
(***************************************************************************)
(* What the driver takes from the configuration descriptor of a device: a  *)
(* HID interface and an interrupt endpoint (the walk over the descriptors  *)
(* in xhci_ep0_get_config_and_set_config, xhci.c).  The descriptors are    *)
(* the bytes the device sends, one after the other.                        *)
(***************************************************************************)
EXTENDS Naturals, Sequences, SequencesExt

NoInterface == 255
HidClass    == 3
BootSub     == 1

NoHid == [ifnum |-> NoInterface, sub |-> 0, proto |-> 0, reportLen |-> 0, ep |-> 0, mps |-> 0]

\* The walk ends at a descriptor that is too short or reaches beyond the end.
DescriptorsOf(bytes) ==
  LET n == Len(bytes)
      from[off \in 0 .. n] ==
        IF off + 2 > n THEN <<>>
        ELSE LET len == bytes[off + 1]
             IN IF len < 2 \/ off + len > n THEN <<>>
                ELSE <<SubSeq(bytes, off + 1, off + len)>> \o from[off + len]
  IN from[0]

Word(d, i) == d[i] + 256 * d[i + 1]

\* The interface the walk is at, and what was found so far.
AtStart == [class |-> 0, sub |-> 0, hid |-> NoHid]

IsHid(st) == st.class = HidClass /\ st.sub \in {0, BootSub}

\* The number kept is that of the last HID interface.
InterfaceDesc(st, d) ==
  LET now == [st EXCEPT !.class = d[6], !.sub = d[7]]
  IN IF IsHid(now)
     THEN [now EXCEPT !.hid.ifnum = d[3], !.hid.sub = d[7], !.hid.proto = d[8]]
     ELSE now

HidDesc(st, d) ==
  IF st.class = HidClass THEN [st EXCEPT !.hid.reportLen = Word(d, 8)] ELSE st

\* The first interrupt IN endpoint of a HID interface.
EndpointDesc(st, d) ==
  IF st.hid.ep = 0 /\ IsHid(st) /\ d[3] >= 128 /\ d[4] % 4 = 3
  THEN [st EXCEPT !.hid.ep = d[3], !.hid.mps = Word(d, 5)]
  ELSE st

Visit(st, d) ==
  CASE d[2] = 4 /\ Len(d) >= 9  -> InterfaceDesc(st, d)
    [] d[2] = 33 /\ Len(d) >= 9 -> HidDesc(st, d)
    [] d[2] = 5 /\ Len(d) >= 7  -> EndpointDesc(st, d)
    [] OTHER -> st

HidOf(bytes) == FoldLeft(Visit, AtStart, DescriptorsOf(bytes)).hid
=============================================================================
