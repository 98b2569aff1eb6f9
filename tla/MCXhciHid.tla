----------------------------- MODULE MCXhciHid -----------------------------
(***************************************************************************)
(* Instances of XhciHid: the configuration descriptors of two devices.     *)
(***************************************************************************)
EXTENDS XhciHid

\* A configuration of n bytes in all.
ConfigHeader(n) == <<9, 2, n, 0, 1, 1, 0, 160, 50>>

\* QEMU's usb-kbd (run.sh:153): a boot keyboard on endpoint 81.
Keyboard ==
  ConfigHeader(34) \o <<9, 4, 0, 0, 1, 3, 1, 1, 0>>
  \o <<9, 33, 17, 1, 0, 1, 34, 63, 0>> \o <<7, 5, 129, 3, 8, 0, 10>>

\* A mouse behind an interface of its maker's, which has an interrupt IN
\* endpoint too (83); the HID interface has an OUT endpoint (02) before 81.
Mouse ==
  ConfigHeader(57) \o <<9, 4, 0, 0, 1, 255, 0, 0, 0>> \o <<7, 5, 131, 3, 8, 0, 10>>
  \o <<9, 4, 1, 0, 2, 3, 0, 0, 0>> \o <<9, 33, 17, 1, 0, 1, 34, 74, 0>>
  \o <<7, 5, 2, 3, 8, 0, 10>> \o <<7, 5, 129, 3, 8, 0, 10>>

MCConfig    == <<Keyboard, Mouse>>
MCInterface == <<0, 1>>
MCEndpoint  == <<129, 129>>

\* The hypothesis of the theorem about EagerBootFindsAll holds of these devices.
ASSUME FoundAssumption == WalkFinds
=============================================================================
