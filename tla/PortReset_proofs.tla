--------------------------- MODULE PortReset_proofs ---------------------------
(***************************************************************************)
(* Proofs about the reset of a root port, for every number of polls and    *)
(* attempts and however often a wait gives up early or the hardware fails. *)
(*                                                                         *)
(* PortInv says what the driver may rely on at each of its steps, although *)
(* the register it read may have changed since: as long as the hardware    *)
(* has not failed (Untroubled), as long as no wait was cut short either    *)
(* (Patient), and on a port that could be used from the start (LeftAlone). *)
(***************************************************************************)
EXTENDS PortReset, TLAPS

Register ==
  [ccs : BOOLEAN, pp : BOOLEAN, ped : BOOLEAN, u0 : BOOLEAN, pr : BOOLEAN,
   speed : {"none", "super", "high"}, change : BOOLEAN]

Scan   == {"poll", "power", "polled", "look"}
Places == Scan \cup {"begin", "powerOn", "reread", "clear", "cleared", "check", "attempt", "reset",
                     "resetWrite", "resetWait", "wait", "u0", "u0Write", "wait2", "done"}

PortTypes ==
  /\ port \in Register /\ ps \in Register
  /\ device \in {"none", "usb2", "usb3"} /\ strict \in BOOLEAN /\ usable \in BOOLEAN
  /\ pc \in Places /\ reset \in {"none", "warm", "cold"}
  /\ verdict \in {"none", "empty", "ready", "notReady"}
  /\ (pc = "done") <=> (verdict # "none")
  /\ pc \in Scan \cup {"begin", "powerOn", "reread"} => reset = "none"
  /\ pc \in {"reset", "resetWrite", "resetWait", "wait", "u0", "u0Write", "wait2"} => reset # "none"
  /\ round \in Nat /\ early \in Nat /\ faults \in Nat

\* A port in reset is connected and not enabled; a connected one knows its speed.
Hardwired ==
  /\ port.pr => port.ccs /\ ~port.ped
  /\ port.ccs => port.speed # "none"

\* Nothing has failed: what is connected and powered stays so, nothing is reset
\* before the first attempt, and a port that was ready when it was read still is.
Untroubled ==
  /\ device = "none" => ~port.ccs
  /\ pc \notin {"poll", "power"} => port.pp
  /\ pc \notin Scan => ps.pp /\ (port.ccs \/ verdict = "empty")
  /\ pc \notin Scan \cup {"done"} => ps.ccs
  /\ pc \notin {"powerOn", "reread"}
  /\ reset = "none" => ~port.pr /\ ~ps.pr
  /\ pc \in {"clear", "check"} /\ reset = "none" /\ Ready(ps) => Ready(port)
  /\ verdict = "ready" => Ready(port)

\* No wait was cut short, and writing back PED does no harm: a device was seen in
\* time, the first reset works, and until it has, it is under way.
Patient ==
  /\ pc = "look" => device = "none" \/ port.ccs
  /\ verdict = "empty" => device = "none"
  /\ pc \notin Scan => round = 1
  /\ pc = "look" => round = 1
  /\ pc \notin {"u0", "u0Write", "wait2"} /\ verdict # "notReady"
  /\ pc = "attempt" => reset = "none"
  /\ pc \in {"resetWait", "clear", "cleared", "check", "wait"} /\ reset # "none" =>
       port.pr \/ Ready(port)

\* A port that was ready from the start.
LeftAlone ==
  /\ pc \in {"clear", "cleared", "check", "done"} /\ reset = "none"
  /\ Ready(port)
  /\ pc \in {"clear", "check"} => Ready(ps)

PortInv ==
  /\ PortTypes /\ Hardwired
  /\ faults = 0 => Untroubled
  /\ faults = 0 /\ early = 0 /\ ~strict => Patient
  /\ faults = 0 /\ usable /\ ~strict => LeftAlone


LEMMA BitsOfRegister ==
  ASSUME NEW r \in Register, NEW pp \in BOOLEAN, NEW change \in BOOLEAN, NEW pr \in BOOLEAN,
         NEW ped \in BOOLEAN, NEW u0 \in BOOLEAN
  PROVE  [r EXCEPT !.pp = pp, !.change = change, !.pr = pr, !.ped = ped, !.u0 = u0] \in Register
BY DEF Register

\* What a write does to the register, bit by bit.
LEMMA WriteBits ==
  ASSUME PortTypes, NEW v \in Register, NEW w1c \in BOOLEAN, NEW lws \in BOOLEAN,
         Write(v, w1c, lws)
  PROVE  /\ port' \in Register
         /\ port'.pp = v.pp /\ port'.ccs = port.ccs /\ port'.speed = port.speed
         /\ port'.pr <=> port.pr \/ (v.pr /\ port.ccs)
         /\ port'.ped <=> port.ped /\ ~(v.ped /\ strict) /\ ~(v.pr /\ port.ccs)
         /\ port'.u0 <=> (port.u0 \/ (lws /\ port.ped)) /\ ~(v.ped /\ strict)
                         /\ ~(v.pr /\ port.ccs)
         /\ UNCHANGED <<device, strict, early, faults>>
<1> DEFINE off    == v.ped /\ strict
           start  == v.pr /\ port.ccs
           change == port.change /\ ~w1c
           pr     == port.pr \/ start
           ped    == port.ped /\ ~off /\ ~start
           u0     == (port.u0 \/ (lws /\ port.ped)) /\ ~off /\ ~start
<1>1. port \in Register
  BY DEF PortTypes
<1>2. port' = [port EXCEPT !.pp = v.pp, !.change = change, !.pr = pr, !.ped = ped, !.u0 = u0]
  BY DEF Write
<1>3. port' \in Register
  <2>1. v.pp \in BOOLEAN
    BY DEF Register
  <2>2. change \in BOOLEAN /\ pr \in BOOLEAN /\ ped \in BOOLEAN /\ u0 \in BOOLEAN
    OBVIOUS
  <2> HIDE DEF change, pr, ped, u0
  <2>3. [port EXCEPT !.pp = v.pp, !.change = change, !.pr = pr, !.ped = ped, !.u0 = u0]
          \in Register
    BY ONLY <1>1, <2>1, <2>2, BitsOfRegister, ZenonT(30)
  <2> QED BY ONLY <1>2, <2>3
<1>4. port'.pp = v.pp /\ port'.ccs = port.ccs /\ port'.speed = port.speed
  BY <1>1, <1>2 DEF Register
<1>5. port'.pr = (port.pr \/ start)
  BY <1>1, <1>2, Zenon DEF Register
<1>6. port'.ped = (port.ped /\ ~off /\ ~start)
  BY <1>1, <1>2, Zenon DEF Register
<1>7. port'.u0 = ((port.u0 \/ (lws /\ port.ped)) /\ ~off /\ ~start)
  BY <1>1, <1>2, Zenon DEF Register
<1>8. UNCHANGED <<device, strict, early, faults>>
  BY DEF Write
<1> QED BY <1>3, <1>4, <1>5, <1>6, <1>7, <1>8


LEMMA PortInit == Init => PortInv
<1> SUFFICES ASSUME Init PROVE PortInv
  OBVIOUS
<1>1. Off \in Register /\ [Off EXCEPT !.pp = TRUE] \in Register
  BY DEF Off, Register
<1>2. PortTypes
  BY <1>1 DEF Init, PortTypes, Places, Scan
<1>3. ~port.ccs /\ ~port.pr /\ ~ps.pr
  BY DEF Init, Off
<1>4. Hardwired
  BY <1>3 DEF Hardwired
<1>5. Untroubled
  BY <1>3 DEF Init, Untroubled, Scan
<1>6. Patient
  BY DEF Init, Patient, Scan
<1> QED BY <1>2, <1>4, <1>5, <1>6 DEF PortInv, Init

LEMMA PollInv == PortInv /\ Poll => PortInv'
<1> SUFFICES ASSUME PortInv, Poll PROVE PortInv'
  OBVIOUS
<1> USE DEF PortInv, Poll, Goto, Read, NoWrite, Places, Scan
<1>1. PortTypes' /\ Hardwired'
  BY DEF PortTypes, Hardwired
<1>2. faults' = 0 => Untroubled'
  BY DEF PortTypes, Untroubled, Ready
<1>3. faults' = 0 /\ early' = 0 /\ ~strict' => Patient'
  BY DEF PortTypes, Patient, Untroubled
<1>4. faults' = 0 /\ usable' /\ ~strict' => LeftAlone'
  BY DEF LeftAlone
<1> QED BY <1>1, <1>2, <1>3, <1>4

LEMMA BeginInv == PortInv /\ Begin => PortInv'
<1> SUFFICES ASSUME PortInv, Begin PROVE PortInv'
  OBVIOUS
<1> USE DEF PortInv, Begin, Goto, Read, NoWrite, Places, Scan
<1>1. PortTypes' /\ Hardwired'
  BY DEF PortTypes, Hardwired, Ready
<1>2. faults' = 0 => Untroubled'
  BY DEF PortTypes, Untroubled, Ready
<1>3. faults' = 0 /\ early' = 0 /\ ~strict' => Patient'
  BY DEF PortTypes, Patient, Untroubled
<1>4. faults' = 0 /\ usable' /\ ~strict' => LeftAlone'
  BY DEF PortTypes, LeftAlone, Untroubled, Ready
<1> QED BY <1>1, <1>2, <1>3, <1>4


\* The delay after a poll of the power.
LEMMA PolledInv == PortInv /\ Polled => PortInv'
<1> SUFFICES ASSUME PortInv, Polled PROVE PortInv'
  OBVIOUS
<1> USE DEF PortInv, Polled, GiveUp, Busy, Connecting, Goto, Read, NoWrite, Places, Scan
<1>1. PortTypes' /\ Hardwired'
  BY DEF PortTypes, Hardwired
<1>2. faults' = 0 => Untroubled'
  BY DEF PortTypes, Untroubled, Ready
<1>3. faults' = 0 /\ early' = 0 /\ ~strict' => Patient'
  BY DEF PortTypes, Patient, Untroubled
<1>4. faults' = 0 /\ usable' /\ ~strict' => LeftAlone'
  BY DEF PortTypes, LeftAlone, Untroubled, Ready
<1> QED BY <1>1, <1>2, <1>3, <1>4

\* The scan looks at the port.
LEMMA LookInv == PortInv /\ Look => PortInv'
<1> SUFFICES ASSUME PortInv, Look PROVE PortInv'
  OBVIOUS
<1> USE DEF PortInv, Look, Goto, Read, NoWrite, Places, Scan
<1>1. PortTypes' /\ Hardwired'
  BY DEF PortTypes, Hardwired
<1>2. faults' = 0 => Untroubled'
  BY DEF PortTypes, Untroubled, Ready
<1>3. faults' = 0 /\ early' = 0 /\ ~strict' => Patient'
  BY DEF PortTypes, Patient, Untroubled
<1>4. faults' = 0 /\ usable' /\ ~strict' => LeftAlone'
  BY DEF PortTypes, LeftAlone, Untroubled, Ready
<1> QED BY <1>1, <1>2, <1>3, <1>4

\* PORTSC is read again after a write, or before one.
LEMMA RereadInv == PortInv /\ Reread => PortInv'
<1> SUFFICES ASSUME PortInv, Reread PROVE PortInv'
  OBVIOUS
<1> USE DEF PortInv, Reread, Goto, Read, NoWrite, Places, Scan
<1>1. PortTypes' /\ Hardwired'
  BY DEF PortTypes, Hardwired
<1>2. faults' = 0 => Untroubled'
  BY DEF PortTypes, Untroubled, Ready
<1>3. faults' = 0 /\ early' = 0 /\ ~strict' => Patient'
  BY DEF PortTypes, Patient, Untroubled
<1>4. faults' = 0 /\ usable' /\ ~strict' => LeftAlone'
  BY DEF PortTypes, LeftAlone, Untroubled, Ready
<1> QED BY <1>1, <1>2, <1>3, <1>4

\* PORTSC is read again after the change bits.
LEMMA ClearedInv == PortInv /\ Cleared => PortInv'
<1> SUFFICES ASSUME PortInv, Cleared PROVE PortInv'
  OBVIOUS
<1> USE DEF PortInv, Cleared, Goto, Read, NoWrite, Places, Scan
<1>1. PortTypes' /\ Hardwired'
  BY DEF PortTypes, Hardwired
<1>2. faults' = 0 => Untroubled'
  BY DEF PortTypes, Untroubled, Ready
<1>3. faults' = 0 /\ early' = 0 /\ ~strict' => Patient'
  BY DEF PortTypes, Patient, Untroubled
<1>4. faults' = 0 /\ usable' /\ ~strict' => LeftAlone'
  BY DEF PortTypes, LeftAlone, Untroubled, Ready
<1> QED BY <1>1, <1>2, <1>3, <1>4

\* Whether the port is ready as it is, or whether there was a reset.
LEMMA CheckInv == PortInv /\ Check => PortInv'
<1> SUFFICES ASSUME PortInv, Check PROVE PortInv'
  OBVIOUS
<1> USE DEF PortInv, Check, Finish, Goto, Read, NoWrite, Places, Scan
<1>1. PortTypes' /\ Hardwired'
  BY DEF PortTypes, Hardwired
<1>2. faults' = 0 => Untroubled'
  BY DEF PortTypes, Untroubled, Ready
<1>3. faults' = 0 /\ early' = 0 /\ ~strict' => Patient'
  BY DEF PortTypes, Patient, Untroubled
<1>4. faults' = 0 /\ usable' /\ ~strict' => LeftAlone'
  BY DEF PortTypes, LeftAlone, Untroubled, Ready
<1> QED BY <1>1, <1>2, <1>3, <1>4

\* The next attempt, or none.
LEMMA AttemptInv == PortInv /\ Attempt => PortInv'
<1> SUFFICES ASSUME PortInv, Attempt PROVE PortInv'
  OBVIOUS
<1> USE DEF PortInv, Attempt, Finish, Goto, Read, NoWrite, Places, Scan
<1>1. PortTypes' /\ Hardwired'
  BY DEF PortTypes, Hardwired
<1>2. faults' = 0 => Untroubled'
  BY DEF PortTypes, Untroubled, Ready
<1>3. faults' = 0 /\ early' = 0 /\ ~strict' => Patient'
  BY PortAssumption DEF PortTypes, Patient, Untroubled
<1>4. faults' = 0 /\ usable' /\ ~strict' => LeftAlone'
  BY DEF PortTypes, LeftAlone, Untroubled, Ready
<1> QED BY <1>1, <1>2, <1>3, <1>4

\* The reset begins with a read.
LEMMA ResetReadInv == PortInv /\ ResetRead => PortInv'
<1> SUFFICES ASSUME PortInv, ResetRead PROVE PortInv'
  OBVIOUS
<1> USE DEF PortInv, ResetRead, Goto, Read, NoWrite, Places, Scan
<1>1. PortTypes' /\ Hardwired'
  BY DEF PortTypes, Hardwired
<1>2. faults' = 0 => Untroubled'
  BY DEF PortTypes, Untroubled, Ready
<1>3. faults' = 0 /\ early' = 0 /\ ~strict' => Patient'
  BY DEF PortTypes, Patient, Untroubled
<1>4. faults' = 0 /\ usable' /\ ~strict' => LeftAlone'
  BY DEF PortTypes, LeftAlone, Untroubled, Ready
<1> QED BY <1>1, <1>2, <1>3, <1>4

\* The wait for PR.
LEMMA ResetWaitInv == PortInv /\ ResetWait => PortInv'
<1> SUFFICES ASSUME PortInv, ResetWait PROVE PortInv'
  OBVIOUS
<1> USE DEF PortInv, ResetWait, GiveUp, Busy, Goto, Read, NoWrite, Places, Scan
<1>1. PortTypes' /\ Hardwired'
  BY DEF PortTypes, Hardwired
<1>2. faults' = 0 => Untroubled'
  BY DEF PortTypes, Untroubled, Ready
<1>3. faults' = 0 /\ early' = 0 /\ ~strict' => Patient'
  BY DEF PortTypes, Patient, Untroubled
<1>4. faults' = 0 /\ usable' /\ ~strict' => LeftAlone'
  BY DEF PortTypes, LeftAlone, Untroubled, Ready
<1> QED BY <1>1, <1>2, <1>3, <1>4

\* The wait for the port.
LEMMA WaitInv == PortInv /\ Wait("wait", "u0") => PortInv'
<1> SUFFICES ASSUME PortInv, Wait("wait", "u0") PROVE PortInv'
  OBVIOUS
<1> USE DEF PortInv, Wait, Finish, GiveUp, Busy, Goto, Read, NoWrite, Places, Scan
<1>1. PortTypes' /\ Hardwired'
  BY DEF PortTypes, Hardwired
<1>2. faults' = 0 => Untroubled'
  BY DEF PortTypes, Untroubled, Ready
<1>3. faults' = 0 /\ early' = 0 /\ ~strict' => Patient'
  BY DEF PortTypes, Patient, Untroubled, Ready
<1>4. faults' = 0 /\ usable' /\ ~strict' => LeftAlone'
  BY DEF PortTypes, LeftAlone, Untroubled, Ready
<1> QED BY <1>1, <1>2, <1>3, <1>4

\* The wait after U0 was forced.
LEMMA WaitAfterInv == PortInv /\ Wait("wait2", "next") => PortInv'
<1> SUFFICES ASSUME PortInv, Wait("wait2", "next") PROVE PortInv'
  OBVIOUS
<1> USE DEF PortInv, Wait, Finish, GiveUp, Busy, Goto, Read, NoWrite, Places, Scan
<1>1. PortTypes' /\ Hardwired'
  BY DEF PortTypes, Hardwired
<1>2. faults' = 0 => Untroubled'
  BY DEF PortTypes, Untroubled, Ready
<1>3. faults' = 0 /\ early' = 0 /\ ~strict' => Patient'
  BY DEF PortTypes, Patient, Untroubled
<1>4. faults' = 0 /\ usable' /\ ~strict' => LeftAlone'
  BY DEF PortTypes, LeftAlone, Untroubled, Ready
<1> QED BY <1>1, <1>2, <1>3, <1>4

\* Whether U0 has to be forced.
LEMMA ForceU0Inv == PortInv /\ ForceU0 => PortInv'
<1> SUFFICES ASSUME PortInv, ForceU0 PROVE PortInv'
  OBVIOUS
<1> USE DEF PortInv, ForceU0, Goto, Read, NoWrite, Places, Scan
<1>1. PortTypes' /\ Hardwired'
  BY DEF PortTypes, Hardwired
<1>2. faults' = 0 => Untroubled'
  BY DEF PortTypes, Untroubled, Ready
<1>3. faults' = 0 /\ early' = 0 /\ ~strict' => Patient'
  BY DEF PortTypes, Patient, Untroubled
<1>4. faults' = 0 /\ usable' /\ ~strict' => LeftAlone'
  BY DEF PortTypes, LeftAlone, Untroubled, Ready
<1> QED BY <1>1, <1>2, <1>3, <1>4


\* The change bits are cleared: all of what was read is written back.
LEMMA ClearInv == PortInv /\ Clear => PortInv'
<1> SUFFICES ASSUME PortInv, Clear PROVE PortInv'
  OBVIOUS
<1> USE DEF PortInv, Places, Scan
<1>1. CASE ~ps.change
  <2> USE <1>1 DEF Clear, Goto, NoWrite
  <2>1. PortTypes' /\ Hardwired'
    BY DEF PortTypes, Hardwired
  <2>2. faults' = 0 => Untroubled'
    BY DEF PortTypes, Untroubled, Ready
  <2>3. faults' = 0 /\ early' = 0 /\ ~strict' => Patient'
    BY DEF PortTypes, Patient, Untroubled, Ready
  <2>4. faults' = 0 /\ usable' /\ ~strict' => LeftAlone'
    BY DEF PortTypes, LeftAlone, Untroubled, Ready
  <2> QED BY <2>1, <2>2, <2>3, <2>4
<1>2. CASE ps.change
  <2>1. ps \in Register /\ Write(ps, TRUE, FALSE)
    BY <1>2 DEF PortTypes, Clear
  <2>2. /\ port' \in Register
        /\ port'.pp = ps.pp /\ port'.ccs = port.ccs /\ port'.speed = port.speed
        /\ port'.pr <=> port.pr \/ (ps.pr /\ port.ccs)
        /\ port'.ped <=> port.ped /\ ~(ps.ped /\ strict) /\ ~(ps.pr /\ port.ccs)
        /\ port'.u0 <=> port.u0 /\ ~(ps.ped /\ strict) /\ ~(ps.pr /\ port.ccs)
        /\ UNCHANGED <<device, strict, early, faults>>
    BY <2>1, WriteBits
  <2>3. UNCHANGED <<ps, round, reset, verdict, usable>> /\ pc = "clear" /\ pc' = "cleared"
    BY <1>2 DEF Clear, Goto
  <2> USE <2>2, <2>3
  <2>4. PortTypes' /\ Hardwired'
    BY DEF PortTypes, Hardwired
  <2>5. faults' = 0 => Untroubled'
    BY DEF PortTypes, Untroubled, Ready
  <2>6. faults' = 0 /\ early' = 0 /\ ~strict' => Patient'
    BY DEF PortTypes, Patient, Untroubled, Ready
  <2>7. faults' = 0 /\ usable' /\ ~strict' => LeftAlone'
    BY DEF PortTypes, LeftAlone, Untroubled, Ready
  <2> QED BY <2>4, <2>5, <2>6, <2>7
<1> QED BY <1>1, <1>2


\* The scan switches the power on.
LEMMA PowerInv == PortInv /\ Power => PortInv'
<1> SUFFICES ASSUME PortInv, Power PROVE PortInv'
  OBVIOUS
<1> DEFINE v == [ps EXCEPT !.pp = TRUE]
<1>1. v \in Register /\ v.pp /\ v.ped = ps.ped /\ v.pr = ps.pr
  BY DEF PortInv, PortTypes, Register
<1>2. Write(v, FALSE, FALSE)
  BY DEF Power
<1> HIDE DEF v
<1>3. /\ port' \in Register
      /\ port'.pp = v.pp /\ port'.ccs = port.ccs /\ port'.speed = port.speed
      /\ port'.pr <=> port.pr \/ (v.pr /\ port.ccs)
      /\ port'.ped <=> port.ped /\ ~(v.ped /\ strict) /\ ~(v.pr /\ port.ccs)
      /\ port'.u0 <=> port.u0 /\ ~(v.ped /\ strict) /\ ~(v.pr /\ port.ccs)
      /\ UNCHANGED <<device, strict, early, faults>>
  BY <1>1, <1>2, WriteBits DEF PortInv
<1>4. UNCHANGED <<ps, round, reset, verdict, usable>>
  BY DEF Power
<1>5. pc = "power" /\ pc' = "polled"
  BY DEF Power, Goto
<1> USE <1>1, <1>3, <1>4, <1>5 DEF PortInv, Places, Scan
<1>6. PortTypes' /\ Hardwired'
  BY DEF PortTypes, Hardwired
<1>7. faults' = 0 => Untroubled'
  BY DEF PortTypes, Untroubled, Ready
<1>8. faults' = 0 /\ early' = 0 /\ ~strict' => Patient'
  BY DEF PortTypes, Patient, Untroubled
<1>9. faults' = 0 /\ usable' /\ ~strict' => LeftAlone'
  BY DEF PortTypes, LeftAlone, Untroubled, Ready
<1> QED BY <1>6, <1>7, <1>8, <1>9

\* So does the driver, if it is off when the port is made ready.
LEMMA PowerOnInv == PortInv /\ PowerOn => PortInv'
<1> SUFFICES ASSUME PortInv, PowerOn PROVE PortInv'
  OBVIOUS
<1> DEFINE v == [ps EXCEPT !.pp = TRUE]
<1>1. v \in Register /\ v.pp /\ v.ped = ps.ped /\ v.pr = ps.pr
  BY DEF PortInv, PortTypes, Register
<1>2. Write(v, FALSE, FALSE)
  BY DEF PowerOn
<1> HIDE DEF v
<1>3. /\ port' \in Register
      /\ port'.pp = v.pp /\ port'.ccs = port.ccs /\ port'.speed = port.speed
      /\ port'.pr <=> port.pr \/ (v.pr /\ port.ccs)
      /\ port'.ped <=> port.ped /\ ~(v.ped /\ strict) /\ ~(v.pr /\ port.ccs)
      /\ port'.u0 <=> port.u0 /\ ~(v.ped /\ strict) /\ ~(v.pr /\ port.ccs)
      /\ UNCHANGED <<device, strict, early, faults>>
  BY <1>1, <1>2, WriteBits DEF PortInv
<1>4. UNCHANGED <<ps, round, reset, verdict, usable>>
  BY DEF PowerOn
<1>5. pc = "powerOn" /\ pc' = "reread"
  BY DEF PowerOn, Goto
<1> USE <1>1, <1>3, <1>4, <1>5 DEF PortInv, Places, Scan
<1>6. PortTypes' /\ Hardwired'
  BY DEF PortTypes, Hardwired
<1>7. faults' = 0 => Untroubled'
  BY DEF PortTypes, Untroubled, Ready
<1>8. faults' = 0 /\ early' = 0 /\ ~strict' => Patient'
  BY DEF PortTypes, Patient, Untroubled
<1>9. faults' = 0 /\ usable' /\ ~strict' => LeftAlone'
  BY DEF PortTypes, LeftAlone, Untroubled, Ready
<1> QED BY <1>6, <1>7, <1>8, <1>9

\* The reset is started.
LEMMA ResetWriteInv == PortInv /\ ResetWrite => PortInv'
<1> SUFFICES ASSUME PortInv, ResetWrite PROVE PortInv'
  OBVIOUS
<1> DEFINE v == [ps EXCEPT !.pr = TRUE]
<1>1. v \in Register /\ v.pr /\ v.ped = ps.ped /\ v.pp = ps.pp
  BY DEF PortInv, PortTypes, Register
<1>2. Write(v, FALSE, FALSE)
  BY DEF ResetWrite
<1> HIDE DEF v
<1>3. /\ port' \in Register
      /\ port'.pp = v.pp /\ port'.ccs = port.ccs /\ port'.speed = port.speed
      /\ port'.pr <=> port.pr \/ (v.pr /\ port.ccs)
      /\ port'.ped <=> port.ped /\ ~(v.ped /\ strict) /\ ~(v.pr /\ port.ccs)
      /\ port'.u0 <=> port.u0 /\ ~(v.ped /\ strict) /\ ~(v.pr /\ port.ccs)
      /\ UNCHANGED <<device, strict, early, faults>>
  BY <1>1, <1>2, WriteBits DEF PortInv
<1>4. UNCHANGED <<ps, round, reset, verdict, usable>>
  BY DEF ResetWrite
<1>5. pc = "resetWrite" /\ pc' = "resetWait"
  BY DEF ResetWrite, Goto
<1> USE <1>1, <1>3, <1>4, <1>5 DEF PortInv, Places, Scan
<1>6. PortTypes' /\ Hardwired'
  BY DEF PortTypes, Hardwired
<1>7. faults' = 0 => Untroubled'
  BY DEF PortTypes, Untroubled, Ready
<1>8. faults' = 0 /\ early' = 0 /\ ~strict' => Patient'
  BY DEF PortTypes, Patient, Untroubled
<1>9. faults' = 0 /\ usable' /\ ~strict' => LeftAlone'
  BY DEF PortTypes, LeftAlone, Untroubled, Ready
<1> QED BY <1>6, <1>7, <1>8, <1>9

\* The link is forced to U0.
LEMMA ForceU0WriteInv == PortInv /\ ForceU0Write => PortInv'
<1> SUFFICES ASSUME PortInv, ForceU0Write PROVE PortInv'
  OBVIOUS
<1>1. ps \in Register /\ Write(ps, FALSE, TRUE)
  BY DEF PortInv, PortTypes, ForceU0Write
<1>3. /\ port' \in Register
      /\ port'.pp = ps.pp /\ port'.ccs = port.ccs /\ port'.speed = port.speed
      /\ port'.pr <=> port.pr \/ (ps.pr /\ port.ccs)
      /\ port'.ped <=> port.ped /\ ~(ps.ped /\ strict) /\ ~(ps.pr /\ port.ccs)
      /\ port'.u0 <=> (port.u0 \/ port.ped) /\ ~(ps.ped /\ strict) /\ ~(ps.pr /\ port.ccs)
      /\ UNCHANGED <<device, strict, early, faults>>
  BY <1>1, WriteBits DEF PortInv
<1>4. UNCHANGED <<ps, round, reset, verdict, usable>>
  BY DEF ForceU0Write
<1>5. pc = "u0Write" /\ pc' = "wait2"
  BY DEF ForceU0Write, Goto
<1> USE <1>1, <1>3, <1>4, <1>5 DEF PortInv, Places, Scan
<1>6. PortTypes' /\ Hardwired'
  BY DEF PortTypes, Hardwired
<1>7. faults' = 0 => Untroubled'
  BY DEF PortTypes, Untroubled, Ready
<1>8. faults' = 0 /\ early' = 0 /\ ~strict' => Patient'
  BY DEF PortTypes, Patient, Untroubled
<1>9. faults' = 0 /\ usable' /\ ~strict' => LeftAlone'
  BY DEF PortTypes, LeftAlone, Untroubled, Ready
<1> QED BY <1>6, <1>7, <1>8, <1>9


\* The port sees its device.
LEMMA ConnectInv == PortInv /\ Connect => PortInv'
<1> SUFFICES ASSUME PortInv, Connect PROVE PortInv'
  OBVIOUS
<1> USE DEF PortInv
<1>1. port \in Register /\ device \in {"usb2", "usb3"} /\ ~port.ccs /\ ~port.pr /\ port.pp
  BY DEF PortTypes, Hardwired, Connect, Connecting
<1>2. PICK up \in BOOLEAN :
        /\ port' = [port EXCEPT !.ccs = TRUE, !.change = TRUE, !.ped = up, !.u0 = up,
                                !.speed = Speed(device)]
        /\ faults' = faults \/ faults' = faults + 1
  <2>1. PICK trained \in BOOLEAN :
          LET up == trained /\ device = "usb3"
          IN /\ port' = [port EXCEPT !.ccs = TRUE, !.change = TRUE, !.ped = up, !.u0 = up,
                                     !.speed = Speed(device)]
             /\ faults' = faults \/ faults' = faults + 1
    BY DEF Connect, Fault
  <2> QED BY <2>1, Zenon
<1>3. Speed(device) \in {"super", "high"}
  BY DEF Speed
<1>4. /\ port' \in Register /\ port'.ccs /\ ~port'.pr /\ port'.pp /\ port'.speed # "none"
  BY <1>1, <1>2, <1>3 DEF Register
<1>5. UNCHANGED <<device, strict, driver, early>>
  BY DEF Connect
<1>6. faults' \in Nat /\ (faults' = 0 => faults = 0)
  BY <1>2 DEF PortTypes
<1> USE <1>1, <1>4, <1>5, <1>6 DEF driver, Places, Scan
<1>7. PortTypes' /\ Hardwired'
  BY DEF PortTypes, Hardwired
<1>8. faults' = 0 => Untroubled'
  BY DEF PortTypes, Untroubled, Ready
<1>9. faults' = 0 /\ early' = 0 /\ ~strict' => Patient'
  BY DEF PortTypes, Patient, Untroubled, Ready
<1>10. faults' = 0 /\ usable' /\ ~strict' => LeftAlone'
  BY DEF PortTypes, LeftAlone, Untroubled, Ready
<1> QED BY <1>7, <1>8, <1>9, <1>10

\* A reset ends, well or not.
LEMMA FinishResetInv == PortInv /\ FinishReset => PortInv'
<1> SUFFICES ASSUME PortInv, FinishReset PROVE PortInv'
  OBVIOUS
<1> USE DEF PortInv
<1>1. port \in Register /\ port.pr /\ port.ccs /\ ~port.ped
  BY DEF PortTypes, Hardwired, FinishReset
<1>2. PICK ok \in BOOLEAN :
        /\ port' = [port EXCEPT !.pr = FALSE, !.change = TRUE,
                                !.ped = ok /\ port.ccs, !.u0 = ok /\ port.ccs]
        /\ IF ok THEN faults' = faults ELSE faults' = faults + 1
  BY DEF FinishReset, Fault
<1>3. (ok /\ port.ccs) = ok
  BY <1>1
<1>4. /\ port' \in Register /\ port'.ccs = port.ccs /\ ~port'.pr /\ port'.pp = port.pp
      /\ port'.speed = port.speed
  BY <1>1, <1>2, <1>3 DEF Register
<1>5. port'.ped = ok /\ port'.u0 = ok
  BY <1>1, <1>2, <1>3 DEF Register
<1>6. UNCHANGED <<device, strict, driver, early>>
  BY DEF FinishReset
<1>7. faults' \in Nat /\ (faults' = 0 => faults = 0 /\ ok)
  BY <1>2 DEF PortTypes
<1> USE <1>1, <1>4, <1>5, <1>6, <1>7 DEF driver, Places, Scan
<1>8. PortTypes' /\ Hardwired'
  BY DEF PortTypes, Hardwired
<1>9. faults' = 0 => Untroubled'
  BY DEF PortTypes, Untroubled, Ready, Hardwired
<1>10. faults' = 0 /\ early' = 0 /\ ~strict' => Patient'
  BY DEF PortTypes, Patient, Untroubled, Ready, Hardwired
<1>11. faults' = 0 /\ usable' /\ ~strict' => LeftAlone'
  BY DEF PortTypes, LeftAlone, Untroubled, Ready
<1> QED BY <1>8, <1>9, <1>10, <1>11

\* The device is unplugged, or the power fails: the hardware is to blame.
LEMMA FailureInv == PortInv /\ (Unplug \/ PowerLoss) => PortInv'
<1> SUFFICES ASSUME PortInv, Unplug \/ PowerLoss PROVE PortInv'
  OBVIOUS
<1> USE DEF PortInv
<1>1. /\ port' \in Register /\ ~port'.ccs /\ ~port'.pr
      /\ device' \in {"none", device}
  <2>1. \A pp \in BOOLEAN : [Off EXCEPT !.pp = pp, !.change = TRUE] \in Register
    BY DEF Off, Register
  <2>2. [Off EXCEPT !.change = TRUE] \in Register
    BY DEF Off, Register
  <2>3. CASE Unplug
    <3>1. port.pp \in BOOLEAN
      BY DEF PortTypes, Register
    <3>2. port' = [Off EXCEPT !.pp = port.pp, !.change = TRUE] /\ device' = "none"
      BY <2>3 DEF Unplug
    <3>3. ~port'.ccs /\ ~port'.pr
      BY <3>2 DEF Off
    <3> QED BY <2>1, <3>1, <3>2, <3>3
  <2>4. CASE PowerLoss
    <3>1. port' = [Off EXCEPT !.change = TRUE] /\ device' = device
      BY <2>4 DEF PowerLoss
    <3>2. ~port'.ccs /\ ~port'.pr
      BY <3>1 DEF Off
    <3> QED BY <2>2, <3>1, <3>2
  <2> QED BY <2>3, <2>4
<1>2. faults' = faults + 1 /\ UNCHANGED <<strict, driver, early>>
  BY DEF Unplug, PowerLoss, Fault
<1>3. PortTypes' /\ Hardwired' /\ faults' # 0
  BY <1>1, <1>2 DEF PortTypes, Hardwired, driver, Scan
<1> QED BY <1>3

LEMMA PortStep == PortInv /\ [Next]_vars => PortInv'
<1> SUFFICES ASSUME PortInv, [Next]_vars PROVE PortInv'
  OBVIOUS
<1>1. CASE Driver
  BY <1>1, PollInv, PowerInv, PolledInv, LookInv, BeginInv, PowerOnInv, RereadInv, ClearInv,
     ClearedInv, CheckInv, AttemptInv, ResetReadInv, ResetWriteInv, ResetWaitInv, WaitInv,
     ForceU0Inv, ForceU0WriteInv, WaitAfterInv DEF Driver
<1>2. CASE Hardware \/ Unplug \/ PowerLoss
  BY <1>2, ConnectInv, FinishResetInv, FailureInv DEF Hardware
<1>3. CASE UNCHANGED vars
  BY <1>3 DEF vars, driver, PortInv, PortTypes, Hardwired, Untroubled, Patient, LeftAlone, Ready
<1> QED BY <1>1, <1>2, <1>3 DEF Next

\* Whatever the port does between the driver's reads and writes, the invariant holds.
THEOREM PortInvariant == Spec => []PortInv
BY PortInit, PortStep, PTL DEF Spec

\* A port said to be ready is ready, with no reset still under way, and a device
\* that works is found and made ready -- within the first attempt.
THEOREM VerdictsAreRight == Spec => []VerdictRight
<1>1. PortInv => VerdictRight
  <2> SUFFICES ASSUME PortInv, pc = "done", faults = 0
               PROVE  /\ verdict = "ready" => Ready(port) /\ ~port.pr
                      /\ ~strict /\ early = 0 =>
                           verdict = IF device = "none" THEN "empty" ELSE "ready"
    BY DEF VerdictRight
  <2>1. verdict = "ready" => Ready(port) /\ ~port.pr
    BY DEF PortInv, Hardwired, Untroubled, Ready
  <2>2. ASSUME ~strict, early = 0
        PROVE  verdict = IF device = "none" THEN "empty" ELSE "ready"
    BY <2>2 DEF PortInv, PortTypes, Untroubled, Patient, Scan
  <2> QED BY <2>1, <2>2
<1> QED BY <1>1, PortInvariant, PTL

\* A port that could be used from the start is not reset.
THEOREM UsableLeftAlone == Spec => UsableNotReset
<1>1. PortInv /\ [Next]_vars =>
        [usable /\ ~strict /\ faults = 0 => (port'.pr => port.pr)]_vars
  <2> SUFFICES ASSUME PortInv, Next, usable, ~strict, faults = 0, port'.pr PROVE port.pr
    OBVIOUS
  <2>1. LeftAlone /\ ~ps.pr /\ port \in Register
    BY DEF PortInv, LeftAlone, Untroubled, PortTypes
  <2>2. CASE Clear
    <3>1. CASE ps.change
      <4>1. ps \in Register /\ Write(ps, TRUE, FALSE)
        BY <2>2, <3>1 DEF PortInv, PortTypes, Clear
      <4>2. port'.pr <=> port.pr \/ (ps.pr /\ port.ccs)
        BY <4>1, WriteBits DEF PortInv
      <4> QED BY <2>1, <4>2
    <3>2. CASE ~ps.change
      BY <2>2, <3>2 DEF Clear, NoWrite
    <3> QED BY <3>1, <3>2
  <2>3. CASE Cleared \/ Check
    BY <2>3 DEF Cleared, Check, NoWrite
  <2>4. CASE Hardware
    <3>1. ~FinishReset
      BY <2>1 DEF FinishReset, PortInv, Hardwired, LeftAlone, Ready
    <3>2. ~Connect
      BY <2>1 DEF Connect, Connecting, LeftAlone, Ready
    <3> QED BY <2>4, <3>1, <3>2 DEF Hardware
  <2>5. CASE Unplug
    BY <2>5 DEF Unplug, Off
  <2>6. CASE PowerLoss
    BY <2>6 DEF PowerLoss, Off
  <2>7. Driver => Clear \/ Cleared \/ Check
    BY <2>1 DEF LeftAlone, Driver, Poll, Power, Polled, Look, Begin, PowerOn, Reread, Attempt,
                ResetRead, ResetWrite, ResetWait, Wait, ForceU0, ForceU0Write
  <2> QED BY <2>2, <2>3, <2>4, <2>5, <2>6, <2>7 DEF Next
<1> QED BY <1>1, PortInvariant, PTL DEF Spec, UsableNotReset

=============================================================================
