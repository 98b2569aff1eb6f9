---------------------------- MODULE TrbRing_proofs ----------------------------
(***************************************************************************)
(* Proofs about the TRB ring, for every ring size and every window, and of *)
(* the ring of a pointing device (PointerPath), for any set of devices.    *)
(*                                                                         *)
(* Everything follows from RingInv, which says where each TRB of the lap   *)
(* in progress and of the lap before it lies, and how far apart the two    *)
(* sides can be.  TLC checks RingInv on a ring of 8 TRBs (PointerPath.cfg).*)
(*                                                                         *)
(* That the movements of the user arrive follows from Following: whatever  *)
(* the device still has to report and the driver to read puts the pointer  *)
(* where the user has it.  It rests on what the driver's arithmetic finds  *)
(* in a report (SplitsUp, FieldsAre, ReadsBack), for fields of any width   *)
(* up to 31 bits at any bit, and on the types of what the parser leaves    *)
(* behind, whatever the descriptor is (LayoutHasNumbers).  Recursive       *)
(* functions are shown to exist, and to keep to a set, by Recursion, and   *)
(* followed by Climb: induction, said of a set of numbers.                 *)
(***************************************************************************)
EXTENDS PointerPath, WellFoundedInduction, TLAPS

\* The ring is built in a state of the invariant.
LEMMA RingInit == Init => RingInv
<1> SUFFICES ASSUME Init PROVE RingInv
  OBVIOUS
<1> USE RingAssumption DEF Init, Cells, Link, Base, CBase
<1>1. TypeOK
  BY DEF TypeOK
<1>2. SameLap /\ Fresh
  BY DEF SameLap, Fresh
<1>3. Stale
  BY DEF Stale
<1> QED BY <1>1, <1>2, <1>3 DEF RingInv

\* A TRB the controller owns, other than the Link TRB, is the oldest in flight.
LEMMA OwnedIsOldest == RingInv => ExecutesInOrder
<1> SUFFICES ASSUME RingInv, deq # Link, Owned(deq)
             PROVE  done < pushed /\ ring[deq].trb = done + 1
  BY DEF ExecutesInOrder
<1> USE RingAssumption DEF RingInv, TypeOK, Owned, Base, CBase, Cells, Link
<1>1. CASE SameLap
  <2>1. deq < index
    BY <1>1 DEF SameLap, Stale
  <2> QED BY <1>1, <2>1 DEF SameLap, Fresh
<1>2. CASE LapBehind
  <2>1. deq >= index
    BY <1>2 DEF LapBehind, Fresh
  <2>2. ring[deq].trb = Base - (N - 1) + deq + 1
    BY <1>2, <2>1 DEF LapBehind, Stale
  <2> QED BY <1>2, <2>1, <2>2 DEF LapBehind
<1> QED BY <1>1, <1>2

\* Pushing preserves the invariant: the window keeps the driver from meeting the
\* controller from behind.
LEMMA PushInv == RingInv /\ Push => RingInv'
<1> SUFFICES ASSUME RingInv, Push PROVE RingInv'
  OBVIOUS
<1> USE RingAssumption DEF RingInv, TypeOK, Base, CBase, Cells, Link, controller
<1>1. TypeOK' /\ done' <= pushed' /\ pushed' - done' <= Window /\ CBase' >= 0
  BY DEF Push
<1>0. /\ ring'[index].cycle = cycle /\ ring'[index].trb = pushed + 1
      /\ \A i \in 0 .. N - 2 : i # index => ring'[i] = ring[i]
      /\ pushed' = pushed + 1
  BY DEF Push
<1>2. CASE index + 1 # Link
  <2>1. index' = index + 1 /\ cycle' = cycle /\ Base' = Base
    BY <1>2 DEF Push
  <2>2. SameLap' \/ LapBehind'
    BY <2>1 DEF Push, SameLap, LapBehind
  <2>3. Fresh'
    <3> SUFFICES ASSUME NEW i \in 0 .. index' - 1
                 PROVE  ring'[i].cycle = cycle' /\ ring'[i].trb = Base' + i + 1
      BY DEF Fresh
    <3>1. CASE i = index
      BY <1>0, <2>1, <3>1
    <3>2. CASE i # index
      <4>1. i \in 0 .. index - 1 /\ ring'[i] = ring[i]
        BY <1>0, <2>1, <3>2
      <4> QED BY <2>1, <4>1 DEF Fresh
    <3> QED BY <3>1, <3>2
  <2>4. Stale'
    BY <1>1, <1>0, <2>1 DEF Stale
  <2> QED BY <1>1, <2>1, <2>2, <2>3, <2>4
<1>3. CASE index + 1 = Link
  <2>1. index' = 0 /\ cycle' = 1 - cycle /\ Base' = Base + N - 1
    BY <1>3 DEF Push
  <2>2. SameLap
    BY <1>3 DEF Push, SameLap, LapBehind
  <2>3. LapBehind'
    BY <2>1, <2>2 DEF Push, SameLap, LapBehind
  <2>4. Fresh'
    BY <2>1 DEF Fresh
  <2>5. Stale'
    <3> SUFFICES ASSUME NEW i \in 0 .. N - 2
                 PROVE  ring'[i].cycle = 1 - cycle' /\ ring'[i].trb = Base' - (N - 1) + i + 1
      BY <2>1 DEF Stale
    <3>1. ring'[i].cycle = cycle /\ ring'[i].trb = Base + i + 1
      <4>1. CASE i = index
        BY <1>0, <4>1
      <4>2. CASE i # index
        <5>1. i \in 0 .. index - 1 /\ ring'[i] = ring[i]
          BY <1>3, <1>0, <4>2
        <5> QED BY <5>1 DEF Fresh
      <4> QED BY <4>1, <4>2
    <3> QED BY <1>1, <1>0, <2>1, <3>1
  <2>6. Base' >= 0 /\ Base' >= N - 1
    BY <2>1
  <2> QED BY <1>1, <2>3, <2>4, <2>5, <2>6
<1> QED BY <1>2, <1>3

\* Executing preserves the invariant.
LEMMA ExecuteInv == RingInv /\ Execute => RingInv'
<1> SUFFICES ASSUME RingInv, Execute PROVE RingInv'
  OBVIOUS
<1>1. done < pushed /\ done' = done + 1
  BY OwnedIsOldest DEF Execute, ExecutesInOrder
<1> USE RingAssumption DEF RingInv, TypeOK, Base, CBase, Cells, Link, driver
<1>2. TypeOK' /\ done' <= pushed' /\ pushed' - done' <= Window
  BY <1>1 DEF Execute
<1>3. CBase' = CBase /\ Base' = Base
  BY <1>1 DEF Execute
<1>4. SameLap' \/ LapBehind'
  BY <1>3 DEF Execute, SameLap, LapBehind
<1>5. Fresh' /\ Stale'
  BY DEF Execute, Fresh, Stale
<1> QED BY <1>2, <1>3, <1>4, <1>5

\* The controller follows the Link TRB only when it is a lap behind, and catches
\* up with the driver's lap.
LEMMA FollowLinkInv == RingInv /\ FollowLink => RingInv'
<1> SUFFICES ASSUME RingInv, FollowLink PROVE RingInv'
  OBVIOUS
<1> USE RingAssumption DEF RingInv, TypeOK, Base, CBase, Cells, Link, driver
<1>1. LapBehind
  BY DEF FollowLink, SameLap
<1>2. SameLap'
  BY <1>1 DEF FollowLink, SameLap, LapBehind
<1>3. Fresh' /\ Stale'
  BY DEF FollowLink, Fresh, Stale
<1> QED BY <1>1, <1>2, <1>3 DEF FollowLink, LapBehind

\* No step leaves the invariant.
LEMMA RingStep == RingInv /\ [Next]_vars => RingInv'
<1> SUFFICES ASSUME RingInv, [Next]_vars PROVE RingInv'
  OBVIOUS
<1>1. CASE Push
  BY <1>1, PushInv
<1>2. CASE Execute
  BY <1>2, ExecuteInv
<1>3. CASE FollowLink
  BY <1>3, FollowLinkInv
<1>4. CASE UNCHANGED vars
  BY <1>4 DEF vars, driver, controller, RingInv, TypeOK, Base, CBase, SameLap,
              LapBehind, Fresh, Stale
<1> QED BY <1>1, <1>2, <1>3, <1>4 DEF Next

\* RingInv is an invariant of the driver and the controller together.
THEOREM RingInvariant == Spec => []RingInv
<1> QED BY RingInit, RingStep, PTL DEF Spec

\* The variables keep their types.
THEOREM TypeCorrect == Spec => []TypeOK
<1>1. RingInv => TypeOK
  BY DEF RingInv
<1> QED BY <1>1, RingInvariant, PTL

\* The controller is never handed a TRB twice, out of order, or left over from
\* an earlier lap.
THEOREM InOrder == Spec => []ExecutesInOrder
<1> QED BY OwnedIsOldest, RingInvariant, PTL

\* A TRB in flight is still in the ring: the driver never overwrites one.
THEOREM NeverOverwritten == Spec => []NoOverwrite
<1>1. RingInv => NoOverwrite
  <2> SUFFICES ASSUME RingInv, NEW k \in done + 1 .. pushed
               PROVE  \E i \in 0 .. N - 2 : ring[i].trb = k
    BY DEF NoOverwrite
  <2> USE RingAssumption DEF RingInv, TypeOK, Base, CBase
  <2>1. CASE k > Base
    <3>1. k - Base - 1 \in 0 .. index - 1
      BY <2>1
    <3>2. ring[k - Base - 1].trb = k
      BY <3>1 DEF Fresh
    <3> QED BY <3>1, <3>2
  <2>2. CASE k <= Base
    <3>1. k - Base + (N - 1) - 1 \in index .. N - 2
      BY <2>2
    <3>2. Base # 0
      BY <2>2
    <3>3. ring[k - Base + (N - 1) - 1].trb = k
      BY <3>1, <3>2 DEF Stale
    <3> QED BY <3>1, <3>3
  <2> QED BY <2>1, <2>2
<1> QED BY <1>1, RingInvariant, PTL

\* Every step of the driver or of the controller is a push, the execution of the
\* oldest request, or invisible.
LEMMA QueueStep == RingInv /\ [Next]_vars => [Queue!QueueNext]_<<pushed, done>>
<1> SUFFICES ASSUME RingInv, [Next]_vars
             PROVE  [Queue!QueueNext]_<<pushed, done>>
  OBVIOUS
<1>1. CASE Push
  BY <1>1 DEF Push, controller, Queue!QueueNext, Queue!QueuePush
<1>2. CASE Execute
  BY <1>2, OwnedIsOldest DEF Execute, ExecutesInOrder, driver,
                             Queue!QueueNext, Queue!QueueExecute
<1>3. CASE FollowLink
  BY <1>3 DEF FollowLink, driver
<1>4. CASE UNCHANGED vars
  BY <1>4 DEF vars, driver, controller
<1> QED BY <1>1, <1>2, <1>3, <1>4 DEF Next

\* The ring implements the abstract queue.
THEOREM RingIsQueue == Spec => ImplementsQueue
<1>1. Init => Queue!QueueInit
  BY DEF Init, Queue!QueueInit
<1> QED BY <1>1, QueueStep, RingInvariant, PTL DEF Spec, ImplementsQueue, Queue!QueueSpec

-----------------------------------------------------------------------------
(* The ring of a pointing device. *)

\* Everyone on the way of a movement uses the ring as driver and controller do.
LEMMA PathMoves == [PathNext]_pathVars => [Next]_vars
BY DEF PathNext, OtherRing, Wrap, UserMoves, UserTypes, DeviceReports, StartPolling, ReadReport,
       Next, pathVars

\* A report is waiting only for a TRB that was executed.
PathSafe == RingInv /\ unread \in Nat /\ unread <= done /\ BufferNotShared

LEMMA PathSafeStep == PathSafe /\ [PathNext]_pathVars => PathSafe'
<1> SUFFICES ASSUME PathSafe, [PathNext]_pathVars PROVE PathSafe'
  OBVIOUS
<1>1. RingInv'
  BY PathMoves, RingStep DEF PathSafe
<1>2. pushed \in Nat /\ done \in Nat /\ done <= pushed
  BY DEF PathSafe, RingInv, TypeOK
<1> USE <1>2 DEF PathSafe, BufferNotShared
<1>3. CASE OtherRing
  <2>1. done' >= done
    <3>1. CASE Push
      BY <3>1 DEF Push, controller
    <3>2. CASE Execute
      BY <3>2, OwnedIsOldest DEF Execute, ExecutesInOrder
    <3> QED BY <1>3, <3>1, <3>2 DEF OtherRing
  <2>2. done' \in Nat
    BY <1>1 DEF RingInv, TypeOK
  <2> QED BY <1>1, <1>3, <2>1, <2>2 DEF OtherRing, path
<1>4. CASE DeviceReports
  <2>1. done' = done + 1 /\ pushed' = pushed
    BY <1>4, OwnedIsOldest DEF DeviceReports, Execute, ExecutesInOrder, driver
  <2> QED BY <1>1, <1>4, <2>1 DEF DeviceReports
<1>5. CASE StartPolling \/ ReadReport
  <2>1. done' = done /\ pushed' = pushed + 1
    BY <1>5 DEF StartPolling, ReadReport, Push, controller
  <2> QED BY <1>1, <1>5, <2>1 DEF StartPolling, ReadReport, path
<1>6. CASE Wrap \/ UserMoves \/ UserTypes \/ UNCHANGED pathVars
  BY <1>1, <1>6 DEF Wrap, FollowLink, UserMoves, UserTypes, pathVars, path, vars, driver, controller
<1> QED BY <1>3, <1>4, <1>5, <1>6 DEF PathNext

LEMMA PathSafety == PathSpec => []PathSafe
<1>1. PathInit => PathSafe
  BY RingInit DEF PathInit, PathSafe, BufferNotShared, Init
<1> QED BY <1>1, PathSafeStep, PTL DEF PathSpec

\* A device never writes over a report that is still to be read: the driver arms
\* the endpoint of a device once at the start and once for every report it read.
THEOREM BufferKept == PathSpec => []BufferNotShared
<1>1. PathSafe => BufferNotShared
  BY DEF PathSafe
<1> QED BY <1>1, PathSafety, PTL

\* The ring keeps its invariant on the way of a movement, too,
THEOREM PathRingInvariant == PathSpec => []RingInv
<1>1. PathSafe => RingInv
  BY DEF PathSafe
<1> QED BY <1>1, PathSafety, PTL

\* hands out TRBs in order,
THEOREM PathInOrder == PathSpec => []ExecutesInOrder
BY OwnedIsOldest, PathRingInvariant, PTL

\* and is a queue.
THEOREM PathIsQueue == PathSpec => ImplementsQueue
<1>1. PathInit => Queue!QueueInit
  BY DEF PathInit, Init, Queue!QueueInit
<1> QED BY <1>1, QueueStep, PathMoves, PathRingInvariant, PTL
        DEF PathSpec, ImplementsQueue, Queue!QueueSpec

\* What is pending at the device and in the buffer, once read, puts the pointer
\* where the user has it.
After == IF unread = 1 THEN Moved(pointer, Decode(layout, Device[dev].proto, buf)) ELSE pointer

Screen == [x : 0 .. Width - 1, y : 0 .. Height - 1, buttons : Nat]

PathTypes ==
  /\ dev \in Devices \cup {NoDevice}
  /\ dev # NoDevice => layout \in {NoLayout, LayoutOf(Device[dev].desc)}
  /\ dev = NoDevice => unread = 0 /\ input = NoInput
  /\ pointer \in Screen /\ hand \in [x : Int, y : Int, buttons : Nat]
  /\ unread \in {0, 1} /\ buf \in Seq({0, 1})
  /\ input = NoInput \/ (input.kind \in {"move", "other"} /\ input.bits \in Seq({0, 1}))

Pending ==
  dev # NoDevice /\ Understood(Device[dev], layout) =>
    CASE input = NoInput -> hand = After
      [] input.kind = "move" ->
           \E m \in Device[dev].moves :
             input.bits = Encoded(Device[dev], m) /\ hand = Meant(After, Device[dev], m)
      [] input.kind = "other" ->
           Device[dev].other # <<>> /\ input.bits = Device[dev].other /\ hand = After

Following == PathTypes /\ Pending
-----------------------------------------------------------------------------
(* Induction, and recursive functions. *)

\* A set of numbers that has 0, and with each number the next, has them all.
LEMMA Climb ==
  ASSUME NEW T \in SUBSET Nat, 0 \in T, \A n \in T : n + 1 \in T
  PROVE  T = Nat
<1> DEFINE R == OpToRel(<, Nat)
<1>1. IsWellFoundedOn(R, Nat)
  BY NatLessThanWellFounded
<1>2. \A x, y \in Nat : y < x => <<y, x>> \in R
  BY Zenon DEF OpToRel
<1> HIDE DEF R
<1>3. SUFFICES ASSUME Nat \ T # {} PROVE FALSE
  OBVIOUS
<1>4. PICK x \in Nat \ T : \A y \in Nat \ T : <<y, x>> \notin R
  BY <1>1, <1>3, WFMin
<1>5. x # 0 /\ x - 1 \in Nat /\ x - 1 < x
  BY <1>4
<1>6. x - 1 \in T
  BY <1>2, <1>4, <1>5
<1> QED BY <1>4, <1>5, <1>6

\* The powers of two the driver uses.
LEMMA Powers ==
  /\ 2 ^ 0 = 1
  /\ \A n \in 0 .. 31 : 2 ^ (n + 1) = 2 * 2 ^ n
  /\ \A n \in 0 .. 32 : 2 ^ n \in Nat /\ 2 ^ n > 0
<1> DEFINE P == [n \in 0 .. 32 |-> 2 ^ n]
<1>0. P = [n \in 0 .. 32 |-> 2 ^ n]
  OBVIOUS
<1>1. /\ 2 ^ 0 = 1 /\ 2 ^ 1 = 2 /\ 2 ^ 2 = 4 /\ 2 ^ 3 = 8
      /\ 2 ^ 4 = 16 /\ 2 ^ 5 = 32 /\ 2 ^ 6 = 64 /\ 2 ^ 7 = 128
      /\ 2 ^ 8 = 256 /\ 2 ^ 9 = 512 /\ 2 ^ 10 = 1024 /\ 2 ^ 11 = 2048
      /\ 2 ^ 12 = 4096 /\ 2 ^ 13 = 8192 /\ 2 ^ 14 = 16384 /\ 2 ^ 15 = 32768
      /\ 2 ^ 16 = 65536 /\ 2 ^ 17 = 131072 /\ 2 ^ 18 = 262144 /\ 2 ^ 19 = 524288
      /\ 2 ^ 20 = 1048576 /\ 2 ^ 21 = 2097152 /\ 2 ^ 22 = 4194304 /\ 2 ^ 23 = 8388608
      /\ 2 ^ 24 = 16777216 /\ 2 ^ 25 = 33554432 /\ 2 ^ 26 = 67108864 /\ 2 ^ 27 = 134217728
      /\ 2 ^ 28 = 268435456 /\ 2 ^ 29 = 536870912 /\ 2 ^ 30 = 1073741824 /\ 2 ^ 31 = 2147483648
      /\ 2 ^ 32 = 4294967296
  OBVIOUS
<1> HIDE DEF P
<1>2. /\ P[0] = 1 /\ P[1] = 2 /\ P[2] = 4 /\ P[3] = 8
      /\ P[4] = 16 /\ P[5] = 32 /\ P[6] = 64 /\ P[7] = 128
      /\ P[8] = 256 /\ P[9] = 512 /\ P[10] = 1024 /\ P[11] = 2048
      /\ P[12] = 4096 /\ P[13] = 8192 /\ P[14] = 16384 /\ P[15] = 32768
      /\ P[16] = 65536 /\ P[17] = 131072 /\ P[18] = 262144 /\ P[19] = 524288
      /\ P[20] = 1048576 /\ P[21] = 2097152 /\ P[22] = 4194304 /\ P[23] = 8388608
      /\ P[24] = 16777216 /\ P[25] = 33554432 /\ P[26] = 67108864 /\ P[27] = 134217728
      /\ P[28] = 268435456 /\ P[29] = 536870912 /\ P[30] = 1073741824 /\ P[31] = 2147483648
      /\ P[32] = 4294967296
  BY <1>0, <1>1
<1>3. \A n \in 0 .. 31 : P[n + 1] = 2 * P[n]
  <2> SUFFICES ASSUME NEW n \in 0 .. 31 PROVE P[n + 1] = 2 * P[n]
    OBVIOUS
  <2>1. CASE n \in 0 .. 9
    BY <1>2, <2>1
  <2>2. CASE n \in 10 .. 20
    BY <1>2, <2>2
  <2>3. CASE n \in 21 .. 31
    BY <1>2, <2>3
  <2> QED BY <2>1, <2>2, <2>3
<1>4. \A n \in 0 .. 32 : P[n] \in Nat /\ P[n] > 0
  <2> SUFFICES ASSUME NEW n \in 0 .. 32 PROVE P[n] \in Nat /\ P[n] > 0
    OBVIOUS
  <2>1. CASE n \in 0 .. 9
    BY <1>2, <2>1
  <2>2. CASE n \in 10 .. 20
    BY <1>2, <2>2
  <2>3. CASE n \in 21 .. 32
    BY <1>2, <2>3
  <2> QED BY <2>1, <2>2, <2>3
<1> QED BY <1>0, <1>1, <1>3, <1>4

\* f takes one step after the other.
Recurs(f, last, base, step) ==
  f = [n \in 0 .. last |-> IF n = 0 THEN base ELSE step[n][f[n - 1]]]

\* A recursive function exists, and its values stay in V.
LEMMA Recursion ==
  ASSUME NEW last \in Nat, NEW V, NEW base \in V, NEW step \in [1 .. last -> [V -> V]]
  PROVE  \E f \in [0 .. last -> V] : Recurs(f, last, base, step)
<1> DEFINE T == {m \in Nat : m <= last => \E f \in [0 .. m -> V] : Recurs(f, m, base, step)}
<1>1. 0 \in T
  <2>1. /\ [n \in 0 .. 0 |-> base] \in [0 .. 0 -> V]
        /\ Recurs([n \in 0 .. 0 |-> base], 0, base, step)
    BY DEF Recurs
  <2> QED BY <2>1
<1>2. ASSUME NEW m \in T PROVE m + 1 \in T
  <2>1. SUFFICES ASSUME m + 1 <= last
                 PROVE  \E f \in [0 .. m + 1 -> V] : Recurs(f, m + 1, base, step)
    OBVIOUS
  <2>2. PICK f \in [0 .. m -> V] : Recurs(f, m, base, step)
    BY <2>1
  <2> DEFINE v == step[m + 1][f[m]]
             g == [n \in 0 .. m + 1 |-> IF n = m + 1 THEN v ELSE f[n]]
  <2>3. v \in V
    <3>1. f[m] \in V /\ m + 1 \in 1 .. last
      BY <2>1
    <3> QED BY <3>1
  <2> HIDE DEF v
  <2>4. /\ g \in [0 .. m + 1 -> V] /\ g[m + 1] = v
        /\ \A n \in 0 .. m : g[n] = f[n]
    BY <2>3
  <2>5. ASSUME NEW n \in 0 .. m + 1
        PROVE  g[n] = IF n = 0 THEN base ELSE step[n][g[n - 1]]
    <3>1. CASE n = m + 1
      <4>1. n # 0 /\ n - 1 = m /\ m \in 0 .. m
        BY <3>1
      <4>2. g[n - 1] = f[m]
        BY <2>4, <4>1
      <4> QED BY <2>4, <3>1, <4>1, <4>2 DEF v
    <3>2. CASE n # m + 1
      <4>1. n \in 0 .. m /\ (n # 0 => n - 1 \in 0 .. m)
        BY <3>2
      <4>2. f[n] = IF n = 0 THEN base ELSE step[n][f[n - 1]]
        BY <2>2, <4>1 DEF Recurs
      <4> HIDE DEF g
      <4> QED BY <2>4, <4>1, <4>2
    <3> QED BY <3>1, <3>2
  <2>6. g = [n \in 0 .. m + 1 |-> g[n]]
    OBVIOUS
  <2> HIDE DEF g
  <2>7. Recurs(g, m + 1, base, step)
    BY <2>5, <2>6 DEF Recurs
  <2> QED BY <2>4, <2>7
<1> HIDE DEF T
<1>3. T = Nat
  BY <1>1, <1>2, Climb DEF T
<1> QED BY <1>3 DEF T

-----------------------------------------------------------------------------
(* Numbers and their bits. *)

\* What is left of v after each bit, in two's complement.
Halves(h, v, bits) ==
  h \in [0 .. bits -> Int] /\ h[0] = v /\ \A n \in 1 .. bits : h[n] = h[n - 1] \div 2

LEMMA BitsAre ==
  ASSUME NEW bits \in Nat, NEW v \in Int
  PROVE  /\ BitsOf(v, bits) \in [1 .. bits -> {0, 1}]
         /\ \E h : Halves(h, v, bits) /\ \A i \in 1 .. bits : BitsOf(v, bits)[i] = h[i - 1] % 2
<1> DEFINE step == [n \in 1 .. bits |-> [w \in Int |-> w \div 2]]
           half == CHOOSE f : f = [n \in 0 .. bits |-> IF n = 0 THEN v ELSE f[n - 1] \div 2]
<1>1. step \in [1 .. bits -> [Int -> Int]] /\ \A n \in 1 .. bits, w \in Int : step[n][w] = w \div 2
  OBVIOUS
<1> HIDE DEF step
<1>2. PICK f \in [0 .. bits -> Int] : Recurs(f, bits, v, step)
  BY <1>1, Recursion
<1>3. \A n \in 0 .. bits : f[n] = IF n = 0 THEN v ELSE f[n - 1] \div 2
  <2> SUFFICES ASSUME NEW n \in 0 .. bits
               PROVE  f[n] = IF n = 0 THEN v ELSE f[n - 1] \div 2
    OBVIOUS
  <2>1. f[n] = IF n = 0 THEN v ELSE step[n][f[n - 1]]
    BY <1>2 DEF Recurs
  <2>2. n # 0 => n \in 1 .. bits /\ f[n - 1] \in Int
    OBVIOUS
  <2> QED BY <1>1, <2>1, <2>2
<1>4. f = [n \in 0 .. bits |-> IF n = 0 THEN v ELSE f[n - 1] \div 2]
  BY <1>3
<1>5. half = [n \in 0 .. bits |-> IF n = 0 THEN v ELSE half[n - 1] \div 2]
  BY <1>4
<1> HIDE DEF half
<1>6. ASSUME NEW n \in Nat PROVE n <= bits => half[n] \in Int
  <2> DEFINE T == {k \in Nat : k <= bits => half[k] \in Int}
  <2>1. 0 \in T
    BY <1>5
  <2>2. ASSUME NEW k \in T PROVE k + 1 \in T
    <3>1. ASSUME k + 1 <= bits PROVE half[k + 1] = half[k] \div 2 /\ half[k] \in Int
      BY <1>5, <3>1
    <3> QED BY <3>1
  <2> HIDE DEF T
  <2>3. T = Nat
    BY <2>1, <2>2, Climb DEF T
  <2> QED BY <2>3 DEF T
<1>7. Halves(half, v, bits)
  BY <1>5, <1>6 DEF Halves
<1>8. BitsOf(v, bits) = [i \in 1 .. bits |-> half[i - 1] % 2]
  BY DEF BitsOf, half
<1>9. \A i \in 1 .. bits : half[i - 1] % 2 \in {0, 1}
  <2> SUFFICES ASSUME NEW i \in 1 .. bits PROVE half[i - 1] % 2 \in {0, 1}
    OBVIOUS
  <2>1. half[i - 1] \in Int
    BY <1>6
  <2> QED BY <2>1
<1> QED BY <1>7, <1>8, <1>9

\* The number that the first n bits of a field make.
Low(low, field) ==
  /\ low \in [0 .. Len(field) -> Nat] /\ low[0] = 0
  /\ \A n \in 1 .. Len(field) : low[n] = low[n - 1] + field[n] * 2 ^ (n - 1)

LEMMA ValueIs ==
  ASSUME NEW field \in Seq({0, 1}), Len(field) <= 32
  PROVE  /\ Value(field) \in Nat
         /\ \E low : Low(low, field) /\ Value(field) = low[Len(field)]
<1> DEFINE last == Len(field)
           step == [n \in 1 .. last |-> [w \in Nat |-> w + field[n] * 2 ^ (n - 1)]]
           val  == CHOOSE f : f = [n \in 0 .. last |->
                                     IF n = 0 THEN 0 ELSE f[n - 1] + field[n] * 2 ^ (n - 1)]
<1>0. last \in Nat /\ \A n \in 1 .. last : field[n] \in {0, 1} /\ 2 ^ (n - 1) \in Nat
  <2>1. last \in Nat /\ \A n \in 1 .. last : field[n] \in {0, 1}
    OBVIOUS
  <2>2. \A n \in 1 .. last : n - 1 \in 0 .. 32
    BY <2>1
  <2> QED BY <2>1, <2>2, Powers
<1>1. \A n \in 1 .. last, w \in Nat : w + field[n] * 2 ^ (n - 1) \in Nat
  BY <1>0
<1>2. step \in [1 .. last -> [Nat -> Nat]]
      /\ \A n \in 1 .. last, w \in Nat : step[n][w] = w + field[n] * 2 ^ (n - 1)
  BY <1>1
<1> HIDE DEF step
<1>3. PICK f \in [0 .. last -> Nat] : Recurs(f, last, 0, step)
  BY <1>0, <1>2, Recursion
<1>4. \A n \in 0 .. last :
        f[n] = IF n = 0 THEN 0 ELSE f[n - 1] + field[n] * 2 ^ (n - 1)
  <2> SUFFICES ASSUME NEW n \in 0 .. last
               PROVE  f[n] = IF n = 0 THEN 0 ELSE f[n - 1] + field[n] * 2 ^ (n - 1)
    OBVIOUS
  <2>1. f[n] = IF n = 0 THEN 0 ELSE step[n][f[n - 1]]
    BY <1>3 DEF Recurs
  <2>2. n # 0 => n \in 1 .. last /\ f[n - 1] \in Nat
    OBVIOUS
  <2> QED BY <1>2, <2>1, <2>2
<1>5. f = [n \in 0 .. last |-> IF n = 0 THEN 0 ELSE f[n - 1] + field[n] * 2 ^ (n - 1)]
  BY <1>4
<1>6. val = [n \in 0 .. last |-> IF n = 0 THEN 0 ELSE val[n - 1] + field[n] * 2 ^ (n - 1)]
  BY <1>5
<1>7. Value(field) = val[last]
  BY DEF Value
<1> HIDE DEF val
<1>8. \A n \in 0 .. last : val[n] \in Nat
  <2> DEFINE T == {k \in Nat : k <= last => val[k] \in Nat}
  <2>1. 0 \in T
    BY <1>0, <1>6
  <2>2. ASSUME NEW k \in T PROVE k + 1 \in T
    <3>1. ASSUME k + 1 <= last PROVE val[k + 1] \in Nat
      <4>1. val[k] \in Nat /\ k + 1 \in 1 .. last /\ k + 1 \in 0 .. last /\ (k + 1) - 1 = k
        BY <1>0, <3>1
      <4>2. val[k + 1] = val[k] + field[k + 1] * 2 ^ ((k + 1) - 1)
        BY <1>6, <4>1
      <4> QED BY <1>1, <4>1, <4>2
    <3> QED BY <3>1
  <2> HIDE DEF T
  <2>3. T = Nat
    BY <2>1, <2>2, Climb DEF T
  <2> QED BY <1>0, <2>3 DEF T
<1>9. Low(val, field)
  <2>1. val \in [0 .. last -> Nat]
    BY <1>6, <1>8
  <2>2. val[0] = 0
    BY <1>0, <1>6
  <2>3. ASSUME NEW n \in 1 .. last PROVE val[n] = val[n - 1] + field[n] * 2 ^ (n - 1)
    <3>1. n \in 0 .. last /\ n # 0
      BY <1>0
    <3> QED BY <1>6, <3>1
  <2> QED BY <2>1, <2>2, <2>3 DEF Low
<1> QED BY <1>0, <1>7, <1>8, <1>9

\* What the driver makes of the first bits of a number v, and what is left of v,
\* make up v.
LEMMA SplitsUp ==
  ASSUME NEW w \in 0 .. 32, NEW v \in Int, NEW h, NEW field \in Seq({0, 1}), Len(field) = w,
         Halves(h, v, w), \A i \in 1 .. w : field[i] = h[i - 1] % 2
  PROVE  /\ Value(field) \in 0 .. 2 ^ w - 1
         /\ v = h[w] * 2 ^ w + Value(field)
<1>1. PICK low : Low(low, field) /\ Value(field) = low[w]
  BY ValueIs
<1> DEFINE T == {n \in Nat : n <= w => /\ low[n] \in Nat /\ low[n] < 2 ^ n
                                       /\ v = h[n] * 2 ^ n + low[n]}
<1>2. 0 \in T
  BY <1>1, Powers DEF Low, Halves
<1>3. ASSUME NEW n \in T PROVE n + 1 \in T
  <2> SUFFICES ASSUME n + 1 <= w
               PROVE  /\ low[n + 1] \in Nat /\ low[n + 1] < 2 ^ (n + 1)
                      /\ v = h[n + 1] * 2 ^ (n + 1) + low[n + 1]
    OBVIOUS
  <2>1. n \in 0 .. 31 /\ n + 1 \in 1 .. w /\ (n + 1) - 1 = n /\ n \in 0 .. w
    OBVIOUS
  <2>2. /\ low[n] \in Nat /\ low[n] < 2 ^ n /\ v = h[n] * 2 ^ n + low[n]
        /\ h[n] \in Int /\ h[n + 1] = h[n] \div 2 /\ h[n + 1] \in Int
        /\ low[n + 1] = low[n] + (h[n] % 2) * 2 ^ n
    <3>1. low[n] \in Nat /\ low[n] < 2 ^ n /\ v = h[n] * 2 ^ n + low[n]
      BY <2>1
    <3>2. h[n] \in Int /\ h[n + 1] = h[n] \div 2 /\ h[n + 1] \in Int
      <4>1. h[n] \in Int /\ h[n + 1] \in Int
        BY <2>1 DEF Halves
      <4>2. h[n + 1] = h[(n + 1) - 1] \div 2
        BY <2>1 DEF Halves
      <4> QED BY <2>1, <4>1, <4>2
    <3>3. low[n + 1] = low[n] + field[n + 1] * 2 ^ n /\ field[n + 1] = h[n] % 2
      BY <1>1, <2>1 DEF Low
    <3> QED BY <3>1, <3>2, <3>3
  <2>3. 2 ^ n \in Nat /\ 2 ^ n > 0 /\ 2 ^ (n + 1) = 2 * 2 ^ n
    <3>1. n \in 0 .. 32
      BY <2>1
    <3> QED BY <2>1, <3>1, Powers
  <2> DEFINE p == 2 ^ n
             q == h[n] \div 2
             b == h[n] % 2
  <2>4. q \in Int /\ b \in {0, 1} /\ h[n] = 2 * q + b
    BY <2>2
  <2>5. p \in Nat /\ p > 0
    BY <2>3
  <2> HIDE DEF p, q, b
  <2>6. h[n] * p = q * (2 * p) + b * p
    BY <2>4, <2>5
  <2>7. /\ v = h[n] * p + low[n] /\ low[n + 1] = low[n] + b * p /\ h[n + 1] = q
        /\ 2 ^ (n + 1) = 2 * p /\ low[n] < p
    BY <2>2, <2>3 DEF p, q, b
  <2> DEFINE z == q * (2 * p)
             y == b * p
  <2>8. z \in Int /\ y \in Nat /\ y <= p
    BY <2>4, <2>5
  <2>9. v = z + y + low[n] /\ low[n + 1] = low[n] + y
    BY <2>6, <2>7
  <2>10. h[n + 1] * 2 ^ (n + 1) = z
    BY <2>7
  <2> HIDE DEF z, y
  <2>11. low[n] \in Nat /\ low[n] < p
    BY <2>2, <2>7
  <2>12. low[n + 1] \in Nat /\ low[n + 1] < 2 * p /\ v = z + low[n + 1]
    BY <2>5, <2>8, <2>9, <2>11, SMTT(20)
  <2> QED BY <2>7, <2>10, <2>12
<1> HIDE DEF T
<1>4. T = Nat
  BY <1>2, <1>3, Climb DEF T
<1>5. low[w] \in Nat /\ low[w] < 2 ^ w /\ v = h[w] * 2 ^ w + low[w]
  BY <1>4 DEF T
<1>6. 2 ^ w \in Nat
  BY Powers
<1> QED BY <1>1, <1>5, <1>6

\* From bit off on the buffer has v, in w bits.
Lies(got, off, w, v) ==
  \E h : Halves(h, v, w) /\ \A i \in 1 .. w : Bit(got, off + i - 1) = h[i - 1] % 2

\* A number that was written into a field is read out of it.
LEMMA ReadsBack ==
  ASSUME NEW got, NEW off, NEW w \in 0 .. 31, NEW v \in Int, Lies(got, off, w, v)
  PROVE  /\ v \in 0 .. 2 ^ w - 1 => Unsigned(got, off, w) = v
         /\ Fits(v, w) => Signed(got, off, w) = v
<1> DEFINE field == BitField(got, off, w)
           u == Unsigned(got, off, w)
<1>1. PICK h : Halves(h, v, w) /\ \A i \in 1 .. w : Bit(got, off + i - 1) = h[i - 1] % 2
  BY DEF Lies
<1>2. Taken(w) = w /\ w \in 0 .. 32
  BY DEF Taken
<1>3. field = [i \in 1 .. w |-> Bit(got, off + i - 1)]
  BY <1>2 DEF BitField
<1>4. field \in Seq({0, 1}) /\ Len(field) = w /\ \A i \in 1 .. w : field[i] = h[i - 1] % 2
  <2>1. \A i \in 1 .. w : field[i] = h[i - 1] % 2
    BY <1>1, <1>3
  <2>2. \A i \in 1 .. w : h[i - 1] \in Int
    BY <1>1 DEF Halves
  <2>3. \A i \in 1 .. w : field[i] \in {0, 1}
    BY <2>1, <2>2
  <2> HIDE DEF field
  <2>4. field = [i \in 1 .. w |-> field[i]]
    BY <1>3
  <2>5. field \in [1 .. w -> {0, 1}]
    BY <2>3, <2>4
  <2> QED BY <2>1, <2>5
<1>5. u \in 0 .. 2 ^ w - 1 /\ v = h[w] * 2 ^ w + u
  <2> HIDE DEF field
  <2>1. Value(field) \in 0 .. 2 ^ w - 1 /\ v = h[w] * 2 ^ w + Value(field)
    <3>1. Halves(h, v, w)
      BY <1>1
    <3>2. w \in 0 .. 32
      BY <1>2
    <3> QED BY ONLY v \in Int, <1>4, <3>1, <3>2, SplitsUp
  <2> QED BY <2>1 DEF field, Unsigned
<1>6. h[w] \in Int
  BY <1>1 DEF Halves
<1>7. 2 ^ w \in Nat /\ 2 ^ w > 0
  BY <1>2, Powers
<1> HIDE DEF u
<1> DEFINE p == 2 ^ w
           k == h[w]
<1>8. /\ k >= 1 => k * p >= p
      /\ k <= -2 => k * p <= -2 * p
      /\ k = 0 => k * p = 0
      /\ k = -1 => k * p = -p
  <2>1. k \in Int /\ p \in Nat
    BY <1>6, <1>7
  <2> HIDE DEF k, p
  <2>2. k >= 1 => k * p >= p
    BY <2>1
  <2>3. k <= -2 => k * p <= -2 * p
    BY <2>1
  <2> QED BY <2>1, <2>2, <2>3
<1> DEFINE z == k * p
<1>9. z \in Int /\ v = z + u /\ u \in Int /\ 0 <= u /\ u < p /\ p \in Nat /\ k \in Int
  BY <1>5, <1>6, <1>7
<1>10. /\ k >= 1 => z >= p
       /\ k <= -2 => z <= -2 * p
       /\ k = 0 => z = 0
       /\ k = -1 => z = -p
  BY <1>8
<1> HIDE DEF z, k
<1>11. ASSUME v \in 0 .. p - 1 PROVE u = v
  <2> HIDE DEF p
  <2>1. k = 0
    BY <1>9, <1>10, <1>11
  <2> QED BY <1>9, <1>10, <2>1
<1>12. ASSUME Fits(v, w) PROVE Signed(got, off, w) = v
  <2> DEFINE q == 2 ^ (w - 1)
  <2>1. w > 0 /\ -q <= v /\ v < q
    BY <1>12 DEF Fits
  <2>2. p = 2 * q /\ q \in Nat
    <3>1. w - 1 \in 0 .. 31 /\ w - 1 \in 0 .. 32 /\ (w - 1) + 1 = w
      BY <2>1
    <3>2. 2 ^ ((w - 1) + 1) = 2 * 2 ^ (w - 1) /\ 2 ^ (w - 1) \in Nat
      BY <3>1, Powers
    <3> QED BY <3>1, <3>2
  <2>3. Signed(got, off, w) = IF u >= q THEN u - p ELSE u
    BY <1>2, <2>1 DEF Signed, u
  <2> HIDE DEF p, q
  <2>4. k = 0 \/ k = -1
    BY <1>9, <1>10, <2>1, <2>2
  <2> QED BY <1>9, <1>10, <2>1, <2>2, <2>3, <2>4
<1> QED BY <1>11, <1>12 DEF u

-----------------------------------------------------------------------------
(* A report is made of its fields. *)

\* up[n] is the first n parts one after the other, at[n] how long they are.
Joining(up, at, part, last) ==
  /\ up[0] = <<>> /\ \A n \in 1 .. last : up[n] = up[n - 1] \o part[n]
  /\ at[0] = 0 /\ \A n \in 1 .. last : at[n] = at[n - 1] + Len(part[n])

\* Each of the parts lies in up[last] where at says.
Apart(up, at, part, last) ==
  /\ up[last] \in Seq({0, 1})
  /\ \A n \in 1 .. last : at[n - 1] \in Nat
  /\ \A n \in 1 .. last : \A i \in 1 .. Len(part[n]) :
       at[n - 1] + i \in 1 .. Len(up[last]) /\ up[last][at[n - 1] + i] = part[n][i]

\* Parts put one after the other are found where they were put.
LEMMA Joined ==
  ASSUME NEW last \in Nat, NEW part \in [1 .. last -> Seq({0, 1})],
         NEW up, NEW at, Joining(up, at, part, last)
  PROVE  Apart(up, at, part, last)
<1> DEFINE There(k) ==
             /\ up[k] \in Seq({0, 1}) /\ at[k] = Len(up[k])
             /\ \A n \in 1 .. k : at[n - 1] \in Nat
             /\ \A n \in 1 .. k : \A i \in 1 .. Len(part[n]) :
                  at[n - 1] + i \in 1 .. Len(up[k]) /\ up[k][at[n - 1] + i] = part[n][i]
           T == {k \in Nat : k <= last => There(k)}
<1> USE DEF Joining
<1>1. 0 \in T
  <2>1. up[0] \in Seq({0, 1}) /\ at[0] = Len(up[0])
    OBVIOUS
  <2>2. 1 .. 0 = {}
    OBVIOUS
  <2> QED BY <2>1, <2>2
<1>2. ASSUME NEW k \in T PROVE k + 1 \in T
  <2> SUFFICES ASSUME k + 1 <= last PROVE There(k + 1)
    OBVIOUS
  <2>1. There(k) /\ k + 1 \in 1 .. last /\ (k + 1) - 1 = k
    OBVIOUS
  <2> DEFINE a == up[k]
             b == part[k + 1]
             c == up[k + 1]
  <2>2. /\ a \in Seq({0, 1}) /\ b \in Seq({0, 1}) /\ c = a \o b
        /\ at[k] = Len(a) /\ at[k + 1] = at[k] + Len(b)
    BY <2>1
  <2> HIDE DEF a, b, c
  <2>3. /\ c \in Seq({0, 1}) /\ Len(c) = Len(a) + Len(b)
        /\ \A j \in 1 .. Len(a) : c[j] = a[j]
        /\ \A j \in 1 .. Len(b) : c[Len(a) + j] = b[j]
    BY <2>2
  <2>4. \A n \in 1 .. k + 1 : at[n - 1] \in Nat
    <3> SUFFICES ASSUME NEW n \in 1 .. k + 1 PROVE at[n - 1] \in Nat
      OBVIOUS
    <3>1. CASE n = k + 1
      BY <2>1, <2>2, <3>1
    <3>2. CASE n # k + 1
      BY <2>1, <3>2
    <3> QED BY <3>1, <3>2
  <2>5. ASSUME NEW n \in 1 .. k + 1, NEW i \in 1 .. Len(part[n])
        PROVE  at[n - 1] + i \in 1 .. Len(c) /\ c[at[n - 1] + i] = part[n][i]
    <3>1. CASE n = k + 1
      <4>1. n - 1 = k /\ part[n] = b /\ i \in 1 .. Len(b)
        BY <2>1, <3>1 DEF b
      <4>2. c[Len(a) + i] = b[i] /\ Len(a) \in Nat /\ Len(b) \in Nat
        BY <2>2, <2>3, <4>1
      <4>3. at[n - 1] = Len(a)
        BY <2>2, <4>1
      <4>4. Len(c) = Len(a) + Len(b)
        BY <2>3
      <4>5. Len(a) + i \in 1 .. Len(c)
        BY <4>1, <4>2, <4>4
      <4> QED BY <4>1, <4>2, <4>3, <4>5
    <3>2. CASE n # k + 1
      <4>1. n \in 1 .. k
        BY <3>2
      <4>2. at[n - 1] + i \in 1 .. Len(a) /\ a[at[n - 1] + i] = part[n][i]
        BY <2>1, <4>1 DEF a
      <4>3. at[n - 1] + i \in 1 .. Len(c)
        <5>1. \A p, q \in Nat : \A j \in 1 .. p : j \in 1 .. p + q
          OBVIOUS
        <5>2. Len(a) \in Nat /\ Len(b) \in Nat
          BY <2>2
        <5> QED BY ONLY <2>3, <4>2, <5>1, <5>2, Zenon
      <4>4. c[at[n - 1] + i] = a[at[n - 1] + i]
        BY ONLY <2>3, <4>2, Zenon
      <4> QED BY ONLY <4>2, <4>3, <4>4, Zenon
    <3> QED BY <3>1, <3>2
  <2>6. at[k + 1] = Len(c)
    BY <2>2, <2>3
  <2> QED BY <2>3, <2>4, <2>5, <2>6 DEF c
<1> HIDE DEF T
<1>3. T = Nat
  BY <1>1, <1>2, Climb DEF T
<1>4. There(last)
  BY <1>3 DEF T
<1> QED BY ONLY <1>4, Zenon DEF Apart

ReportField  == [what : {"id", "buttons", "x", "y", "rest"}, bits : Nat]
ReportFields == Seq(ReportField)

LEMMA FieldsAre == \A d \in DeviceType : FieldsOf(d) \in ReportFields
<1> SUFFICES ASSUME NEW d \in DeviceType PROVE FieldsOf(d) \in ReportFields
  OBVIOUS
<1>1. BootReport \in ReportFields
  BY DEF BootReport, ReportField, ReportFields
<1>2. d.report \in ReportFields
  BY DEF DeviceType, ReportField, ReportFields
<1> QED BY <1>1, <1>2 DEF FieldsOf

\* A movement a device can report.
Movement == [x : Int, y : Int, buttons : Buttons]

LEMMA SaidIs ==
  \A d \in DeviceType, m \in Movement, what \in {"id", "buttons", "x", "y", "rest"} :
    Said(d, m, what) \in Int
<1> SUFFICES ASSUME NEW d \in DeviceType, NEW m \in Movement,
                    NEW what \in {"id", "buttons", "x", "y", "rest"}
             PROVE  Said(d, m, what) \in Int
  OBVIOUS
<1>1. d.id \in Int
  <2>1. d.id \in 0 .. 255
    BY DEF DeviceType
  <2> QED BY <2>1
<1>2. m.x \in Int /\ m.y \in Int /\ m.buttons \in Int
  BY DEF Movement, Buttons
<1> QED BY <1>1, <1>2 DEF Said

\* Every field of a report is where the fields before it end.
LEMMA EncodedIs ==
  ASSUME NEW d \in DeviceType, NEW m \in Movement
  PROVE  /\ Encoded(d, m) \in Seq({0, 1})
         /\ \A n \in 1 .. Len(FieldsOf(d)) :
              LET f   == FieldsOf(d)[n]
                  off == Ends(d)[n - 1]
              IN /\ f.bits \in Nat /\ off \in Nat /\ Said(d, m, f.what) \in Int
                 /\ \A i \in 1 .. f.bits :
                      /\ off + i \in 1 .. Len(Encoded(d, m))
                      /\ Encoded(d, m)[off + i] = BitsOf(Said(d, m, f.what), f.bits)[i]
<1> DEFINE fields == FieldsOf(d)
           last == Len(fields)
           part == [n \in 1 .. last |-> BitsOf(Said(d, m, fields[n].what), fields[n].bits)]
<1>1. /\ fields \in ReportFields /\ last \in Nat
      /\ \A n \in 1 .. last : /\ fields[n].bits \in Nat
                              /\ fields[n].what \in {"id", "buttons", "x", "y", "rest"}
  <2>1. fields \in ReportFields
    BY FieldsAre
  <2> HIDE DEF fields
  <2>2. \A n \in 1 .. last : fields[n] \in ReportField
    BY <2>1 DEF ReportFields
  <2>3. last \in Nat
    BY <2>1 DEF ReportFields
  <2> QED BY <2>1, <2>2, <2>3 DEF ReportField
<1>2. \A n \in 1 .. last : Said(d, m, fields[n].what) \in Int
  BY <1>1, SaidIs
<1>3. \A n \in 1 .. last : part[n] \in Seq({0, 1}) /\ Len(part[n]) = fields[n].bits
  <2> SUFFICES ASSUME NEW n \in 1 .. last
               PROVE  part[n] \in Seq({0, 1}) /\ Len(part[n]) = fields[n].bits
    OBVIOUS
  <2> DEFINE bits == fields[n].bits
             s == BitsOf(Said(d, m, fields[n].what), bits)
  <2>1. bits \in Nat /\ s \in [1 .. bits -> {0, 1}]
    BY <1>1, <1>2, BitsAre
  <2>2. part[n] = s
    OBVIOUS
  <2> HIDE DEF part, s, bits
  <2>3. s \in Seq({0, 1}) /\ Len(s) = bits
    BY <2>1
  <2> QED BY <2>2, <2>3 DEF bits
<1> DEFINE up == CHOOSE f : f = [n \in 0 .. last |->
                   IF n = 0 THEN <<>>
                   ELSE f[n - 1] \o BitsOf(Said(d, m, fields[n].what), fields[n].bits)]
           at == CHOOSE f : f = [n \in 0 .. last |->
                   IF n = 0 THEN 0 ELSE f[n - 1] + fields[n].bits]
<1>4. Encoded(d, m) = up[last] /\ Ends(d) = at
  BY DEF Encoded, Ends
<1>5. up[0] = <<>> /\ \A n \in 1 .. last : up[n] = up[n - 1] \o part[n]
  <2> DEFINE step == [n \in 1 .. last |-> [s \in Seq({0, 1}) |-> s \o part[n]]]
  <2> HIDE DEF part
  <2>1. /\ step \in [1 .. last -> [Seq({0, 1}) -> Seq({0, 1})]]
        /\ \A n \in 1 .. last, s \in Seq({0, 1}) : step[n][s] = s \o part[n]
    BY <1>3
  <2> HIDE DEF step
  <2>2. PICK f \in [0 .. last -> Seq({0, 1})] : Recurs(f, last, <<>>, step)
    <3>1. <<>> \in Seq({0, 1})
      OBVIOUS
    <3> HIDE DEF last
    <3> QED BY <1>1, <2>1, <3>1, Recursion
  <2>3. ASSUME NEW n \in 0 .. last
        PROVE  f[n] = IF n = 0 THEN <<>>
                      ELSE f[n - 1] \o BitsOf(Said(d, m, fields[n].what), fields[n].bits)
    <3>1. f[n] = IF n = 0 THEN <<>> ELSE step[n][f[n - 1]]
      BY <2>2 DEF Recurs
    <3>2. n # 0 => n \in 1 .. last /\ f[n - 1] \in Seq({0, 1})
      BY <1>1
    <3>3. n # 0 => part[n] = BitsOf(Said(d, m, fields[n].what), fields[n].bits)
      BY <3>2 DEF part
    <3> QED BY <2>1, <3>1, <3>2, <3>3
  <2>4. f = [n \in 0 .. last |->
               IF n = 0 THEN <<>>
               ELSE f[n - 1] \o BitsOf(Said(d, m, fields[n].what), fields[n].bits)]
    BY <2>3, Zenon
  <2>5. up = [n \in 0 .. last |->
                IF n = 0 THEN <<>>
                ELSE up[n - 1] \o BitsOf(Said(d, m, fields[n].what), fields[n].bits)]
    BY <2>4, Zenon
  <2> HIDE DEF up
  <2>6. up[0] = <<>>
    BY <1>1, <2>5
  <2>7. ASSUME NEW n \in 1 .. last PROVE up[n] = up[n - 1] \o part[n]
    <3>1. n \in 0 .. last /\ n # 0
      BY <1>1
    <3> QED BY <2>5, <3>1 DEF part
  <2> QED BY <2>6, <2>7
<1>6. at[0] = 0 /\ \A n \in 1 .. last : at[n] = at[n - 1] + Len(part[n])
  <2> DEFINE step == [n \in 1 .. last |-> [s \in Nat |-> s + fields[n].bits]]
  <2>1. /\ step \in [1 .. last -> [Nat -> Nat]]
        /\ \A n \in 1 .. last, s \in Nat : step[n][s] = s + fields[n].bits
    BY <1>1
  <2> HIDE DEF step
  <2>2. PICK f \in [0 .. last -> Nat] : Recurs(f, last, 0, step)
    <3> HIDE DEF last
    <3> QED BY <1>1, <2>1, Recursion
  <2>3. ASSUME NEW n \in 0 .. last
        PROVE  f[n] = IF n = 0 THEN 0 ELSE f[n - 1] + fields[n].bits
    <3>1. f[n] = IF n = 0 THEN 0 ELSE step[n][f[n - 1]]
      BY <2>2 DEF Recurs
    <3>2. n # 0 => n \in 1 .. last /\ f[n - 1] \in Nat
      BY <1>1
    <3> QED BY <2>1, <3>1, <3>2
  <2>4. f = [n \in 0 .. last |-> IF n = 0 THEN 0 ELSE f[n - 1] + fields[n].bits]
    BY <2>3
  <2>5. at = [n \in 0 .. last |-> IF n = 0 THEN 0 ELSE at[n - 1] + fields[n].bits]
    BY <2>4
  <2> HIDE DEF at
  <2>6. at[0] = 0
    BY <1>1, <2>5
  <2>7. ASSUME NEW n \in 1 .. last PROVE at[n] = at[n - 1] + Len(part[n])
    <3>1. n \in 0 .. last /\ n # 0
      BY <1>1
    <3> HIDE DEF part
    <3> QED BY <1>3, <2>5, <3>1
  <2> QED BY <2>6, <2>7
<1>7. part = [n \in 1 .. last |-> part[n]]
  OBVIOUS
<1>8. \A n \in 1 .. last : part[n] = BitsOf(Said(d, m, fields[n].what), fields[n].bits)
  OBVIOUS
<1> HIDE DEF part, up, at, last
<1>9. part \in [1 .. last -> Seq({0, 1})]
  BY <1>3, <1>7
<1>10. /\ up[last] \in Seq({0, 1})
       /\ \A n \in 1 .. last : at[n - 1] \in Nat
       /\ \A n \in 1 .. last : \A i \in 1 .. Len(part[n]) :
            at[n - 1] + i \in 1 .. Len(up[last]) /\ up[last][at[n - 1] + i] = part[n][i]
  <2>1. last \in Nat
    BY <1>1
  <2>2. Joining(up, at, part, last)
    BY <1>5, <1>6 DEF Joining
  <2>3. Apart(up, at, part, last)
    BY ONLY <1>9, <2>1, <2>2, Joined, Zenon
  <2> QED BY ONLY <2>3, Zenon DEF Apart
<1>11. ASSUME NEW n \in 1 .. last, NEW i \in 1 .. fields[n].bits
       PROVE  /\ at[n - 1] + i \in 1 .. Len(up[last])
              /\ up[last][at[n - 1] + i] = BitsOf(Said(d, m, fields[n].what), fields[n].bits)[i]
  BY <1>3, <1>8, <1>10
<1> QED BY <1>1, <1>2, <1>4, <1>10, <1>11 DEF last

\* Whatever follows in the buffer.
LEMMA FieldLies ==
  ASSUME NEW d \in DeviceType, NEW m \in Movement, NEW rest \in Seq({0, 1}),
         NEW what, NEW off, NEW bits \in Nat, HasField(d, what, off, bits)
  PROVE  Lies(Encoded(d, m) \o rest, off, bits, Said(d, m, what)) /\ Said(d, m, what) \in Int
<1>1. PICK n \in 1 .. Len(FieldsOf(d)) :
        FieldsOf(d)[n].what = what /\ bits <= FieldsOf(d)[n].bits /\ Ends(d)[n - 1] = off
  BY DEF HasField
<1> DEFINE e == Encoded(d, m)
           v == Said(d, m, what)
           size == FieldsOf(d)[n].bits
<1>2. /\ e \in Seq({0, 1}) /\ size \in Nat /\ off \in Nat /\ v \in Int
      /\ \A i \in 1 .. size : off + i \in 1 .. Len(e) /\ e[off + i] = BitsOf(v, size)[i]
  BY <1>1, EncodedIs
<1>3. PICK h : Halves(h, v, size) /\ \A i \in 1 .. size : BitsOf(v, size)[i] = h[i - 1] % 2
  <2> HIDE DEF v, size
  <2> QED BY <1>2, BitsAre
<1> HIDE DEF e, v
<1> DEFINE g == [k \in 0 .. bits |-> h[k]]
<1>4. Halves(g, v, bits)
  <2>1. h \in [0 .. size -> Int] /\ h[0] = v /\ \A k \in 1 .. size : h[k] = h[k - 1] \div 2
    BY <1>3 DEF Halves
  <2>2. bits <= size /\ size \in Nat
    BY <1>1, <1>2
  <2> HIDE DEF size
  <2>3. g \in [0 .. bits -> Int] /\ g[0] = v
    BY <2>1, <2>2
  <2>4. ASSUME NEW k \in 1 .. bits PROVE g[k] = g[k - 1] \div 2
    <3>1. k \in 1 .. size /\ k \in 0 .. bits /\ k - 1 \in 0 .. bits
      BY <2>2
    <3> QED BY <2>1, <3>1
  <2> QED BY <2>3, <2>4 DEF Halves
<1>5. ASSUME NEW i \in 1 .. bits PROVE Bit(e \o rest, off + i - 1) = g[i - 1] % 2
  <2>1. i \in 1 .. size /\ i - 1 \in 0 .. bits
    BY <1>1, <1>2
  <2>2. off + i \in 1 .. Len(e) /\ e[off + i] = h[i - 1] % 2 /\ g[i - 1] = h[i - 1]
    BY <1>2, <1>3, <2>1
  <2>3. Len(e \o rest) = Len(e) + Len(rest) /\ (e \o rest)[off + i] = e[off + i]
    BY <1>2, <2>2
  <2>4. off + i - 1 < Len(e \o rest) /\ (off + i - 1) + 1 = off + i
    <3>1. Len(e) \in Nat /\ Len(rest) \in Nat
      BY <1>2
    <3>2. \A o, k, a, r \in Nat : o + k \in 1 .. a => o + k - 1 < a + r /\ (o + k - 1) + 1 = o + k
      OBVIOUS
    <3>3. off \in Nat /\ i \in Nat
      BY <1>2
    <3>4. off + i - 1 < Len(e) + Len(rest) /\ (off + i - 1) + 1 = off + i
      BY ONLY <2>2, <3>1, <3>2, <3>3, Zenon
    <3> QED BY ONLY <2>3, <3>4, Zenon
  <2> HIDE DEF g
  <2> QED BY <2>2, <2>3, <2>4 DEF Bit
<1> HIDE DEF g
<1> QED BY <1>2, <1>4, <1>5 DEF Lies, v, e

-----------------------------------------------------------------------------
(* What the driver makes of a report. *)

Motion(l, m) ==
  [kind |-> IF l.x.rel /\ l.y.rel THEN "relative" ELSE "absolute",
   x |-> m.x, y |-> m.y, buttons |-> m.buttons]

\* The boot protocol is one more layout.
LEMMA BootIsLayout ==
  ASSUME NEW l, ~l.valid, NEW b
  PROVE  Decode(l, 2, b) = DecodeByLayout(InForce(l), b)
<1>1. InForce(l) = BootLayout
  BY DEF InForce
<1>2. /\ BootLayout.hasId = FALSE
      /\ BootLayout.buttons.off = 0 /\ BootLayout.buttons.bits = 8
      /\ BootLayout.x.off = 8 /\ BootLayout.x.bits = 8 /\ BootLayout.x.rel
      /\ BootLayout.y.off = 16 /\ BootLayout.y.bits = 8 /\ BootLayout.y.rel
  BY DEF BootLayout
<1> QED BY <1>1, <1>2 DEF Decode, DecodeBoot, DecodeByLayout

\* A movement is read as it was meant,
LEMMA DecodedMove ==
  ASSUME NEW d \in DeviceType, NEW l, NEW m \in d.moves, NEW rest \in Seq({0, 1}),
         Understood(d, l), Described(d, l)
  PROVE  Decode(l, d.proto, Encoded(d, m) \o rest) = Motion(InForce(l), m)
<1> DEFINE r == InForce(l)
           b == Encoded(d, m) \o rest
           base == IF r.hasId THEN 8 ELSE 0
<1>1. m \in Movement
  BY DEF DeviceType, Movement
<1>2. Decode(l, d.proto, b) = DecodeByLayout(r, b)
  <2>1. CASE l.valid
    BY <2>1 DEF Decode, InForce
  <2>2. CASE ~l.valid
    BY <2>2, BootIsLayout DEF Understood
  <2> QED BY <2>1, <2>2
<1>3. /\ HasField(d, "x", base + r.x.off, r.x.bits)
      /\ HasField(d, "y", base + r.y.off, r.y.bits)
      /\ HasField(d, "buttons", base + r.buttons.off, r.buttons.bits)
      /\ r.buttons.bits \in 1 .. 31
      /\ r.hasId => HasField(d, "id", 0, 8)
  BY Zenon DEF Described
<1>10. Fits(m.x, r.x.bits) /\ Fits(m.y, r.y.bits) /\ m.buttons < 2 ^ r.buttons.bits
  <2>1. MoveFits(d, r, m)
    BY DEF Described
  <2> QED BY <2>1 DEF MoveFits
<1>4. r.hasId => r.id = d.id /\ d.id \in 0 .. 255
  <2>1. d.id \in 0 .. 255
    BY DEF DeviceType
  <2>2. ~BootLayout.hasId
    BY DEF BootLayout
  <2> QED BY <2>1, <2>2 DEF Understood, InForce
<1> HIDE DEF r, base
<1>5. Signed(b, base + r.x.off, r.x.bits) = m.x
  <2> DEFINE w == r.x.bits
  <2>1. Fits(m.x, w)
    BY <1>10
  <2>2. HasField(d, "x", base + r.x.off, w)
    BY <1>3
  <2>3. Said(d, m, "x") = m.x
    BY DEF Said
  <2> HIDE DEF w
  <2>4. w \in 1 .. 31
    BY <2>1 DEF Fits
  <2>5. w \in 0 .. 31 /\ w \in Nat
    BY <2>4
  <2>6. Lies(b, base + r.x.off, w, m.x) /\ m.x \in Int
    BY <1>1, <2>2, <2>3, <2>5, FieldLies
  <2> HIDE DEF b
  <2> QED BY <2>1, <2>5, <2>6, ReadsBack DEF w
<1>6. Signed(b, base + r.y.off, r.y.bits) = m.y
  <2> DEFINE w == r.y.bits
  <2>1. Fits(m.y, w)
    BY <1>10
  <2>2. HasField(d, "y", base + r.y.off, w)
    BY <1>3
  <2>3. Said(d, m, "y") = m.y
    BY DEF Said
  <2> HIDE DEF w
  <2>4. w \in 1 .. 31
    BY <2>1 DEF Fits
  <2>5. w \in 0 .. 31 /\ w \in Nat
    BY <2>4
  <2>6. Lies(b, base + r.y.off, w, m.y) /\ m.y \in Int
    BY <1>1, <2>2, <2>3, <2>5, FieldLies
  <2> HIDE DEF b
  <2> QED BY <2>1, <2>5, <2>6, ReadsBack DEF w
<1>7. Unsigned(b, base + r.buttons.off, r.buttons.bits) = m.buttons
  <2> DEFINE w == r.buttons.bits
  <2>1. w \in 0 .. 31 /\ w \in 0 .. 32 /\ w \in Nat
    <3>1. w \in 1 .. 31
      BY <1>3
    <3> HIDE DEF w
    <3> QED BY <3>1
  <2>2. Said(d, m, "buttons") = m.buttons
    BY DEF Said
  <2>3. Lies(b, base + r.buttons.off, w, m.buttons) /\ m.buttons \in Int
    BY <1>1, <1>3, <2>1, <2>2, FieldLies
  <2>4. m.buttons \in Nat /\ m.buttons < 2 ^ w
    <3>1. m.buttons < 2 ^ w
      BY <1>10
    <3>2. m.buttons \in Nat
      <4>1. m.buttons \in 0 .. 255
        BY <1>1 DEF Movement, Buttons
      <4>2. \A v \in 0 .. 255 : v \in Nat
        OBVIOUS
      <4> QED BY <4>1, <4>2, Zenon
    <3> QED BY <3>1, <3>2
  <2>5. 2 ^ w \in Nat
    BY <2>1, Powers
  <2> HIDE DEF b, w
  <2>6. m.buttons \in 0 .. 2 ^ w - 1
    BY <2>4, <2>5
  <2> QED BY <2>1, <2>3, <2>6, ReadsBack DEF w
<1>8. r.hasId => Unsigned(b, 0, 8) = r.id
  <2> SUFFICES ASSUME r.hasId PROVE Unsigned(b, 0, 8) = r.id
    OBVIOUS
  <2>1. Said(d, m, "id") = d.id
    BY DEF Said
  <2>2. Lies(b, 0, 8, d.id) /\ d.id \in Int
    BY <1>1, <1>3, <2>1, FieldLies
  <2>3. d.id \in 0 .. 2 ^ 8 - 1 /\ 8 \in 0 .. 31
    <3>1. d.id \in 0 .. 255
      BY <1>4
    <3>2. 2 ^ 8 - 1 = 255 /\ 8 \in 0 .. 31
      OBVIOUS
    <3> QED BY <3>1, <3>2, Zenon
  <2> HIDE DEF b
  <2>4. Unsigned(b, 0, 8) = d.id
    BY <2>2, <2>3, ReadsBack
  <2> QED BY <1>4, <2>4
<1> HIDE DEF b
<1>9. DecodeByLayout(r, b) = Motion(r, m)
  BY <1>5, <1>6, <1>7, <1>8 DEF DecodeByLayout, Motion, base
<1> QED BY <1>2, <1>9 DEF r, b

\* and what is not of the mouse as nothing.
LEMMA DecodedOther ==
  ASSUME NEW d \in DeviceType, NEW l, NEW rest \in Seq({0, 1}), d.other # <<>>,
         Understood(d, l), Described(d, l)
  PROVE  Decode(l, d.proto, d.other \o rest) = Nothing
<1> DEFINE r == InForce(l)
           b == d.other \o rest
<1>1. r.hasId /\ Len(d.other) >= 8 /\ Unsigned(d.other, 0, 8) # d.id
  BY DEF Described
<1>2. l.valid
  <2>1. ~BootLayout.hasId
    BY DEF BootLayout
  <2> QED BY <1>1, <2>1 DEF InForce
<1>3. l.hasId /\ l.id = d.id
  BY <1>1, <1>2 DEF InForce, Understood
<1>4. Unsigned(b, 0, 8) = Unsigned(d.other, 0, 8)
  <2>1. d.other \in Seq({0, 1})
    BY DEF DeviceType
  <2> DEFINE o == d.other
  <2>2. o \in Seq({0, 1}) /\ Len(o) >= 8
    BY <1>1, <2>1
  <2> HIDE DEF o
  <2>3. ASSUME NEW i \in 1 .. 8 PROVE Bit(o \o rest, 0 + i - 1) = Bit(o, 0 + i - 1)
    BY <2>2 DEF Bit
  <2>4. Taken(8) = 8
    BY DEF Taken
  <2>5. BitField(o \o rest, 0, 8) = BitField(o, 0, 8)
    BY <2>3, <2>4 DEF BitField
  <2> QED BY <2>5 DEF Unsigned, o
<1> HIDE DEF b
<1> QED BY <1>1, <1>2, <1>3, <1>4 DEF Decode, DecodeByLayout, b

-----------------------------------------------------------------------------
(* The pointer. *)

LEMMA ScreenIs ==
  /\ Width \in Nat /\ Width > 0 /\ Height \in Nat /\ Height > 0
  /\ \A v \in Int :
       Clamp(v, Width - 1) \in 0 .. Width - 1 /\ Clamp(v, Height - 1) \in 0 .. Height - 1
  /\ \A x, y \in Int, b \in Nat : PlaceAt(x, y, b) \in Screen
<1>1. Width \in Nat /\ Width > 0 /\ Height \in Nat /\ Height > 0
  BY PathAssumption
<1>2. \A v \in Int :
        Clamp(v, Width - 1) \in 0 .. Width - 1 /\ Clamp(v, Height - 1) \in 0 .. Height - 1
  BY <1>1 DEF Clamp
<1>3. ASSUME NEW x \in Int, NEW y \in Int, NEW b \in Nat PROVE PlaceAt(x, y, b) \in Screen
  <2>1. Clamp(x, Width - 1) \in 0 .. Width - 1 /\ Clamp(y, Height - 1) \in 0 .. Height - 1
    BY <1>2, Zenon
  <2> QED BY <2>1 DEF PlaceAt, Screen
<1> QED BY <1>1, <1>2, <1>3

\* A position scales to a pixel of the screen, whole screen to whole screen.
LEMMA ScaledIs ==
  ASSUME NEW size \in Nat, size > 0
  PROVE  /\ \A v \in Int : Scaled(v, size) \in Int
         /\ \A v \in 0 .. ScaleMax : Scaled(v, size) \in 0 .. size - 1
<1>1. ScaleMax \in Nat /\ ScaleMax > 0
  BY DEF ScaleMax
<1>2. ASSUME NEW v \in Int PROVE Scaled(v, size) \in Int
  <2>1. v * (size - 1) \in Int
    OBVIOUS
  <2> QED BY <1>1, <2>1 DEF Scaled
<1>3. ASSUME NEW v \in 0 .. ScaleMax PROVE Scaled(v, size) \in 0 .. size - 1
  <2> DEFINE k == size - 1
             w == v * k
  <2>1. k \in Nat
    OBVIOUS
  <2>2. w \in Nat /\ w <= ScaleMax * k
    <3>1. \A a, b \in Nat : a * b \in Nat
      OBVIOUS
    <3>2. v \in Nat /\ ScaleMax - v \in Nat
      BY <1>1
    <3> HIDE DEF k
    <3>3. w \in Nat /\ (ScaleMax - v) * k \in Nat
      BY <2>1, <3>1, <3>2
    <3>4. w + (ScaleMax - v) * k = ScaleMax * k
      <4>1. \A a, b, c \in Int : a * b + (c - a) * b = c * b
        OBVIOUS
      <4>2. v \in Int /\ k \in Int /\ ScaleMax \in Int
        BY <1>1, <2>1
      <4> QED BY <4>1, <4>2
    <3> HIDE DEF w
    <3>5. ScaleMax * k \in Nat
      BY <1>1, <2>1, <3>1
    <3> QED BY <3>3, <3>4, <3>5
  <2> HIDE DEF w, k
  <2>3. w \div ScaleMax \in 0 .. k
    BY <2>1, <2>2 DEF ScaleMax
  <2> QED BY <2>3 DEF w, k, Scaled
<1> QED BY <1>2, <1>3, Zenon

LEMMA MovedIs ==
  ASSUME NEW p \in Screen, NEW motion,
         motion.kind \in {"relative", "absolute"} =>
           motion.x \in Int /\ motion.y \in Int /\ motion.buttons \in Nat
  PROVE  Moved(p, motion) \in Screen
<1>1. p.x \in Int /\ p.y \in Int
  BY DEF Screen
<1>2. CASE motion.kind = "relative"
  <2>1. p.x + motion.x \in Int /\ p.y + motion.y \in Int /\ motion.buttons \in Nat
    BY <1>1, <1>2
  <2> QED BY <1>2, <2>1, ScreenIs DEF Moved
<1>3. CASE motion.kind = "absolute"
  <2>1. /\ Scaled(motion.x, Width) \in Int /\ Scaled(motion.y, Height) \in Int
        /\ motion.buttons \in Nat
    BY <1>3, ScreenIs, ScaledIs
  <2> QED BY <1>3, <2>1, ScreenIs DEF Moved
<1> QED BY <1>2, <1>3 DEF Moved

\* A movement that is read as it was sent goes where the user meant it to.
LEMMA MovedAsMeant ==
  ASSUME NEW d \in DeviceType, NEW l, NEW m \in d.moves, NEW p, Described(d, l)
  PROVE  Moved(p, Motion(InForce(l), m)) = Meant(p, d, m)
<1> DEFINE r == InForce(l)
           rel == r.x.rel /\ r.y.rel
<1>1. d.max = IF rel THEN 0 ELSE ScaleMax
  BY DEF Described
<1>2. d.max # 0 => m.x \in 0 .. d.max /\ m.y \in 0 .. d.max
  <2>1. MoveFits(d, r, m)
    BY DEF Described
  <2> QED BY <2>1 DEF MoveFits
<1> HIDE DEF r
<1>3. CASE rel
  BY <1>1, <1>3 DEF Moved, Motion, Meant, r
<1>4. CASE ~rel
  <2>1. d.max = ScaleMax /\ d.max # 0
    BY <1>1, <1>4 DEF ScaleMax
  <2>2. Scaled(m.x, Width) \in 0 .. Width - 1 /\ Scaled(m.y, Height) \in 0 .. Height - 1
    BY <1>2, <2>1, ScreenIs, ScaledIs
  <2>3. Clamp(Scaled(m.x, Width), Width - 1) = Scaled(m.x, Width)
        /\ Clamp(Scaled(m.y, Height), Height - 1) = Scaled(m.y, Height)
    BY <2>2, ScreenIs DEF Clamp
  <2>4. Meant(p, d, m) =
          [x |-> Scaled(m.x, Width), y |-> Scaled(m.y, Height), buttons |-> m.buttons]
    BY <2>1 DEF Meant, Scaled
  <2>5. Moved(p, Motion(r, m)) = PlaceAt(Scaled(m.x, Width), Scaled(m.y, Height), m.buttons)
    BY <1>4 DEF Moved, Motion
  <2> QED BY <2>3, <2>4, <2>5 DEF PlaceAt, r
<1> QED BY <1>3, <1>4

LEMMA MeantIs ==
  \A d \in DeviceType : \A m \in d.moves : \A p \in [x : Int, y : Int, buttons : Nat] :
    Meant(p, d, m) \in [x : Int, y : Int, buttons : Nat]
<1> SUFFICES ASSUME NEW d \in DeviceType, NEW m \in d.moves,
                    NEW p \in [x : Int, y : Int, buttons : Nat]
             PROVE  Meant(p, d, m) \in [x : Int, y : Int, buttons : Nat]
  OBVIOUS
<1>1. m \in Movement
  BY DEF DeviceType, Movement
<1>2. m.x \in Int /\ m.y \in Int /\ m.buttons \in Nat
  BY <1>1 DEF Movement, Buttons
<1>3. CASE d.max = 0
  <2>1. PlaceAt(p.x + m.x, p.y + m.y, m.buttons) \in Screen
    <3>1. p.x + m.x \in Int /\ p.y + m.y \in Int
      BY <1>2
    <3> QED BY <1>2, <3>1, ScreenIs
  <2> QED BY <1>3, <2>1, ScreenIs DEF Meant, Screen
<1>4. CASE d.max # 0
  <2>1. d.max \in Nat /\ d.max > 0
    <3>1. d.max \in Nat
      BY DEF DeviceType
    <3> QED BY <1>4, <3>1
  <2>2. m.x * (Width - 1) \in Int /\ m.y * (Height - 1) \in Int
    <3>1. \A a, b \in Int : a * b \in Int
      OBVIOUS
    <3>2. Width - 1 \in Int /\ Height - 1 \in Int
      BY ScreenIs
    <3> QED BY <1>2, <3>1, <3>2
  <2>3. (m.x * (Width - 1)) \div d.max \in Int /\ (m.y * (Height - 1)) \div d.max \in Int
    BY <2>1, <2>2
  <2> QED BY <1>2, <1>4, <2>3 DEF Meant
<1> QED BY <1>3, <1>4

Places  == [off : Nat, bits : Nat, rel : BOOLEAN]
Layouts == [valid : BOOLEAN, hasId : BOOLEAN, id : Nat, buttons : Places, x : Places, y : Places]

-----------------------------------------------------------------------------
(* The report descriptor, whatever it is. *)

\* The least member of a set of numbers.
LEMMA Least ==
  ASSUME NEW S \in SUBSET Nat, S # {}
  PROVE  Min(S) \in S /\ \A x \in S : Min(S) <= x
<1> DEFINE R == OpToRel(<, Nat)
<1>1. IsWellFoundedOn(R, Nat)
  BY NatLessThanWellFounded
<1>2. \A x, y \in Nat : y < x => <<y, x>> \in R
  BY Zenon DEF OpToRel
<1> HIDE DEF R
<1>3. PICK m \in S : \A y \in S : <<y, m>> \notin R
  BY <1>1, WFMin
<1>4. \A x \in S : ~(x < m)
  BY <1>2, <1>3
<1>5. \A x \in S : m <= x
  <2>1. \A x \in S : x \in Nat /\ m \in Nat
    OBVIOUS
  <2> QED BY <1>4, <2>1
<1> QED BY <1>5 DEF Min

LEMMA Members ==
  ASSUME NEW S, NEW s \in Seq(S)
  PROVE  Len(s) \in Nat /\ \A i \in 1 .. Len(s) : s[i] \in S
OBVIOUS

LEMMA BytesMake ==
  ASSUME NEW d \in Seq(0 .. 255), NEW i \in Nat, NEW size \in 0 .. 4, i + size <= Len(d)
  PROVE  LittleEndian(d, i, size) \in Nat
<1> DEFINE step == [k \in 1 .. size |-> [w \in Nat |-> w + d[i + k] * 256 ^ (k - 1)]]
           val  == CHOOSE f : f = [k \in 0 .. size |->
                                     IF k = 0 THEN 0 ELSE f[k - 1] + d[i + k] * 256 ^ (k - 1)]
<1>1. \A k \in 1 .. size : d[i + k] \in Nat /\ 256 ^ (k - 1) \in Nat
  <2> SUFFICES ASSUME NEW k \in 1 .. size PROVE d[i + k] \in Nat /\ 256 ^ (k - 1) \in Nat
    OBVIOUS
  <2>1. i + k \in 1 .. Len(d)
    OBVIOUS
  <2>2. \A j \in 1 .. Len(d) : d[j] \in 0 .. 255
    BY Members, Zenon
  <2>3. d[i + k] \in 0 .. 255
    BY <2>1, <2>2
  <2>4. d[i + k] \in Nat
    <3>1. \A v \in 0 .. 255 : v \in Nat
      OBVIOUS
    <3> QED BY <2>3, <3>1, Zenon
  <2> DEFINE P == [j \in 0 .. 3 |-> 256 ^ j]
  <2>5. 256 ^ 0 = 1 /\ 256 ^ 1 = 256 /\ 256 ^ 2 = 65536 /\ 256 ^ 3 = 16777216
    OBVIOUS
  <2>6. P[0] = 1 /\ P[1] = 256 /\ P[2] = 65536 /\ P[3] = 16777216
    BY <2>5
  <2>7. k - 1 \in 0 .. 3 /\ P[k - 1] = 256 ^ (k - 1)
    OBVIOUS
  <2> HIDE DEF P
  <2>8. P[k - 1] \in Nat
    BY <2>6, <2>7
  <2> QED BY <2>4, <2>7, <2>8
<1>2. \A k \in 1 .. size, w \in Nat : w + d[i + k] * 256 ^ (k - 1) \in Nat
  <2>1. \A a, b, c \in Nat : a + b * c \in Nat
    OBVIOUS
  <2> QED BY ONLY <1>1, <2>1, Zenon
<1>3. step \in [1 .. size -> [Nat -> Nat]]
      /\ \A k \in 1 .. size, w \in Nat : step[k][w] = w + d[i + k] * 256 ^ (k - 1)
  BY <1>2
<1> HIDE DEF step
<1>4. PICK f \in [0 .. size -> Nat] : Recurs(f, size, 0, step)
  <2>1. size \in Nat
    OBVIOUS
  <2> QED BY <1>3, <2>1, Recursion
<1>5. ASSUME NEW k \in 0 .. size
      PROVE  f[k] = IF k = 0 THEN 0 ELSE f[k - 1] + d[i + k] * 256 ^ (k - 1)
  <2>1. f[k] = IF k = 0 THEN 0 ELSE step[k][f[k - 1]]
    BY <1>4 DEF Recurs
  <2>2. k # 0 => k \in 1 .. size /\ f[k - 1] \in Nat
    OBVIOUS
  <2>3. k # 0 => step[k][f[k - 1]] = f[k - 1] + d[i + k] * 256 ^ (k - 1)
    BY ONLY <1>3, <2>2, Zenon
  <2> QED BY ONLY <2>1, <2>3, Zenon
<1>6. f = [k \in 0 .. size |-> IF k = 0 THEN 0 ELSE f[k - 1] + d[i + k] * 256 ^ (k - 1)]
  BY <1>5
<1>7. val = [k \in 0 .. size |-> IF k = 0 THEN 0 ELSE val[k - 1] + d[i + k] * 256 ^ (k - 1)]
  BY <1>6
<1>8. LittleEndian(d, i, size) = val[size]
  BY DEF LittleEndian
<1> HIDE DEF val
<1> DEFINE T == {k \in Nat : k <= size => val[k] \in Nat}
<1>9. 0 \in T
  BY <1>7
<1>10. ASSUME NEW k \in T PROVE k + 1 \in T
  <2>1. ASSUME k + 1 <= size PROVE val[k + 1] \in Nat
    <3>1. val[k] \in Nat /\ k + 1 \in 1 .. size /\ k + 1 \in 0 .. size /\ (k + 1) - 1 = k
      BY <2>1
    <3>2. \A m \in 0 .. size :
            val[m] = IF m = 0 THEN 0 ELSE val[m - 1] + d[i + m] * 256 ^ (m - 1)
      BY ONLY <1>7, Zenon
    <3>3. val[k + 1] = IF k + 1 = 0 THEN 0
                       ELSE val[(k + 1) - 1] + d[i + (k + 1)] * 256 ^ ((k + 1) - 1)
      BY ONLY <3>1, <3>2, Zenon
    <3>4. val[k] + d[i + (k + 1)] * 256 ^ ((k + 1) - 1) \in Nat
      BY ONLY <1>2, <3>1, Zenon
    <3>5. k + 1 # 0
      OBVIOUS
    <3> QED BY ONLY <3>1, <3>3, <3>4, <3>5, Zenon
  <2> QED BY <2>1
<1> HIDE DEF T
<1>11. T = Nat
  BY <1>9, <1>10, Climb DEF T
<1> QED BY <1>8, <1>11 DEF T

\* The items that follow one are further on.
LEMMA FurtherOn ==
  ASSUME NEW n \in Nat, NEW i \in 0 .. n - 1
  PROVE  /\ \A b \in 0 .. 255 : ~(i + 3 + b > n) => i + 3 + b \in i + 1 .. n
         /\ \A s \in 0 .. 4 : ~(i + 1 + s > n) => i + 1 + s \in i + 1 .. n
OBVIOUS

Items == [type : 0 .. 3, tag : Nat, value : Nat]

\* Every item that is found is one.
LEMMA ItemsAre ==
  ASSUME NEW d \in Seq(0 .. 255)
  PROVE  ItemsOf(d) \in Seq(Items)
<1> DEFINE n == Len(d)
           size(i) == IF d[i + 1] % 4 = 3 THEN 4 ELSE d[i + 1] % 4
           item(i) == [type  |-> (d[i + 1] \div 4) % 4, tag |-> d[i + 1] \div 16,
                       value |-> LittleEndian(d, i + 1, size(i))]
           Body(f, i) ==
             IF i = n THEN <<>>
             ELSE IF d[i + 1] = 254
                  THEN IF i + 3 > n THEN <<>>
                       ELSE IF i + 3 + d[i + 2] > n THEN <<>> ELSE f[i + 3 + d[i + 2]]
                  ELSE IF i + 1 + size(i) > n THEN <<>>
                  ELSE <<item(i)>> \o f[i + 1 + size(i)]
           from == CHOOSE f : f = [i \in 0 .. n |-> Body(f, i)]
<1>0. n \in Nat /\ \A i \in 1 .. n : d[i] \in 0 .. 255
  BY Members, Zenon
<1>1. ItemsOf(d) = from[0]
  BY DEF ItemsOf
<1>2. ASSUME NEW i \in 0 .. n - 1
      PROVE  /\ size(i) \in 0 .. 4
             /\ i + 1 + size(i) <= n => item(i) \in Items
             /\ i + 3 <= n => d[i + 2] \in 0 .. 255
  <2>1. i + 1 \in 1 .. n
    BY <1>0
  <2>2. d[i + 1] \in 0 .. 255
    BY <1>0, <2>1
  <2> DEFINE p == d[i + 1]
  <2>8. p \in 0 .. 255
    BY <2>2
  <2> HIDE DEF p
  <2>9. p \in Nat /\ p % 4 \in 0 .. 3
    BY <2>8
  <2>3. size(i) \in 0 .. 4
    BY <2>9 DEF p
  <2>4. i + 3 <= n => i + 2 \in 1 .. n
    BY <1>0
  <2>5. (d[i + 1] \div 4) % 4 \in 0 .. 3 /\ d[i + 1] \div 16 \in Nat
    <3>1. p \div 4 \in Nat /\ p \div 16 \in Nat
      BY <2>9
    <3>2. (p \div 4) % 4 \in 0 .. 3
      BY <3>1
    <3> QED BY <3>1, <3>2 DEF p
  <2>6. ASSUME i + 1 + size(i) <= n PROVE LittleEndian(d, i + 1, size(i)) \in Nat
    <3> HIDE DEF size
    <3>1. i + 1 \in Nat
      BY <1>0
    <3> QED BY <2>3, <2>6, <3>1, BytesMake
  <2>7. i + 1 + size(i) <= n => item(i) \in Items
    <3> HIDE DEF size
    <3> QED BY <2>5, <2>6 DEF Items
  <2> QED BY <1>0, <2>3, <2>4, <2>7
<1> HIDE DEF size, item, n
<1> DEFINE T == {k \in Nat : k <= n => \E f \in [n - k .. n -> Seq(Items)] :
                                         \A i \in n - k .. n : f[i] = Body(f, i)}
<1>3. 0 \in T
  <2> DEFINE f == [i \in n - 0 .. n |-> <<>>]
  <2>1. f \in [n - 0 .. n -> Seq(Items)]
    OBVIOUS
  <2>2. \A i \in n - 0 .. n : i = n
    BY <1>0
  <2>3. \A i \in n - 0 .. n : f[i] = Body(f, i)
    BY <2>2
  <2> HIDE DEF f, Body
  <2> QED BY <2>1, <2>3
<1>4. ASSUME NEW k \in T PROVE k + 1 \in T
  <2> SUFFICES ASSUME k + 1 <= n
               PROVE  \E f \in [n - (k + 1) .. n -> Seq(Items)] :
                        \A i \in n - (k + 1) .. n : f[i] = Body(f, i)
    <3> HIDE DEF Body
    <3> QED OBVIOUS
  <2>1. PICK f \in [n - k .. n -> Seq(Items)] : \A i \in n - k .. n : f[i] = Body(f, i)
    <3> HIDE DEF Body
    <3>1. k <= n
      BY <1>0
    <3> QED BY <3>1
  <2> DEFINE j == n - (k + 1)
             v == Body(f, j)
             g == [i \in j .. n |-> IF i = j THEN v ELSE f[i]]
  <2>2. j \in 0 .. n - 1 /\ j + 1 = n - k /\ n \in Nat
    BY <1>0
  <2> HIDE DEF j
  <2>3. \A i \in j + 1 .. n : f[i] \in Seq(Items)
    BY <2>2
  <2>4. v \in Seq(Items)
    <3>1. size(j) \in 0 .. 4 /\ (j + 3 <= n => d[j + 2] \in 0 .. 255)
      BY <1>2, <2>2
    <3>2. j + 1 + size(j) <= n => item(j) \in Items
      BY <1>2, <2>2
    <3>3. ASSUME ~(j + 3 > n), ~(j + 3 + d[j + 2] > n) PROVE f[j + 3 + d[j + 2]] \in Seq(Items)
      <4>1. d[j + 2] \in 0 .. 255
        BY <1>0, <2>2, <3>1, <3>3
      <4>2. j + 3 + d[j + 2] \in j + 1 .. n
        BY <2>2, <3>3, <4>1, FurtherOn, Zenon
      <4> QED BY ONLY <2>3, <4>2, Zenon
    <3>4. ASSUME ~(j + 1 + size(j) > n)
          PROVE  f[j + 1 + size(j)] \in Seq(Items) /\ item(j) \in Items
      <4>1. j + 1 + size(j) \in j + 1 .. n
        BY <2>2, <3>1, <3>4, FurtherOn, Zenon
      <4>2. j + 1 + size(j) <= n
        BY ONLY <2>2, <4>1
      <4> QED BY ONLY <2>3, <3>2, <4>1, <4>2, Zenon
    <3>5. ~(j + 1 + size(j) > n) => <<item(j)>> \o f[j + 1 + size(j)] \in Seq(Items)
      BY <3>4
    <3> QED BY <3>3, <3>5
  <2>5. ASSUME NEW i \in j .. n PROVE Body(g, i) = Body(f, i)
    <3>1. i \in 0 .. n
      BY <2>2
    <3>2. CASE i = n
      BY <3>2
    <3>3. CASE i # n
      <4>1. i \in 0 .. n - 1
        BY <2>2, <3>1, <3>3
      <4>2. size(i) \in 0 .. 4 /\ (i + 3 <= n => d[i + 2] \in 0 .. 255)
        BY <1>2, <4>1
      <4> HIDE DEF v
      <4>3. \A m \in j + 1 .. n : g[m] = f[m]
        BY <2>2
      <4> HIDE DEF g
      <4>6. \A m \in i + 1 .. n : m \in j + 1 .. n
        BY <2>2
      <4>4. ASSUME ~(i + 3 > n), ~(i + 3 + d[i + 2] > n)
            PROVE  g[i + 3 + d[i + 2]] = f[i + 3 + d[i + 2]]
        <5>1. d[i + 2] \in 0 .. 255
          BY <2>2, <4>1, <4>2, <4>4
        <5>2. i + 3 + d[i + 2] \in i + 1 .. n
          BY <2>2, <4>1, <4>4, <5>1, FurtherOn, Zenon
        <5> QED BY ONLY <4>3, <4>6, <5>2, Zenon
      <4>5. ASSUME ~(i + 1 + size(i) > n)
            PROVE  g[i + 1 + size(i)] = f[i + 1 + size(i)]
        <5>1. i + 1 + size(i) \in i + 1 .. n
          BY <2>2, <4>1, <4>2, <4>5, FurtherOn, Zenon
        <5> QED BY ONLY <4>3, <4>6, <5>1, Zenon
      <4> QED BY <3>3, <4>4, <4>5
    <3> QED BY <3>2, <3>3
  <2> HIDE DEF v
  <2>6. g \in [j .. n -> Seq(Items)]
    BY <2>2, <2>3, <2>4
  <2>7. ASSUME NEW i \in j .. n PROVE g[i] = Body(g, i)
    <3>1. CASE i = j
      <4>1. g[j] = v /\ v = Body(f, j)
        <5> HIDE DEF Body
        <5>1. j \in j .. n
          BY <2>2
        <5> QED BY <5>1 DEF v
      <4>2. Body(g, j) = Body(f, j)
        <5> HIDE DEF Body, g
        <5> QED BY <2>5, <3>1
      <4> HIDE DEF Body, g
      <4> QED BY <3>1, <4>1, <4>2
    <3>2. CASE i # j
      <4>1. i \in n - k .. n
        BY <2>2, <3>2
      <4>2. g[i] = f[i]
        BY <3>2
      <4> HIDE DEF Body, g
      <4> QED BY <2>1, <2>5, <4>1, <4>2
    <3> QED BY <3>1, <3>2
  <2> HIDE DEF Body, g
  <2> QED BY <2>6, <2>7 DEF j
<1> HIDE DEF T
<1>5. T = Nat
  <2>1. T \in SUBSET Nat
    BY DEF T
  <2> QED BY <1>3, <1>4, <2>1, Climb
<1>6. PICK f \in [0 .. n -> Seq(Items)] : \A i \in 0 .. n : f[i] = Body(f, i)
  <2> HIDE DEF Body
  <2>1. n \in T /\ n - n = 0
    BY <1>0, <1>5
  <2> QED BY <2>1 DEF T
<1>7. f = [i \in 0 .. n |-> Body(f, i)]
  <2> HIDE DEF Body
  <2> QED BY <1>6
<1>8. from = [i \in 0 .. n |-> Body(from, i)]
  <2> HIDE DEF Body
  <2> QED BY <1>7
<1> HIDE DEF from
<1> DEFINE U == {k \in Nat : \A i \in 0 .. n : n - i <= k => from[i] \in Seq(Items)}
<1>9. 0 \in U
  <2> SUFFICES ASSUME NEW i \in 0 .. n, n - i <= 0 PROVE from[i] \in Seq(Items)
    OBVIOUS
  <2>1. i = n
    BY <1>0
  <2>2. from[n] = Body(from, n) /\ Body(from, n) = <<>>
    <3>1. n \in 0 .. n
      BY <1>0
    <3> QED BY <1>8, <3>1
  <2>3. <<>> \in Seq(Items)
    OBVIOUS
  <2> QED BY <2>1, <2>2, <2>3
<1>10. ASSUME NEW k \in U PROVE k + 1 \in U
  <2> SUFFICES ASSUME NEW i \in 0 .. n, n - i <= k + 1 PROVE from[i] \in Seq(Items)
    OBVIOUS
  <2>1. \A m \in 0 .. n : m > i => from[m] \in Seq(Items)
    BY <1>0
  <2>2. from[i] = Body(from, i)
    <3> HIDE DEF Body
    <3> QED BY <1>8
  <2>3. CASE i = n
    <3>1. <<>> \in Seq(Items)
      OBVIOUS
    <3> QED BY <2>2, <2>3, <3>1
  <2>4. CASE i # n
    <3>1. i \in 0 .. n - 1
      BY <1>0, <2>4
    <3>2. size(i) \in 0 .. 4 /\ (i + 3 <= n => d[i + 2] \in 0 .. 255)
      BY <1>2, <3>1
    <3>3. i + 1 + size(i) <= n => item(i) \in Items
      BY <1>2, <3>1
    <3>7. \A m \in i + 1 .. n : m \in 0 .. n /\ m > i
      BY <1>0, <3>1
    <3>4. ASSUME ~(i + 3 > n), ~(i + 3 + d[i + 2] > n)
          PROVE  from[i + 3 + d[i + 2]] \in Seq(Items)
      <4>1. d[i + 2] \in 0 .. 255
        BY <1>0, <3>1, <3>2, <3>4
      <4>2. i + 3 + d[i + 2] \in i + 1 .. n
        BY <1>0, <3>1, <3>4, <4>1, FurtherOn, Zenon
      <4> QED BY ONLY <2>1, <3>7, <4>2, Zenon
    <3>5. ASSUME ~(i + 1 + size(i) > n)
          PROVE  from[i + 1 + size(i)] \in Seq(Items) /\ item(i) \in Items
      <4>1. i + 1 + size(i) \in i + 1 .. n
        BY <1>0, <3>1, <3>2, <3>5, FurtherOn, Zenon
      <4>2. i + 1 + size(i) <= n
        BY ONLY <1>0, <3>1, <4>1
      <4> QED BY ONLY <2>1, <3>3, <3>7, <4>1, <4>2, Zenon
    <3>6. ~(i + 1 + size(i) > n) => <<item(i)>> \o from[i + 1 + size(i)] \in Seq(Items)
      BY <3>5
    <3> QED BY <2>2, <2>4, <3>4, <3>6
  <2> QED BY <2>3, <2>4
<1> HIDE DEF U
<1>11. U = Nat
  <2>1. U \in SUBSET Nat
    BY DEF U
  <2> QED BY <1>9, <1>10, <2>1, Climb
<1>12. n \in U /\ 0 \in 0 .. n /\ n - 0 <= n
  BY <1>0, <1>11
<1>13. from[0] \in Seq(Items)
  BY <1>12 DEF U
<1> QED BY <1>1, <1>13

\* Where the parser stands.
ParseState ==
  [page : Nat, size : Nat, count : Nat, pos : Nat, id : Nat, hasId : BOOLEAN,
   usages : Seq(Nat), low : Nat, high : Nat, range : BOOLEAN,
   app : BOOLEAN, phys : BOOLEAN, seen : BOOLEAN,
   buttons : Places, x : Places, y : Places, wheel : Places]

LEMMA BlankIs == Blank \in ParseState
<1>1. NoField \in Places
  BY DEF NoField, Places
<1>2. <<>> \in Seq(Nat)
  OBVIOUS
<1> QED BY <1>1, <1>2 DEF Blank, ParseState

LEMMA GlobalIs ==
  ASSUME NEW st \in ParseState, NEW item \in Items
  PROVE  Global(st, item) \in ParseState
<1>1. item.value \in Nat
  BY DEF Items
<1> QED BY <1>1 DEF Global, ParseState

LEMMA LocalIs ==
  ASSUME NEW st \in ParseState, NEW item \in Items
  PROVE  Local(st, item) \in ParseState
<1>1. item.value \in Nat
  BY DEF Items
<1>2. Append(st.usages, item.value) \in Seq(Nat)
  BY <1>1 DEF ParseState
<1> QED BY <1>1, <1>2 DEF Local, ParseState

LEMMA ForgetIs ==
  ASSUME NEW st \in ParseState
  PROVE  Forget(st) \in ParseState
<1>1. <<>> \in Seq(Nat)
  OBVIOUS
<1> QED BY <1>1 DEF Forget, ParseState

LEMMA CollectionsAre ==
  ASSUME NEW st \in ParseState
  PROVE  Collection(st) \in ParseState /\ EndCollection(st) \in ParseState
<1> DEFINE seen == st.seen \/ (st.page = 1 /\ st.usages # <<>> /\ st.usages[1] = 2)
           app  == st.app \/ seen
           phys == st.phys \/ (seen /\ st.app)
           inside  == [st EXCEPT !.seen = seen, !.app = app, !.phys = phys]
           left    == st.app /\ st.phys
           outside == [st EXCEPT !.phys = FALSE, !.app = left]
<1>1. seen \in BOOLEAN /\ app \in BOOLEAN /\ phys \in BOOLEAN /\ left \in BOOLEAN
  BY DEF ParseState
<1> HIDE DEF seen, app, phys, left
<1>2. inside \in ParseState /\ outside \in ParseState
  BY <1>1 DEF ParseState
<1>3. Collection(st) = Forget(inside)
  BY DEF Collection, seen, app, phys, ParseState
<1>4. EndCollection(st) = Forget(outside)
  BY DEF EndCollection, left, ParseState
<1> QED BY <1>2, <1>3, <1>4, ForgetIs

\* The place of a field is where the item says, as far as its type holds it.
LEMMA AxisIs ==
  ASSUME NEW st \in ParseState, NEW usage, NEW rel \in BOOLEAN, NEW found \in Places
  PROVE  FindAxis(st, usage, rel, found) \in Places
<1> DEFINE fields == {f \in 0 .. st.count - 1 : UsageOf(st, f) = usage}
<1>1. st.count \in Nat /\ st.size \in Nat /\ st.pos \in Nat
  BY DEF ParseState
<1>2. fields \in SUBSET Nat
  BY <1>1
<1> HIDE DEF fields
<1>3. ASSUME fields # {}
      PROVE  [off |-> (st.pos + Min(fields) * st.size) % 2 ^ 16, bits |-> st.size % 2 ^ 8,
              rel |-> rel] \in Places
  <2>1. Min(fields) \in Nat
    BY <1>2, <1>3, Least
  <2>2. \A p, m, s \in Nat : p + m * s \in Nat
    OBVIOUS
  <2>3. st.pos + Min(fields) * st.size \in Nat
    BY ONLY <1>1, <2>1, <2>2
  <2>4. \A n \in Nat : n % 2 ^ 16 \in Nat /\ n % 2 ^ 8 \in Nat
    OBVIOUS
  <2> QED BY <1>1, <2>3, <2>4 DEF Places
<1> QED BY <1>3 DEF FindAxis, fields

LEMMA FieldsKept ==
  ASSUME NEW st \in ParseState, NEW item \in Items
  PROVE  Fields(st, item) \in ParseState
<1> DEFINE rel   == (item.value \div 4) % 2 = 1
           mouse == (st.app \/ st.phys) /\ Room(st, item) # 0
           place == [off |-> st.pos % 2 ^ 16, bits |-> Room(st, item) % 2 ^ 16, rel |-> rel]
           fx == FindAxis(st, 48, rel, st.x)
           fy == FindAxis(st, 49, rel, st.y)
           fw == FindAxis(st, 56, rel, st.wheel)
           new   ==
             IF mouse /\ st.page = 9 /\ st.buttons.bits = 0 THEN [st EXCEPT !.buttons = place]
             ELSE IF mouse /\ st.page = 1 THEN [st EXCEPT !.x = fx, !.y = fy, !.wheel = fw]
             ELSE st
           room == Room(st, item)
<1>1. st.count \in Nat /\ st.size \in Nat /\ st.pos \in Nat
  BY DEF ParseState
<1>2. room \in Nat
  <2>1. \A c, s \in Nat : c * s \in Nat
    OBVIOUS
  <2> QED BY ONLY <1>1, <2>1 DEF Room
<1>3. rel \in BOOLEAN
  OBVIOUS
<1> HIDE DEF rel
<1>4. place \in Places
  <2>1. \A n \in Nat : n % 2 ^ 16 \in Nat
    OBVIOUS
  <2> QED BY <1>1, <1>2, <1>3, <2>1 DEF Places
<1>5. fx \in Places /\ fy \in Places /\ fw \in Places
  <2>1. st.x \in Places /\ st.y \in Places /\ st.wheel \in Places
    BY DEF ParseState
  <2> QED BY <1>3, <2>1, AxisIs
<1> HIDE DEF place, fx, fy, fw, mouse, room
<1>6. new \in ParseState
  BY <1>4, <1>5 DEF ParseState
<1>7. new.pos = st.pos
  BY DEF ParseState
<1>8. Fields(st, item) = Forget([new EXCEPT !.pos = @ + room])
  BY DEF Fields, rel, mouse, place, fx, fy, fw, room, ParseState
<1> HIDE DEF new
<1>9. [new EXCEPT !.pos = @ + room] \in ParseState
  <2>1. new.pos + room \in Nat
    BY <1>1, <1>2, <1>7
  <2> QED BY <1>6, <2>1 DEF ParseState
<1> QED BY <1>8, <1>9, ForgetIs

LEMMA ApplyIs ==
  ASSUME NEW st \in ParseState, NEW item \in Items
  PROVE  Apply(st, item) \in ParseState
<1>1. /\ Global(st, item) \in ParseState /\ Local(st, item) \in ParseState
      /\ Collection(st) \in ParseState /\ EndCollection(st) \in ParseState
      /\ Fields(st, item) \in ParseState
  BY GlobalIs, LocalIs, CollectionsAre, FieldsKept
<1> QED BY <1>1 DEF Apply

\* Whatever the bytes of the descriptor are, the layout has numbers.
LEMMA LayoutHasNumbers ==
  ASSUME NEW d \in Seq(0 .. 255)
  PROVE  LayoutOf(d) \in Layouts
<1> DEFINE items == ItemsOf(d)
           n     == Len(items)
           step  == [k \in 1 .. n |-> [st \in ParseState |-> Apply(st, items[k])]]
           after == CHOOSE f : f = [k \in 0 .. n |-> IF k = 0 THEN Blank
                                                     ELSE Apply(f[k - 1], items[k])]
           st    == after[n]
<1>1. n \in Nat /\ \A k \in 1 .. n : items[k] \in Items
  BY ItemsAre, Members, Zenon
<1>2. LayoutOf(d) = IF st.x.bits = 0 \/ st.y.bits = 0 THEN NoLayout
                    ELSE [valid |-> TRUE, hasId |-> st.hasId, id |-> st.id % 256,
                          buttons |-> st.buttons, x |-> st.x, y |-> st.y]
  BY DEF LayoutOf
<1> HIDE DEF items, n
<1>3. step \in [1 .. n -> [ParseState -> ParseState]]
      /\ \A k \in 1 .. n, s \in ParseState : step[k][s] = Apply(s, items[k])
  BY <1>1, ApplyIs
<1> HIDE DEF step
<1>4. PICK f \in [0 .. n -> ParseState] : Recurs(f, n, Blank, step)
  BY <1>1, <1>3, BlankIs, Recursion
<1>5. ASSUME NEW k \in 0 .. n
      PROVE  f[k] = IF k = 0 THEN Blank ELSE Apply(f[k - 1], items[k])
  <2>1. f[k] = IF k = 0 THEN Blank ELSE step[k][f[k - 1]]
    BY <1>4 DEF Recurs
  <2>2. k # 0 => k \in 1 .. n /\ f[k - 1] \in ParseState
    BY <1>1
  <2> QED BY <1>3, <2>1, <2>2
<1>6. f = [k \in 0 .. n |-> IF k = 0 THEN Blank ELSE Apply(f[k - 1], items[k])]
  BY <1>5
<1>7. after = [k \in 0 .. n |-> IF k = 0 THEN Blank ELSE Apply(after[k - 1], items[k])]
  BY <1>6
<1> HIDE DEF after
<1> DEFINE T == {k \in Nat : k <= n => after[k] \in ParseState}
<1>8. 0 \in T
  BY <1>1, <1>7, BlankIs
<1>9. ASSUME NEW k \in T PROVE k + 1 \in T
  <2>1. ASSUME k + 1 <= n PROVE after[k + 1] \in ParseState
    <3>1. after[k] \in ParseState /\ k + 1 \in 1 .. n /\ k + 1 \in 0 .. n /\ (k + 1) - 1 = k
      BY <1>1, <2>1
    <3>2. \A i \in 0 .. n :
            after[i] = IF i = 0 THEN Blank ELSE Apply(after[i - 1], items[i])
      BY ONLY <1>7, Zenon
    <3>3. after[k + 1] = IF k + 1 = 0 THEN Blank ELSE Apply(after[(k + 1) - 1], items[k + 1])
      BY ONLY <3>1, <3>2, Zenon
    <3>4. after[k + 1] = Apply(after[k], items[k + 1])
      <4>1. k + 1 # 0
        OBVIOUS
      <4> QED BY ONLY <3>1, <3>3, <4>1, Zenon
    <3>5. items[k + 1] \in Items
      BY ONLY <1>1, <3>1, Zenon
    <3> QED BY ONLY <3>1, <3>4, <3>5, ApplyIs, Zenon
  <2> QED BY <2>1
<1> HIDE DEF T
<1>10. T = Nat
  BY <1>8, <1>9, Climb DEF T
<1>11. st \in ParseState
  BY <1>1, <1>10 DEF T
<1> HIDE DEF st
<1>12. /\ st.hasId \in BOOLEAN /\ st.id % 256 \in Nat
       /\ st.buttons \in Places /\ st.x \in Places /\ st.y \in Places
  <2>1. st.id \in Nat
    BY <1>11 DEF ParseState
  <2> QED BY <1>11, <2>1 DEF ParseState
<1>13. NoLayout \in Layouts
  BY DEF NoLayout, NoField, Layouts, Places
<1> QED BY <1>2, <1>12, <1>13 DEF Layouts

LEMMA LayoutIs == \A d \in DeviceType : LayoutOf(d.desc) \in Layouts
BY LayoutHasNumbers DEF DeviceType

\* Whatever is in the buffer, what is read out of it is a number.
LEMMA ReadIs ==
  ASSUME NEW b \in Seq({0, 1}), NEW off \in Nat, NEW bits \in Nat
  PROVE  Unsigned(b, off, bits) \in Nat /\ Signed(b, off, bits) \in Int
<1> DEFINE w == Taken(bits)
           field == BitField(b, off, bits)
<1>1. w \in 0 .. 32
  BY DEF Taken
<1>2. field = [i \in 1 .. w |-> Bit(b, off + i - 1)]
  BY DEF BitField
<1> HIDE DEF w, field
<1>3. ASSUME NEW i \in 1 .. w PROVE Bit(b, off + i - 1) \in {0, 1}
  <2> DEFINE j == off + i - 1
  <2>1. j \in Nat
    BY <1>1
  <2> HIDE DEF j
  <2>2. j < Len(b) => j + 1 \in 1 .. Len(b)
    BY <2>1
  <2>3. j < Len(b) => b[j + 1] \in {0, 1}
    BY <2>2
  <2>4. Bit(b, j) \in {0, 1}
    BY <2>3 DEF Bit
  <2> QED BY <2>4 DEF j
<1>4. field \in [1 .. w -> {0, 1}]
  BY <1>2, <1>3
<1>5. field \in Seq({0, 1}) /\ Len(field) = w
  BY <1>1, <1>4
<1>6. Len(field) <= 32
  BY <1>1, <1>5
<1>7. Unsigned(b, off, bits) \in Nat
  BY <1>5, <1>6, ValueIs DEF Unsigned, field
<1>8. 2 ^ w \in Nat
  BY <1>1, Powers
<1>9. Signed(b, off, bits) \in Int
  BY <1>7, <1>8 DEF Signed, w
<1> QED BY <1>7, <1>9

LEMMA DecodedIs ==
  ASSUME NEW l \in Layouts, NEW proto, NEW b \in Seq({0, 1}), NEW p \in Screen
  PROVE  Moved(p, Decode(l, proto, b)) \in Screen
<1> DEFINE motion == Decode(l, proto, b)
<1>1. /\ l.x.off \in Nat /\ l.x.bits \in Nat /\ l.y.off \in Nat /\ l.y.bits \in Nat
      /\ l.buttons.off \in Nat /\ l.buttons.bits \in Nat
  BY DEF Layouts, Places
<1>2. CASE l.valid
  <2> DEFINE base == IF l.hasId THEN 8 ELSE 0
  <2>1. base + l.x.off \in Nat /\ base + l.y.off \in Nat /\ base + l.buttons.off \in Nat
    <3>1. base \in Nat
      OBVIOUS
    <3> HIDE DEF base
    <3>2. \A m, n \in Nat : m + n \in Nat
      OBVIOUS
    <3> QED BY ONLY <1>1, <3>1, <3>2, Zenon
  <2>2. /\ Signed(b, base + l.x.off, l.x.bits) \in Int
        /\ Signed(b, base + l.y.off, l.y.bits) \in Int
        /\ Unsigned(b, base + l.buttons.off, l.buttons.bits) \in Nat
    <3> HIDE DEF base
    <3> QED BY <1>1, <2>1, ReadIs
  <2>3. motion.kind \in {"relative", "absolute"} =>
          motion.x \in Int /\ motion.y \in Int /\ motion.buttons \in Nat
    BY <1>2, <2>2 DEF Decode, DecodeByLayout, Nothing
  <2> QED BY <2>3, MovedIs
<1>3. CASE ~l.valid
  <2>1. Signed(b, 8, 8) \in Int /\ Signed(b, 16, 8) \in Int /\ Unsigned(b, 0, 8) \in Nat
    BY ReadIs
  <2>2. motion.kind \in {"relative", "absolute"} =>
          motion.x \in Int /\ motion.y \in Int /\ motion.buttons \in Nat
    BY <1>3, <2>1 DEF Decode, DecodeBoot, Nothing
  <2> QED BY <2>2, MovedIs
<1> QED BY <1>2, <1>3

-----------------------------------------------------------------------------
(* Everything on the way. *)

LEMMA NoneIs == NoLayout \in Layouts
BY DEF NoLayout, NoField, Layouts, Places

LEMMA AfterIs ==
  ASSUME PathTypes, dev # NoDevice
  PROVE  After \in Screen /\ Device[dev] \in DeviceType /\ layout \in Layouts
<1>1. Device[dev] \in DeviceType
  BY PathAssumption DEF PathTypes
<1>2. layout \in Layouts
  BY <1>1, LayoutIs, NoneIs DEF PathTypes
<1>3. pointer \in Screen /\ buf \in Seq({0, 1})
  BY DEF PathTypes
<1> QED BY <1>1, <1>2, <1>3, DecodedIs DEF After

\* A step that pushes or waits leaves everything but the ring alone.
LEMMA FollowingStep ==
  ASSUME ReportsDescribed, PathSafe, PathSafe', Following, [PathNext]_pathVars
  PROVE  Following'
<1> DEFINE d == Device[dev]
<1>1. CASE OtherRing \/ Wrap \/ StartPolling \/ UNCHANGED pathVars
  <2>1. UNCHANGED <<dev, layout, buf, unread, pointer, input, hand>>
    BY <1>1 DEF OtherRing, Wrap, StartPolling, pathVars, path
  <2> QED BY <2>1 DEF Following, PathTypes, Pending, After
<1>2. CASE UserMoves
  <2>1. PICK m \in d.moves :
          /\ input' = [kind |-> "move", bits |-> Encoded(d, m)]
          /\ hand' = Meant(hand, d, m)
    BY <1>2 DEF UserMoves
  <2>2. dev # NoDevice /\ input = NoInput /\ UNCHANGED <<dev, layout, buf, unread, pointer>>
    BY <1>2 DEF UserMoves
  <2>3. d \in DeviceType
    BY <2>2, AfterIs DEF Following
  <2>4. m \in Movement
    BY <2>3 DEF DeviceType, Movement
  <2>5. Encoded(d, m) \in Seq({0, 1})
    BY <2>3, <2>4, EncodedIs
  <2>6. hand' \in [x : Int, y : Int, buttons : Nat]
    BY <2>1, <2>3, MeantIs DEF Following, PathTypes
  <2>7. PathTypes'
    BY <2>1, <2>2, <2>5, <2>6 DEF Following, PathTypes, NoInput
  <2>8. After' = After
    BY <2>2 DEF After
  <2>9. Pending'
    <3>1. ASSUME Understood(d, layout) PROVE hand = After
      BY <2>2, <3>1 DEF Following, Pending, NoInput
    <3>2. input' # NoInput /\ input'.kind = "move" /\ input'.bits = Encoded(d, m)
      BY <2>1 DEF NoInput
    <3> QED BY <2>1, <2>2, <2>8, <3>1, <3>2 DEF Pending
  <2> QED BY <2>7, <2>9 DEF Following
<1>3. CASE UserTypes
  <2>1. /\ dev # NoDevice /\ input = NoInput
        /\ input' = [kind |-> "other", bits |-> d.other] /\ d.other # <<>>
        /\ UNCHANGED <<dev, layout, buf, unread, pointer, hand>>
    BY <1>3 DEF UserTypes
  <2>2. d.other \in Seq({0, 1})
    <3>1. d \in DeviceType
      BY <2>1, AfterIs DEF Following
    <3> QED BY <3>1 DEF DeviceType
  <2>3. PathTypes'
    BY <2>1, <2>2 DEF Following, PathTypes, NoInput
  <2>4. After' = After
    BY <2>1 DEF After
  <2>5. Pending'
    <3>1. ASSUME Understood(d, layout) PROVE hand = After
      BY <2>1, <3>1 DEF Following, Pending, NoInput
    <3>2. input' # NoInput /\ input'.kind = "other" /\ input'.bits = d.other
      BY <2>1 DEF NoInput
    <3> QED BY <2>1, <2>4, <3>1, <3>2 DEF Pending
  <2> QED BY <2>3, <2>5 DEF Following
<1>4. CASE DeviceReports
  <2> DEFINE e == input.bits
             rest == SubSeq(buf, Len(e) + 1, Len(buf))
  <2>1. /\ dev # NoDevice /\ input # NoInput /\ input' = NoInput
        /\ buf' = e \o rest /\ unread' = unread + 1
        /\ UNCHANGED <<dev, layout, pointer, hand>>
    BY <1>4 DEF DeviceReports
  <2>2. unread = 0 /\ unread' = 1
    <3>1. (pushed' - done') + unread' <= 1 /\ pushed' \in Nat /\ done' \in Nat /\ done' <= pushed'
      BY <2>1 DEF PathSafe, BufferNotShared, RingInv, TypeOK
    <3>2. unread \in {0, 1} /\ unread' = unread + 1
      BY <2>1 DEF Following, PathTypes
    <3>3. unread' <= 1
      <4>1. pushed' \in Int /\ done' \in Int /\ unread' \in Int
        BY <3>1, <3>2
      <4>2. \A a, b, c \in Int : a - b + c <= 1 /\ b <= a => c <= 1
        OBVIOUS
      <4> QED BY <3>1, <4>1, <4>2
    <3> QED BY <3>2, <3>3
  <2>3. e \in Seq({0, 1}) /\ input.kind \in {"move", "other"}
    BY <2>1 DEF Following, PathTypes
  <2>4. rest \in Seq({0, 1})
    <3> DEFINE n == Len(e) + 1
    <3>1. n \in Nat /\ n >= 1
      BY <2>3
    <3>2. buf \in Seq({0, 1})
      BY DEF Following, PathTypes
    <3> HIDE DEF n
    <3>3. SubSeq(buf, n, Len(buf)) \in Seq({0, 1})
      BY <3>1, <3>2
    <3> QED BY <3>3 DEF n
  <2> HIDE DEF e, rest
  <2>5. PathTypes'
    <3>1. buf' \in Seq({0, 1})
      BY <2>1, <2>3, <2>4
    <3> QED BY <2>1, <2>2, <3>1 DEF Following, PathTypes
  <2>6. ASSUME Understood(d, layout) PROVE hand' = After'
    <3>1. d \in DeviceType /\ layout \in {NoLayout, LayoutOf(d.desc)}
      BY <2>1, AfterIs DEF Following, PathTypes
    <3>2. Described(d, layout)
      <4>1. dev \in Devices
        BY <2>1 DEF Following, PathTypes
      <4> QED BY <2>6, <3>1, <4>1 DEF ReportsDescribed
    <3>3. After = pointer /\ After' = Moved(pointer, Decode(layout, d.proto, e \o rest))
      BY <2>1, <2>2 DEF After
    <3>4. CASE input.kind = "move"
      <4>1. PICK m \in d.moves : e = Encoded(d, m) /\ hand = Meant(After, d, m)
        BY <2>1, <2>6, <3>4 DEF Following, Pending, e
      <4>2. Decode(layout, d.proto, e \o rest) = Motion(InForce(layout), m)
        BY <2>4, <2>6, <3>1, <3>2, <4>1, DecodedMove
      <4>3. Moved(pointer, Motion(InForce(layout), m)) = Meant(pointer, d, m)
        BY <3>1, <3>2, MovedAsMeant
      <4> QED BY <2>1, <3>3, <4>1, <4>2, <4>3
    <3>5. CASE input.kind = "other"
      <4>1. hand = After /\ e = d.other
        BY <2>1, <2>6, <3>5 DEF Following, Pending, e
      <4>2. d.other # <<>>
        BY <2>1, <2>6, <3>5 DEF Following, Pending
      <4>3. Decode(layout, d.proto, e \o rest) = Nothing
        BY <2>4, <2>6, <3>1, <3>2, <4>1, <4>2, DecodedOther
      <4> QED BY <2>1, <3>3, <4>1, <4>3 DEF Moved, Nothing
    <3> QED BY <2>3, <3>4, <3>5
  <2>7. Pending'
    BY <2>1, <2>6 DEF Pending, NoInput
  <2> QED BY <2>5, <2>7 DEF Following
<1>5. CASE ReadReport
  <2>1. /\ unread > 0 /\ unread' = unread - 1
        /\ pointer' = Moved(pointer, Decode(layout, d.proto, buf))
        /\ UNCHANGED <<dev, layout, buf, input, hand>>
    BY <1>5 DEF ReadReport
  <2>2. unread = 1 /\ unread' = 0 /\ dev # NoDevice
    BY <2>1 DEF Following, PathTypes
  <2>3. pointer' = After /\ After' = After
    BY <2>1, <2>2 DEF After
  <2>4. After \in Screen
    BY <2>2, AfterIs DEF Following
  <2>5. PathTypes'
    BY <2>1, <2>2, <2>3, <2>4 DEF Following, PathTypes
  <2>6. Pending'
    BY <2>1, <2>3 DEF Following, Pending
  <2> QED BY <2>5, <2>6 DEF Following
<1> QED BY <1>1, <1>2, <1>3, <1>4, <1>5 DEF PathNext

\* At first nothing has been done.
LEMMA FollowingInit == PathInit => Following
<1> SUFFICES ASSUME PathInit PROVE Following
  OBVIOUS
<1>1. /\ dev \in Devices \cup {NoDevice} /\ unread = 0 /\ buf = <<>> /\ input = NoInput
      /\ pointer = Centre /\ hand = Centre
      /\ layout = NoLayout \/ (dev # NoDevice /\ layout = LayoutOf(Device[dev].desc))
  BY DEF PathInit
<1>2. Centre \in Screen
  <2>1. \A n \in Nat \ {0} : n \div 2 \in 0 .. n - 1
    OBVIOUS
  <2> QED BY <2>1, PathAssumption DEF Centre, Screen
<1>3. Centre \in [x : Int, y : Int, buttons : Nat]
  BY <1>2, PathAssumption DEF Screen
<1>4. PathTypes
  <2>1. <<>> \in Seq({0, 1})
    OBVIOUS
  <2> HIDE DEF Screen
  <2> QED BY <1>1, <1>2, <1>3, <2>1 DEF PathTypes
<1>5. Pending
  BY <1>1 DEF Pending, After, NoInput
<1> QED BY <1>4, <1>5 DEF Following

\* Whatever the user does with a pointing device arrives: once every report has
\* been read the pointer is where the user moved it, and the buttons are those
\* held -- for all devices whose reports are where the layout says, of any width
\* up to 31 bits, signed or not, relative or absolute, with or without a report
\* id.  That the driver's arithmetic finds in a report what the device put there
\* (two's complement, fields that cross bytes, the boot layout) is proved; that
\* the layout it parsed is the device's is the hypothesis, which TLC evaluates
\* for the devices of its run.
THEOREM PointerArrives == ReportsDescribed => (PathSpec => []PathInv)
<1> SUFFICES ASSUME ReportsDescribed PROVE PathSpec => []PathInv
  OBVIOUS
<1>1. PathInit => Following
  BY FollowingInit
<1>2. Following /\ PathSafe /\ PathSafe' /\ [PathNext]_pathVars => Following'
  BY FollowingStep
<1>3. Following => PathInv
  <2> SUFFICES ASSUME Following PROVE PathInv
    OBVIOUS
  <2>1. PathTypeOK
    BY DEF Following, PathTypes, PathTypeOK, Screen
  <2>2. PointerFollows
    BY DEF Following, Pending, PointerFollows, After, NoInput
  <2> QED BY <2>1, <2>2 DEF PathInv
<1> QED BY <1>1, <1>2, <1>3, PathSafety, PTL DEF PathSpec

=============================================================================
