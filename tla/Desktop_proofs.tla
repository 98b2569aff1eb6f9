---------------------------- MODULE Desktop_proofs ----------------------------
(***************************************************************************)
(* Proofs about keyboard, queue and desktop, for a queue, reports, texts   *)
(* and wizards of any size, and any number of keys and presses.            *)
(*                                                                         *)
(* InputInv says what the queue holds and why a held key is not typed      *)
(* again; DesktopInv, what the window code relies on from one part of a    *)
(* press to the next: a window the press has not come to yet is not        *)
(* dragged, or Finish would leave the ghost of one behind.                 *)
(***************************************************************************)
EXTENDS Desktop, SequenceTheorems, TLAPS

-----------------------------------------------------------------------------
(* The ring. *)

Cells == 0 .. QueueSize - 1
Rings == [q : [Cells -> Keys], r : Cells, w : Cells]

LEMMA Around ==
  ASSUME NEW x \in 0 .. 2 * QueueSize - 1
  PROVE  x % QueueSize = IF x < QueueSize THEN x ELSE x - QueueSize
BY DesktopAssumption

Occupied(b) == IF b.w >= b.r THEN b.w - b.r ELSE b.w + QueueSize - b.r
CellOf(b, i) == IF b.r + i - 1 < QueueSize THEN b.r + i - 1 ELSE b.r + i - 1 - QueueSize

\* What the ring holds, without the arithmetic of the indices.
LEMMA ContentsAre ==
  ASSUME NEW b \in Rings
  PROVE  /\ Occupied(b) \in Cells
         /\ Contents(b) = [i \in 1 .. Occupied(b) |-> b.q[CellOf(b, i)]]
         /\ \A i \in 1 .. Occupied(b) : CellOf(b, i) \in Cells
<1> USE DesktopAssumption DEF Rings, Cells
<1>0. b.w \in 0 .. QueueSize - 1 /\ b.r \in 0 .. QueueSize - 1
  OBVIOUS
<1>1. (b.w + QueueSize - b.r) % QueueSize = Occupied(b) /\ Occupied(b) \in Cells
  <2>1. b.w + QueueSize - b.r \in 0 .. 2 * QueueSize - 1
    BY <1>0
  <2>2. (b.w + QueueSize - b.r) % QueueSize
          = IF b.w + QueueSize - b.r < QueueSize THEN b.w + QueueSize - b.r ELSE b.w - b.r
    BY <1>0, <2>1, Around, SMTT(30)
  <2> QED BY <1>0, <2>2 DEF Occupied
<1>2. ASSUME NEW i \in 1 .. Occupied(b)
      PROVE  (b.r + i - 1) % QueueSize = CellOf(b, i) /\ CellOf(b, i) \in Cells
  <2> DEFINE x == b.r + i - 1
  <2>1. x \in 0 .. 2 * QueueSize - 1
    BY <1>0, <1>1
  <2>2. x % QueueSize = IF x < QueueSize THEN x ELSE x - QueueSize
    <3> HIDE DEF x
    <3> QED BY <2>1, Around
  <2>3. x % QueueSize = CellOf(b, i)
    BY <2>2, SMTT(30) DEF CellOf
  <2> QED BY <1>0, <1>1, <2>1, <2>3, SMTT(30) DEF CellOf
<1>3. Contents(b) = [i \in 1 .. Occupied(b) |-> b.q[(b.r + i - 1) % QueueSize]]
  BY <1>1 DEF Contents
<1> QED BY <1>1, <1>2, <1>3

LEMMA ContentsSeq ==
  ASSUME NEW b \in Rings
  PROVE  Contents(b) \in Seq(Keys) /\ Len(Contents(b)) = Occupied(b)
<1>1. \A i \in 1 .. Occupied(b) : b.q[CellOf(b, i)] \in Keys
  BY ContentsAre DEF Rings
<1>2. Occupied(b) \in Nat
  BY ContentsAre, DesktopAssumption DEF Cells
<1> QED BY <1>1, <1>2, ContentsAre

LEMMA EmptyContents == EmptyRing \in Rings /\ Contents(EmptyRing) = <<>>
<1>1. EmptyRing \in Rings
  BY DesktopAssumption DEF EmptyRing, Rings, Cells, Keys
<1>2. Occupied(EmptyRing) = 0
  BY DEF EmptyRing, Occupied
<1> QED BY <1>1, <1>2, ContentsSeq

\* A character is put behind the others, or there is no room.
LEMMA PushContents ==
  ASSUME NEW b \in Rings, NEW c \in Keys
  PROVE  /\ Push(b, c) \in Rings
         /\ Contents(Push(b, c)) =
              IF Len(Contents(b)) < QueueSize - 1 THEN Append(Contents(b), c) ELSE Contents(b)
<1> USE DesktopAssumption
<1>1. b.w \in Cells /\ b.r \in Cells /\ b.q \in [Cells -> Keys]
  BY DEF Rings
<1> DEFINE next == (b.w + 1) % QueueSize
<1>2. next = IF b.w = QueueSize - 1 THEN 0 ELSE b.w + 1
  <2>1. b.w \in 0 .. QueueSize - 1 /\ b.w + 1 \in 0 .. 2 * QueueSize - 1
    BY <1>1 DEF Cells
  <2>2. next = IF b.w + 1 < QueueSize THEN b.w + 1 ELSE b.w + 1 - QueueSize
    BY <2>1, Around
  <2> HIDE DEF next
  <2> QED BY <2>1, <2>2
<1> HIDE DEF next
<1>3. Len(Contents(b)) = Occupied(b) /\ Contents(b) \in Seq(Keys)
  BY ContentsSeq
<1>4. next = b.r <=> ~(Occupied(b) < QueueSize - 1)
  BY <1>1, <1>2 DEF Occupied, Cells
<1>5. CASE next = b.r
  BY <1>3, <1>4, <1>5 DEF Push, next
<1>6. CASE next # b.r
  <2> DEFINE p == Push(b, c)
  <2>1. p = [b EXCEPT !.q[b.w] = c, !.w = next]
    BY <1>6 DEF Push, next
  <2>2. next \in Cells
    BY <1>1, <1>2 DEF Cells
  <2>3. /\ p \in Rings
        /\ p.r = b.r /\ p.w = next /\ p.q = [b.q EXCEPT ![b.w] = c]
    BY <1>1, <2>1, <2>2 DEF Rings
  <2> HIDE DEF p
  <2>4. Occupied(p) = Occupied(b) + 1
    BY <1>1, <1>2, <1>6, <2>3 DEF Occupied, Cells
  <2>5. CellOf(b, Occupied(b) + 1) = b.w
    BY <1>1 DEF CellOf, Occupied, Cells
  <2>6. \A i \in 1 .. Occupied(b) : CellOf(b, i) # b.w
    BY <1>1 DEF CellOf, Occupied, Cells
  <2>7. \A i \in 1 .. Occupied(p) : CellOf(p, i) = CellOf(b, i)
    BY <2>3 DEF CellOf
  <2>8. \A i \in 1 .. Occupied(b) : p.q[CellOf(p, i)] = b.q[CellOf(b, i)]
    <3> TAKE i \in 1 .. Occupied(b)
    <3>1. Occupied(b) \in Nat /\ CellOf(b, i) \in Cells /\ CellOf(b, i) # b.w
      BY <2>6, ContentsAre DEF Cells
    <3>2. CellOf(p, i) = CellOf(b, i)
      BY <2>4, <2>7, <3>1
    <3> QED BY <1>1, <2>3, <3>1, <3>2
  <2>9. p.q[CellOf(p, Occupied(b) + 1)] = c
    <3>1. Occupied(b) \in Nat
      BY ContentsAre DEF Cells
    <3> QED BY <1>1, <2>3, <2>4, <2>5, <2>7, <3>1
  <2>10. Contents(p) = Append(Contents(b), c)
    <3>1. Occupied(b) \in Nat
      BY ContentsAre DEF Cells
    <3>2. /\ Contents(p) \in Seq(Keys) /\ Len(Contents(p)) = Occupied(b) + 1
          /\ \A i \in 1 .. Occupied(b) + 1 : Contents(p)[i] = p.q[CellOf(p, i)]
      BY <2>3, <2>4, ContentsSeq, ContentsAre
    <3>3. \A i \in 1 .. Occupied(b) : Contents(b)[i] = b.q[CellOf(b, i)]
      BY ContentsAre
    <3>4. /\ Append(Contents(b), c) \in Seq(Keys)
          /\ Len(Append(Contents(b), c)) = Occupied(b) + 1
          /\ \A i \in 1 .. Occupied(b) : Append(Contents(b), c)[i] = Contents(b)[i]
          /\ Append(Contents(b), c)[Occupied(b) + 1] = c
      BY <1>3, <3>1
    <3>5. \A i \in 1 .. Occupied(b) + 1 : Contents(p)[i] = Append(Contents(b), c)[i]
      BY <2>8, <2>9, <3>1, <3>2, <3>3, <3>4
    <3> QED BY <3>2, <3>4, <3>5, SeqEqual
  <2> QED BY <1>3, <1>4, <1>6, <2>3, <2>10 DEF p
<1> QED BY <1>5, <1>6

\* The oldest character is taken out.
LEMMA PopContents ==
  ASSUME NEW b \in Rings, b.r # b.w
  PROVE  LET p == [b EXCEPT !.r = (b.r + 1) % QueueSize]
         IN /\ p \in Rings
            /\ Contents(b) # <<>> /\ Contents(p) = Tail(Contents(b))
            /\ b.q[b.r] = Head(Contents(b))
<1> USE DesktopAssumption
<1>1. b.w \in Cells /\ b.r \in Cells /\ b.q \in [Cells -> Keys]
  BY DEF Rings
<1> DEFINE next == (b.r + 1) % QueueSize
<1>2. next = IF b.r = QueueSize - 1 THEN 0 ELSE b.r + 1
  <2>1. b.r \in 0 .. QueueSize - 1 /\ b.r + 1 \in 0 .. 2 * QueueSize - 1
    BY <1>1 DEF Cells
  <2>2. next = IF b.r + 1 < QueueSize THEN b.r + 1 ELSE b.r + 1 - QueueSize
    BY <2>1, Around
  <2> HIDE DEF next
  <2> QED BY <2>1, <2>2
<1> DEFINE p == [b EXCEPT !.r = next]
<1> HIDE DEF next
<1>3. next \in Cells
  BY <1>1, <1>2 DEF Cells
<1>4. p \in Rings /\ p.r = next /\ p.w = b.w /\ p.q = b.q
  BY <1>1, <1>3 DEF Rings
<1> HIDE DEF p
<1>5. Occupied(b) \in Nat \ {0} /\ Occupied(p) = Occupied(b) - 1
  <2>1. b.r \in 0 .. QueueSize - 1 /\ b.w \in 0 .. QueueSize - 1
    BY <1>1 DEF Cells
  <2>2. p.r = next /\ p.w = b.w
    BY <1>4
  <2>3. CASE b.r = QueueSize - 1
    BY <1>2, <2>1, <2>2, <2>3 DEF Occupied
  <2>4. CASE b.r # QueueSize - 1
    BY <1>2, <2>1, <2>2, <2>4 DEF Occupied
  <2> QED BY <2>3, <2>4
<1>6. \A i \in 1 .. Occupied(p) : CellOf(p, i) = CellOf(b, i + 1)
  <2>1. b.r \in 0 .. QueueSize - 1 /\ p.r = next /\ Occupied(b) < QueueSize
    BY <1>1, <1>4, ContentsAre DEF Cells
  <2>2. CASE b.r = QueueSize - 1
    BY <1>2, <1>5, <2>1, <2>2 DEF CellOf
  <2>3. CASE b.r # QueueSize - 1
    BY <1>2, <1>5, <2>1, <2>3 DEF CellOf
  <2> QED BY <2>2, <2>3
<1>7. Contents(b) \in Seq(Keys) /\ Len(Contents(b)) = Occupied(b)
      /\ Contents(b) = [i \in 1 .. Occupied(b) |-> b.q[CellOf(b, i)]]
  BY ContentsSeq, ContentsAre
<1>8. Contents(b) # <<>>
  BY <1>5, <1>7
<1>9. Contents(p) = Tail(Contents(b))
  <2>1. Contents(p) = [i \in 1 .. Occupied(b) - 1 |-> b.q[CellOf(b, i + 1)]]
    BY <1>4, <1>5, <1>6, ContentsAre
  <2>2. Tail(Contents(b)) = [i \in 1 .. Occupied(b) - 1 |-> Contents(b)[i + 1]]
    BY <1>5, <1>7, <1>8
  <2>3. \A i \in 1 .. Occupied(b) - 1 : Contents(b)[i + 1] = b.q[CellOf(b, i + 1)]
    BY <1>5, <1>7
  <2> QED BY <2>1, <2>2, <2>3
<1>10. b.q[b.r] = Head(Contents(b))
  <2>1. CellOf(b, 1) = b.r
    BY <1>1 DEF CellOf, Cells
  <2> QED BY <1>5, <1>7, <1>8, <2>1
<1> QED BY <1>4, <1>8, <1>9, <1>10 DEF p, next


-----------------------------------------------------------------------------
(* Keyboard and queue. *)

\* Unless the last report said only that too many keys are held, a key that is
\* held was in it, or went down since.
InputInv ==
  /\ down \in Seq(Keys) /\ prev \in Seq(Keys \cup {RollOver}) /\ fresh \subseteq Keys
  /\ at \in Nat /\ ring \in Rings
  /\ RollOver \notin Range(prev) => Range(down) \subseteq Range(prev) \cup fresh

\* A report names the keys that are held, or none of them.
LEMMA ReportedIs ==
  ASSUME down \in Seq(Keys)
  PROVE  /\ Reported \in Seq(Keys \cup {RollOver})
         /\ RollOver \notin Range(Reported) => Reported = down
         /\ \A i \in DOMAIN Reported : Reported[i] \in Keys => Reported[i] \in Range(down)
<1>1. CASE Len(down) > ReportKeys
  <2>1. Reported = [i \in 1 .. ReportKeys |-> RollOver]
    BY <1>1 DEF Reported
  <2>2. 1 \in DOMAIN Reported /\ Reported[1] = RollOver
    BY <2>1, DesktopAssumption
  <2>3. Reported \in Seq(Keys \cup {RollOver})
    BY <2>1, DesktopAssumption
  <2>4. RollOver \in Range(Reported)
    BY <2>2 DEF Range
  <2>5. RollOver \notin Keys
    BY DEF RollOver, Keys
  <2> QED BY <2>1, <2>3, <2>4, <2>5
<1>2. CASE ~(Len(down) > ReportKeys)
  <2>1. Reported = down
    BY <1>2 DEF Reported
  <2>2. down \in Seq(Keys \cup {RollOver})
    OBVIOUS
  <2> QED BY <2>1, <2>2 DEF Range
<1> QED BY <1>1, <1>2

\* A key that is let go leaves the others.
LEMMA RemoveKey ==
  ASSUME down \in Seq(Keys), NEW i \in DOMAIN down
  PROVE  RemoveAt(down, i) \in Seq(Keys) /\ Range(RemoveAt(down, i)) \subseteq Range(down)
<1> DEFINE a == SubSeq(down, 1, i - 1)
           b == SubSeq(down, i + 1, Len(down))
<1>1. i \in 1 .. Len(down)
  OBVIOUS
<1>2. /\ a \in Seq(Keys) /\ Len(a) = i - 1
      /\ \A j \in 1 .. i - 1 : a[j] = down[j]
  BY <1>1
<1>3. /\ b \in Seq(Keys) /\ Len(b) = Len(down) - i
      /\ \A j \in 1 .. Len(down) - i : b[j] = down[j + i]
  BY <1>1
<1>4. RemoveAt(down, i) = a \o b
  BY DEF RemoveAt
<1> HIDE DEF a, b
<1>5. a \o b \in Seq(Keys) /\ Len(a \o b) = Len(a) + Len(b)
  BY <1>2, <1>3, ConcatProperties
<1>6. ASSUME NEW j \in 1 .. Len(a \o b) PROVE (a \o b)[j] \in Range(down)
  <2>1. CASE j <= Len(a)
    <3>1. (a \o b)[j] = down[j] /\ j \in DOMAIN down
      BY <1>1, <1>2, <1>3, <2>1
    <3> QED BY <3>1 DEF Range
  <2>2. CASE j > Len(a)
    <3>1. (a \o b)[j] = b[j - Len(a)]
      <4>1. \A n \in 1 .. Len(a) + Len(b) :
              (a \o b)[n] = IF n <= Len(a) THEN a[n] ELSE b[n - Len(a)]
        BY <1>2, <1>3, ConcatProperties, Zenon
      <4>2. j \in 1 .. Len(a) + Len(b)
        BY <1>5, Zenon
      <4>3. ~(j <= Len(a))
        BY <1>1, <1>2, <1>3, <2>2, <4>2
      <4> QED BY <4>1, <4>2, <4>3, Zenon
    <3>2. j - Len(a) \in 1 .. Len(down) - i
      BY <1>1, <1>2, <1>3, <1>5, <2>2, SMTT(30)
    <3>3. b[j - Len(a)] = down[j - Len(a) + i]
      BY <1>3, <3>2
    <3>4. j - Len(a) + i \in DOMAIN down
      BY <1>1, <1>2, <3>2
    <3> QED BY <3>1, <3>3, <3>4 DEF Range
  <2> QED BY <1>2, <1>5, <2>1, <2>2
<1> QED BY <1>4, <1>5, <1>6 DEF Range

LEMMA InputStarts == Init => InputInv
<1> SUFFICES ASSUME Init PROVE InputInv
  OBVIOUS
<1>1. Range(down) = {}
  BY DEF Init, Range
<1> QED BY <1>1, EmptyContents DEF Init, InputInv

LEMMA InputStep == InputInv /\ [Next]_vars => InputInv'
<1> SUFFICES ASSUME InputInv, [Next]_vars PROVE InputInv'
  OBVIOUS
<1> USE DEF InputInv
<1>1. ASSUME NEW k \in Keys, KeyDown(k) PROVE InputInv'
  <2>1. /\ down' = Append(down, k) /\ fresh' = fresh \cup {k}
        /\ UNCHANGED <<prev, at, ring>>
    BY <1>1 DEF KeyDown, input
  <2>2. down' \in Seq(Keys) /\ Range(down') = Range(down) \cup {k}
    BY <2>1 DEF Range
  <2> QED BY <2>1, <2>2
<1>2. ASSUME NEW k \in Keys, KeyUp(k) PROVE InputInv'
  <2>1. \E i \in DOMAIN down : down' = RemoveAt(down, i)
    BY <1>2 DEF KeyUp
  <2>2. down' \in Seq(Keys) /\ Range(down') \subseteq Range(down)
    BY <2>1, RemoveKey
  <2>3. UNCHANGED <<fresh, prev, at, ring>>
    BY <1>2 DEF KeyUp, input
  <2> QED BY <2>2, <2>3
<1>3. CASE Report
  BY <1>3 DEF Report, user
<1>4. CASE KeyOfReport
  <2>1. ring' \in Rings
    BY <1>4, PushContents DEF KeyOfReport, Types
  <2> QED BY <1>4, <2>1 DEF KeyOfReport, user
<1>5. CASE ReportRead
  <2>1. prev' = Reported /\ fresh' = {} /\ at' = 0 /\ UNCHANGED <<down, ring>>
    BY <1>5 DEF ReportRead
  <2>2. RollOver \notin Range(prev') => Range(down') = Range(prev')
    BY <2>1, ReportedIs
  <2> QED BY <2>1, <2>2, ReportedIs
<1>6. CASE DesktopInit
  BY <1>6, EmptyContents DEF DesktopInit, user
<1>7. CASE TakeKey
  <2>1. ring' \in Rings
    BY <1>7, PopContents DEF TakeKey
  <2> QED BY <1>7, <2>1 DEF TakeKey, user
<1>8. CASE UNCHANGED <<user, prev, at, ring>>
  BY <1>8 DEF user
<1>9. Button \/ WizardTurn \/ Frame \/ KeysRead \/ PressStart \/ PressElsewhere \/ PressEntry
      \/ PressGap \/ PressDock \/ PressSetup \/ FrameEnd \/ UNCHANGED vars
      => UNCHANGED <<user, prev, at, ring>>
  BY DEF Button, WizardTurn, Frame, KeysRead, PressStart, PressElsewhere, PressEntry, PressGap,
         PressDock, PressSetup, FrameEnd, Same, input, vars
<1>10. \A w, next : PressWindow(w, next) => UNCHANGED <<user, prev, at, ring>>
  BY DEF PressWindow, Same, input
<1> QED BY <1>1, <1>2, <1>3, <1>4, <1>5, <1>6, <1>7, <1>8, <1>9, <1>10 DEF Next


-----------------------------------------------------------------------------
(* The desktop. *)

Places == {"wizard", "desktop", "poll", "keys", "menu", "dock", "explorer", "viewer", "notepad",
           "setup", "shell", "end"}

DesktopTypes ==
  /\ line \in 0 .. LineCap - 1 /\ text \in 0 .. TextCap - 1
  /\ step \in 0 .. LastStep /\ done \subseteq Flagged
  /\ open \subseteq Windows /\ focus \in Programs
  /\ left \in BOOLEAN /\ held \in BOOLEAN /\ listens \in BOOLEAN
  /\ pc \in Places

\* A drag begins in a press, at its own window, and the press before it is over:
\* the windows the press has yet to come to are not dragged.
Drags ==
  /\ dragged \subseteq open
  /\ pc \in {"poll", "keys"} => (dragged # {} => held)
  /\ pc \in {"wizard", "desktop", "menu", "dock", "explorer"} => dragged = {}
  /\ pc \in {"viewer", "notepad", "setup"} => "setup" \notin dragged

DesktopInv == DesktopTypes /\ Drags /\ ShellListens /\ SetupInOrder


LEMMA TypedFits ==
  ASSUME NEW cap \in Nat \ {0}, NEW len \in 0 .. cap - 1, NEW c
  PROVE  Typed(len, c, cap) \in 0 .. cap - 1
BY DEF Typed

\* Showing a window, or the set-up, keeps what the windows owe each other.
LEMMA ShowKeeps ==
  ASSUME open \subseteq Windows, focus \in Programs, listens \in BOOLEAN, ShellListens
  PROVE  /\ \A w \in Programs : Show(w) =>
              /\ open \subseteq open' /\ open' \subseteq Windows /\ focus' \in Programs
              /\ listens' \in BOOLEAN /\ ShellListens'
         /\ SetUp =>
              /\ open \subseteq open' /\ open' \subseteq Windows /\ focus' \in Programs
              /\ step' = 0 /\ listens' \in BOOLEAN /\ ShellListens'
         /\ SameWindows =>
              open' = open /\ focus' = focus /\ listens' = listens /\ ShellListens'
<1>1. ASSUME NEW w \in Programs, Show(w)
      PROVE  /\ open \subseteq open' /\ open' \subseteq Windows /\ focus' \in Programs
             /\ listens' \in BOOLEAN /\ ShellListens'
  <2>1. open' = open \cup {w} /\ focus' = w /\ listens' = (listens \/ w = "shell")
    BY <1>1 DEF Show
  <2>2. listens' \in BOOLEAN /\ (listens => listens') /\ (w = "shell" => listens')
    BY <2>1, Zenon
  <2>3. "shell" \in open' => "shell" \in open \/ w = "shell"
    BY <2>1
  <2>4. ShellListens'
    BY <2>2, <2>3, Zenon DEF ShellListens
  <2> QED BY <2>1, <2>2, <2>4 DEF Windows
<1>2. SetUp => /\ open \subseteq open' /\ open' \subseteq Windows /\ focus' \in Programs
               /\ step' = 0 /\ listens' \in BOOLEAN /\ ShellListens'
  BY DEF SetUp, Windows, ShellListens
<1>3. SameWindows => open' = open /\ focus' = focus /\ listens' = listens /\ ShellListens'
  BY DEF SameWindows, ShellListens
<1> QED BY <1>1, <1>2, <1>3

LEMMA DesktopStarts == Init => DesktopInv
<1> SUFFICES ASSUME Init PROVE DesktopInv
  OBVIOUS
<1>1. /\ line = 0 /\ text = 0 /\ step = 0 /\ done = {} /\ open = {} /\ dragged = {}
      /\ pc = "wizard" /\ focus = "shell"
  BY DEF Init
<1>2. left \in BOOLEAN /\ held \in BOOLEAN /\ listens \in BOOLEAN
  BY Zenon DEF Init
<1>3. DesktopTypes
  BY <1>1, <1>2, DesktopAssumption DEF DesktopTypes, Places, Programs
<1>4. Drags /\ ShellListens /\ SetupInOrder
  BY <1>1 DEF Drags, ShellListens, SetupInOrder
<1> QED BY <1>3, <1>4 DEF DesktopInv

LEMMA DesktopStep == InputInv /\ DesktopInv /\ [Next]_vars => DesktopInv'
<1> SUFFICES ASSUME InputInv, DesktopInv, [Next]_vars PROVE DesktopInv'
  OBVIOUS
<1>0. DesktopTypes /\ Drags /\ ShellListens /\ SetupInOrder
  BY DEF DesktopInv
<1> USE DesktopAssumption
<1>1. ASSUME UNCHANGED <<left, held, pc, texts, windows>> PROVE DesktopInv'
  BY <1>0, <1>1 DEF texts, windows, DesktopInv, DesktopTypes, Drags, ShellListens, SetupInOrder
<1>2. \A k \in Keys : KeyDown(k) \/ KeyUp(k) => UNCHANGED <<left, held, pc, texts, windows>>
  BY DEF KeyDown, KeyUp, input
<1>3. Report \/ KeyOfReport \/ ReportRead \/ UNCHANGED vars
      => UNCHANGED <<left, held, pc, texts, windows>>
  BY DEF Report, KeyOfReport, ReportRead, input, vars
<1>4. CASE Button
  <2>1. UNCHANGED <<held, pc, texts, windows>> /\ left' \in BOOLEAN
    <3>1. left' = ~left /\ UNCHANGED <<held, pc, texts, windows>>
      BY <1>4 DEF Button
    <3> QED BY <3>1, Zenon
  <2> QED BY <1>0, <2>1 DEF texts, windows, DesktopInv, DesktopTypes, Drags, ShellListens,
             SetupInOrder
<1>5. CASE WizardTurn
  <2>1. /\ pc = "wizard" /\ pc' \in {"wizard", "desktop"} /\ held' = left
        /\ step' \in 0 .. LastStep
        /\ UNCHANGED <<left, texts, open, listens, focus, dragged, done>>
    BY <1>0, <1>5 DEF WizardTurn, DesktopTypes, input
  <2>2. DesktopTypes'
    BY <1>0, <2>1 DEF DesktopTypes, Places, texts
  <2>3. Drags' /\ ShellListens' /\ SetupInOrder'
    BY <1>0, <2>1 DEF Drags, ShellListens, SetupInOrder
  <2> QED BY <2>2, <2>3 DEF DesktopInv
<1>6. CASE DesktopInit
  <2>1. /\ pc = "desktop" /\ pc' = "poll" /\ left' = FALSE /\ held' = FALSE /\ step' = 0
        /\ UNCHANGED <<texts, open, listens, focus, dragged, done>>
    BY <1>6 DEF DesktopInit
  <2>2. DesktopTypes'
    <3>1. left' \in BOOLEAN /\ held' \in BOOLEAN
      BY <2>1, Zenon
    <3>2. /\ UNCHANGED <<line, text, open, listens, focus, done>>
          /\ pc' = "poll" /\ step' = 0
      BY <2>1 DEF texts
    <3> QED BY <1>0, <3>1, <3>2 DEF DesktopTypes, Places
  <2>3. Drags' /\ ShellListens' /\ SetupInOrder'
    BY <1>0, <2>1 DEF Drags, ShellListens, SetupInOrder
  <2> QED BY <2>2, <2>3 DEF DesktopInv
<1>7. CASE Frame \/ KeysRead
  <2>1. UNCHANGED <<left, held, texts, windows>>
    BY <1>7 DEF Frame, KeysRead, input
  <2>2. \/ pc = "poll" /\ pc' = "keys"
        \/ pc = "keys" /\ pc' = "menu" /\ ~held
        \/ pc = "keys" /\ pc' = "end"
    BY <1>7 DEF Frame, KeysRead, Pressed
  <2>3. DesktopTypes'
    BY <1>0, <2>1, <2>2 DEF DesktopTypes, Places, texts, windows
  <2>4. Drags'
    BY <1>0, <2>1, <2>2 DEF Drags, windows
  <2>5. ShellListens' /\ SetupInOrder'
    BY <1>0, <2>1, <2>2 DEF ShellListens, SetupInOrder, windows
  <2> QED BY <2>3, <2>4, <2>5 DEF DesktopInv
<1>8. CASE TakeKey
  <2> DEFINE c == ring.q[ring.r]
  <2>1. pc = "keys" /\ UNCHANGED <<left, held, pc, dragged, done>>
    BY <1>8 DEF TakeKey
  <2>2. /\ text' \in 0 .. TextCap - 1 /\ line' \in 0 .. LineCap - 1
        /\ \/ SameWindows /\ UNCHANGED step
           \/ SetUp
           \/ UNCHANGED step /\ \E w \in Programs : Show(w)
    <3>0. Typed(text, c, TextCap) \in 0 .. TextCap - 1 /\ Typed(line, c, LineCap) \in 0 .. LineCap - 1
      BY <1>0, TypedFits DEF DesktopTypes
    <3>1. \/ text' = Typed(text, c, TextCap) /\ SameWindows /\ UNCHANGED <<line, step>>
          \/ RunLine /\ UNCHANGED text
          \/ line' = Typed(line, c, LineCap) /\ SameWindows /\ UNCHANGED step /\ UNCHANGED text
          \/ SameWindows /\ UNCHANGED <<texts, step>>
      <4> HIDE DEF c
      <4> QED BY <1>8 DEF TakeKey, c
    <3>2. RunLine => /\ line' = 0
                     /\ \/ SameWindows /\ UNCHANGED step
                        \/ SetUp
                        \/ UNCHANGED step /\ \E w \in Programs : Show(w)
      BY DEF RunLine
    <3> HIDE DEF c
    <3> QED BY <1>0, <3>0, <3>1, <3>2 DEF DesktopTypes, texts
  <2>3. /\ open \subseteq open' /\ open' \subseteq Windows /\ focus' \in Programs
        /\ listens' \in BOOLEAN /\ ShellListens' /\ step' \in {step, 0}
    BY <1>0, <2>2, ShowKeeps DEF DesktopTypes
  <2>4. DesktopTypes'
    BY <1>0, <2>1, <2>2, <2>3 DEF DesktopTypes
  <2>5. Drags'
    BY <1>0, <2>1, <2>3 DEF Drags
  <2>6. SetupInOrder'
    BY <1>0, <2>1, <2>3 DEF SetupInOrder
  <2> QED BY <2>3, <2>4, <2>5, <2>6 DEF DesktopInv
<1>9. CASE PressStart \/ PressElsewhere \/ PressEntry \/ PressGap \/ PressDock
  <2>1. /\ pc \in {"menu", "dock"} /\ pc' \in {"dock", "explorer"}
        /\ dragged' \subseteq dragged
        /\ UNCHANGED <<left, held, text, done>>
        /\ line' \in {line, 0}
    BY <1>9 DEF PressStart, PressElsewhere, PressEntry, PressGap, PressDock, Same, input, texts,
                windows
  <2>2. \/ SameWindows /\ UNCHANGED step
        \/ SetUp
        \/ UNCHANGED step /\ \E w \in Programs : Show(w)
    BY <1>9 DEF PressStart, PressElsewhere, PressEntry, PressGap, PressDock, windows, SameWindows
  <2>3. /\ open \subseteq open' /\ open' \subseteq Windows /\ focus' \in Programs
        /\ listens' \in BOOLEAN /\ ShellListens' /\ step' \in {step, 0}
    BY <1>0, <2>2, ShowKeeps DEF DesktopTypes
  <2>4. DesktopTypes'
    BY <1>0, <2>1, <2>3 DEF DesktopTypes, Places
  <2>5. Drags'
    BY <1>0, <2>1, <2>3 DEF Drags
  <2>6. SetupInOrder'
    BY <1>0, <2>1, <2>3 DEF SetupInOrder
  <2> QED BY <2>3, <2>4, <2>5, <2>6 DEF DesktopInv
<1>10. CASE PressSetup
  <2>1. /\ pc = "setup" /\ pc' = "shell"
        /\ UNCHANGED <<left, held, texts, listens, focus, dragged>>
    BY <1>10 DEF PressSetup, Same, input
  <2>2. /\ open' \subseteq open /\ (open \ {"setup"}) \subseteq open'
        /\ step' \in 0 .. LastStep
        /\ \/ step' <= step /\ done' = done
           \/ step' = step + 1 /\ done' = done \cup ({step} \cap Flagged)
    BY <1>0, <1>10 DEF PressSetup, DesktopTypes
  <2>3. DesktopTypes'
    BY <1>0, <2>1, <2>2 DEF DesktopTypes, Places, texts
  <2>4. Drags'
    BY <1>0, <2>1, <2>2 DEF Drags
  <2>5. ShellListens'
    BY <1>0, <2>1, <2>2 DEF ShellListens
  <2>6. SetupInOrder'
    BY <1>0, <2>1, <2>2 DEF SetupInOrder, DesktopTypes
  <2> QED BY <2>3, <2>4, <2>5, <2>6 DEF DesktopInv
<1>11. ASSUME NEW w \in Windows, NEW next \in Places, PressWindow(w, next),
              <<w, next>> \in {<<"explorer", "viewer">>, <<"viewer", "notepad">>,
                  <<"notepad", "setup">>, <<"setup", "shell">>, <<"shell", "end">>}
       PROVE  DesktopInv'
  <2>1. /\ pc = w /\ pc' = next /\ UNCHANGED <<left, held, texts, step, done>>
    BY <1>11 DEF PressWindow, Same, input
  <2>2. /\ dragged' \subseteq dragged \cup {w} /\ dragged' \subseteq open'
        /\ open' \subseteq Windows /\ focus' \in Programs /\ listens' \in BOOLEAN /\ ShellListens'
    <3>1. CASE Miss
      BY <1>0, <3>1, ShowKeeps DEF Miss, DesktopTypes, Drags
    <3>2. CASE w \in open /\ Close(w)
      BY <1>0, <3>2 DEF Close, DesktopTypes, Drags, ShellListens
    <3>3. CASE w \in open /\ Grab(w)
      BY <1>0, <3>3 DEF Grab, DesktopTypes, Drags, ShellListens, Windows
    <3>4. CASE \E v \in Programs : Show(v) /\ UNCHANGED dragged
      BY <1>0, <3>4, ShowKeeps DEF DesktopTypes, Drags
    <3> QED BY <1>11, <3>1, <3>2, <3>3, <3>4 DEF PressWindow, Programs
  <2>3. DesktopTypes'
    BY <1>0, <2>1, <2>2 DEF DesktopTypes, texts
  <2>4. Drags'
    BY <1>0, <1>11, <2>1, <2>2 DEF Drags
  <2>5. SetupInOrder'
    BY <1>0, <1>11, <2>1 DEF SetupInOrder
  <2> QED BY <2>2, <2>3, <2>4, <2>5 DEF DesktopInv
<1>12. CASE FrameEnd
  <2>1. /\ pc = "end" /\ pc' = "poll" /\ held' = left
        /\ dragged' = (IF left THEN dragged ELSE {})
        /\ UNCHANGED <<left, texts, open, listens, focus, step, done>>
    BY <1>12 DEF FrameEnd, input
  <2>2. DesktopTypes'
    BY <1>0, <2>1 DEF DesktopTypes, Places, texts
  <2>3. Drags'
    BY <1>0, <2>1 DEF Drags, DesktopTypes
  <2>4. ShellListens' /\ SetupInOrder'
    BY <1>0, <2>1 DEF ShellListens, SetupInOrder
  <2> QED BY <2>2, <2>3, <2>4 DEF DesktopInv
<1>13. (\/ PressWindow("explorer", "viewer") \/ PressWindow("viewer", "notepad")
        \/ PressWindow("notepad", "setup") \/ PressWindow("setup", "shell")
        \/ PressWindow("shell", "end")) => DesktopInv'
  <2>1. /\ {"explorer", "viewer", "notepad", "setup", "shell"} \subseteq Windows
        /\ {"viewer", "notepad", "setup", "shell", "end"} \subseteq Places
    BY DEF Windows, Programs, Places
  <2> QED BY <1>11, <2>1
<1> QED
  BY <1>1, <1>2, <1>3, <1>4, <1>5, <1>6, <1>7, <1>8, <1>9, <1>10, <1>12, <1>13 DEF Next


-----------------------------------------------------------------------------
(* What holds of every behaviour. *)

LEMMA InputHolds == Spec => []InputInv
<1>1. Init => InputInv
  BY InputStarts
<1>2. InputInv /\ [Next]_vars => InputInv'
  BY InputStep
<1> QED BY <1>1, <1>2, PTL DEF Spec

\* The types, texts, wizard steps, drags and the shell's flag, one frame and one
\* press after the other, in any number of windows opened, grabbed and closed.
THEOREM DesktopInvariant == Spec => []DesktopInv
<1>1. Init => DesktopInv
  BY DesktopStarts
<1>2. InputInv /\ DesktopInv /\ [Next]_vars => DesktopInv'
  BY DesktopStep
<1> QED BY <1>1, <1>2, InputHolds, PTL DEF Spec

\* Every text keeps room for its terminator, nothing hidden is dragged, a shown
\* shell gets its keys, and no step of the set-up is done before it is reached.
THEOREM WindowsStayConsistent == Spec => []WindowsConsistent
<1>1. InputInv /\ DesktopInv => WindowsConsistent
  <2> SUFFICES ASSUME InputInv, DesktopInv PROVE WindowsConsistent
    OBVIOUS
  <2>1. TypeOK
    BY DEF InputInv, DesktopInv, DesktopTypes, Drags, TypeOK, Rings, Cells
  <2>2. NoGhostDrag /\ ShellListens /\ SetupInOrder
    BY DEF DesktopInv, Drags, NoGhostDrag
  <2> QED BY <2>1, <2>2 DEF WindowsConsistent
<1> QED BY <1>1, InputHolds, DesktopInvariant, PTL

\* The queue is one: a step of the keyboard is an arrival, one of the programs
\* takes the oldest, and only the start of the desktop forgets what is pending.
THEOREM KeysStayInOrder == Spec => KeysInOrder
<1> DEFINE Turn == IF KeyOfReport /\ Types(at)
                   THEN KeyQ!Arrive(Reported[at])
                   ELSE KeyQ!Take \/ (pc = "desktop" /\ KeyQ!Clear) \/ UNCHANGED Pending
<1>1. Init => KeyQ!QueueInit
  BY EmptyContents DEF Init, KeyQ!QueueInit, Pending
<1>2. InputInv /\ [Next]_vars => [Turn]_vars
  <2> SUFFICES ASSUME InputInv, Next PROVE Turn
    BY DEF vars
  <2>1. ring \in Rings
    BY DEF InputInv
  <2>2. ASSUME KeyOfReport, Types(at) PROVE KeyQ!Arrive(Reported[at])
    <3>1. ring' = Push(ring, Reported[at]) /\ Reported[at] \in Keys
      BY <2>2 DEF KeyOfReport, Types
    <3>2. Contents(ring)' = Contents(ring')
      BY DEF Contents
    <3> QED BY <2>1, <3>1, <3>2, PushContents DEF KeyQ!Arrive, Pending
  <2>3. ASSUME ~(KeyOfReport /\ Types(at))
        PROVE  KeyQ!Take \/ (pc = "desktop" /\ KeyQ!Clear) \/ UNCHANGED Pending
    <3>0. UNCHANGED ring => UNCHANGED Pending
      BY DEF Pending, Contents
    <3>1. CASE TakeKey
      <4>1. ring.r # ring.w /\ ring' = [ring EXCEPT !.r = (ring.r + 1) % QueueSize]
        BY <3>1 DEF TakeKey
      <4>2. Pending # <<>> /\ Contents(ring') = Tail(Pending)
        BY <2>1, <4>1, PopContents DEF Pending
      <4>3. Pending' = Contents(ring')
        BY DEF Pending, Contents
      <4> QED BY <4>2, <4>3 DEF KeyQ!Take
    <3>2. CASE DesktopInit
      <4>1. pc = "desktop" /\ ring' = EmptyRing
        BY <3>2 DEF DesktopInit
      <4>2. Pending' = Contents(ring')
        BY DEF Pending, Contents
      <4> QED BY <4>1, <4>2, EmptyContents DEF KeyQ!Clear
    <3>3. CASE KeyOfReport
      BY <2>3, <3>0, <3>3 DEF KeyOfReport
    <3>4. CASE UNCHANGED ring
      BY <3>0, <3>4
    <3>5. (\E k \in Keys : KeyDown(k) \/ KeyUp(k)) \/ Report \/ ReportRead \/ Button \/ WizardTurn
          \/ Frame \/ KeysRead \/ PressStart \/ PressElsewhere \/ PressEntry \/ PressGap
          \/ PressDock \/ PressSetup \/ FrameEnd => UNCHANGED ring
      BY DEF KeyDown, KeyUp, Report, ReportRead, Button, WizardTurn, Frame, KeysRead, PressStart,
             PressElsewhere, PressEntry, PressGap, PressDock, PressSetup, FrameEnd, Same, input
    <3>6. \A w, next : PressWindow(w, next) => UNCHANGED ring
      BY DEF PressWindow, Same, input
    <3> QED BY <3>1, <3>2, <3>3, <3>4, <3>5, <3>6 DEF Next
  <2> QED BY <2>2, <2>3
<1> QED BY <1>1, <1>2, InputHolds, PTL DEF Spec, KeysInOrder

\* Whatever is typed went down since the last report.
THEOREM KeysTypedOnce == Spec => TypedOnce
<1>1. InputInv => (KeyOfReport /\ Types(at) /\ RollOver \notin Range(prev) => Reported[at] \in fresh)
  <2> SUFFICES ASSUME InputInv, KeyOfReport, Types(at), RollOver \notin Range(prev)
               PROVE  Reported[at] \in fresh
    OBVIOUS
  <2>1. at \in DOMAIN Reported /\ Reported[at] \in Keys /\ Reported[at] \notin Range(prev)
    BY DEF KeyOfReport, Types, New
  <2>2. Reported[at] \in Range(down)
    BY <2>1, ReportedIs DEF InputInv
  <2> QED BY <2>1, <2>2 DEF InputInv
<1> QED BY <1>1, InputHolds, PTL DEF TypedOnce, Spec

=============================================================================
