------------------------------- MODULE Desktop -------------------------------
(***************************************************************************)
(* Input and the desktop: keyboard reports (xhci_poll_events), the         *)
(* keyboard queue (core/input.c), the full-screen set-up wizard and one    *)
(* frame of desktop_tick after the other (core/desktop.c): keys go to the  *)
(* focused program, a press of the mouse button to everything under the    *)
(* pointer, window by window.                                              *)
(*                                                                         *)
(* Abstractions: nothing is drawn and windows have no place on the screen: *)
(* a press may hit any part of any window that is shown, as windows may    *)
(* lie on top of each other.  Shift, scrolling and the files are left out; *)
(* a mount or a read of storage succeeds or fails (SimpleFS).  A report    *)
(* and a frame are read one key, a press one window a step; nothing else   *)
(* happens in between.                                                     *)
(***************************************************************************)
EXTENDS Naturals, FiniteSets, Sequences, SequencesExt

CONSTANTS
  QueueSize,     \* cells of g_kbd_q (256)
  Budget,        \* keys desktop_tick takes per frame (32)
  ReportKeys,    \* keys in a report of the keyboard (6)
  LineCap,       \* size of g_shell_line (256)
  TextCap,       \* size of g_notepad_text (4096)
  LastStep,      \* last step of the set-up wizards (5)
  MaxInputs      \* bound: presses of keys, and of the mouse button on the desktop

ASSUME DesktopAssumption ==
  /\ QueueSize \in Nat \ {0, 1} /\ Budget \in Nat \ {0} /\ ReportKeys \in Nat \ {0}
  /\ LineCap \in Nat \ {0} /\ TextCap \in Nat \ {0} /\ LastStep \in Nat \ {0}

VARIABLES
  down,      \* the keys held, in the order in which they went down
  fresh,     \* history: keys that went down since the last report
  inputs,    \* presses so far
  prev,      \* kbd_prev_keys: the keys of the last report
  at,        \* the key of the next report that is looked at, 0 between reports
  ring,      \* g_kbd_q, g_kbd_r, g_kbd_w
  left,      \* the left button in g_ptr.buttons
  held,      \* the left button in prev_buttons (btn_pressed in the wizard)
  pc,        \* where the kernel is
  budget,    \* kbd_budget
  line,      \* g_shell_line_len
  text,      \* g_notepad_text_len
  open,      \* the windows that are shown
  listens,   \* g_app_open[APP_SHELL]
  focus,     \* g_app_focus
  menu,      \* g_start_open
  dragged,   \* the windows being dragged
  step,      \* g_setup_step (g_fullscreen_setup_step in the wizard)
  done       \* the steps whose ..._ready or ..._done flag is set

user    == <<down, fresh>>
input   == <<prev, at, ring, left>>
windows == <<open, listens, focus, menu, dragged, step, done>>
texts   == <<line, text>>
vars    == <<user, input, held, inputs, pc, budget, texts, windows>>

Keys     == {"a", "enter", "backspace"}
RollOver == "error"                      \* fills the report if too many are held
Programs == {"explorer", "viewer", "notepad", "shell"}
Windows  == Programs \cup {"setup"}
Flagged  == {0, 1, 2}                    \* disk_ready, partition_done, format_done

\* input_init
EmptyRing == [q |-> [i \in 0 .. QueueSize - 1 |-> "a"], r |-> 0, w |-> 0]

Init ==
  /\ down = <<>> /\ fresh = {} /\ prev = <<>> /\ at = 0 /\ ring = EmptyRing
  /\ left = FALSE /\ held = FALSE /\ inputs = 0
  /\ pc = "wizard" /\ budget = 0 /\ line = 0 /\ text = 0
  /\ open = {} /\ listens = FALSE /\ focus = "shell" /\ menu = FALSE
  /\ dragged = {} /\ step = 0 /\ done = {}

-----------------------------------------------------------------------------
(* The keyboard, the mouse, and xhci_poll_events, which reads them. *)

Polling == pc \in {"wizard", "poll"} /\ at = 0

KeyDown(k) ==
  /\ Polling /\ inputs < MaxInputs /\ k \notin Range(down)
  /\ down' = Append(down, k) /\ fresh' = fresh \cup {k} /\ inputs' = inputs + 1
  /\ UNCHANGED <<input, held, pc, budget, texts, windows>>

KeyUp(k) ==
  /\ Polling
  /\ \E i \in DOMAIN down : down[i] = k /\ down' = RemoveAt(down, i)
  /\ UNCHANGED <<fresh, input, held, inputs, pc, budget, texts, windows>>

\* Seeded fault: a full queue is not noticed.
PushOver(b, c) == [b EXCEPT !.q[b.w] = c, !.w = (b.w + 1) % QueueSize]

\* input_kbd_push_char: one cell stays free, a character too many is dropped.
Push(b, c) ==
  IF (b.w + 1) % QueueSize = b.r
  THEN b
  ELSE [b EXCEPT !.q[b.w] = c, !.w = (b.w + 1) % QueueSize]

Reported == IF Len(down) > ReportKeys THEN [i \in 1 .. ReportKeys |-> RollOver] ELSE down

\* The keyboard reports a change.
Report ==
  /\ Polling /\ Reported # prev
  /\ at' = 1
  /\ UNCHANGED <<user, prev, ring, left, held, inputs, pc, budget, texts, windows>>

\* Seeded fault: a key is new if the last report had another one in its place.
NewBySlot(i) == ~(i \in DOMAIN prev /\ prev[i] = Reported[i])

\* A key is new if the last report did not have it.
New(i) == Reported[i] \notin Range(prev)

\* A new key is typed; RollOver has no character.
Types(i) == New(i) /\ Reported[i] \in Keys

KeyOfReport ==
  /\ at \in DOMAIN Reported
  /\ ring' = IF Types(at) THEN Push(ring, Reported[at]) ELSE ring
  /\ at' = at + 1
  /\ UNCHANGED <<user, prev, left, held, inputs, pc, budget, texts, windows>>

ReportRead ==
  /\ at = Len(Reported) + 1
  /\ prev' = Reported /\ fresh' = {} /\ at' = 0
  /\ UNCHANGED <<down, ring, left, held, inputs, pc, budget, texts, windows>>

\* A report of the mouse; what lies between two frames is not seen.
Button ==
  /\ Polling
  /\ left' = ~left
  /\ IF left \/ pc = "wizard"
     THEN UNCHANGED inputs
     ELSE inputs < MaxInputs /\ inputs' = inputs + 1
  /\ UNCHANGED <<user, prev, at, ring, held, pc, budget, texts, windows>>

-----------------------------------------------------------------------------
(* desktop_run_fullscreen_wizard *)

Pressed == left /\ ~held

\* A press hits Next, Back or neither.
WizardTurn ==
  /\ pc = "wizard" /\ at = 0 /\ left # held
  /\ held' = left
  /\ \/ UNCHANGED <<pc, step>>
     \/ Pressed /\ step < LastStep /\ step' = step + 1 /\ UNCHANGED pc
     \/ Pressed /\ step > 0 /\ step' = step - 1 /\ UNCHANGED pc
     \/ Pressed /\ step = LastStep /\ pc' = "desktop" /\ UNCHANGED step
  /\ UNCHANGED <<user, input, inputs, budget, texts, open, listens, focus, menu, dragged, done>>

\* desktop_init
DesktopInit ==
  /\ pc = "desktop" /\ pc' = "poll"
  /\ ring' = EmptyRing /\ left' = FALSE /\ held' = FALSE
  /\ step' = 0
  /\ UNCHANGED <<user, prev, at, inputs, budget, texts, open, listens, focus, menu, dragged, done>>

-----------------------------------------------------------------------------
(* desktop_tick: keys. *)

Frame ==
  /\ pc = "poll" /\ at = 0
  /\ pc' = "keys" /\ budget' = Budget
  /\ UNCHANGED <<user, input, held, inputs, texts, windows>>

\* The end of the loop over the keys.
KeysRead ==
  /\ pc = "keys" /\ (budget = 0 \/ ring.r = ring.w)
  /\ pc' = IF Pressed THEN "menu" ELSE "end"
  /\ UNCHANGED <<user, input, held, inputs, budget, texts, windows>>

\* The length of a text after c; its last byte is the terminator.
Typed(len, c, cap) ==
  IF c = "backspace" THEN IF len > 0 THEN len - 1 ELSE len
  ELSE IF len + 1 < cap THEN len + 1 ELSE len

Show(w) ==
  /\ open' = open \cup {w}
  /\ focus' = w
  /\ listens' = (listens \/ w = "shell")

SetUp == open' = open \cup {"setup"} /\ step' = 0 /\ UNCHANGED <<focus, listens>>

SameWindows == UNCHANGED <<open, focus, listens>>

\* shell_run_line: a command that opens a window (if storage permits), or another.
RunLine ==
  /\ line' = 0
  /\ \/ SameWindows /\ UNCHANGED step
     \/ line > 0 /\ SetUp
     \/ line > 0 /\ UNCHANGED step /\ \E w \in Programs \ {"shell"} : Show(w)

NotepadGets == focus = "notepad" /\ "notepad" \in open
ShellGets   == focus = "shell" /\ "shell" \in open /\ listens

\* input_kbd_pop_char, and the program that gets the character.
TakeKey ==
  /\ pc = "keys" /\ budget > 0 /\ ring.r # ring.w
  /\ ring' = [ring EXCEPT !.r = (@ + 1) % QueueSize]
  /\ budget' = budget - 1
  /\ LET c == ring.q[ring.r]
     IN \/ /\ NotepadGets
           /\ text' = Typed(text, c, TextCap)
           /\ SameWindows /\ UNCHANGED <<line, step>>
        \/ /\ ShellGets
           /\ IF c = "enter"
              THEN RunLine
              ELSE line' = Typed(line, c, LineCap) /\ SameWindows /\ UNCHANGED step
           /\ UNCHANGED text
        \/ /\ ~NotepadGets /\ ~ShellGets
           /\ SameWindows /\ UNCHANGED <<texts, step>>
  /\ UNCHANGED <<user, prev, at, left, held, inputs, pc, menu, dragged, done>>

-----------------------------------------------------------------------------
(* desktop_tick: a press.  The Start button and the menu; the dock; windows. *)

Same == UNCHANGED <<user, input, held, inputs, budget>>

\* The Start button opens and closes the menu.
PressStart ==
  /\ pc = "menu" /\ pc' = "explorer"
  /\ menu' = ~menu /\ dragged' = dragged \ {"shell"}
  /\ SameWindows /\ Same /\ UNCHANGED <<texts, step, done>>

\* Anywhere else the menu closes, and the press may be one of the dock.
PressElsewhere ==
  /\ pc = "menu" /\ pc' = "dock"
  /\ menu' = FALSE
  /\ SameWindows /\ Same /\ UNCHANGED <<texts, dragged, step, done>>

\* Shell, Explorer or Notepad; Setup; Clear; Help, or a mount that failed.
PressEntry ==
  /\ pc = "menu" /\ pc' = "explorer"
  /\ menu /\ menu' = FALSE
  /\ \/ (\E w \in Programs \ {"viewer"} : Show(w)) /\ UNCHANGED <<line, step>>
     \/ SetUp /\ UNCHANGED line
     \/ SameWindows /\ line' = 0 /\ UNCHANGED step
     \/ SameWindows /\ UNCHANGED <<line, step>>
  /\ Same /\ UNCHANGED <<text, dragged, done>>

\* Between two entries of the menu.
PressGap ==
  /\ pc = "menu" /\ pc' = "explorer" /\ menu
  /\ Same /\ UNCHANGED <<texts, windows>>

\* An icon of the dock, or none (or a mount that failed).
PressDock ==
  /\ pc = "dock" /\ pc' = "explorer"
  /\ (\E w \in Programs : Show(w)) \/ SameWindows
  /\ Same /\ UNCHANGED <<texts, menu, dragged, step, done>>

Close(w) == open' = open \ {w} /\ dragged' = dragged \ {w} /\ UNCHANGED <<focus, listens>>

\* Taken by the title bar; the set-up and the shell do not get the focus.
Grab(w) ==
  /\ dragged' = dragged \cup {w}
  /\ focus' = IF w \in {"setup", "shell"} THEN focus ELSE w
  /\ UNCHANGED <<open, listens>>

Miss == SameWindows /\ UNCHANGED dragged

PressWindow(w, next) ==
  /\ pc = w /\ pc' = next
  /\ \/ Miss
     \/ w \in open /\ (Close(w) \/ Grab(w))
     \/ w = "explorer" /\ w \in open /\ Show("viewer") /\ UNCHANGED dragged  \* double click
     \/ w = "notepad" /\ w \in open /\ Show(w) /\ UNCHANGED dragged
  /\ Same /\ UNCHANGED <<texts, menu, step, done>>

\* Back, Next and Finish, besides what every window has.
PressSetup ==
  /\ pc = "setup" /\ "setup" \in open /\ pc' = "shell"
  /\ \/ step > 0 /\ step' = step - 1 /\ UNCHANGED <<open, done>>
     \/ step < LastStep /\ step' = step + 1 /\ UNCHANGED open
        /\ done' = done \cup ({step} \cap Flagged)
     \/ step = LastStep /\ open' = open \ {"setup"} /\ UNCHANGED <<step, done>>
  /\ Same /\ UNCHANGED <<texts, listens, focus, menu, dragged>>

\* Seeded fault: a window that is let go of stays with the pointer.
FrameEndKeep ==
  /\ pc = "end" /\ pc' = "poll"
  /\ held' = left
  /\ UNCHANGED <<user, input, inputs, budget, texts, windows>>

\* The button is up: nothing is dragged.  prev_buttons is set.
FrameEnd ==
  /\ pc = "end" /\ pc' = "poll"
  /\ held' = left
  /\ dragged' = IF left THEN dragged ELSE {}
  /\ UNCHANGED <<user, input, inputs, budget, texts, open, listens, focus, menu, step, done>>

-----------------------------------------------------------------------------

Next ==
  \/ (\E k \in Keys : KeyDown(k) \/ KeyUp(k)) \/ Report \/ KeyOfReport \/ ReportRead \/ Button
  \/ WizardTurn \/ DesktopInit
  \/ Frame \/ TakeKey \/ KeysRead
  \/ PressStart \/ PressElsewhere \/ PressEntry \/ PressGap \/ PressDock
  \/ PressWindow("explorer", "viewer") \/ PressWindow("viewer", "notepad")
  \/ PressWindow("notepad", "setup") \/ PressWindow("setup", "shell") \/ PressSetup
  \/ PressWindow("shell", "end") \/ FrameEnd

Spec == Init /\ [][Next]_vars

-----------------------------------------------------------------------------
(* Properties. *)

\* Texts leave room for their terminator, however fast and long is typed, and
\* the wizards stay on their steps, whatever is pressed in which window.
TypeOK ==
  /\ line \in 0 .. LineCap - 1 /\ text \in 0 .. TextCap - 1
  /\ step \in 0 .. LastStep /\ done \subseteq Flagged
  /\ open \subseteq Windows /\ dragged \subseteq Windows /\ focus \in Programs
  /\ ring.r \in 0 .. QueueSize - 1 /\ ring.w \in 0 .. QueueSize - 1

\* The characters in the queue, oldest first.
Contents(b) ==
  LET n == (b.w + QueueSize - b.r) % QueueSize
  IN [i \in 1 .. n |-> b.q[(b.r + i - 1) % QueueSize]]

Pending == Contents(ring)

KeyQ == INSTANCE KeyQueue WITH Capacity <- QueueSize - 1, pending <- Pending

\* Characters reach the programs in the order in which they were typed, none
\* twice, and one is lost only when the queue is full, lap after lap of the ring
\* -- until the desktop starts, which forgets what was typed in the wizard.
KeysInOrder ==
  /\ KeyQ!QueueInit
  /\ [][IF KeyOfReport /\ Types(at)
         THEN KeyQ!Arrive(Reported[at])
         ELSE KeyQ!Take \/ (pc = "desktop" /\ KeyQ!Clear) \/ UNCHANGED Pending]_vars

\* A key that is held is typed once, whatever other keys do meanwhile.  (After a
\* report that says only that too many keys are held, all of them are typed again.)
TypedOnce ==
  [][KeyOfReport /\ Types(at) /\ RollOver \notin Range(prev) => Reported[at] \in fresh]_vars

\* A window is dragged only while it is shown and the button is down, although
\* Finish closes one without looking at the drag, and overlapping windows are
\* grabbed and closed by the same press.
NoGhostDrag ==
  pc = "poll" => dragged \subseteq open /\ (dragged # {} => held)

\* A shell that is shown gets the keys typed into it: the second flag it needs
\* is set on every way it can be opened, and closing it leaves it set.
ShellListens == "shell" \in open => listens

\* The set-up shows a step as done only if it was carried out, back and forth
\* and after it was closed and opened again.
SetupInOrder == pc \notin {"wizard", "desktop"} => Flagged \cap 0 .. step - 1 \subseteq done

\* What the flags, texts and steps of the desktop promise between two steps.
WindowsConsistent == TypeOK /\ NoGhostDrag /\ ShellListens /\ SetupInOrder
==============================================================================
