------------------------------ MODULE KernelHeap ------------------------------
(***************************************************************************)
(* Those who call kmalloc and kfree, over the heap of Heap.tla: the wizard *)
(* (a frame buffer of its own, given back), desktop_init (two more), the   *)
(* ring-3 task (its stack) and the shell command "wall", with the RAM file *)
(* system and the PNG decoder behind it (desktop.c, ramfs.c, png.c).       *)
(* Nothing of what "wall" takes is given back.                             *)
(*                                                                         *)
(* The calls come from one thread.  A behaviour is either the kernel's, or *)
(* that of any caller ("any"), to whom Heap owes its promises as well.     *)
(***************************************************************************)
EXTENDS Heap, Png

CONSTANTS
  Fb,          \* bytes of the framebuffer
  HeapSlack,   \* hw_tuning heap_slack_bytes
  LeastHeap,   \* 8 MiB
  Stack,       \* bytes of the stack of the ring-3 task (8192)
  Files        \* what new.png may be, a sequence of files

\* kernel_main: the heap is the framebuffer and some slack, or 8 MiB.  (It has
\* to hold two buffers of that size.)
ASSUME KernelHeapAssumption ==
  /\ Fb \in Nat /\ HeapSlack \in Nat /\ LeastHeap \in Nat /\ Stack \in Nat
  /\ HeapSize = Max({Fb + HeapSlack, LeastHeap})
  /\ FirstCap \in Nat \ {0}

VARIABLES
  pc,        \* where the caller is
  file,      \* the file "wall" is at, by number, or NoFile
  asked,     \* how often the decoder has asked for memory
  lacks,     \* whether it did not get a buffer for a row
  backbuf,   \* g_back
  bgbuf,     \* g_bg
  stack,     \* the stack of the ring-3 task
  ram,       \* the entry of new.png in g_ramfs
  shown      \* the picture in g_bg; NoPicture is the background of the desktop

kernel == <<pc, file, asked, lacks, backbuf, bgbuf, stack, ram, shown>>
kvars  == <<vars, kernel>>

NoFile  == 0
NoEntry == [data |-> Null, size |-> 0]

\* What the decoder makes of each file.
Decoded == [f \in DOMAIN Files |-> Decode(Files[f])]
AsksOf(f) == Decoded[f].asks \o Decoded[f].rows
Asks == AsksOf(file)

\* What is asked of kmalloc are sizes.
ASSUME AsksAssumption ==
  \A f \in DOMAIN Files : Files[f].size \in Nat /\ AsksOf(f) \in Seq(Nat)

KInit ==
  /\ Init
  /\ pc \in {"any", "boot"}
  /\ file = NoFile /\ asked = 0 /\ lacks = FALSE
  /\ backbuf = Null /\ bgbuf = Null /\ stack = Null /\ ram = NoEntry /\ shown = NoPicture

\* The caller calls kmalloc and goes on at p when it returns.
Ask(p, n) == CallMalloc(n) /\ pc' = p
Back(p)   == op = "idle" /\ pc = p
Block(p, n) == [ptr |-> p, len |-> n]

-----------------------------------------------------------------------------
(* The wizard, the desktop, the task. *)

Wizard ==
  /\ Back("boot") /\ Ask("wizard", Fb)
  /\ UNCHANGED <<file, asked, lacks, backbuf, bgbuf, stack, ram, shown>>

WizardRuns ==
  /\ Back("wizard") /\ pc' = "setup"
  /\ backbuf' = ret
  /\ UNCHANGED <<vars, file, asked, lacks, bgbuf, stack, ram, shown>>

\* Seeded fault: the buffer is given back and used on.
WizardEndsUsed ==
  /\ Back("setup") /\ pc' = "desktop"
  /\ IF backbuf # Null THEN CallFree(Block(backbuf, Fb)) ELSE UNCHANGED vars
  /\ UNCHANGED <<file, asked, lacks, backbuf, bgbuf, stack, ram, shown>>

WizardEnds ==
  /\ Back("setup") /\ pc' = "desktop"
  /\ IF backbuf # Null THEN CallFree(Block(backbuf, Fb)) ELSE UNCHANGED vars
  /\ backbuf' = Null
  /\ UNCHANGED <<file, asked, lacks, bgbuf, stack, ram, shown>>

\* desktop_init; with little memory it does without buffers.
DesktopInit ==
  /\ Back("desktop")
  /\ Ask("back", Fb) \/ (pc' = "loop" /\ UNCHANGED vars)
  /\ backbuf' = Null /\ bgbuf' = Null
  /\ UNCHANGED <<file, asked, lacks, stack, ram, shown>>

DesktopBack ==
  /\ Back("back") /\ Ask("bg", Fb)
  /\ backbuf' = ret
  /\ UNCHANGED <<file, asked, lacks, bgbuf, stack, ram, shown>>

DesktopBg ==
  /\ Back("bg") /\ pc' = "loop"
  /\ bgbuf' = ret
  /\ UNCHANGED <<vars, file, asked, lacks, backbuf, stack, ram, shown>>

\* launch_ring3_task; it can be tried again when there was no memory.
Launch ==
  /\ Back("loop") /\ stack = Null /\ Ask("stack", Stack)
  /\ UNCHANGED <<file, asked, lacks, backbuf, bgbuf, stack, ram, shown>>

Launched ==
  /\ Back("stack") /\ pc' = "loop"
  /\ stack' = ret
  /\ UNCHANGED <<vars, file, asked, lacks, backbuf, bgbuf, ram, shown>>

-----------------------------------------------------------------------------
(* The shell command "wall". *)

\* The file is there and not empty; without g_bg the command does nothing.
Wall(f) ==
  /\ Back("loop") /\ bgbuf # Null /\ Ask("read", Files[f].size)
  /\ file' = f
  /\ UNCHANGED <<asked, lacks, backbuf, bgbuf, stack, ram, shown>>

WallOver == pc' = "loop" /\ file' = NoFile /\ asked' = 0 /\ lacks' = FALSE

\* The file is read; a read may fail.  ramfs_put_copy takes a block for a copy.
WallRead ==
  /\ Back("read")
  /\ \/ WallOver /\ UNCHANGED vars
     \/ ret # Null /\ Ask("copy", Files[file].size) /\ UNCHANGED <<file, asked, lacks>>
  /\ UNCHANGED <<backbuf, bgbuf, stack, ram, shown>>

\* ramfs_put_copy ends; whether it worked is not looked at.
WallCopied ==
  /\ Back("copy") /\ pc' = "decode"
  /\ ram' = IF ret = Null THEN ram ELSE [data |-> ret, size |-> Files[file].size]
  /\ UNCHANGED <<vars, file, asked, lacks, backbuf, bgbuf, stack, shown>>

DecodeAsk ==
  /\ Back("decode") /\ asked < Len(Asks)
  /\ Ask("grow", Asks[asked + 1])
  /\ asked' = asked + 1
  /\ UNCHANGED <<file, lacks, backbuf, bgbuf, stack, ram, shown>>

\* Both rows are asked for before either is looked at.
DecodeGot ==
  /\ Back("grow")
  /\ IF ret = Null /\ asked <= Len(Decoded[file].asks)
     THEN WallOver
     ELSE /\ pc' = "decode" /\ lacks' = (lacks \/ ret = Null)
          /\ UNCHANGED <<file, asked>>
  /\ UNCHANGED <<vars, backbuf, bgbuf, stack, ram, shown>>

\* The picture is drawn into g_bg, if there is one.
WallDrawn ==
  /\ Back("decode") /\ asked = Len(Asks)
  /\ shown' = IF lacks \/ Decoded[file].picture = NoPicture THEN shown
              ELSE Decoded[file].picture
  /\ WallOver
  /\ UNCHANGED <<vars, backbuf, bgbuf, stack, ram>>

-----------------------------------------------------------------------------

Kernel ==
  \/ Wizard \/ WizardRuns \/ WizardEnds \/ DesktopInit \/ DesktopBack \/ DesktopBg \/ Launch \/ Launched
  \/ \E f \in DOMAIN Files : Wall(f)
  \/ WallRead \/ WallCopied \/ DecodeAsk \/ DecodeGot \/ WallDrawn

KNext ==
  \/ Walk /\ UNCHANGED kernel
  \/ pc = "any" /\ Next /\ UNCHANGED kernel
  \/ pc # "any" /\ Kernel

KSpec == KInit /\ [][KNext]_kvars /\ WF_kvars(Walk /\ UNCHANGED kernel)

-----------------------------------------------------------------------------
(* Properties. *)

\* What the kernel holds on to are blocks of its own, of the sizes it thinks,
\* however the calls before them failed.
PointersHeld ==
  LET held == {Block(backbuf, Fb), Block(bgbuf, Fb), Block(stack, Stack),
               Block(ram.data, ram.size)}
  IN \A b \in held : b.ptr # Null => b \in blocks

\* The bytes of every file the decoder makes a picture of stand, by the PNG
\* standard, for the picture the file is said to hold.
FilesHold ==
  \A f \in DOMAIN Files :
    Decoded[f].picture # NoPicture =>
      Holds(Inflated(Stream(Files[f])).bytes, HeaderOf(Files[f]), Files[f].holds)

\* The background changes only to the picture that the bytes of the file stand for,
\* whole and with every pixel right, however rows are filtered, the stream is cut
\* into blocks and chunks, and memory runs out.  A file without such a picture (cut
\* short, a bad block, fewer bytes than its header wants) changes nothing; where
\* the bytes of the picture themselves are damaged, png.c does not notice.
WallShows == [][shown' # shown => shown' = Files[file].holds]_kvars
===============================================================================
