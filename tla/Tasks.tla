-------------------------------- MODULE Tasks --------------------------------
(***************************************************************************)
(* Preemptive multitasking: the task table and the round-robin scheduler   *)
(* of src/kernel/tasking/task.c, entered from the timer interrupt          *)
(* (cpu/idt.c, arch/interrupt_stubs.s) and from the exit system call       *)
(* (core/syscall.c), with the two programs it runs: the main loop          *)
(* (core/main.c), which can start ring-3 tasks from the shell              *)
(* (core/desktop.c), and the ring-3 task (core/usermode.c).                *)
(*                                                                         *)
(* There is one CPU.  An interrupt saves the running context in a frame on *)
(* a stack, and a task is resumed from wherever its saved rsp points, so   *)
(* whether a task gets its own context back depends on who wrote to that   *)
(* stack in between.  Handlers run with interrupts off: each is one step.  *)
(***************************************************************************)
EXTENDS Naturals, FiniteSetsExt

CONSTANTS
  MaxTasks,     \* entries of tasks[] (10)
  MaxPages,     \* bound: physical pages left when the main loop starts
  FrameDelay    \* timer ticks per frame of the main loop

ASSUME TasksAssumption ==
  MaxTasks \in Nat \ {0} /\ MaxPages \in Nat /\ FrameDelay \in Nat

VARIABLES
  cpu,       \* the context the CPU runs: whose it is, and its program point
  current,   \* current_task: whose the scheduler believes it is
  count,     \* task_count
  active,    \* tasks[].active
  rsp,       \* tasks[].rsp: the stack with the saved frame
  frames,    \* the frame on top of each stack
  tss,       \* g_tss.rsp0: the stack a ring-3 context is saved on
  started,   \* g_ring3_task_started
  pages,     \* free physical pages
  since      \* ticks since last_frame_ticks, counted up to FrameDelay

table == <<count, active>>
vars  == <<cpu, current, table, rsp, frames, tss, started, pages, since>>

TaskIds == 0 .. MaxTasks - 1

\* Kernel contexts of a task are saved on its own stack, ring-3 contexts on the
\* stack of TSS.rsp0; every ring-3 task allocates a page for the latter.
NoStack == <<"none", 0>>
Own(t)   == <<"own", t>>
Ring0(t) == <<"ring0", t>>
Stacks   == {NoStack} \cup ({"own", "ring0"} \X TaskIds)

MainPoints == {"poll", "tick", "alloc", "create", "mark", "count", "wait"}
UserPoints == {"write", "exit"}
TaskPoints == {"entry", "stack", "enter", "wild"} \cup UserPoints

\* A context that is no context: resuming it raises an exception, and the
\* handler stops the machine (exception.c: cli; hlt).
Garbage == [of |-> MaxTasks, pc |-> "halted"]
Contexts == {Garbage} \cup [of : TaskIds, pc : MainPoints \cup TaskPoints]

Running == cpu.pc # "halted"

\* Where the CPU saves the running context.
SaveStack == IF cpu.pc \in UserPoints THEN tss ELSE Own(cpu.of)

\* kernel_main once Task_Init has run and interrupts are on.
Init ==
  /\ cpu = [of |-> 0, pc |-> "poll"]
  /\ current = 0 /\ count = 1
  /\ active = [t \in TaskIds |-> t = 0]
  /\ rsp = [t \in TaskIds |-> NoStack]
  /\ frames = [s \in Stacks |-> Garbage]
  /\ tss = NoStack /\ started = FALSE
  /\ pages \in 0 .. MaxPages
  /\ since = 0

-----------------------------------------------------------------------------
(* Task_Schedule, Task_Exit and their callers. *)

\* Seeded fault: the search starts at the running task.
ScheduleSticky(act, c) ==
  LET turn(i) == (c + i) % count
      turns == {i \in 0 .. count - 1 : act[turn(i)]}
  IN IF turns = {} THEN c ELSE turn(Min(turns))

\* Seeded fault: the search does not wrap around to task 0.
ScheduleNoWrap(act, c) ==
  LET later == {t \in c + 1 .. count - 1 : act[t]}
  IN IF later = {} THEN c ELSE Min(later)

\* The first active task after c, in order of number; c itself comes last.
Schedule(act, c) ==
  LET turn(i) == (c + 1 + i) % count
      turns == {i \in 0 .. count - 1 : act[turn(i)]}
  IN IF turns = {} THEN c ELSE turn(Min(turns))

\* The timer interrupt: irq0_stub saves the context, irq0_handler counts the tick
\* and calls Task_Schedule, the stub resumes from the rsp it returned.
IRQ0 ==
  /\ Running
  /\ frames' = [frames EXCEPT ![SaveStack] = cpu]
  /\ rsp' = [rsp EXCEPT ![current] = SaveStack]
  /\ current' = Schedule(active, current)
  /\ cpu' = frames'[rsp'[current']]
  /\ since' = IF since < FrameDelay THEN since + 1 ELSE since
  /\ UNCHANGED <<table, tss, started, pages>>

At(p) == cpu.pc = p
Goto(p) == cpu' = [cpu EXCEPT !.pc = p]

\* The write system call is served on the stack of TSS.rsp0 and returns there.
SyscallWrite ==
  /\ At("write")
  /\ Goto("exit")
  /\ frames' = [frames EXCEPT ![tss] = cpu']
  /\ UNCHANGED <<current, table, rsp, tss, started, pages, since>>

\* Seeded fault: the exit system call leaves the task active.
SyscallExitActive ==
  /\ At("exit")
  /\ frames' = [frames EXCEPT ![tss] = cpu]
  /\ current' = Schedule(active, current)
  /\ cpu' = frames'[rsp[current']]
  /\ UNCHANGED <<table, rsp, tss, started, pages, since>>

\* The exit system call: Task_Exit deactivates the task, without saving its rsp,
\* and resumes the next active one.
SyscallExit ==
  /\ At("exit")
  /\ frames' = [frames EXCEPT ![tss] = cpu]
  /\ active' = [active EXCEPT ![current] = FALSE]
  /\ current' = Schedule(active', current)
  /\ cpu' = IF active'[current'] THEN frames'[rsp[current']] ELSE Garbage
  /\ UNCHANGED <<count, rsp, tss, started, pages, since>>

-----------------------------------------------------------------------------
(* The main loop. *)

MainPoll ==
  /\ At("poll") /\ Goto("tick")
  /\ UNCHANGED <<current, table, rsp, frames, tss, started, pages, since>>

\* Seeded fault: ring3 does not look at the flag.
DesktopTickNoFlag ==
  /\ At("tick")
  /\ Goto("wait") \/ Goto("alloc")
  /\ UNCHANGED <<current, table, rsp, frames, tss, started, pages, since>>

\* desktop_tick; the user may have typed the shell command ring3.
DesktopTick ==
  /\ At("tick")
  /\ \/ Goto("wait") /\ UNCHANGED started
     \/ ~started /\ started' = TRUE /\ Goto("alloc")
  /\ UNCHANGED <<current, table, rsp, frames, tss, pages, since>>

\* launch_ring3_task: the stack of the task comes from the kernel heap.
LaunchAlloc ==
  /\ At("alloc")
  /\ \/ Goto("create") /\ UNCHANGED started
     \/ Goto("wait") /\ started' = FALSE
  /\ UNCHANGED <<current, table, rsp, frames, tss, pages, since>>

\* Seeded fault: the entry is counted before it is filled in.
CreateCountFirst ==
  /\ At("create")
  /\ IF count >= MaxTasks
     THEN Goto("wait") /\ UNCHANGED table
     ELSE /\ Goto("wait") /\ count' = count + 1
          /\ active' = [active EXCEPT ![count] = TRUE]
  /\ UNCHANGED <<current, rsp, frames, tss, started, pages, since>>

\* Task_Create: first the initial frame and the rsp of the new entry, ...
CreateFrame ==
  /\ At("create")
  /\ IF count >= MaxTasks
     THEN Goto("wait") /\ UNCHANGED <<rsp, frames>>
     ELSE /\ Goto("mark")
          /\ frames' = [frames EXCEPT ![Own(count)] = [of |-> count, pc |-> "entry"]]
          /\ rsp' = [rsp EXCEPT ![count] = Own(count)]
  /\ UNCHANGED <<current, table, tss, started, pages, since>>

\* ... then its active flag, ...
CreateActive ==
  /\ At("mark") /\ Goto("count")
  /\ active' = [active EXCEPT ![count] = TRUE]
  /\ UNCHANGED <<current, count, rsp, frames, tss, started, pages, since>>

\* ... and the count that lets the scheduler see it.
CreateCount ==
  /\ At("count") /\ Goto("wait")
  /\ count' = count + 1
  /\ UNCHANGED <<current, active, rsp, frames, tss, started, pages, since>>

\* The loop spins on Timer_Ticks until the frame is over.
MainWait ==
  /\ At("wait") /\ since >= FrameDelay
  /\ since' = 0
  /\ Goto("poll")
  /\ UNCHANGED <<current, table, rsp, frames, tss, started, pages>>

-----------------------------------------------------------------------------
(* The ring-3 task, usermode_launch. *)

UserPages  == 3   \* code, data and stack
TablePages == 2   \* the page directory and page table that map them

\* Out of memory the function returns, but a task entry has no caller: it jumps
\* to whatever lies above its stack.  A page table that cannot be allocated is
\* not noticed, and the next access goes astray as well.
LaunchPages ==
  /\ At("entry")
  /\ IF pages >= UserPages + TablePages
     THEN pages' = pages - (UserPages + TablePages) /\ Goto("stack")
     ELSE pages' = 0 /\ Goto("wild")
  /\ UNCHANGED <<current, table, rsp, frames, tss, started, since>>

\* The page for TSS.rsp0, and TSS_Load.
LaunchStack ==
  /\ At("stack")
  /\ IF pages > 0
     THEN pages' = pages - 1 /\ tss' = Ring0(cpu.of) /\ Goto("enter")
     ELSE Goto("wild") /\ UNCHANGED <<pages, tss>>
  /\ UNCHANGED <<current, table, rsp, frames, started, since>>

\* cli ... iretq
EnterRing3 ==
  /\ At("enter") /\ Goto("write")
  /\ UNCHANGED <<current, table, rsp, frames, tss, started, pages, since>>

\* Running whatever it hit, the task raises an exception (or it does not, and
\* keeps the CPU until the next tick).
WildException ==
  /\ At("wild") /\ cpu' = Garbage
  /\ UNCHANGED <<current, table, rsp, frames, tss, started, pages, since>>

-----------------------------------------------------------------------------

MainStep ==
  \/ MainPoll \/ DesktopTick \/ LaunchAlloc \/ CreateFrame \/ CreateActive
  \/ CreateCount \/ MainWait

TaskStep == LaunchPages \/ LaunchStack \/ EnterRing3 \/ SyscallWrite \/ SyscallExit

Next == MainStep \/ TaskStep \/ WildException \/ IRQ0

\* The timer keeps ticking, and a program that is given the CPU again and again
\* makes progress: a tick is a millisecond.  Nothing obliges a stray task to
\* raise an exception.
Fairness ==
  /\ WF_vars(IRQ0)
  /\ SF_vars(MainStep)
  /\ \A t \in TaskIds : SF_vars(cpu.of = t /\ TaskStep)

Spec == Init /\ [][Next]_vars /\ Fairness

-----------------------------------------------------------------------------
(* Properties. *)

\* Types of the variables.
TypeOK ==
  /\ cpu \in Contexts
  /\ current \in 0 .. count - 1 /\ count \in 1 .. MaxTasks
  /\ active \in [TaskIds -> BOOLEAN]
  /\ rsp \in [TaskIds -> Stacks] /\ frames \in [Stacks -> Contexts]
  /\ tss \in Stacks /\ started \in BOOLEAN
  /\ pages \in 0 .. MaxPages /\ since \in 0 .. FrameDelay

\* The variables keep their types.  The context that runs belongs to the task the
\* scheduler believes is running, and every other task it may pick has its own
\* context waiting at its rsp -- also when the tick falls inside Task_Create,
\* TSS_Load or a system call.
ContextsKept ==
  /\ TypeOK
  /\ Running =>
       /\ cpu.of = current /\ active[current]
       /\ \A t \in 0 .. count - 1 \ {current} : active[t] => frames[rsp[t]].of = t

\* In ring 3, the stack the next interrupt will be served on is there, and no
\* task's saved context lies on it.
Ring3StackFree ==
  cpu.pc \in UserPoints =>
    /\ tss # NoStack
    /\ \A t \in 0 .. count - 1 \ {current} : active[t] => rsp[t] # tss

\* Preemption is invisible to the programs: each task takes the steps of its own
\* program, in order, as if alone.
Program ==
  [p \in MainPoints \cup TaskPoints \cup {"none", "gone", "halted"} |->
     CASE p = "poll"   -> {"tick"}
       [] p = "tick"   -> {"wait", "alloc"}
       [] p = "alloc"  -> {"create", "wait"}
       [] p = "create" -> {"mark", "wait"}
       [] p = "mark"   -> {"count"}
       [] p = "count"  -> {"wait"}
       [] p = "wait"   -> {"poll"}
       [] p = "entry"  -> {"stack", "wild"}
       [] p = "stack"  -> {"enter", "wild"}
       [] p = "enter"  -> {"write"}
       [] p = "write"  -> {"exit"}
       [] p = "exit"   -> {"gone"}
       [] p = "wild"   -> {"halted"}
       [] OTHER        -> {}]

PointOf(t) ==
  IF t >= count THEN "none"
  ELSE IF ~active[t] THEN "gone"
  ELSE IF t = current THEN cpu.pc ELSE frames[rsp[t]].pc

Virtual == INSTANCE Processes WITH
  Tasks <- TaskIds, Points <- DOMAIN Program,
  at <- [t \in TaskIds |-> PointOf(t)]
ImplementsProcesses == Virtual!ProcessSpec

\* main.c:320: with ring-3 code around, the OS remains responsive: the main loop
\* polls the devices again and again, unless an exception stops the machine.
MainLoopGoesOn == []<>(At("poll") \/ ~Running)

\* A ring-3 task that found its memory runs to its exit.
Ring3TaskEnds ==
  \A t \in TaskIds \ {0} :
    active[t] ~> ~active[t] \/ frames[rsp[t]].pc = "wild" \/ At("wild") \/ ~Running
==============================================================================
