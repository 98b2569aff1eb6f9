----------------------------- MODULE Tasks_proofs -----------------------------
(***************************************************************************)
(* Proofs about the scheduler, for any number of task entries, of free     *)
(* pages and of ticks per frame.                                           *)
(*                                                                         *)
(* That every task keeps its own context is not inductive: whether a saved *)
(* context is still there depends on the stack it was saved on.  TaskInv   *)
(* adds on which stack each context lies (Saved), that TSS.rsp0 is the     *)
(* stack of the one task in ring 3 (RingZeroStack), and that there is only *)
(* one such task, because of the flag desktop.c keeps (OneTask).           *)
(***************************************************************************)
EXTENDS Tasks, FiniteSetTheorems, TLAPS

-----------------------------------------------------------------------------
(* The inductive invariant. *)

\* The context of task t, running or saved.
Context(t) == IF t = current THEN cpu ELSE frames[rsp[t]]

Live == {t \in 0 .. count - 1 : active[t]}

\* Each task has a context of its own, at a point of its own program.
OwnContexts ==
  \A t \in Live :
    /\ Context(t).of = t
    /\ Context(t).pc \in IF t = 0 THEN MainPoints ELSE TaskPoints

\* Kernel contexts are saved on the task's own stack, ring-3 contexts on the
\* stack that was allocated for them.
Saved ==
  \A t \in Live \ {current} :
    rsp[t] = IF Context(t).pc \in UserPoints THEN Ring0(t) ELSE Own(t)

\* TSS.rsp0 is the stack of the task that is in ring 3 or about to enter it.
RingZeroStack ==
  \A t \in Live : Context(t).pc \in UserPoints \cup {"enter"} => tss = Ring0(t)

\* The flag lets one task be created, whose entry is complete before it counts.
OneTask ==
  /\ count > 1 => started /\ count = 2
  /\ Context(0).pc \in {"alloc", "create", "mark", "count"} => started /\ count = 1
  /\ Context(0).pc \in {"mark", "count"} =>
       /\ MaxTasks > 1 /\ rsp[1] = Own(1)
       /\ frames[Own(1)] = [of |-> 1, pc |-> "entry"]
  /\ Context(0).pc = "count" => active[1]

TaskInv ==
  /\ TypeOK
  /\ Running =>
       /\ {0, current} \subseteq Live
       /\ OwnContexts /\ Saved /\ RingZeroStack /\ OneTask

-----------------------------------------------------------------------------
(* The search for the next task. *)

\* A set of naturals that is not empty has a least element, and Min finds it.
LEMMA MinOfSet ==
  ASSUME NEW S, S \subseteq Nat, S # {}
  PROVE  Min(S) \in S /\ \A x \in S : Min(S) <= x
<1> DEFINE T == {0 .. x : x \in S}
<1>0. \A x \in S : 0 .. x \in FiniteSubsetsOf(Nat)
  <2> TAKE x \in S
  <2>1. IsFiniteSet(0 .. x)
    BY FS_Interval
  <2>2. 0 .. x \subseteq Nat
    OBVIOUS
  <2> QED BY <2>1, <2>2 DEF FiniteSubsetsOf
<1>1. T \subseteq FiniteSubsetsOf(Nat) /\ T # {}
  BY <1>0
<1>2. PICK U \in T : \A V \in T : ~(<<V, U>> \in StrictSubsetOrdering(Nat))
  BY <1>1, FS_StrictSubsetOrderingWellFounded, WFMin
<1>3. PICK m \in S : U = 0 .. m
  BY <1>2
<1>4. ASSUME NEW x \in S PROVE m <= x
  <2> SUFFICES ASSUME x < m PROVE FALSE
    OBVIOUS
  <2>1. 0 .. x \subseteq 0 .. m /\ m \in 0 .. m /\ m \notin 0 .. x
    OBVIOUS
  <2>2. 0 .. x \subseteq Nat /\ 0 .. m \subseteq Nat
    OBVIOUS
  <2>3. <<0 .. x, 0 .. m>> \in StrictSubsetOrdering(Nat)
    BY <2>1, <2>2, Zenon DEF StrictSubsetOrdering
  <2> QED BY <1>2, <1>3, <2>3
<1> QED BY <1>4 DEF Min

\* Remainders of numbers below twice the divisor.
LEMMA Around ==
  ASSUME NEW n \in Nat \ {0}, NEW x \in 0 .. n - 1
  PROVE  x % n = x /\ (x + n) % n = x
  OBVIOUS

\* Task_Schedule returns an active task when there is one.
LEMMA ScheduleFinds ==
  ASSUME count \in Nat \ {0}, NEW c \in 0 .. count - 1,
         NEW act, NEW t \in 0 .. count - 1, act[t]
  PROVE  Schedule(act, c) \in 0 .. count - 1 /\ act[Schedule(act, c)]
<1> DEFINE turn(i) == (c + 1 + i) % count
           turns == {i \in 0 .. count - 1 : act[turn(i)]}
<1>1. turns # {}
  <2>1. CASE t > c
    <3>1. c + 1 + (t - c - 1) = t /\ t - c - 1 \in 0 .. count - 1
      BY <2>1
    <3>2. turn(t - c - 1) = t
      BY <3>1, Around
    <3> QED BY <3>1, <3>2
  <2>2. CASE t <= c
    <3>1. c + 1 + (t + count - c - 1) = t + count /\ t + count - c - 1 \in 0 .. count - 1
      BY <2>2
    <3>2. turn(t + count - c - 1) = t
      BY <3>1, Around
    <3> QED BY <3>1, <3>2
  <2> QED BY <2>1, <2>2
<1>2. Min(turns) \in turns
  <2>1. turns \subseteq Nat
    OBVIOUS
  <2> HIDE DEF turns
  <2> QED BY <1>1, <2>1, MinOfSet
<1>3. \A i \in Nat : turn(i) \in 0 .. count - 1
  OBVIOUS
<1>4. Schedule(act, c) = turn(Min(turns))
  BY <1>1 DEF Schedule
<1> HIDE DEF turn
<1> QED BY <1>2, <1>3, <1>4

-----------------------------------------------------------------------------
(* TaskInv is an invariant. *)

\* The states of the model in which there is anything to preserve.
LEMMA InvUnfold ==
  TaskInv /\ Running =>
    /\ TypeOK /\ OwnContexts /\ Saved /\ RingZeroStack /\ OneTask
    /\ 0 \in Live /\ current \in Live
    /\ cpu.of = current /\ cpu.pc \in IF current = 0 THEN MainPoints ELSE TaskPoints
BY DEF TaskInv, OwnContexts, Context

\* The main loop starts alone.
LEMMA TaskInit == Init => TaskInv
<1> SUFFICES ASSUME Init PROVE TaskInv
  OBVIOUS
<1> USE TasksAssumption DEF Init, TaskIds
<1>1. TypeOK
  <2>1. cpu \in Contexts /\ Garbage \in Contexts
    BY DEF Contexts, MainPoints
  <2>2. active \in [TaskIds -> BOOLEAN] /\ rsp \in [TaskIds -> Stacks] /\ frames \in [Stacks -> Contexts]
    BY <2>1 DEF Stacks
  <2>3. current \in 0 .. count - 1 /\ count \in 1 .. MaxTasks /\ since \in 0 .. FrameDelay
    OBVIOUS
  <2> QED BY <2>1, <2>2, <2>3 DEF TypeOK, Stacks
<1>2. Live = {0} /\ Context(0) = cpu
  <2>1. 0 .. count - 1 = {0} /\ 0 \in TaskIds
    OBVIOUS
  <2>2. active[0]
    BY <2>1
  <2> QED BY <2>1, <2>2 DEF Live, Context
<1>3. OwnContexts /\ Saved /\ RingZeroStack /\ OneTask
  BY <1>2 DEF OwnContexts, Saved, RingZeroStack, OneTask, MainPoints, UserPoints
<1> QED BY <1>1, <1>2, <1>3 DEF TaskInv

\* A step of the main loop leaves TSS.rsp0 and the contexts of the others alone.
LEMMA MainStepInv == TaskInv /\ MainStep => TaskInv'
<1> SUFFICES ASSUME TaskInv, MainStep PROVE TaskInv'
  OBVIOUS
<1> USE TasksAssumption DEF TaskIds, At, Goto, table
<1>1. Running /\ cpu.pc \in MainPoints
  BY DEF MainStep, MainPoll, DesktopTick, LaunchAlloc, CreateFrame, CreateActive, CreateCount,
         MainWait, Running, MainPoints
<1>2. /\ TypeOK /\ OwnContexts /\ Saved /\ RingZeroStack /\ OneTask
      /\ 0 \in Live /\ current \in Live /\ cpu.of = current
  BY <1>1, InvUnfold
<1>3. current = 0 /\ Context(0) = cpu /\ cpu \in [of : TaskIds, pc : MainPoints \cup TaskPoints]
  <2>1. current = 0
    BY <1>1, InvUnfold DEF MainPoints, TaskPoints, UserPoints
  <2> QED BY <1>1, <1>2, <2>1 DEF Context, TypeOK, Contexts, Garbage, MainPoints
<1>4. /\ UNCHANGED <<current, tss>> /\ current' = 0 /\ Context(0)' = cpu'
      /\ cpu' \in Contexts /\ cpu'.of = 0 /\ cpu'.pc \in MainPoints /\ Running'
  <2>1. \E q \in MainPoints : cpu' = [cpu EXCEPT !.pc = q]
    BY DEF MainStep, MainPoll, DesktopTick, LaunchAlloc, CreateFrame, CreateActive, CreateCount,
           MainWait, MainPoints
  <2>2. UNCHANGED <<current, tss>>
    BY DEF MainStep, MainPoll, DesktopTick, LaunchAlloc, CreateFrame, CreateActive, CreateCount,
           MainWait
  <2>3. PICK q \in MainPoints : cpu' = [cpu EXCEPT !.pc = q]
    BY <2>1
  <2>4. cpu' = [of |-> cpu.of, pc |-> q]
    BY <1>3, <2>3
  <2> QED BY <1>2, <1>3, <2>2, <2>4 DEF Contexts, Context, Running, MainPoints
\* Most steps leave the table alone.
<1>5. CASE MainPoll \/ DesktopTick \/ LaunchAlloc \/ MainWait \/ (CreateFrame /\ count >= MaxTasks)
  <2>0. UNCHANGED <<count, active, rsp, frames, pages>>
    BY <1>5 DEF MainPoll, DesktopTick, LaunchAlloc, CreateFrame, MainWait
  <2>1. TypeOK'
    <3>1. started \in BOOLEAN /\ since \in 0 .. FrameDelay /\ FrameDelay \in Nat
      BY <1>2 DEF TypeOK
    <3>2. since' = since \/ since' = 0
      BY <1>5 DEF MainPoll, DesktopTick, LaunchAlloc, CreateFrame, MainWait
    <3>3. since' \in 0 .. FrameDelay
      BY <3>1, <3>2
    <3>4. started' \in BOOLEAN
      BY <1>5, <3>1, Zenon DEF MainPoll, DesktopTick, LaunchAlloc, CreateFrame, MainWait
    <3> QED BY <1>2, <1>4, <2>0, <3>3, <3>4 DEF TypeOK
  <2>2. Live' = Live /\ \A t \in Live \ {0} : Context(t)' = Context(t)
    BY <1>3, <1>4, <2>0 DEF Live, Context
  <2>3. OwnContexts' /\ Saved' /\ RingZeroStack'
    BY <1>2, <1>3, <1>4, <2>0, <2>2 DEF OwnContexts, Saved, RingZeroStack, MainPoints, UserPoints
  <2>4. OneTask'
    <3>1. /\ started => started' \/ cpu.pc = "alloc"
          /\ cpu'.pc \notin {"mark", "count"}
          /\ cpu'.pc \in {"alloc", "create"} =>
               \/ cpu.pc = "tick" /\ ~started /\ started'
               \/ cpu.pc = "alloc" /\ started' = started
      BY <1>3, <1>5 DEF MainPoll, DesktopTick, LaunchAlloc, CreateFrame, MainWait
    <3>2. count \in 1 .. MaxTasks
      BY <1>2 DEF TypeOK
    <3> QED BY <1>2, <1>3, <1>4, <2>0, <3>1, <3>2 DEF OneTask
  <2> QED BY <1>2, <1>3, <1>4, <2>0, <2>1, <2>2, <2>3, <2>4 DEF TaskInv
\* The entry that is being filled in is not live until it is counted.
<1>6. CASE CreateFrame /\ count < MaxTasks
  <2>1. /\ cpu.pc = "create" /\ cpu'.pc = "mark" /\ count = 1 /\ started
        /\ UNCHANGED <<count, active, tss, started, pages, since>>
        /\ frames' = [frames EXCEPT ![Own(1)] = [of |-> 1, pc |-> "entry"]]
        /\ rsp' = [rsp EXCEPT ![1] = Own(1)]
    BY <1>2, <1>3, <1>6 DEF CreateFrame, OneTask
  <2>2. 1 \in TaskIds /\ Own(1) \in Stacks /\ [of |-> 1, pc |-> "entry"] \in Contexts
    BY <1>6, <2>1 DEF Own, Stacks, Contexts, TaskPoints
  <2>3. TypeOK'
    BY <1>2, <1>4, <2>1, <2>2 DEF TypeOK
  <2>4. Live = {0} /\ Live' = {0}
    BY <1>2, <2>1 DEF Live
  <2>5. rsp'[1] = Own(1) /\ frames'[Own(1)] = [of |-> 1, pc |-> "entry"]
    BY <1>2, <2>1, <2>2 DEF TypeOK
  <2>6. OwnContexts' /\ Saved' /\ RingZeroStack' /\ OneTask'
    BY <1>4, <1>6, <2>1, <2>4, <2>5
       DEF OwnContexts, Saved, RingZeroStack, OneTask, MainPoints, UserPoints
  <2> QED BY <1>4, <2>3, <2>4, <2>6 DEF TaskInv
<1>7. CASE CreateActive
  <2>1. /\ cpu.pc = "mark" /\ cpu'.pc = "count" /\ count = 1 /\ started /\ MaxTasks > 1
        /\ UNCHANGED <<count, rsp, frames, tss, started, pages, since>>
        /\ active' = [active EXCEPT ![1] = TRUE]
    BY <1>2, <1>3, <1>7 DEF CreateActive, OneTask
  <2>2. TypeOK' /\ active'[1]
    BY <1>2, <1>4, <2>1 DEF TypeOK
  <2>3. active'[0] = active[0]
    BY <1>2, <2>1 DEF TypeOK
  <2>4. Live = {0} /\ Live' = {0}
    BY <1>2, <2>1, <2>3 DEF Live
  <2>5. OwnContexts' /\ Saved' /\ RingZeroStack'
    BY <1>4, <2>1, <2>4 DEF OwnContexts, Saved, RingZeroStack, MainPoints, UserPoints
  <2>6. OneTask'
    BY <1>2, <1>3, <1>4, <2>1, <2>2 DEF OneTask
  <2> QED BY <1>4, <2>2, <2>4, <2>5, <2>6 DEF TaskInv
<1>8. CASE CreateCount
  <2>1. /\ cpu.pc = "count" /\ cpu'.pc = "wait" /\ count = 1 /\ started /\ MaxTasks > 1
        /\ UNCHANGED <<active, rsp, frames, tss, started, pages, since>>
        /\ count' = 2 /\ active[1]
        /\ rsp[1] = Own(1) /\ frames[Own(1)] = [of |-> 1, pc |-> "entry"]
    BY <1>2, <1>3, <1>8 DEF CreateCount, OneTask
  <2>2. TypeOK'
    BY <1>2, <1>4, <2>1 DEF TypeOK
  <2>3. Live' = {0, 1} /\ Context(1)' = [of |-> 1, pc |-> "entry"]
    BY <1>2, <1>4, <2>1 DEF Live, Context
  <2>4. OwnContexts' /\ Saved' /\ RingZeroStack' /\ OneTask'
    BY <1>4, <2>1, <2>3
       DEF OwnContexts, Saved, RingZeroStack, OneTask, MainPoints, TaskPoints, UserPoints
  <2> QED BY <1>4, <2>2, <2>3, <2>4 DEF TaskInv
<1>9. count \in Nat /\ MaxTasks \in Nat
  BY <1>2 DEF TypeOK
<1> QED BY <1>5, <1>6, <1>7, <1>8, <1>9 DEF MainStep

\* A step of the ring-3 task.  It is task 1 that takes it, and the main loop, which
\* is preempted, is not about to create another one.
LEMMA TaskStepInv == TaskInv /\ (TaskStep \/ WildException) => TaskInv'
<1> SUFFICES ASSUME TaskInv, TaskStep \/ WildException PROVE TaskInv'
  OBVIOUS
<1> USE TasksAssumption DEF TaskIds, At, Goto, table
<1>1. Running /\ cpu.pc \in TaskPoints
  BY DEF TaskStep, WildException, LaunchPages, LaunchStack, EnterRing3, SyscallWrite, SyscallExit,
         Running, TaskPoints, UserPoints
<1>2. /\ TypeOK /\ OwnContexts /\ Saved /\ RingZeroStack /\ OneTask
      /\ 0 \in Live /\ current \in Live /\ cpu.of = current
  BY <1>1, InvUnfold
<1>3. /\ current = 1 /\ count = 2 /\ started /\ Live = {0, 1}
      /\ Context(1) = cpu /\ cpu \in [of : TaskIds, pc : MainPoints \cup TaskPoints]
  <2>1. current # 0
    BY <1>1, InvUnfold DEF MainPoints, TaskPoints, UserPoints
  <2>2. current \in Nat /\ count \in Nat
    BY <1>2 DEF TypeOK
  <2>3. count = 2 /\ current = 1 /\ started
    BY <1>2, <2>1, <2>2 DEF OneTask, Live
  <2>4. Live = {0, 1}
    BY <1>2, <2>3 DEF Live
  <2>5. cpu \in [of : TaskIds, pc : MainPoints \cup TaskPoints]
    BY <1>1, <1>2 DEF TypeOK, Contexts, Garbage, TaskPoints, UserPoints
  <2> QED BY <2>3, <2>4, <2>5 DEF Context
<1>4. /\ Context(0) = frames[rsp[0]] /\ rsp[0] = Own(0) /\ Context(0).of = 0
      /\ Context(0).pc \in MainPoints \ {"alloc", "create", "mark", "count"}
  BY <1>2, <1>3 DEF Context, Saved, OwnContexts, OneTask, MainPoints, UserPoints
<1>5. cpu.pc \in UserPoints => tss = Ring0(1)
  BY <1>2, <1>3 DEF RingZeroStack
\* In the steps that leave the table alone, the task moves on.
<1>6. CASE LaunchPages \/ LaunchStack \/ EnterRing3 \/ SyscallWrite
  <2>1. UNCHANGED <<current, count, active, rsp, started, since>>
    BY <1>6 DEF LaunchPages, LaunchStack, EnterRing3, SyscallWrite
  <2>2. \E q \in TaskPoints : cpu' = [cpu EXCEPT !.pc = q]
    BY <1>6 DEF LaunchPages, LaunchStack, EnterRing3, SyscallWrite, TaskPoints, UserPoints
  <2>3. cpu' \in Contexts /\ cpu'.of = 1 /\ cpu'.pc \in TaskPoints
    BY <1>2, <1>3, <2>2 DEF Contexts
  <2>4. frames' = frames \/ (tss = Ring0(1) /\ frames' = [frames EXCEPT ![tss] = cpu'])
    BY <1>5, <1>6 DEF LaunchPages, LaunchStack, EnterRing3, SyscallWrite, UserPoints
  <2>5. tss' \in Stacks /\ pages' \in 0 .. MaxPages
    <3>1. pages \in 0 .. MaxPages /\ tss \in Stacks /\ Ring0(1) \in Stacks
      BY <1>2, <1>3 DEF TypeOK, Stacks, Ring0, Live
    <3>2. tss' = tss \/ tss' = Ring0(1)
      BY <1>2, <1>3, <1>6 DEF LaunchPages, LaunchStack, EnterRing3, SyscallWrite
    <3>3. pages' \in 0 .. MaxPages
      <4>1. CASE LaunchPages
        BY <3>1, <4>1 DEF LaunchPages, UserPages, TablePages
      <4>2. CASE LaunchStack
        BY <3>1, <4>2 DEF LaunchStack
      <4>3. CASE EnterRing3 \/ SyscallWrite
        BY <3>1, <4>3 DEF EnterRing3, SyscallWrite
      <4> QED BY <1>6, <4>1, <4>2, <4>3
    <3> QED BY <3>1, <3>2, <3>3
  <2>6. TypeOK'
    BY <1>2, <2>1, <2>3, <2>4, <2>5 DEF TypeOK
  <2>7. Own(0) # Ring0(1) /\ Own(0) \in Stacks
    BY DEF Own, Ring0, Stacks
  <2>8. Context(0)' = Context(0) /\ Context(1)' = cpu' /\ Live' = Live
    BY <1>2, <1>3, <1>4, <2>1, <2>4, <2>7 DEF Context, Live, TypeOK
  <2>9. cpu'.pc \in UserPoints \cup {"enter"} => tss' = Ring0(1)
    <3>1. CASE LaunchPages
      BY <1>3, <3>1 DEF LaunchPages, UserPoints
    <3>2. CASE LaunchStack
      BY <1>2, <1>3, <3>2 DEF LaunchStack, UserPoints
    <3>3. CASE EnterRing3 \/ SyscallWrite
      BY <1>2, <1>3, <3>3 DEF EnterRing3, SyscallWrite, UserPoints, RingZeroStack
    <3> QED BY <1>6, <3>1, <3>2, <3>3
  <2>10. OwnContexts' /\ Saved'
    BY <1>2, <1>3, <1>4, <2>1, <2>3, <2>8 DEF OwnContexts, Saved
  <2>11. RingZeroStack' /\ OneTask'
    BY <1>3, <1>4, <2>1, <2>8, <2>9 DEF RingZeroStack, OneTask, MainPoints, UserPoints
  <2> QED BY <1>2, <1>3, <2>1, <2>6, <2>8, <2>10, <2>11 DEF TaskInv
\* The main loop is the only one left.
<1>7. CASE SyscallExit
  <2>1. /\ tss = Ring0(1) /\ frames' = [frames EXCEPT ![tss] = cpu]
        /\ active' = [active EXCEPT ![1] = FALSE]
        /\ UNCHANGED <<count, rsp, tss, started, pages, since>>
    BY <1>3, <1>5, <1>7 DEF SyscallExit, UserPoints
  <2>2. active' \in [TaskIds -> BOOLEAN] /\ active'[0] /\ ~active'[1]
    BY <1>2, <1>3, <2>1 DEF TypeOK, Live
  <2>3. current' = 0
    <3>1. current' = Schedule(active', current)
      BY <1>7 DEF SyscallExit
    <3>2. current' \in 0 .. count - 1 /\ active'[current']
      BY <1>3, <2>2, <3>1, ScheduleFinds
    <3> QED BY <1>3, <2>2, <3>2
  <2>4. frames'[Own(0)] = frames[Own(0)]
    BY <2>1 DEF Own, Ring0
  <2>5. cpu' = Context(0)
    BY <1>4, <1>7, <2>2, <2>3, <2>4 DEF SyscallExit
  <2>6. TypeOK'
    BY <1>2, <1>3, <1>4, <2>1, <2>2, <2>3, <2>5 DEF TypeOK, Stacks, Own
  <2>7. Live' = {0} /\ Context(0)' = Context(0)
    BY <1>2, <1>3, <2>1, <2>2, <2>3, <2>5 DEF Live, Context
  <2>8. OwnContexts' /\ Saved' /\ RingZeroStack' /\ OneTask'
    BY <1>3, <1>4, <2>1, <2>3, <2>7
       DEF OwnContexts, Saved, RingZeroStack, OneTask, MainPoints, UserPoints
  <2> QED BY <2>3, <2>6, <2>7, <2>8 DEF TaskInv
\* The machine stops.
<1>8. CASE WildException
  <2>1. TypeOK' /\ ~Running'
    BY <1>2, <1>8 DEF WildException, TypeOK, Contexts, Garbage, Running
  <2> QED BY <2>1 DEF TaskInv
<1> QED BY <1>6, <1>7, <1>8 DEF TaskStep

\* The timer.  The context it saves does not lie where another one waits, and the
\* one it resumes is where it was left: no context of a task changes.
LEMMA TickKeepsContexts ==
  TaskInv /\ IRQ0 =>
    /\ Live' = Live /\ current' \in Live
    /\ \A t \in Live : Context(t)' = Context(t)
<1> SUFFICES ASSUME TaskInv, IRQ0
             PROVE  /\ Live' = Live /\ current' \in Live
                    /\ \A t \in Live : Context(t)' = Context(t)
  OBVIOUS
<1> USE TasksAssumption DEF TaskIds, table
<1>1. /\ TypeOK /\ OwnContexts /\ Saved /\ RingZeroStack
      /\ 0 \in Live /\ current \in Live /\ cpu.of = current
  BY InvUnfold DEF IRQ0
<1>2. /\ frames' = [frames EXCEPT ![SaveStack] = cpu] /\ rsp' = [rsp EXCEPT ![current] = SaveStack]
      /\ current' = Schedule(active, current) /\ cpu' = frames'[rsp'[current']]
      /\ UNCHANGED <<count, active>>
  BY DEF IRQ0
<1>3. Live' = Live /\ current' \in Live
  BY <1>1, <1>2, ScheduleFinds DEF TypeOK, Live
<1>4. SaveStack = (IF cpu.pc \in UserPoints THEN Ring0(current) ELSE Own(current)) /\ SaveStack \in Stacks
  <2>1. SaveStack = (IF cpu.pc \in UserPoints THEN Ring0(current) ELSE Own(current))
    BY <1>1 DEF SaveStack, RingZeroStack, Context
  <2>2. current \in TaskIds
    BY <1>1 DEF TypeOK
  <2> QED BY <2>1, <2>2 DEF Stacks, Own, Ring0
<1>5. ASSUME NEW t \in Live PROVE frames'[rsp'[t]] = Context(t)
  <2>1. t \in TaskIds /\ rsp[t] \in Stacks
    BY <1>1 DEF TypeOK, Live
  <2>2. CASE t = current
    BY <1>1, <1>2, <1>4, <2>1, <2>2 DEF TypeOK, Context
  <2>3. CASE t # current
    <3>1. rsp[t] \in {Own(t), Ring0(t)}
      BY <1>1, <2>3 DEF Saved
    <3>2. rsp[t] # SaveStack
      BY <1>4, <2>3, <3>1 DEF Own, Ring0
    <3> QED BY <1>1, <1>2, <2>1, <2>3, <3>2 DEF TypeOK, Context
  <2> QED BY <2>2, <2>3
<1>6. \A t \in Live : Context(t)' = Context(t)
  BY <1>2, <1>3, <1>5 DEF Context
<1> QED BY <1>3, <1>6

LEMMA TickInv == TaskInv /\ IRQ0 => TaskInv'
<1> SUFFICES ASSUME TaskInv, IRQ0 PROVE TaskInv'
  OBVIOUS
<1> USE TasksAssumption DEF TaskIds, table
<1>1. /\ TypeOK /\ OwnContexts /\ Saved /\ RingZeroStack /\ OneTask
      /\ 0 \in Live /\ current \in Live /\ cpu.of = current
  BY InvUnfold DEF IRQ0
<1>2. /\ Live' = Live /\ current' \in Live
      /\ \A t \in Live : Context(t)' = Context(t)
  BY TickKeepsContexts
<1>3. /\ frames' = [frames EXCEPT ![SaveStack] = cpu] /\ rsp' = [rsp EXCEPT ![current] = SaveStack]
      /\ UNCHANGED <<count, active, tss, started, pages>>
      /\ since' = IF since < FrameDelay THEN since + 1 ELSE since
  BY DEF IRQ0
<1>4. SaveStack = (IF cpu.pc \in UserPoints THEN Ring0(current) ELSE Own(current)) /\ SaveStack \in Stacks
  <2>1. SaveStack = (IF cpu.pc \in UserPoints THEN Ring0(current) ELSE Own(current))
    BY <1>1 DEF SaveStack, RingZeroStack, Context
  <2>2. current \in TaskIds
    BY <1>1 DEF TypeOK
  <2> QED BY <2>1, <2>2 DEF Stacks, Own, Ring0
<1>5. OwnContexts' /\ RingZeroStack'
  BY <1>1, <1>2, <1>3 DEF OwnContexts, RingZeroStack
<1>6. cpu' \in Contexts /\ Running'
  <2>1. cpu' = Context(current') /\ Context(current').pc \in MainPoints \cup TaskPoints
    BY <1>1, <1>2 DEF Context, OwnContexts
  <2>2. current' \in TaskIds
    BY <1>1, <1>2 DEF Live, TypeOK
  <2>3. cpu' \in Contexts
    BY <1>1, <2>1, <2>2 DEF Context, TypeOK
  <2> QED BY <2>1, <2>3 DEF Running, MainPoints, TaskPoints, UserPoints
<1>7. TypeOK'
  <2>1. current' \in 0 .. count' - 1
    BY <1>2 DEF Live
  <2>2. since' \in 0 .. FrameDelay
    BY <1>1, <1>3 DEF TypeOK
  <2> QED BY <1>1, <1>3, <1>4, <1>6, <2>1, <2>2 DEF TypeOK
<1>8. Saved'
  <2> SUFFICES ASSUME NEW t \in Live, t # current'
               PROVE  rsp'[t] = IF Context(t).pc \in UserPoints THEN Ring0(t) ELSE Own(t)
    BY <1>2 DEF Saved
  <2>1. t \in TaskIds
    BY <1>1 DEF TypeOK, Live
  <2> QED BY <1>1, <1>3, <1>4, <2>1 DEF Saved, Context, TypeOK
<1>9. OneTask'
  <2>1. Context(0)' = Context(0)
    BY <1>1, <1>2
  <2>2. Context(0).pc \in {"mark", "count"} =>
          rsp'[1] = rsp[1] /\ frames'[Own(1)] = frames[Own(1)]
    <3> SUFFICES ASSUME Context(0).pc \in {"mark", "count"}
                 PROVE  rsp'[1] = rsp[1] /\ frames'[Own(1)] = frames[Own(1)]
      OBVIOUS
    <3>1. current = 0 /\ 1 \in TaskIds /\ Own(1) \in Stacks
      BY <1>1 DEF OneTask, Live, TypeOK, Own, Stacks
    <3>2. SaveStack # Own(1)
      BY <1>4, <3>1 DEF Own, Ring0
    <3> QED BY <1>1, <1>3, <3>1, <3>2 DEF TypeOK
  <2> QED BY <1>1, <1>3, <2>1, <2>2 DEF OneTask
<1> QED BY <1>1, <1>2, <1>5, <1>7, <1>8, <1>9 DEF TaskInv

\* No step leaves the invariant.
LEMMA TaskInvStep == TaskInv /\ [Next]_vars => TaskInv'
<1>1. TaskInv /\ UNCHANGED vars => TaskInv'
  BY DEF vars, table, TaskInv, TypeOK, Running, Live, OwnContexts, Saved, RingZeroStack, OneTask,
         Context
<1> QED BY <1>1, MainStepInv, TaskStepInv, TickInv DEF Next

\* TaskInv is an invariant of the scheduler and the programs together.
THEOREM TaskInvariant == Spec => []TaskInv
<1> QED BY TaskInit, TaskInvStep, PTL DEF Spec

\* Every task keeps its own context, wherever the timer interrupts whom.
THEOREM EveryContextKept == Spec => []ContextsKept
<1>1. TaskInv => ContextsKept
  <2> SUFFICES ASSUME TaskInv, Running
               PROVE  /\ cpu.of = current /\ active[current]
                      /\ \A t \in 0 .. count - 1 \ {current} :
                           active[t] => frames[rsp[t]].of = t
    BY DEF TaskInv, ContextsKept
  <2>1. OwnContexts /\ cpu.of = current /\ current \in Live
    BY InvUnfold
  <2> QED BY <2>1 DEF OwnContexts, Context, Live
<1> QED BY <1>1, TaskInvariant, PTL

\* In ring 3 the stack for the next interrupt is there, and nobody's context is on it.
THEOREM StackFreeInRing3 == Spec => []Ring3StackFree
<1>1. TaskInv => Ring3StackFree
  <2> SUFFICES ASSUME TaskInv, cpu.pc \in UserPoints
               PROVE  /\ tss # NoStack
                      /\ \A t \in 0 .. count - 1 \ {current} : active[t] => rsp[t] # tss
    BY DEF Ring3StackFree
  <2>1. OwnContexts /\ Saved /\ RingZeroStack /\ current \in Live
    BY InvUnfold DEF Running, UserPoints
  <2>2. tss = Ring0(current)
    BY <2>1 DEF RingZeroStack, Context
  <2>3. \A t \in Live \ {current} : rsp[t] \in {Own(t), Ring0(t)}
    BY <2>1 DEF Saved
  <2>4. \A t \in Live \ {current} : rsp[t] # tss
    BY <2>2, <2>3 DEF Own, Ring0
  <2> QED BY <2>2, <2>4 DEF NoStack, Ring0, Live
<1> QED BY <1>1, TaskInvariant, PTL

-----------------------------------------------------------------------------
(* Tasks implements Processes. *)

VirtualAt == [t \in TaskIds |-> PointOf(t)]

LEMMA PointIsContext == TypeOK => \A t \in Live : PointOf(t) = Context(t).pc
<1> SUFFICES ASSUME TypeOK, NEW t \in Live PROVE PointOf(t) = Context(t).pc
  OBVIOUS
<1>1. active[t] /\ ~(t >= count)
  BY DEF Live, TypeOK
<1> QED BY <1>1 DEF PointOf, Context

\* The points of tasks that are not there, or not any more.
LEMMA PointElsewhere ==
  TypeOK => \A t \in TaskIds \ Live : PointOf(t) = IF t >= count THEN "none" ELSE "gone"
BY DEF TypeOK, Live, PointOf, TaskIds

LEMMA ProgramIs ==
  /\ Program["poll"] = {"tick"} /\ Program["tick"] = {"wait", "alloc"}
  /\ Program["alloc"] = {"create", "wait"} /\ Program["create"] = {"mark", "wait"}
  /\ Program["mark"] = {"count"} /\ Program["count"] = {"wait"} /\ Program["wait"] = {"poll"}
  /\ Program["entry"] = {"stack", "wild"} /\ Program["stack"] = {"enter", "wild"}
  /\ Program["enter"] = {"write"} /\ Program["write"] = {"exit"}
  /\ Program["exit"] = {"gone"} /\ Program["wild"] = {"halted"}
BY DEF Program, MainPoints, TaskPoints, UserPoints

\* The main loop takes a step of its program, and CreateCount starts the new task.
LEMMA MainStepRuns ==
  TaskInv /\ MainStep => Virtual!RunStep(0) \/ Virtual!Spawn(0)
<1> SUFFICES ASSUME TaskInv, MainStep PROVE Virtual!RunStep(0) \/ Virtual!Spawn(0)
  OBVIOUS
<1> USE TasksAssumption DEF At, Goto, table
<1>1. Running /\ cpu.pc \in MainPoints
  BY DEF MainStep, MainPoll, DesktopTick, LaunchAlloc, CreateFrame, CreateActive, CreateCount,
         MainWait, Running, MainPoints
<1>2. /\ TypeOK /\ TypeOK' /\ OneTask /\ 0 \in Live /\ cpu.of = current
      /\ cpu \in [of : TaskIds, pc : MainPoints \cup TaskPoints]
  BY <1>1, InvUnfold, MainStepInv DEF TypeOK, Contexts, Garbage, MainPoints, TaskInv
<1>3. current = 0 /\ current' = 0
  <2>1. current = 0
    BY <1>1, InvUnfold DEF MainPoints, TaskPoints, UserPoints
  <2> QED BY <2>1 DEF MainStep, MainPoll, DesktopTick, LaunchAlloc, CreateFrame, CreateActive,
                      CreateCount, MainWait
<1>4. 0 \in TaskIds /\ Context(0) = cpu /\ VirtualAt[0] = cpu.pc
  <2>1. 0 \in TaskIds
    BY DEF TaskIds
  <2> QED BY <1>2, <1>3, <2>1, PointIsContext DEF VirtualAt, Context
<1>5. cpu'.pc \in Program[cpu.pc]
  BY <1>2, ProgramIs DEF MainStep, MainPoll, DesktopTick, LaunchAlloc, CreateFrame, CreateActive,
         CreateCount, MainWait
<1>6. 0 \in Live'
  BY <1>2, <1>3 DEF MainStep, MainPoll, DesktopTick, LaunchAlloc, CreateFrame, CreateActive,
         CreateCount, MainWait, Live, TypeOK, TaskIds
<1>7. PointOf(0)' = cpu'.pc
  BY <1>2, <1>3, <1>6 DEF PointOf, Live, TypeOK
<1>8. CASE ~CreateCount
  <2>1. \A t \in TaskIds \ {0} : PointOf(t)' = PointOf(t)
    <3> TAKE t \in TaskIds \ {0}
    <3>1. CASE UNCHANGED <<table, rsp, frames>>
      BY <1>3, <3>1 DEF PointOf
    <3>2. CASE count = 1 /\ count' = 1
      BY <1>3, <3>2 DEF PointOf, TaskIds
    <3>3. CASE CreateFrame \/ CreateActive
      <4>1. count = 1 /\ count' = count
        BY <1>2, <1>4, <3>3 DEF CreateFrame, CreateActive, OneTask
      <4> QED BY <3>2, <4>1
    <3>4. CASE MainPoll \/ DesktopTick \/ LaunchAlloc \/ MainWait
      BY <3>1, <3>4 DEF MainPoll, DesktopTick, LaunchAlloc, MainWait
    <3> QED BY <1>8, <3>3, <3>4 DEF MainStep
  <2>2. VirtualAt' = [VirtualAt EXCEPT ![0] = cpu'.pc]
    BY <1>4, <1>7, <2>1 DEF VirtualAt
  <2> QED BY <1>4, <1>5, <2>2 DEF Virtual!RunStep, VirtualAt
<1>9. CASE CreateCount
  <2>1. /\ count = 1 /\ count' = 2 /\ active' = active /\ active[1] /\ MaxTasks > 1
        /\ rsp'[1] = Own(1) /\ frames'[Own(1)] = [of |-> 1, pc |-> "entry"]
    BY <1>2, <1>4, <1>9 DEF CreateCount, OneTask
  <2>2. 1 \in TaskIds /\ VirtualAt[1] = "none" /\ PointOf(1)' = "entry"
    BY <1>3, <2>1 DEF VirtualAt, PointOf, TaskIds
  <2>3. \A t \in TaskIds \ {0, 1} : PointOf(t)' = PointOf(t)
    BY <2>1 DEF PointOf, TaskIds
  <2>4. VirtualAt' = [VirtualAt EXCEPT ![0] = cpu'.pc, ![1] = "entry"]
    BY <1>4, <1>7, <2>2, <2>3 DEF VirtualAt
  <2> QED BY <1>4, <1>5, <2>2, <2>4 DEF Virtual!Spawn, VirtualAt
<1> QED BY <1>8, <1>9

\* The ring-3 task takes a step of its program; the exit is its last.
LEMMA TaskStepRuns ==
  TaskInv /\ (TaskStep \/ WildException) => \E t \in TaskIds : Virtual!RunStep(t)
<1> SUFFICES ASSUME TaskInv, TaskStep \/ WildException
             PROVE  \E t \in TaskIds : Virtual!RunStep(t)
  OBVIOUS
<1> USE TasksAssumption DEF At, Goto, table
<1>1. Running /\ cpu.pc \in TaskPoints
  BY DEF TaskStep, WildException, LaunchPages, LaunchStack, EnterRing3, SyscallWrite, SyscallExit,
         Running, TaskPoints, UserPoints
<1>2. /\ TypeOK /\ TypeOK' /\ OneTask /\ Saved /\ RingZeroStack /\ Live \subseteq TaskIds
      /\ 0 \in Live /\ current \in Live /\ cpu.of = current
      /\ cpu \in [of : TaskIds, pc : MainPoints \cup TaskPoints]
  <2>1. TypeOK /\ TypeOK' /\ Live \subseteq TaskIds
    BY TaskStepInv DEF TaskInv, Live, TypeOK, TaskIds
  <2> QED BY <1>1, <2>1, InvUnfold DEF TypeOK, Contexts, Garbage, TaskPoints, UserPoints
<1>3. current # 0 /\ Context(0) = frames[rsp[0]] /\ rsp[0] = Own(0)
  <2>1. current # 0
    BY <1>1, InvUnfold DEF MainPoints, TaskPoints, UserPoints
  <2>2. Context(0).pc \notin UserPoints
    BY <1>1, <1>2, InvUnfold DEF OwnContexts, MainPoints, UserPoints
  <2> QED BY <1>2, <2>1, <2>2 DEF Context, Saved
<1>4. count = 2 /\ current = 1 /\ Live = {0, 1}
  BY <1>2, <1>3 DEF OneTask, Live, TypeOK
<1>5. VirtualAt[1] = cpu.pc /\ 1 \in TaskIds
  BY <1>2, <1>4, PointIsContext DEF VirtualAt, Context
<1>6. cpu.pc \in UserPoints => tss = Ring0(1)
  BY <1>2, <1>4 DEF RingZeroStack, Context
<1>7. PointOf(1)' \in Program[cpu.pc]
  <2>1. CASE SyscallExit
    <3>1. active' = [active EXCEPT ![1] = FALSE] /\ count' = 2 /\ cpu.pc = "exit"
      BY <1>4, <2>1 DEF SyscallExit
    <3>2. PointOf(1)' = "gone"
      BY <1>2, <1>5, <3>1 DEF PointOf, TypeOK
    <3> QED BY <3>1, <3>2, ProgramIs
  <2>2. CASE LaunchPages \/ LaunchStack \/ EnterRing3 \/ SyscallWrite \/ WildException
    <3>1. current' = 1 /\ count' = 2 /\ active' = active
      BY <1>4, <2>2 DEF LaunchPages, LaunchStack, EnterRing3, SyscallWrite, WildException
    <3>2. PointOf(1)' = cpu'.pc
      BY <1>4, <3>1 DEF PointOf, Live
    <3>3. cpu'.pc \in Program[cpu.pc]
      BY <1>2, <2>2, ProgramIs
         DEF LaunchPages, LaunchStack, EnterRing3, SyscallWrite, WildException, Garbage
    <3> QED BY <3>2, <3>3
  <2> QED BY <2>1, <2>2 DEF TaskStep
<1>8. \A t \in TaskIds \ {1} : PointOf(t)' = PointOf(t)
  <2>1. \A t \in TaskIds \ {0, 1} : PointOf(t)' = PointOf(t)
    <3>1. count' = 2
      BY <1>4 DEF TaskStep, LaunchPages, LaunchStack, EnterRing3, SyscallWrite, SyscallExit,
                  WildException
    <3> QED BY <1>4, <3>1 DEF PointOf, TaskIds
  <2>2. PointOf(0)' = PointOf(0)
    <3>1. frames'[Own(0)] = frames[Own(0)] /\ rsp' = rsp
      <4>1. /\ rsp' = rsp
            /\ frames' = frames \/ (tss = Ring0(1) /\ \E c : frames' = [frames EXCEPT ![tss] = c])
        <5>1. CASE LaunchPages \/ LaunchStack \/ EnterRing3 \/ WildException
          BY <5>1 DEF LaunchPages, LaunchStack, EnterRing3, WildException
        <5>2. CASE SyscallWrite \/ SyscallExit
          BY <1>6, <5>2 DEF SyscallWrite, SyscallExit, UserPoints
        <5> QED BY <5>1, <5>2 DEF TaskStep
      <4>2. Own(0) # Ring0(1) /\ Own(0) \in Stacks /\ frames \in [Stacks -> Contexts]
        BY <1>2 DEF Own, Ring0, Stacks, Live, TypeOK, TaskIds
      <4> QED BY <4>1, <4>2
    <3>2. CASE SyscallExit
      <4>1. active' = [active EXCEPT ![1] = FALSE] /\ count' = 2
            /\ current' = Schedule(active', current)
            /\ cpu' = IF active'[current'] THEN frames'[rsp[current']] ELSE Garbage
        BY <1>4, <3>2 DEF SyscallExit
      <4>2. active'[0] /\ ~active'[1]
        BY <1>2, <1>4, <1>5, <4>1 DEF TypeOK, Live
      <4>3. current' = 0
        <5>1. current' \in 0 .. count - 1 /\ active'[current']
          <6>1. current' = Schedule(active', current) /\ count \in Nat \ {0}
                /\ current \in 0 .. count - 1 /\ 0 \in 0 .. count - 1 /\ active'[0]
            BY <1>4, <4>1, <4>2
          <6> QED BY <6>1, ScheduleFinds
        <5> QED BY <1>4, <4>2, <5>1
      <4> QED BY <1>3, <1>4, <3>1, <4>1, <4>2, <4>3 DEF PointOf, Live
    <3>3. CASE LaunchPages \/ LaunchStack \/ EnterRing3 \/ SyscallWrite \/ WildException
      <4>1. UNCHANGED <<current, count, active>>
        BY <3>3 DEF LaunchPages, LaunchStack, EnterRing3, SyscallWrite, WildException
      <4> QED BY <1>3, <1>4, <3>1, <4>1 DEF PointOf
    <3> QED BY <3>2, <3>3 DEF TaskStep
  <2> QED BY <2>1, <2>2
<1>9. VirtualAt' = [VirtualAt EXCEPT ![1] = PointOf(1)']
  BY <1>5, <1>8 DEF VirtualAt
<1> QED BY <1>5, <1>7, <1>9 DEF Virtual!RunStep, VirtualAt

\* Preemption moves nobody.
LEMMA TickInvisible == TaskInv /\ IRQ0 => VirtualAt' = VirtualAt
<1> SUFFICES ASSUME TaskInv, IRQ0, NEW t \in TaskIds PROVE PointOf(t)' = PointOf(t)
  BY DEF VirtualAt
<1>1. /\ Live' = Live /\ TypeOK /\ TypeOK' /\ count' = count
      /\ \A u \in Live : Context(u)' = Context(u)
  BY TickKeepsContexts, TickInv DEF TaskInv, IRQ0, table
<1>2. CASE t \in Live
  <2>1. PointOf(t) = Context(t).pc
    BY <1>1, <1>2, PointIsContext
  <2>2. PointOf(t)' = Context(t)'.pc
    <3>1. t \in Live'
      BY <1>1, <1>2
    <3> QED BY <1>1, <3>1 DEF PointOf, Live, TypeOK, Context
  <2> QED BY <1>1, <1>2, <2>1, <2>2
<1>3. CASE t \notin Live
  <2>1. PointOf(t) = IF t >= count THEN "none" ELSE "gone"
    BY <1>1, <1>3, PointElsewhere
  <2>2. PointOf(t)' = IF t >= count THEN "none" ELSE "gone"
    <3>1. t \notin Live'
      BY <1>1, <1>3
    <3> QED BY <1>1, <3>1 DEF TypeOK, Live, PointOf, TaskIds
  <2> QED BY <2>1, <2>2
<1> QED BY <1>2, <1>3

\* Each task takes the steps of its own program, in order, as if alone.
THEOREM TasksAreProcesses == Spec => ImplementsProcesses
<1>1. Init => Virtual!ProcessInit
  <2> SUFFICES ASSUME Init
               PROVE  \A t \in TaskIds : PointOf(t) = IF t = 0 THEN "poll" ELSE "none"
    BY DEF Virtual!ProcessInit
  <2>1. \A t \in TaskIds : t # 0 => PointOf(t) = "none"
    BY DEF Init, PointOf, TaskIds
  <2>2. 0 \in TaskIds => PointOf(0) = "poll"
    <3>1. 0 \in TaskIds => active[0]
      BY DEF Init
    <3>2. ~(0 >= count) /\ current = 0 /\ cpu.pc = "poll"
      BY DEF Init
    <3> QED BY <3>1, <3>2 DEF PointOf
  <2> QED BY <2>1, <2>2
<1>2. TaskInv /\ [Next]_vars
        => [\E t \in TaskIds : Virtual!RunStep(t) \/ Virtual!Spawn(t)]_VirtualAt
  <2> SUFFICES ASSUME TaskInv, [Next]_vars
               PROVE  [\E t \in TaskIds : Virtual!RunStep(t) \/ Virtual!Spawn(t)]_VirtualAt
    OBVIOUS
  <2>1. CASE MainStep
    BY <2>1, MainStepRuns, TasksAssumption DEF TaskIds
  <2>2. CASE TaskStep \/ WildException
    BY <2>2, TaskStepRuns
  <2>3. CASE IRQ0
    BY <2>3, TickInvisible
  <2>4. CASE UNCHANGED vars
    BY <2>4 DEF vars, table, VirtualAt, PointOf
  <2> QED BY <2>1, <2>2, <2>3, <2>4 DEF Next
<1> QED BY <1>1, <1>2, TaskInvariant, PTL
        DEF Spec, ImplementsProcesses, Virtual!ProcessSpec, VirtualAt
===============================================================================
