-------------------------- MODULE SwitchingProofs --------------------------
(* Theorems about Switching, for any tasks and any depth of nesting. *)
EXTENDS Switching, TLAPS

----------------------------------------------------------------------------
(***************************************************************************)
(* Inductive invariants.  AnyTimeInv holds whenever interrupts come, and   *)
(* QuietInv when none comes in the middle of a switch.                     *)
(***************************************************************************)

\* Where a context is with interrupts off, and is never interrupted.
Masked == {"irq0", "test", "irq1", "halted", "wild"}

\* Where it is with interrupts on; "ret" is reached with either.
Enabled == PCs \ (Masked \cup {"ret"})

IrqInv ==
    /\ ctx.pc = "irq0" => isr = {0}
    /\ ctx.pc = "irq1" => isr = {1}
    /\ ctx.pc \notin {"irq0", "irq1"} => isr = {}
    /\ need_reschedule = 1 => ctx.pc = "test"
    /\ ctx.pc \in Enabled => ctx.iflag
    /\ ctx.pc \in Masked => ~ctx.iflag
    /\ \A t \in Tasks : \A i \in DOMAIN stack[t] :
            stack[t][i].iflag /\ stack[t][i].pc \notin Masked

InQueue(t) == t \in Tasks /\ Linked(t)

BootInv ==
    /\ stage = "tcb" => \A t \in Tasks : state[t] = "NONE"
    /\ stage # "tcb" => InQueue(Main)
    /\ stage \in {"tcb", "current"} <=> current_task = NoTask
    /\ stage \in {"create", "link"} => task_list = Main
    /\ stage = "link" <=> new_task # NoTask
    /\ Main \notin todo
    /\ \A t \in todo : state[t] = "NONE"
    /\ new_task # NoTask =>
            /\ new_task # Main
            /\ state[new_task] # "NONE"
            /\ InQueue(next[new_task])
            /\ next[new_task] = next[task_list]

\* What a context inside task_schedule has loaded is in the run queue.
LocalsInQueue(c) ==
    /\ c.pc \in {"next", "store", "switch", "save"} =>
            InQueue(c.old) /\ current_task # NoTask
    /\ c.pc \in {"store", "switch", "save", "load"} => InQueue(c.new)

QueueInv ==
    /\ current_task # NoTask => InQueue(current_task)
    /\ \A t \in Tasks : Linked(t) => InQueue(next[t])
    /\ LocalsInQueue(ctx)
    /\ \A t \in Tasks : \A i \in DOMAIN stack[t] : LocalsInQueue(stack[t][i])

CycleInv == stage # "tcb" => OneCycle

AnyTimeInv == TypeOK /\ IrqInv /\ BootInv /\ QueueInv /\ CycleInv

\* A context inside task_schedule has the task on whose stack it runs in its
\* local old_task.
LocalsOf(t, c) == c.pc \in {"next", "store", "switch", "save"} => c.old = t

FramesInv ==
    /\ LocalsOf(cpu, ctx)
    /\ \A t \in Tasks : \A i \in DOMAIN stack[t] :
        /\ stack[t][i].pc \notin {"switch", "save", "load"}
        /\ LocalsOf(t, stack[t][i])

\* The two halves of a switch: what has been stored, what is still to come.
SwitchInv ==
    /\ ctx.pc # "wild"
    /\ HalfSwitched => current_task = ctx.new
    /\ ctx.pc \in {"save", "load"} =>
            /\ ctx.new # cpu
            /\ ctx.nesp = esp[ctx.new]
    /\ ctx.pc = "load" => Suspended(cpu)

\* Who has the CPU, and that everyone else can be given it.
CpuInv ==
    /\ current_task = NoTask => cpu = Main
    /\ current_task # NoTask => InQueue(cpu)
    /\ current_task # NoTask /\ ~HalfSwitched /\ ctx.pc # "halted"
            => cpu = current_task
    /\ \A t \in Tasks : Linked(t) /\ t # cpu => Suspended(t)
    /\ new_task # NoTask => Suspended(new_task)

\* The code of a task is the first context on its stack: while create_task links
\* a task in, no switch away from main_task is half way.
BottomInv ==
    /\ ctx.pc = "task" => stack[cpu] = <<>>
    /\ \A t \in Tasks : \A i \in DOMAIN stack[t] : stack[t][i].pc = "task" => i = 1

\* A new_task that task_schedule has loaded is still the task after the old one.
LoadedNext(c) == c.pc = "store" => c.new = next[c.old]

NextInv ==
    /\ LoadedNext(ctx)
    /\ \A t \in Tasks : \A i \in DOMAIN stack[t] : LoadedNext(stack[t][i])

QuietInv ==
    AnyTimeInv /\ FramesInv /\ SwitchInv /\ CpuInv /\ BottomInv /\ NextInv

----------------------------------------------------------------------------
(* What the operations on one stack do to all of them. *)

\* A fresh context, as an interrupt entry or create_task makes it, is typed.
LEMMA AtIsContext ==
    ASSUME NEW pc \in PCs, NEW iflag \in BOOLEAN
    PROVE  At(pc, iflag) \in Contexts
  BY TasksAssumption DEF At, Contexts, TaskOrNull, Esp, NoEsp

\* A stack of one context: the frame create_task builds.
LEMMA OneContext ==
    ASSUME NEW c \in Contexts
    PROVE  /\ <<c>> \in Seq(Contexts)
           /\ Len(<<c>>) = 1
           /\ \A i \in DOMAIN <<c>> : <<c>>[i] = c /\ i = 1
  <1>1. Len(<<c>>) = 1 /\ DOMAIN <<c>> = 1 .. 1 /\ <<c>>[1] = c
    OBVIOUS
  <1>2. <<c>> \in Seq(Contexts)
    OBVIOUS
  <1> QED
    BY <1>1, <1>2

\* Pushing a context (pusha, switch_to_task's pushes) changes one stack, at its
\* top.
LEMMA PushStacks ==
    ASSUME NEW s \in [Tasks -> Seq(Contexts)], NEW t \in Tasks,
           NEW c \in Contexts,
           NEW p, p = [s EXCEPT ![t] = Append(@, c)]
    PROVE  /\ p \in [Tasks -> Seq(Contexts)]
           /\ \A u \in Tasks : u # t => p[u] = s[u]
           /\ Len(p[t]) = Len(s[t]) + 1
           /\ p[t] # <<>>
           /\ \A i \in DOMAIN p[t] :
                 \/ p[t][i] = c /\ i = Len(s[t]) + 1
                 \/ i \in DOMAIN s[t] /\ p[t][i] = s[t][i]
  <1>1. s[t] \in Seq(Contexts)
    OBVIOUS
  <1>2. p[t] = Append(s[t], c) /\ \A u \in Tasks : u # t => p[u] = s[u]
    OBVIOUS
  <1>3. PICK n \in Nat : n = Len(s[t])
    BY <1>1
  <1>4. /\ Len(p[t]) = n + 1 /\ p[t][n + 1] = c
        /\ \A i \in 1 .. n : p[t][i] = s[t][i]
    BY <1>1, <1>2, <1>3
  <1>5. p[t] \in Seq(Contexts)
    BY <1>1, <1>2
  <1>6. DOMAIN p[t] = 1 .. n + 1 /\ DOMAIN s[t] = 1 .. n
    BY <1>1, <1>3, <1>4, <1>5
  <1>7. \A i \in 1 .. n + 1 : i = n + 1 \/ i \in 1 .. n
    BY <1>3
  <1>8. p[t] # <<>>
    BY <1>3, <1>4
  <1>9. p \in [Tasks -> Seq(Contexts)]
    BY <1>5
  <1> QED
    BY <1>2, <1>3, <1>4, <1>6, <1>7, <1>8, <1>9

\* Popping one (iretd, switch_to_task's ret) changes one stack, at its top.
LEMMA PopStacks ==
    ASSUME NEW s \in [Tasks -> Seq(Contexts)], NEW t \in Tasks,
           s[t] # <<>>,
           NEW p, p = [s EXCEPT ![t] = Front(@)]
    PROVE  /\ p \in [Tasks -> Seq(Contexts)]
           /\ \A u \in Tasks : u # t => p[u] = s[u]
           /\ Last(s[t]) \in Contexts
           /\ Last(s[t]) = s[t][Len(s[t])] /\ Len(s[t]) \in DOMAIN s[t]
           /\ Len(s[t]) = 1 => p[t] = <<>>
           /\ \A i \in DOMAIN p[t] : i \in DOMAIN s[t] /\ p[t][i] = s[t][i]
  <1>1. s[t] \in Seq(Contexts)
    OBVIOUS
  <1>2. /\ p[t] = SubSeq(s[t], 1, Len(s[t]) - 1)
        /\ \A u \in Tasks : u # t => p[u] = s[u]
    BY DEF Front
  <1>3. Len(s[t]) \in Nat /\ Len(s[t]) > 0
    BY <1>1
  <1>4. p[t] \in Seq(Contexts)
    BY <1>1, <1>2, <1>3
  <1>5. p \in [Tasks -> Seq(Contexts)]
    BY <1>4
  <1>6. Last(s[t]) = s[t][Len(s[t])]
    BY DEF Last
  <1>7. \A i \in DOMAIN p[t] : i \in DOMAIN s[t] /\ p[t][i] = s[t][i]
    BY <1>1, <1>2, <1>3
  <1>8. Len(s[t]) = 1 => p[t] = <<>>
    <2>1. Len(s[t]) = 1 => p[t] = SubSeq(s[t], 1, 0)
      BY <1>2
    <2>2. SubSeq(s[t], 1, 0) = <<>>
      BY <1>1
    <2> QED
      BY <2>1, <2>2
  <1> QED
    BY <1>1, <1>2, <1>3, <1>5, <1>6, <1>7, <1>8

\* Loading ESP with a depth inside a stack cuts off what lies above.
LEMMA CutStacks ==
    ASSUME NEW s \in [Tasks -> Seq(Contexts)], NEW t \in Tasks,
           NEW d \in 1 .. Len(s[t]),
           NEW p, p = [s EXCEPT ![t] = SubSeq(@, 1, d)]
    PROVE  /\ p \in [Tasks -> Seq(Contexts)]
           /\ d = Len(s[t]) => p = s
           /\ \A u \in Tasks : u # t => p[u] = s[u]
           /\ \A i \in DOMAIN p[t] : i \in DOMAIN s[t] /\ p[t][i] = s[t][i]
  <1>1. s[t] \in Seq(Contexts) /\ Len(s[t]) \in Nat
    OBVIOUS
  <1>2. /\ p[t] = SubSeq(s[t], 1, d)
        /\ \A u \in Tasks : u # t => p[u] = s[u]
        /\ p \in [Tasks -> Seq(Contexts)]
    BY <1>1
  <1>3. d = Len(s[t]) => p[t] = s[t]
    BY <1>1, <1>2
  <1> QED
    BY <1>1, <1>2, <1>3

\* The EOIs of the two handlers empty the in-service register.
LEMMA EoiEnds ==
    /\ EOI({0}) = {} /\ EOI({1}) = {} /\ EOI({}) = {}
  BY DEF EOI

----------------------------------------------------------------------------
(* Types, and where the contexts on the stacks come from. *)

\* At power-up, before idt_init, every variable has its type.
LEMMA InitType == Init => TypeOK
  <1>1. At("task", TRUE) \in Contexts
    BY AtIsContext DEF PCs
  <1>2. NoEsp \in Esp
    BY TasksAssumption DEF NoEsp, Esp
  <1>3. <<>> \in Seq(Contexts)
    OBVIOUS
  <1> QED
    <2> SUFFICES ASSUME Init PROVE TypeOK
      OBVIOUS
    <2>1. /\ cpu \in Tasks /\ ctx \in Contexts /\ stack \in [Tasks -> Seq(Contexts)]
          /\ esp \in [Tasks -> Esp]
      BY <1>1, <1>2, <1>3, TasksAssumption DEF Init
    <2>2. /\ next \in [Tasks -> TaskOrNull] /\ state \in [Tasks -> {"NONE", "READY", "RUNNING"}]
          /\ current_task \in TaskOrNull /\ task_list \in TaskOrNull /\ new_task \in TaskOrNull
      BY DEF Init, TaskOrNull
    <2>3. /\ need_reschedule \in {0, 1} /\ irr \in SUBSET IRQs /\ isr \in SUBSET IRQs
          /\ stage \in {"tcb", "current", "list", "create", "link"} /\ todo \in SUBSET Tasks
      BY DEF Init
    <2> QED
      BY <2>1, <2>2, <2>3 DEF TypeOK

\* A context on a stack after a step was there before, or is the interrupted
\* one, or the one switch_to_task saves, or the first one of a new task.
FrameComesFrom ==
    \A t \in Tasks : \A i \in DOMAIN stack'[t] :
        \/ i \in DOMAIN stack[t] /\ stack'[t][i] = stack[t][i]
        \/ t = cpu /\ stack'[t][i] = ctx /\ ctx.iflag
           /\ (QuietSwitch => ~HalfSwitched) /\ i = Len(stack[cpu]) + 1
        \/ stack'[t][i] = At("ret", ctx.iflag) /\ ctx.pc = "save"
        \/ stack'[t][i] = At("task", TRUE) /\ i = 1

\* Continuing the top context: it has its type, and it was on the stack.
LEMMA ResumeTypes ==
    ASSUME TypeOK, Resume
    PROVE  /\ ctx' \in Contexts
           /\ stack' \in [Tasks -> Seq(Contexts)]
           /\ \E i \in DOMAIN stack[cpu] :
                 /\ ctx' = stack[cpu][i]
                 /\ i = 1 => stack'[cpu] = <<>>
           /\ FrameComesFrom
           /\ stack[cpu] # <<>>
           /\ \A t \in Tasks : t # cpu => stack'[t] = stack[t]
           /\ ctx' = Last(stack[cpu])
  <1>1. stack \in [Tasks -> Seq(Contexts)] /\ cpu \in Tasks
    BY DEF TypeOK
  <1>2. /\ stack[cpu] # <<>>
        /\ ctx' = Last(stack[cpu])
        /\ stack' = [stack EXCEPT ![cpu] = Front(@)]
    BY DEF Resume
  <1>3. /\ stack' \in [Tasks -> Seq(Contexts)]
        /\ \A u \in Tasks : u # cpu => stack'[u] = stack[u]
        /\ Last(stack[cpu]) \in Contexts
        /\ Last(stack[cpu]) = stack[cpu][Len(stack[cpu])]
        /\ Len(stack[cpu]) \in DOMAIN stack[cpu]
        /\ Len(stack[cpu]) = 1 => stack'[cpu] = <<>>
        /\ \A i \in DOMAIN stack'[cpu] :
               i \in DOMAIN stack[cpu] /\ stack'[cpu][i] = stack[cpu][i]
    <2> HIDE DEF Contexts
    <2> QED
      BY <1>1, <1>2, PopStacks
  <1> QED
    BY <1>1, <1>2, <1>3 DEF FrameComesFrom

\* Every step keeps the types, and every context that is executing or saved
\* after it was executing or saved before, or is new.
LEMMA StepTypes ==
    ASSUME TypeOK, BootInv, QueueInv, [Next]_vars
    PROVE  TypeOK' /\ FrameComesFrom
  <1> USE DEF sched, pic, boot
  <1>t. /\ ctx \in Contexts /\ ctx.pc \in PCs /\ ctx.iflag \in BOOLEAN
        /\ stack \in [Tasks -> Seq(Contexts)] /\ cpu \in Tasks
        /\ next \in [Tasks -> TaskOrNull] /\ esp \in [Tasks -> Esp]
    BY DEF TypeOK, Contexts
  <1>s. stack' = stack => FrameComesFrom
    BY DEF FrameComesFrom
  <1>1. CASE UNCHANGED vars
    BY <1>1, <1>s DEF vars, TypeOK
  <1>2. ASSUME NEW n \in IRQs, Interrupt(n) PROVE TypeOK' /\ FrameComesFrom
    <2>1. ctx' \in Contexts
      BY <1>2, AtIsContext DEF Interrupt, PCs, IRQs
    <2>2. /\ stack' \in [Tasks -> Seq(Contexts)]
          /\ \A u \in Tasks : u # cpu => stack'[u] = stack[u]
          /\ \A i \in DOMAIN stack'[cpu] :
                (stack'[cpu][i] = ctx /\ i = Len(stack[cpu]) + 1)
                \/ (i \in DOMAIN stack[cpu] /\ stack'[cpu][i] = stack[cpu][i])
      BY <1>2, <1>t, PushStacks DEF Interrupt, Push
    <2>3. FrameComesFrom
      BY <1>2, <1>t, <2>2 DEF FrameComesFrom, Interrupt
    <2> QED
      BY <1>2, <2>1, <2>2, <2>3 DEF Interrupt, TypeOK, IRQs
  <1>3. CASE PitFires \/ KeyPress
    BY <1>3, <1>s DEF PitFires, KeyPress, TypeOK, IRQs
  <1>4. CASE TimerHandlerMain
    <2>1. ctx' \in Contexts
      BY <1>4, <1>t DEF TimerHandlerMain, GoTo, Contexts, PCs
    <2> QED
      BY <1>4, <1>s, <2>1 DEF TimerHandlerMain, TypeOK, EOI
  <1>5. CASE TestReschedule
    <2>1. ctx' \in Contexts
      BY <1>5, <1>t DEF TestReschedule, Contexts, PCs
    <2> QED
      BY <1>5, <1>s, <2>1 DEF TestReschedule, TypeOK
  <1>6. CASE Irq0Return \/ Irq1Return \/ PopContext
    <2>1. Resume /\ UNCHANGED <<cpu, sched, need_reschedule, pic, boot>>
      BY <1>6 DEF Irq0Return, Irq1Return, PopContext
    <2> QED
      BY <2>1, ResumeTypes DEF TypeOK
  <1>7. CASE ReadCurrent \/ ReadNext \/ StoreCurrent
    <2>1. ctx.pc = "next" => next[ctx.old] \in TaskOrNull
      BY <1>t DEF QueueInv, LocalsInQueue, InQueue
    <2>2. ctx' \in Contexts /\ current_task' \in TaskOrNull
      <3>1. current_task \in TaskOrNull /\ ctx \in Contexts
        BY <1>t DEF TypeOK
      <3>2. CASE ReadCurrent
        BY <3>1, <3>2 DEF ReadCurrent, Contexts, PCs
      <3>3. CASE ReadNext
        BY <2>1, <3>1, <3>3 DEF ReadNext, Contexts, PCs
      <3>4. CASE StoreCurrent
        BY <3>1, <3>4 DEF StoreCurrent, GoTo, Contexts, PCs
      <3> QED
        BY <1>7, <3>2, <3>3, <3>4
    <2> QED
      BY <1>7, <1>s, <2>2 DEF ReadCurrent, ReadNext, StoreCurrent, TypeOK
  <1>8. CASE CallSwitch
    <2>1. At("ret", ctx.iflag) \in Contexts
      BY <1>t, AtIsContext DEF PCs
    <2>2. ctx.pc = "switch" => esp[ctx.new] \in Esp
      BY <1>t DEF QueueInv, LocalsInQueue, InQueue
    <2>3. ctx' \in Contexts
      BY <1>8, <1>t, <2>1, <2>2 DEF CallSwitch, Contexts, PCs
    <2> QED
      BY <1>8, <1>s, <2>3 DEF CallSwitch, TypeOK
  <1>9. CASE SaveEsp
    <2>1. At("ret", ctx.iflag) \in Contexts
      BY <1>t, AtIsContext DEF PCs
    <2>2. /\ stack' \in [Tasks -> Seq(Contexts)]
          /\ \A u \in Tasks : u # cpu => stack'[u] = stack[u]
          /\ \A i \in DOMAIN stack'[cpu] :
                stack'[cpu][i] = At("ret", ctx.iflag)
                \/ (i \in DOMAIN stack[cpu] /\ stack'[cpu][i] = stack[cpu][i])
      BY <1>9, <1>t, <2>1, PushStacks DEF SaveEsp, Push
    <2>3. FrameComesFrom
      BY <1>9, <1>t, <2>2 DEF FrameComesFrom, SaveEsp
    <2>4. ctx' \in Contexts
      BY <1>9, <1>t DEF SaveEsp, GoTo, Contexts, PCs
    <2>5. [on |-> cpu, depth |-> Len(stack[cpu]) + 1] \in Esp
      BY <1>t DEF Esp
    <2>6. esp' \in [Tasks -> Esp]
      BY <1>9, <1>t, <2>5 DEF SaveEsp
    <2> QED
      BY <1>9, <2>2, <2>3, <2>4, <2>6 DEF SaveEsp, TypeOK
  <1>10. CASE LoadEsp
    <2>1. ctx.nesp \in Esp /\ ctx.nesp.on \in Tasks
      BY <1>t DEF Contexts, Esp
    <2>2. ctx' \in Contexts /\ cpu' \in Tasks
      BY <1>10, <1>t, <2>1, AtIsContext DEF LoadEsp, PCs
    <2>3. CASE ctx.nesp.depth \in 1 .. Len(stack[ctx.nesp.on])
      <3>1. stack' = [stack EXCEPT ![ctx.nesp.on] = SubSeq(@, 1, ctx.nesp.depth)]
        BY <1>10, <2>3 DEF LoadEsp
      <3>2. /\ stack' \in [Tasks -> Seq(Contexts)]
            /\ \A u \in Tasks : u # ctx.nesp.on => stack'[u] = stack[u]
            /\ \A i \in DOMAIN stack'[ctx.nesp.on] :
                 /\ i \in DOMAIN stack[ctx.nesp.on]
                 /\ stack'[ctx.nesp.on][i] = stack[ctx.nesp.on][i]
        BY <1>t, <2>1, <2>3, <3>1, CutStacks
      <3>3. FrameComesFrom
        BY <3>2 DEF FrameComesFrom
      <3> QED
        BY <1>10, <2>2, <3>2, <3>3 DEF LoadEsp, TypeOK
    <2>4. CASE ctx.nesp.depth \notin 1 .. Len(stack[ctx.nesp.on])
      BY <1>10, <1>s, <2>2, <2>4 DEF LoadEsp, TypeOK
    <2> QED
      BY <2>3, <2>4
  <1>11. CASE KeyboardHandlerMain
    <2>1. ctx' \in Contexts
      BY <1>11, <1>t DEF KeyboardHandlerMain, Contexts, PCs
    <2> QED
      BY <1>11, <1>s, <2>1 DEF KeyboardHandlerMain, TypeOK, EOI
  <1>12. CASE Fault
    BY <1>12, <1>s, AtIsContext DEF Fault, TypeOK, PCs
  <1>13. CASE HltForever
    BY <1>13, <1>s DEF HltForever, vars, TypeOK
  <1>14. CASE TaskInitTcb \/ TaskInitCurrent \/ TaskInitList \/ LinkTask
    <2>1. NoEsp \in Esp
      BY TasksAssumption DEF NoEsp, Esp
    <2>2. CASE TaskInitTcb
      BY <2>1, <2>2, <1>s, TasksAssumption DEF TaskInitTcb, TypeOK, TaskOrNull
    <2>3. CASE TaskInitCurrent \/ TaskInitList
      BY <2>3, <1>s, TasksAssumption
      DEF TaskInitCurrent, TaskInitList, TypeOK, TaskOrNull
    <2>4. CASE LinkTask
      BY <2>4, <1>s, <1>t DEF LinkTask, TypeOK, TaskOrNull
    <2> QED
      BY <1>14, <2>2, <2>3, <2>4
  <1>15. ASSUME NEW t \in Tasks, CreateTaskFails(t)
         PROVE  TypeOK' /\ FrameComesFrom
    BY <1>15, <1>s DEF CreateTaskFails, TypeOK
  <1>16. ASSUME NEW t \in Tasks, CreateTask(t)
         PROVE  TypeOK' /\ FrameComesFrom
    <2>1. At("task", TRUE) \in Contexts
      BY AtIsContext DEF PCs
    <2> DEFINE first == <<At("task", TRUE)>>
    <2>a. /\ first \in Seq(Contexts)
          /\ \A i \in DOMAIN first : first[i] = At("task", TRUE) /\ i = 1
      BY <2>1, OneContext
    <2>b. stack' = [stack EXCEPT ![t] = first]
      BY <1>16 DEF CreateTask
    <2> HIDE DEF first
    <2>2. stack' \in [Tasks -> Seq(Contexts)]
      BY <1>t, <2>a, <2>b
    <2>3. FrameComesFrom
      BY <1>t, <2>a, <2>b DEF FrameComesFrom
    <2>4. [on |-> t, depth |-> 1] \in Esp
      BY DEF Esp
    <2>5. next[task_list] \in TaskOrNull
      BY <1>16, <1>t, TasksAssumption DEF CreateTask, InMain, BootInv
    <2> QED
      BY <1>16, <2>2, <2>3, <2>4, <2>5 DEF CreateTask, TypeOK, TaskOrNull
  <1> QED
    BY <1>1, <1>2, <1>3, <1>4, <1>5, <1>6, <1>7, <1>8, <1>9, <1>10, <1>11,
       <1>12, <1>13, <1>14, <1>15, <1>16
    DEF Next, CpuStep, Boot, Handlers, TaskSchedule, SwitchToTask

----------------------------------------------------------------------------
(* The interrupt flag, the PIC and the reschedule flag. *)

\* Nothing is in service when idt_init enables interrupts.
LEMMA InitIrq == Init => IrqInv
  BY DEF Init, IrqInv, At, Masked, Enabled, PCs

\* Every step keeps what is known of the PIC, IF and the reschedule flag.
LEMMA StepIrq ==
    ASSUME TypeOK, IrqInv, TypeOK', FrameComesFrom, [Next]_vars
    PROVE  IrqInv'
  <1> USE DEF sched, pic, boot
  <1>t. ctx.pc \in PCs /\ ctx'.pc \in PCs /\ ctx'.iflag \in BOOLEAN
    BY DEF TypeOK, Contexts
  <1>f. \A t \in Tasks : \A i \in DOMAIN stack'[t] :
            stack'[t][i].iflag /\ stack'[t][i].pc \notin Masked
    <2> SUFFICES ASSUME NEW t \in Tasks, NEW i \in DOMAIN stack'[t]
                 PROVE  stack'[t][i].iflag /\ stack'[t][i].pc \notin Masked
      OBVIOUS
    <2>1. CASE i \in DOMAIN stack[t] /\ stack'[t][i] = stack[t][i]
      BY <2>1 DEF IrqInv
    <2>2. CASE stack'[t][i] = ctx /\ ctx.iflag
      BY <2>2 DEF IrqInv
    <2>3. CASE stack'[t][i] = At("ret", ctx.iflag) /\ ctx.pc = "save"
      BY <2>3 DEF IrqInv, At, Masked, Enabled, PCs
    <2>4. CASE stack'[t][i] = At("task", TRUE)
      BY <2>4 DEF At, Masked
    <2> QED
      BY <2>1, <2>2, <2>3, <2>4 DEF FrameComesFrom
  <1> DEFINE CtxInv ==
        /\ ctx.pc = "irq0" => isr = {0}
        /\ ctx.pc = "irq1" => isr = {1}
        /\ ctx.pc \notin {"irq0", "irq1"} => isr = {}
        /\ need_reschedule = 1 => ctx.pc = "test"
        /\ ctx.pc \in Enabled => ctx.iflag
        /\ ctx.pc \in Masked => ~ctx.iflag
  <1>i. CtxInv
    BY DEF IrqInv
  <1> SUFFICES CtxInv'
    BY <1>f DEF IrqInv
  <1> USE DEF Masked, Enabled, PCs
  <1>1. ASSUME UNCHANGED <<ctx, isr, need_reschedule>> PROVE CtxInv'
    BY <1>1, <1>i
  <1>2. ASSUME NEW n \in IRQs, Interrupt(n) PROVE CtxInv'
    BY <1>2, <1>i, <1>t DEF Interrupt, At, IRQs
  <1>3. CASE TimerHandlerMain
    BY <1>3, <1>i, EoiEnds, <1>t DEF TimerHandlerMain, GoTo, TypeOK, Contexts
  <1>4. CASE TestReschedule
    BY <1>4, <1>i, <1>t DEF TestReschedule, TypeOK, Contexts
  <1>5. CASE Irq0Return \/ Irq1Return \/ PopContext
    <2>1. Resume /\ UNCHANGED <<isr, need_reschedule>>
          /\ ctx.pc \in {"ret", "kbd", "pop"}
      BY <1>5 DEF Irq0Return, Irq1Return, PopContext
    <2>2. PICK i \in DOMAIN stack[cpu] : ctx' = stack[cpu][i]
      BY <2>1, ResumeTypes
    <2>3. ctx'.iflag /\ ctx'.pc \notin Masked
      BY <2>2 DEF IrqInv, TypeOK
    <2> QED
      BY <2>1, <2>3, <1>i, <1>t DEF TypeOK
  <1>6. CASE ReadCurrent \/ ReadNext \/ StoreCurrent
    <2>1. /\ ctx.pc \in {"current", "next", "store"} /\ ctx.iflag
          /\ UNCHANGED <<isr, need_reschedule>>
          /\ ctx'.pc \in {"ret", "next", "store", "switch"}
          /\ ctx'.iflag = ctx.iflag
      <3>1. ctx \in Contexts
        BY DEF TypeOK
      <3> QED
        BY <1>6, <1>i, <3>1
        DEF ReadCurrent, ReadNext, StoreCurrent, GoTo, Contexts
    <2> QED
      BY <2>1, <1>i DEF TypeOK
  <1>7. CASE CallSwitch
    BY <1>7, <1>i DEF CallSwitch, At, TypeOK, Contexts
  <1>8. CASE SaveEsp
    BY <1>8, <1>i DEF SaveEsp, GoTo, TypeOK, Contexts
  <1>9. CASE LoadEsp
    <2>1. /\ ctx' = At("pop", ctx.iflag) \/ ctx' = At("wild", FALSE)
          /\ ctx.pc = "load" /\ UNCHANGED <<isr, need_reschedule>>
      BY <1>9 DEF LoadEsp
    <2> QED
      BY <2>1, <1>i DEF At
  <1>10. CASE KeyboardHandlerMain
    BY <1>10, <1>i, EoiEnds DEF KeyboardHandlerMain, TypeOK, Contexts
  <1>11. CASE Fault
    BY <1>11, <1>i DEF Fault, At
  <1>12. UNCHANGED vars \/ HltForever \/ PitFires \/ KeyPress \/ Boot
            => UNCHANGED <<ctx, isr, need_reschedule>>
    BY DEF vars, HltForever, PitFires, KeyPress, Boot, TaskInitTcb,
       TaskInitCurrent, TaskInitList, LinkTask, CreateTask, CreateTaskFails
  <1> QED
    BY <1>1, <1>2, <1>3, <1>4, <1>5, <1>6, <1>7, <1>8, <1>9, <1>10, <1>11, <1>12
    DEF Next, CpuStep, Handlers, TaskSchedule, SwitchToTask

----------------------------------------------------------------------------
(* kernel_main's progress and the run queue. *)

\* Before task_init the run queue is empty and nobody looks at it.
LEMMA InitQueue == Init => BootInv /\ QueueInv
  BY TasksAssumption
  DEF Init, BootInv, QueueInv, LocalsInQueue, InQueue, Linked, At

\* Every step keeps what kernel_main's progress says of the TCBs.
LEMMA StepBoot ==
    ASSUME TypeOK, BootInv, QueueInv, [Next]_vars
    PROVE  BootInv'
  <1> USE TasksAssumption DEF sched, pic, boot
  <1> USE DEF BootInv, InQueue, Linked
  <1>1. CASE TaskInitTcb
    BY <1>1 DEF TaskInitTcb, InMain, TypeOK
  <1>2. CASE TaskInitCurrent
    BY <1>2 DEF TaskInitCurrent, InMain, TypeOK
  <1>3. CASE TaskInitList
    BY <1>3 DEF TaskInitList, InMain, TypeOK
  <1>4. CASE LinkTask
    BY <1>4 DEF LinkTask, InMain, TypeOK
  <1>5. ASSUME NEW t \in Tasks, CreateTask(t) PROVE BootInv'
    BY <1>5 DEF CreateTask, InMain, TypeOK, QueueInv
  <1>6. ASSUME NEW t \in Tasks, CreateTaskFails(t) PROVE BootInv'
    BY <1>6 DEF CreateTaskFails, InMain, TypeOK
  <1>7. CASE StoreCurrent
    BY <1>7 DEF StoreCurrent, QueueInv, LocalsInQueue, TypeOK
  <1>8. ASSUME UNCHANGED <<next, state, current_task, task_list, boot>>
        PROVE  BootInv'
    BY <1>8
  <1>9. ASSUME NEW n \in IRQs, Interrupt(n)
        PROVE  UNCHANGED <<next, state, current_task, task_list, boot>>
    BY <1>9 DEF Interrupt
  <1>10. UNCHANGED vars \/ HltForever \/ PitFires \/ KeyPress \/ Handlers
           \/ ReadCurrent \/ ReadNext \/ CallSwitch \/ SwitchToTask \/ Fault
         => UNCHANGED <<next, state, current_task, task_list, boot>>
    BY DEF vars, HltForever, PitFires, KeyPress, Handlers, TimerHandlerMain,
       TestReschedule, Irq0Return, KeyboardHandlerMain, Irq1Return, ReadCurrent,
       ReadNext, CallSwitch, SwitchToTask, SaveEsp, LoadEsp, PopContext, Fault
  <1> QED
    BY <1>1, <1>2, <1>3, <1>4, <1>5, <1>6, <1>7, <1>8, <1>9, <1>10
    DEF Next, CpuStep, Boot, TaskSchedule

\* A TCB that is in the run queue stays in it: nothing takes a task out.
LEMMA QueueGrows ==
    ASSUME TypeOK, BootInv, QueueInv, [Next]_vars
    PROVE  /\ \A t \in Tasks : InQueue(t) => InQueue(t)'
           /\ current_task # NoTask => current_task' # NoTask
  <1> USE TasksAssumption DEF sched, pic, boot
  <1> USE DEF InQueue, Linked
  <1>1. CASE TaskInitTcb
    BY <1>1 DEF TaskInitTcb, InMain, TypeOK, BootInv
  <1>2. CASE TaskInitCurrent \/ TaskInitList
    BY <1>2 DEF TaskInitCurrent, TaskInitList, InMain, TypeOK
  <1>3. CASE LinkTask
    BY <1>3 DEF LinkTask, InMain, TypeOK, BootInv
  <1>4. ASSUME NEW t \in Tasks, CreateTask(t)
        PROVE  /\ \A u \in Tasks : InQueue(u) => InQueue(u)'
               /\ current_task # NoTask => current_task' # NoTask
    BY <1>4 DEF CreateTask, InMain, TypeOK, BootInv
  <1>5. CASE StoreCurrent
    BY <1>5 DEF StoreCurrent, QueueInv, LocalsInQueue, TypeOK
  <1>6. ASSUME UNCHANGED <<state, current_task, new_task>>
        PROVE  /\ \A t \in Tasks : InQueue(t) => InQueue(t)'
               /\ current_task # NoTask => current_task' # NoTask
    BY <1>6
  <1>7. ASSUME NEW n \in IRQs, Interrupt(n)
        PROVE  UNCHANGED <<state, current_task, new_task>>
    BY <1>7 DEF Interrupt
  <1>8. ASSUME NEW t \in Tasks, CreateTaskFails(t)
        PROVE  UNCHANGED <<state, current_task, new_task>>
    BY <1>8 DEF CreateTaskFails
  <1>9. UNCHANGED vars \/ HltForever \/ PitFires \/ KeyPress \/ Handlers
           \/ ReadCurrent \/ ReadNext \/ CallSwitch \/ SwitchToTask \/ Fault
         => UNCHANGED <<state, current_task, new_task>>
    BY DEF vars, HltForever, PitFires, KeyPress, Handlers, TimerHandlerMain,
       TestReschedule, Irq0Return, KeyboardHandlerMain, Irq1Return, ReadCurrent,
       ReadNext, CallSwitch, SwitchToTask, SaveEsp, LoadEsp, PopContext, Fault
  <1> QED
    BY <1>1, <1>2, <1>3, <1>4, <1>5, <1>6, <1>7, <1>8, <1>9
    DEF Next, CpuStep, Boot, TaskSchedule

\* Every step keeps the pointers of the run queue, and task_schedule's copies
\* of them on every stack, inside the queue.
LEMMA StepQueue ==
    ASSUME TypeOK, BootInv, QueueInv, TypeOK', FrameComesFrom, [Next]_vars
    PROVE  QueueInv'
  <1> USE TasksAssumption DEF sched, pic, boot
  <1>g. /\ \A t \in Tasks : InQueue(t) => InQueue(t)'
        /\ current_task # NoTask => current_task' # NoTask
    BY QueueGrows
  <1>f. \A t \in Tasks : \A i \in DOMAIN stack'[t] : LocalsInQueue(stack[t][i])'
    <2> SUFFICES ASSUME NEW t \in Tasks, NEW i \in DOMAIN stack'[t]
                 PROVE  LocalsInQueue(stack[t][i])'
      OBVIOUS
    <2>1. CASE i \in DOMAIN stack[t] /\ stack'[t][i] = stack[t][i]
      <3>1. LocalsInQueue(stack[t][i])
        BY <2>1 DEF QueueInv
      <3> QED
        BY <2>1, <3>1, <1>g DEF LocalsInQueue, InQueue
    <2>2. CASE stack'[t][i] = ctx
      BY <2>2, <1>g DEF QueueInv, LocalsInQueue, InQueue
    <2>3. CASE stack'[t][i] = At("ret", ctx.iflag) \/ stack'[t][i] = At("task", TRUE)
      BY <2>3 DEF LocalsInQueue, At
    <2> QED
      BY <2>1, <2>2, <2>3 DEF FrameComesFrom
  <1>n. \A t \in Tasks : Linked(t)' => InQueue(next[t])'
    <2> USE DEF InQueue, Linked
    <2>1. CASE TaskInitTcb
      BY <2>1 DEF TaskInitTcb, InMain, TypeOK, BootInv
    <2>2. CASE LinkTask
      <3>1. /\ task_list = Main /\ new_task \in Tasks \ {Main}
            /\ state[new_task] # "NONE" /\ InQueue(next[new_task])
            /\ \A t \in Tasks : Linked(t) => InQueue(next[t])
        <4>1. stage = "link"
          BY <2>2 DEF LinkTask, InMain
        <4>2. \A t \in Tasks : Linked(t) => InQueue(next[t])
          BY DEF QueueInv
        <4>3. new_task \in Tasks \cup {NoTask}
          BY DEF TypeOK, TaskOrNull
        <4> QED
          BY <4>1, <4>2, <4>3 DEF BootInv
      <3>2. /\ \A t \in Tasks : next'[t] = IF t = Main THEN new_task ELSE next[t]
            /\ state' = state /\ new_task' = NoTask
        BY <2>2, <3>1 DEF LinkTask, TypeOK
      <3>3. \A t \in Tasks : InQueue(t)' <=> state[t] # "NONE"
        BY <3>2
      <3> QED
        BY <3>1, <3>2, <3>3
    <2>3. ASSUME NEW t \in Tasks, CreateTask(t)
          PROVE  \A u \in Tasks : Linked(u)' => InQueue(next[u])'
      BY <2>3 DEF CreateTask, InMain, TypeOK, BootInv, QueueInv
    <2>4. ASSUME UNCHANGED <<next, state, new_task>>
          PROVE  \A t \in Tasks : Linked(t)' => InQueue(next[t])'
      BY <2>4 DEF QueueInv
    <2>5. ASSUME NEW n \in IRQs, Interrupt(n)
          PROVE  UNCHANGED <<next, state, new_task>>
      BY <2>5 DEF Interrupt
    <2>6. ASSUME NEW t \in Tasks, CreateTaskFails(t)
          PROVE  UNCHANGED <<next, state, new_task>>
      BY <2>6 DEF CreateTaskFails
    <2>7. UNCHANGED vars \/ HltForever \/ PitFires \/ KeyPress \/ Handlers
             \/ TaskInitCurrent \/ TaskInitList
             \/ TaskSchedule \/ SwitchToTask \/ Fault
           => UNCHANGED <<next, state, new_task>>
      BY DEF vars, HltForever, PitFires, KeyPress, Handlers, TimerHandlerMain,
         TestReschedule, Irq0Return, KeyboardHandlerMain, Irq1Return,
         TaskInitCurrent, TaskInitList, TaskSchedule, ReadCurrent, ReadNext,
         StoreCurrent, CallSwitch, SwitchToTask, SaveEsp, LoadEsp, PopContext,
         Fault
    <2> QED
      BY <2>1, <2>2, <2>3, <2>4, <2>5, <2>6, <2>7 DEF Next, CpuStep, Boot
  <1>c. current_task' # NoTask => InQueue(current_task)'
    <2>1. CASE TaskInitCurrent
      BY <2>1 DEF TaskInitCurrent, InMain, BootInv, InQueue, Linked
    <2>2. CASE StoreCurrent
      BY <2>2 DEF StoreCurrent, QueueInv, LocalsInQueue, InQueue, Linked
    <2>3. ASSUME UNCHANGED current_task
          PROVE  current_task' # NoTask => InQueue(current_task)'
      BY <2>3, <1>g DEF QueueInv, InQueue
    <2>4. ASSUME NEW n \in IRQs, Interrupt(n)
          PROVE  UNCHANGED current_task
      BY <2>4 DEF Interrupt
    <2>5. ASSUME NEW t \in Tasks, CreateTaskFails(t) \/ CreateTask(t)
          PROVE  UNCHANGED current_task
      BY <2>5 DEF CreateTaskFails, CreateTask
    <2>6. UNCHANGED vars \/ HltForever \/ PitFires \/ KeyPress \/ Handlers
             \/ TaskInitTcb \/ TaskInitList \/ LinkTask \/ ReadCurrent
             \/ ReadNext \/ CallSwitch \/ SwitchToTask \/ Fault
           => UNCHANGED current_task
      BY DEF vars, HltForever, PitFires, KeyPress, Handlers, TimerHandlerMain,
         TestReschedule, Irq0Return, KeyboardHandlerMain, Irq1Return,
         TaskInitTcb, TaskInitList, LinkTask, ReadCurrent, ReadNext,
         CallSwitch, SwitchToTask, SaveEsp, LoadEsp, PopContext, Fault
    <2> QED
      BY <2>1, <2>2, <2>3, <2>4, <2>5, <2>6
      DEF Next, CpuStep, Boot, TaskSchedule
  <1>l. LocalsInQueue(ctx)'
    <2>t. ctx \in Contexts /\ LocalsInQueue(ctx)
      BY DEF TypeOK, QueueInv
    <2>1. CASE ReadCurrent
      BY <2>1, <2>t, <1>g, <1>c
      DEF ReadCurrent, LocalsInQueue, InQueue, Contexts, TypeOK
    <2>2. CASE ReadNext
      <3>1. InQueue(ctx.old) /\ InQueue(next[ctx.old])
        BY <2>2, <2>t DEF ReadNext, LocalsInQueue, QueueInv, InQueue
      <3> QED
        BY <2>2, <2>t, <3>1, <1>g
        DEF ReadNext, LocalsInQueue, InQueue, Contexts, TypeOK
    <2>3. CASE StoreCurrent \/ CallSwitch \/ SaveEsp
      <3>1. CASE ctx' = At("ret", ctx.iflag)
        BY <3>1 DEF LocalsInQueue, At
      <3>2. CASE /\ ctx'.old = ctx.old /\ ctx'.new = ctx.new
                 /\ ctx.pc = "store" => ctx'.pc = "switch"
                 /\ ctx.pc = "switch" => ctx'.pc = "save"
                 /\ ctx.pc = "save" => ctx'.pc = "load"
                 /\ ctx.pc \in {"store", "switch", "save"}
        BY <3>2, <2>t, <1>g DEF LocalsInQueue, InQueue
      <3> QED
        BY <2>3, <2>t, <3>1, <3>2
        DEF StoreCurrent, CallSwitch, SaveEsp, GoTo, Contexts
    <2>9. CASE TimerHandlerMain \/ TestReschedule \/ KeyboardHandlerMain
      <3>1. ctx'.pc \in {"test", "ret", "current", "kbd"}
        BY <2>9, <2>t DEF TimerHandlerMain, TestReschedule,
           KeyboardHandlerMain, GoTo, Contexts
      <3> QED
        BY <3>1 DEF LocalsInQueue
    <2>4. CASE LoadEsp \/ Fault
      BY <2>4 DEF LoadEsp, Fault, LocalsInQueue, At
    <2>5. ASSUME NEW n \in IRQs, Interrupt(n) PROVE LocalsInQueue(ctx)'
      BY <2>5 DEF Interrupt, LocalsInQueue, At
    <2>6. CASE Irq0Return \/ Irq1Return \/ PopContext
      <3>1. PICK i \in DOMAIN stack[cpu] : ctx' = stack[cpu][i]
        BY <2>6, ResumeTypes DEF Irq0Return, Irq1Return, PopContext
      <3>2. LocalsInQueue(stack[cpu][i])
        BY DEF QueueInv, TypeOK
      <3> QED
        BY <3>1, <3>2, <1>g DEF LocalsInQueue, InQueue
    <2>7. ASSUME UNCHANGED ctx PROVE LocalsInQueue(ctx)'
      BY <2>7, <2>t, <1>g DEF LocalsInQueue, InQueue
    <2>8. UNCHANGED vars \/ HltForever \/ PitFires \/ KeyPress \/ Boot
           => UNCHANGED ctx
      BY DEF vars, HltForever, PitFires, KeyPress, Boot, TaskInitTcb,
         TaskInitCurrent, TaskInitList, LinkTask, CreateTask, CreateTaskFails
    <2> QED
      BY <2>1, <2>2, <2>3, <2>4, <2>5, <2>6, <2>7, <2>8, <2>9
      DEF Next, CpuStep, Handlers, TaskSchedule, SwitchToTask
  <1> QED
    BY <1>c, <1>n, <1>l, <1>f DEF QueueInv

----------------------------------------------------------------------------
(* The run queue is a cycle. *)

\* Before task_init there is no TCB, so no queue that a next could leave.
LEMMA InitCycle == Init => CycleInv
  BY DEF Init, CycleInv

\* Linking a task in behind main_task, as create_task does, gives a cycle with
\* one task more: q and f are the queue and the next pointers before, g after.
LEMMA CycleGrows ==
    ASSUME NEW q, NEW f, NEW g, NEW n, n \notin q, Main \in q,
           \A t \in q : f[t] \in q,
           \A S \in SUBSET q : S # {} /\ (\A t \in S : f[t] \in S) => S = q,
           f[n] = f[Main],
           g[Main] = n, g[n] = f[n], \A t \in q : t # Main => g[t] = f[t]
    PROVE  /\ \A t \in q \cup {n} : g[t] \in q \cup {n}
           /\ \A S \in SUBSET (q \cup {n}) :
                 S # {} /\ (\A t \in S : g[t] \in S) => S = q \cup {n}
  <1>1. \A t \in q \cup {n} : g[t] \in q \cup {n}
    OBVIOUS
  <1>2. ASSUME NEW S \in SUBSET (q \cup {n}), S # {}, \A t \in S : g[t] \in S
        PROVE  S = q \cup {n}
    <2> DEFINE R == S \ {n}
    <2>1. R \in SUBSET q
      OBVIOUS
    <2>2. R # {}
      <3>1. CASE n \in S
        <4>1. f[Main] \in S /\ f[Main] \in q
          BY <1>2, <3>1
        <4> QED
          BY <4>1
      <3>2. CASE n \notin S
        BY <1>2, <3>2
      <3> QED
        BY <3>1, <3>2
    <2>3. \A t \in R : f[t] \in R
      <3> TAKE t \in R
      <3>1. t \in q /\ f[t] \in q /\ f[t] # n /\ g[t] \in S
        BY <1>2
      <3>2. CASE t = Main
        <4>1. n \in S
          BY <3>1, <3>2
        <4>2. g[n] \in S
          BY <1>2, <4>1
        <4> QED
          BY <3>1, <3>2, <4>2
      <3>3. CASE t # Main
        BY <3>1, <3>3
      <3> QED
        BY <3>2, <3>3
    <2>4. R = q
      <3> HIDE DEF R
      <3> QED
        BY <2>1, <2>2, <2>3
    <2>5. Main \in S /\ g[Main] \in S
      BY <1>2, <2>4
    <2> QED
      BY <2>4, <2>5
  <1> QED
    BY <1>1, <1>2

\* Every step keeps the run queue a cycle, also between the two stores with
\* which create_task links a task in.
LEMMA StepCycle ==
    ASSUME TypeOK, BootInv, CycleInv, [Next]_vars
    PROVE  CycleInv'
  <1> USE TasksAssumption DEF sched, pic, boot
  <1>1. CASE TaskInitTcb
    <2>1. /\ \A t \in Tasks : t # Main => state'[t] = "NONE"
          /\ state'[Main] = "RUNNING" /\ next'[Main] = Main /\ new_task' = NoTask
      BY <1>1 DEF TaskInitTcb, InMain, TypeOK, BootInv
    <2>2. RunQueue' = {Main} /\ next'[Main] = Main
      BY <2>1 DEF RunQueue, Linked
    <2>3. OneCycle'
      BY <2>2 DEF OneCycle
    <2> QED
      BY <2>3 DEF CycleInv
  <1>2. CASE LinkTask
    <2>1. /\ stage = "link" /\ task_list = Main /\ new_task \in Tasks \ {Main}
          /\ state[new_task] # "NONE" /\ next[new_task] = next[Main]
          /\ OneCycle
      BY <1>2 DEF LinkTask, InMain, BootInv, CycleInv, TypeOK, TaskOrNull
    <2>2. /\ next'[Main] = new_task
          /\ \A t \in Tasks : t # Main => next'[t] = next[t]
          /\ state' = state /\ new_task' = NoTask
      BY <1>2, <2>1 DEF LinkTask, TypeOK
    <2>3. RunQueue' = RunQueue \cup {new_task} /\ new_task \notin RunQueue
      BY <2>1, <2>2 DEF RunQueue, Linked
    <2>4. /\ Main \in RunQueue /\ RunQueue \subseteq Tasks
          /\ \A t \in RunQueue : next[t] \in RunQueue
          /\ \A S \in SUBSET RunQueue :
                S # {} /\ (\A t \in S : next[t] \in S) => S = RunQueue
      BY <2>1 DEF OneCycle, RunQueue
    <2>5. /\ next'[new_task] = next[new_task]
          /\ \A t \in RunQueue : t # Main => next'[t] = next[t]
      BY <2>1, <2>2, <2>4
    <2>6. /\ \A t \in RunQueue \cup {new_task} : next'[t] \in RunQueue \cup {new_task}
          /\ \A S \in SUBSET (RunQueue \cup {new_task}) :
                S # {} /\ (\A t \in S : next'[t] \in S) => S = RunQueue \cup {new_task}
      BY <2>1, <2>2, <2>3, <2>4, <2>5, CycleGrows
    <2>7. OneCycle'
      BY <2>3, <2>4, <2>6 DEF OneCycle
    <2> QED
      BY <2>7 DEF CycleInv
  <1>3. ASSUME NEW t \in Tasks, CreateTask(t) PROVE CycleInv'
    <2>1. /\ stage = "create" /\ new_task = NoTask /\ new_task' = t
          /\ state[t] = "NONE" /\ OneCycle
          /\ \A u \in Tasks : u # t => next'[u] = next[u] /\ state'[u] = state[u]
      BY <1>3 DEF CreateTask, InMain, BootInv, CycleInv, TypeOK
    <2>2. RunQueue' = RunQueue /\ t \notin RunQueue /\ RunQueue \subseteq Tasks
      BY <2>1 DEF RunQueue, Linked
    <2>3. \A u \in RunQueue : next'[u] = next[u]
      BY <2>1, <2>2
    <2>4. OneCycle'
      BY <2>1, <2>2, <2>3 DEF OneCycle
    <2> QED
      BY <2>4 DEF CycleInv
  <1>4. ASSUME UNCHANGED <<next, state, new_task>>, stage' # "tcb" => stage # "tcb"
        PROVE  CycleInv'
    <2>1. OneCycle => OneCycle'
      BY <1>4 DEF OneCycle, RunQueue, Linked
    <2> QED
      BY <1>4, <2>1 DEF CycleInv
  <1>5. ASSUME NEW n \in IRQs, Interrupt(n)
        PROVE  UNCHANGED <<next, state, new_task, stage>>
    BY <1>5 DEF Interrupt
  <1>6. ASSUME NEW t \in Tasks, CreateTaskFails(t)
        PROVE  UNCHANGED <<next, state, new_task, stage>>
    BY <1>6 DEF CreateTaskFails
  <1>7. TaskInitCurrent \/ TaskInitList
          => UNCHANGED <<next, state, new_task>> /\ stage # "tcb"
    BY DEF TaskInitCurrent, TaskInitList, InMain
  <1>8. UNCHANGED vars \/ HltForever \/ PitFires \/ KeyPress \/ Handlers
           \/ TaskSchedule \/ SwitchToTask \/ Fault
         => UNCHANGED <<next, state, new_task, stage>>
    BY DEF vars, HltForever, PitFires, KeyPress, Handlers, TimerHandlerMain,
       TestReschedule, Irq0Return, KeyboardHandlerMain, Irq1Return,
       TaskSchedule, ReadCurrent, ReadNext, StoreCurrent, CallSwitch,
       SwitchToTask, SaveEsp, LoadEsp, PopContext, Fault
  <1> QED
    BY <1>1, <1>2, <1>3, <1>4, <1>5, <1>6, <1>7, <1>8 DEF Next, CpuStep, Boot

\* The invariant of all interleavings holds at first,
LEMMA InitAnyTime == Init => AnyTimeInv
  BY InitType, InitIrq, InitQueue, InitCycle DEF AnyTimeInv

\* and every step keeps it, whenever interrupts come.
LEMMA StepAnyTime == AnyTimeInv /\ [Next]_vars => AnyTimeInv' /\ FrameComesFrom
  BY StepTypes, StepIrq, StepBoot, StepQueue, StepCycle DEF AnyTimeInv

(***************************************************************************)
(* However interrupts nest, also in the middle of a switch: every variable *)
(* keeps its type, and in particular task_schedule only ever follows the   *)
(* pointers of TCBs that are in the run queue.                             *)
(***************************************************************************)
THEOREM AnyTime == Spec => []AnyTimeInv
  <1>1. AnyTimeInv /\ UNCHANGED vars => AnyTimeInv'
    BY StepAnyTime
  <1> QED
    BY InitAnyTime, StepAnyTime, PTL DEF Spec

\* The types of Switching, whenever interrupts come.
THEOREM TypeCorrect == Spec => []TypeOK
  <1>1. AnyTimeInv => TypeOK
    BY DEF AnyTimeInv
  <1> QED
    BY <1>1, AnyTime, PTL

(***************************************************************************)
(* irq0_handler, irq1_handler and the switch enable interrupts only after  *)
(* every interrupt in service has been acknowledged.                       *)
(***************************************************************************)
THEOREM EoiBeforeSti == Spec => []EnabledOnlyAfterEoi
  <1>1. AnyTimeInv => EnabledOnlyAfterEoi
    BY DEF AnyTimeInv, IrqInv, EnabledOnlyAfterEoi, Masked
  <1> QED
    BY <1>1, AnyTime, PTL

(***************************************************************************)
(* need_reschedule is never left set for a later interrupt: the handler    *)
(* that raised it has cleared it before interrupts are enabled.            *)
(***************************************************************************)
THEOREM FlagIsConsumed == Spec => []RescheduleTakenAtOnce
  <1>1. AnyTimeInv => RescheduleTakenAtOnce
    BY DEF AnyTimeInv, IrqInv, TypeOK, RescheduleTakenAtOnce, Masked
  <1> QED
    BY <1>1, AnyTime, PTL

(***************************************************************************)
(* At every moment at which an interrupt could walk it, next leads through *)
(* every linked task and back: no task is lost from the run queue while    *)
(* create_task puts another into it.                                       *)
(***************************************************************************)
THEOREM QueueIsOneCycle == Spec => []RunQueueIsOneCycle
  <1>1. AnyTimeInv => RunQueueIsOneCycle
    BY DEF AnyTimeInv, CycleInv, BootInv, RunQueueIsOneCycle
  <1> QED
    BY <1>1, AnyTime, PTL

----------------------------------------------------------------------------
(* The switch, when no interrupt comes in the middle of it. *)

\* At power-up no switch is under way, and the CPU is on the stack of kernel_main.
LEMMA InitQuiet == Init => FramesInv /\ SwitchInv /\ CpuInv
  BY TasksAssumption
  DEF Init, FramesInv, LocalsOf, SwitchInv, CpuInv, HalfSwitched, Linked,
      InQueue, At

\* No context is saved in the middle of a switch, and task_schedule's old_task
\* is the task on whose stack it runs.
LEMMA StepFrames ==
    ASSUME QuietSwitch, AnyTimeInv, QuietInv, FrameComesFrom, [Next]_vars
    PROVE  FramesInv'
  <1> USE DEF sched, pic, boot
  <1>t. ctx \in Contexts /\ TypeOK /\ LocalsOf(cpu, ctx)
    BY DEF AnyTimeInv, TypeOK, QuietInv, FramesInv
  <1>f. ASSUME NEW t \in Tasks, NEW i \in DOMAIN stack'[t]
        PROVE  /\ stack'[t][i].pc \notin {"switch", "save", "load"}
               /\ LocalsOf(t, stack'[t][i])
    <2>1. CASE i \in DOMAIN stack[t] /\ stack'[t][i] = stack[t][i]
      BY <2>1 DEF QuietInv, FramesInv
    <2>2. CASE t = cpu /\ stack'[t][i] = ctx /\ ~HalfSwitched
      BY <2>2, <1>t DEF HalfSwitched
    <2>3. CASE stack'[t][i] = At("ret", ctx.iflag) \/ stack'[t][i] = At("task", TRUE)
      BY <2>3 DEF LocalsOf, At
    <2> QED
      BY <2>1, <2>2, <2>3 DEF FrameComesFrom
  <1>l. LocalsOf(cpu, ctx)'
    <2>1. CASE ReadCurrent
      <3>1. current_task # NoTask => cpu = current_task
        BY <2>1 DEF ReadCurrent, QuietInv, CpuInv, HalfSwitched
      <3> QED
        BY <2>1, <3>1, <1>t DEF ReadCurrent, LocalsOf, Contexts
    <2>2. CASE ReadNext \/ StoreCurrent \/ CallSwitch \/ SaveEsp
      <3>1. cpu' = cpu
        BY <2>2 DEF ReadNext, StoreCurrent, CallSwitch, SaveEsp
      <3>2. CASE ctx' = At("ret", ctx.iflag)
        BY <3>2 DEF LocalsOf, At
      <3>3. CASE ctx'.old = ctx.old /\ ctx.pc \in {"next", "store", "switch", "save"}
        BY <3>1, <3>3, <1>t DEF LocalsOf
      <3> QED
        BY <2>2, <3>2, <3>3, <1>t
        DEF ReadNext, StoreCurrent, CallSwitch, SaveEsp, GoTo, Contexts
    <2>3. CASE TimerHandlerMain \/ TestReschedule \/ KeyboardHandlerMain
      <3>1. ctx'.pc \in {"test", "ret", "current", "kbd"}
        BY <2>3, <1>t DEF TimerHandlerMain, TestReschedule,
           KeyboardHandlerMain, GoTo, Contexts
      <3> QED
        BY <3>1 DEF LocalsOf
    <2>4. CASE LoadEsp \/ Fault
      BY <2>4 DEF LoadEsp, Fault, LocalsOf, At
    <2>5. ASSUME NEW n \in IRQs, Interrupt(n) PROVE LocalsOf(cpu, ctx)'
      BY <2>5 DEF Interrupt, LocalsOf, At
    <2>6. CASE Irq0Return \/ Irq1Return \/ PopContext
      <3>1. PICK i \in DOMAIN stack[cpu] : ctx' = stack[cpu][i]
        BY <2>6, <1>t, ResumeTypes DEF Irq0Return, Irq1Return, PopContext
      <3>2. LocalsOf(cpu, stack[cpu][i])
        BY <1>t DEF QuietInv, FramesInv, TypeOK
      <3>3. cpu' = cpu
        BY <2>6 DEF Irq0Return, Irq1Return, PopContext
      <3> QED
        BY <3>1, <3>2, <3>3 DEF LocalsOf
    <2>7. ASSUME UNCHANGED <<ctx, cpu>> PROVE LocalsOf(cpu, ctx)'
      BY <2>7, <1>t DEF LocalsOf
    <2>8. UNCHANGED vars \/ HltForever \/ PitFires \/ KeyPress \/ Boot
           => UNCHANGED <<ctx, cpu>>
      BY DEF vars, HltForever, PitFires, KeyPress, Boot, TaskInitTcb,
         TaskInitCurrent, TaskInitList, LinkTask, CreateTask, CreateTaskFails
    <2> QED
      BY <2>1, <2>2, <2>3, <2>4, <2>5, <2>6, <2>7, <2>8
      DEF Next, CpuStep, Handlers, TaskSchedule, SwitchToTask
  <1> QED
    BY <1>f, <1>l DEF FramesInv

\* Where the switch lands, given what has been stored before.
LEMMA LoadLands ==
    ASSUME QuietInv, LoadEsp
    PROVE  /\ cpu' = ctx.new /\ ctx' = At("pop", ctx.iflag)
           /\ current_task = ctx.new
           /\ stack' = stack
           /\ ctx.new # cpu /\ InQueue(ctx.new) /\ Suspended(cpu)
  <1>1. /\ ctx.pc = "load" /\ ctx.new # cpu /\ ctx.nesp = esp[ctx.new]
        /\ InQueue(ctx.new) /\ Suspended(cpu) /\ current_task = ctx.new
    BY DEF LoadEsp, QuietInv, SwitchInv, AnyTimeInv, QueueInv, LocalsInQueue,
           HalfSwitched
  <1>2. Suspended(ctx.new)
    BY <1>1 DEF QuietInv, CpuInv, InQueue
  <1>3. /\ stack \in [Tasks -> Seq(Contexts)] /\ ctx.new \in Tasks
        /\ stack[ctx.new] # <<>>
        /\ ctx.nesp.on = ctx.new /\ ctx.nesp.depth = Len(stack[ctx.new])
    BY <1>1, <1>2 DEF Suspended, InQueue, QuietInv, AnyTimeInv, TypeOK
  <1>4. ctx.nesp.depth \in 1 .. Len(stack[ctx.nesp.on])
    <2>1. stack[ctx.new] \in Seq(Contexts)
      BY <1>3
    <2> QED
      BY <1>3, <2>1
  <1>5. /\ cpu' = ctx.nesp.on /\ ctx' = At("pop", ctx.iflag)
        /\ stack' = [stack EXCEPT ![ctx.nesp.on] = SubSeq(@, 1, ctx.nesp.depth)]
    BY <1>4 DEF LoadEsp
  <1>6. stack' = stack
    BY <1>3, <1>4, <1>5, CutStacks
  <1> QED
    BY <1>1, <1>3, <1>5, <1>6

\* Every step keeps what a switch has stored and what it has still to do.
LEMMA StepSwitch ==
    ASSUME QuietSwitch, QuietInv, [Next]_vars
    PROVE  SwitchInv'
  <1> USE DEF sched, pic, boot
  <1>t. ctx \in Contexts /\ TypeOK /\ SwitchInv /\ LocalsOf(cpu, ctx)
    BY DEF AnyTimeInv, TypeOK, QuietInv, FramesInv
  <1>0. ASSUME ctx'.pc \notin {"switch", "save", "load", "wild"}
        PROVE  SwitchInv'
    BY <1>0 DEF SwitchInv, HalfSwitched
  <1>1. CASE StoreCurrent
    <2>1. ctx'.pc = "switch" /\ ctx'.new = ctx.new /\ current_task' = ctx.new
      BY <1>1, <1>t DEF StoreCurrent, GoTo, Contexts
    <2> QED
      BY <2>1 DEF SwitchInv, HalfSwitched
  <1>2. CASE CallSwitch
    <2>1. CASE ctx.old = ctx.new
      BY <1>2, <2>1, <1>0 DEF CallSwitch, At
    <2>2. CASE ctx.old # ctx.new
      <3>1. /\ ctx.pc = "switch" /\ ctx'.pc = "save" /\ ctx'.new = ctx.new
            /\ ctx'.nesp = esp[ctx.new]
            /\ UNCHANGED <<cpu, current_task, esp>>
        BY <1>2, <2>2, <1>t DEF CallSwitch, Contexts
      <3>2. ctx.new # cpu /\ current_task = ctx.new
        BY <3>1, <2>2, <1>t DEF LocalsOf, SwitchInv, HalfSwitched
      <3> QED
        BY <3>1, <3>2 DEF SwitchInv, HalfSwitched
    <2> QED
      BY <2>1, <2>2
  <1>3. CASE SaveEsp
    <2>1. /\ ctx.pc = "save" /\ ctx'.pc = "load" /\ ctx'.new = ctx.new
          /\ ctx'.nesp = ctx.nesp /\ UNCHANGED <<cpu, current_task>>
      BY <1>3, <1>t DEF SaveEsp, GoTo, Contexts
    <2>2. /\ ctx.old = cpu /\ ctx.new # cpu /\ ctx.nesp = esp[ctx.new]
          /\ current_task = ctx.new
      BY <2>1, <1>t DEF LocalsOf, SwitchInv, HalfSwitched
    <2>3. /\ stack \in [Tasks -> Seq(Contexts)] /\ esp \in [Tasks -> Esp]
          /\ cpu \in Tasks /\ At("ret", ctx.iflag) \in Contexts
      BY <1>t, AtIsContext DEF TypeOK, Contexts, PCs
    <2>4. /\ esp'[cpu] = [on |-> cpu, depth |-> Len(stack[cpu]) + 1]
          /\ \A t \in Tasks : t # cpu => esp'[t] = esp[t]
      BY <1>3, <2>2, <2>3 DEF SaveEsp
    <2>5. Len(stack'[cpu]) = Len(stack[cpu]) + 1 /\ stack'[cpu] # <<>>
      BY <1>3, <2>3, PushStacks DEF SaveEsp, Push
    <2>6. ctx.new \in Tasks
      BY <2>1 DEF QuietInv, AnyTimeInv, QueueInv, LocalsInQueue, InQueue
    <2> QED
      BY <2>1, <2>2, <2>4, <2>5, <2>6 DEF SwitchInv, HalfSwitched, Suspended
  <1>4. CASE LoadEsp
    BY <1>4, <1>0, LoadLands DEF At
  <1>5. ASSUME NEW n \in IRQs, Interrupt(n) PROVE SwitchInv'
    BY <1>5, <1>0 DEF Interrupt, At
  <1>6. CASE Irq0Return \/ Irq1Return \/ PopContext
    <2>1. PICK i \in DOMAIN stack[cpu] : ctx' = stack[cpu][i]
      BY <1>6, <1>t, ResumeTypes DEF Irq0Return, Irq1Return, PopContext
    <2>2. stack[cpu][i].pc \notin {"switch", "save", "load", "wild"}
      BY <1>t DEF QuietInv, AnyTimeInv, FramesInv, IrqInv, TypeOK, Masked
    <2> QED
      BY <2>1, <2>2, <1>0
  <1>7. CASE TimerHandlerMain \/ TestReschedule \/ KeyboardHandlerMain
             \/ ReadCurrent \/ ReadNext
    BY <1>7, <1>0, <1>t
    DEF TimerHandlerMain, TestReschedule, KeyboardHandlerMain, ReadCurrent,
        ReadNext, GoTo, Contexts
  <1>8. CASE Fault
    BY <1>8, <1>0 DEF Fault, At
  <1>9. CASE Boot
    <2>1. ctx' = ctx /\ ctx.pc = "task"
      BY <1>9 DEF Boot, TaskInitTcb, TaskInitCurrent, TaskInitList, LinkTask,
         CreateTask, CreateTaskFails, InMain
    <2> QED
      BY <2>1, <1>0
  <1>10. ASSUME UNCHANGED <<ctx, cpu, current_task, esp, stack>>
         PROVE  SwitchInv'
    BY <1>10, <1>t DEF SwitchInv, HalfSwitched, Suspended
  <1>11. UNCHANGED vars \/ HltForever \/ PitFires \/ KeyPress
           => UNCHANGED <<ctx, cpu, current_task, esp, stack>>
    BY DEF vars, HltForever, PitFires, KeyPress
  <1> QED
    BY <1>1, <1>2, <1>3, <1>4, <1>5, <1>6, <1>7, <1>8, <1>9, <1>10, <1>11
    DEF Next, CpuStep, Handlers, TaskSchedule, SwitchToTask

\* Every step leaves everyone but the owner of the CPU resumable.
LEMMA StepCpu ==
    ASSUME QuietSwitch, QuietInv, [Next]_vars, AnyTimeInv', SwitchInv'
    PROVE  CpuInv'
  <1> USE DEF sched, pic, boot
  <1>t. /\ ctx \in Contexts /\ TypeOK /\ SwitchInv /\ LocalsOf(cpu, ctx)
        /\ CpuInv /\ cpu \in Tasks /\ stack \in [Tasks -> Seq(Contexts)]
    BY DEF AnyTimeInv, TypeOK, QuietInv, FramesInv
  <1>g. /\ \A t \in Tasks : InQueue(t) => InQueue(t)'
        /\ current_task # NoTask => current_task' # NoTask
    BY QueueGrows DEF QuietInv, AnyTimeInv
  <1>n. new_task # NoTask => new_task # cpu /\ new_task \in Tasks
    BY <1>t DEF CpuInv, QuietInv, AnyTimeInv, BootInv, InQueue, Linked, TypeOK,
       TaskOrNull
  \* A step that leaves the run queue and the other stacks alone.
  <1>0. ASSUME UNCHANGED <<cpu, esp, state, new_task, current_task>>,
               \A t \in Tasks : t # cpu => stack'[t] = stack[t],
               \/ ctx'.pc \in {"switch", "save", "load", "halted"}
               \/ ctx.pc \notin {"switch", "save", "load", "halted"}
               \/ ctx.pc = "switch" /\ ctx.old = ctx.new
        PROVE  CpuInv'
    <2>1. current_task # NoTask /\ ctx'.pc \notin {"switch", "save", "load", "halted"}
            => cpu = current_task
      BY <1>0, <1>t DEF CpuInv, SwitchInv, LocalsOf, HalfSwitched
    <2>2. \A t \in Tasks : t # cpu => (Suspended(t) => Suspended(t)')
      BY <1>0 DEF Suspended
    <2> QED
      BY <1>0, <1>t, <1>n, <2>1, <2>2
      DEF CpuInv, InQueue, Linked, HalfSwitched
  <1>1. CASE StoreCurrent
    <2>1. /\ ctx'.pc = "switch" /\ current_task' = ctx.new
          /\ UNCHANGED <<cpu, esp, state, new_task, stack>>
          /\ current_task # NoTask /\ InQueue(ctx.new)
      BY <1>1, <1>t DEF StoreCurrent, GoTo, Contexts, QuietInv, AnyTimeInv,
         QueueInv, LocalsInQueue
    <2>2. CpuInv
      BY <1>t
    <2>3. ctx.new # NoTask
      BY <2>1, TasksAssumption DEF InQueue
    <2> QED
      BY <2>1, <2>2, <2>3 DEF CpuInv, InQueue, Linked, Suspended, HalfSwitched
  <1>2. CASE CallSwitch
    <2>1. \/ ctx'.pc = "save"
          \/ ctx.pc = "switch" /\ ctx.old = ctx.new
      BY <1>2, <1>t DEF CallSwitch, Contexts
    <2> QED
      BY <1>2, <1>0, <2>1 DEF CallSwitch
  <1>3. CASE SaveEsp
    <2>1. /\ ctx.old = cpu /\ ctx'.pc = "load" /\ current_task # NoTask
          /\ UNCHANGED <<cpu, state, new_task, current_task>>
      BY <1>3, <1>t DEF SaveEsp, GoTo, Contexts, LocalsOf, QuietInv,
         AnyTimeInv, QueueInv, LocalsInQueue
    <2>2. \A t \in Tasks : t # cpu => esp'[t] = esp[t] /\ stack'[t] = stack[t]
      BY <1>3, <1>t, <2>1 DEF SaveEsp, Push, TypeOK
    <2>3. \A t \in Tasks : t # cpu => (Suspended(t) => Suspended(t)')
      BY <2>2 DEF Suspended
    <2> QED
      BY <1>t, <1>n, <2>1, <2>3 DEF CpuInv, InQueue, Linked, HalfSwitched
  <1>4. CASE LoadEsp
    <2>1. /\ cpu' = ctx.new /\ ctx' = At("pop", ctx.iflag)
          /\ current_task = ctx.new /\ stack' = stack
          /\ ctx.new # cpu /\ InQueue(ctx.new) /\ Suspended(cpu)
      BY <1>4, LoadLands
    <2>2. UNCHANGED <<esp, state, new_task, current_task>>
      BY <1>4 DEF LoadEsp
    <2>3. \A t \in Tasks : Linked(t)' => Suspended(t)'
      BY <1>t, <2>1, <2>2 DEF CpuInv, Linked, Suspended
    <2>4. new_task' # NoTask => Suspended(new_task)'
      BY <1>t, <2>1, <2>2 DEF CpuInv, Suspended
    <2>5. current_task # NoTask
      BY <2>1, TasksAssumption DEF InQueue
    <2> QED
      BY <2>1, <2>2, <2>3, <2>4, <2>5 DEF CpuInv, InQueue, Linked
  <1>5. ASSUME NEW n \in IRQs, Interrupt(n) PROVE CpuInv'
    <2>1. ctx.pc \notin {"switch", "save", "load", "halted"}
      BY <1>5 DEF Interrupt, HalfSwitched, QuietInv, AnyTimeInv, IrqInv, Masked
    <2>2. \A t \in Tasks : t # cpu => stack'[t] = stack[t]
      BY <1>5, <1>t DEF Interrupt, Push
    <2> QED
      BY <1>5, <1>0, <2>1, <2>2 DEF Interrupt
  <1>6. CASE Irq0Return \/ Irq1Return \/ PopContext
    <2>1. /\ Resume /\ ctx.pc \in {"ret", "kbd", "pop"}
          /\ UNCHANGED <<cpu, esp, state, new_task, current_task>>
      BY <1>6 DEF Irq0Return, Irq1Return, PopContext
    <2>2. \A t \in Tasks : t # cpu => stack'[t] = stack[t]
      BY <2>1, <1>t, ResumeTypes
    <2> QED
      BY <1>0, <2>1, <2>2
  <1>7. CASE TimerHandlerMain \/ TestReschedule \/ KeyboardHandlerMain
             \/ ReadCurrent \/ ReadNext \/ Fault
    <2>1. /\ ctx.pc \in {"irq0", "test", "irq1", "current", "next", "kbd"}
          /\ UNCHANGED <<cpu, esp, state, new_task, current_task, stack>>
      BY <1>7 DEF TimerHandlerMain, TestReschedule, KeyboardHandlerMain,
         ReadCurrent, ReadNext, Fault
    <2> QED
      BY <1>0, <2>1
  <1>8. CASE TaskInitTcb
    <2>1. /\ cpu = Main /\ current_task = NoTask /\ new_task = NoTask
          /\ \A t \in Tasks : state[t] = "NONE"
          /\ \A t \in Tasks : t # Main => state'[t] = state[t]
          /\ UNCHANGED <<cpu, new_task, current_task>>
      BY <1>8, <1>t DEF TaskInitTcb, InMain, QuietInv, AnyTimeInv, BootInv, TypeOK
    <2> QED
      BY <2>1 DEF CpuInv, Linked
  <1>9. CASE TaskInitCurrent
    <2>1. /\ cpu = Main /\ current_task' = Main /\ new_task = NoTask
          /\ UNCHANGED <<cpu, esp, stack, state, new_task>>
          /\ InQueue(Main)
      BY <1>9 DEF TaskInitCurrent, InMain, QuietInv, AnyTimeInv, BootInv
    <2> QED
      BY <1>t, <2>1, TasksAssumption DEF CpuInv, InQueue, Linked, Suspended
  <1>10. CASE LinkTask
    <2>1. /\ cpu = Main /\ ctx.pc = "task" /\ current_task # NoTask
          /\ new_task # NoTask /\ new_task' = NoTask
          /\ UNCHANGED <<cpu, ctx, esp, stack, state, current_task>>
      BY <1>10 DEF LinkTask, InMain, QuietInv, AnyTimeInv, BootInv
    <2>2. \A t \in Tasks : Linked(t)' /\ t # cpu' => Suspended(t)'
      BY <1>t, <2>1 DEF CpuInv, Linked, Suspended
    <2>3. InQueue(cpu)'
      BY <1>t, <1>g, <2>1 DEF CpuInv, InQueue
    <2>4. InQueue(cpu)' /\ cpu' = current_task'
      BY <1>t, <2>1, <2>3 DEF CpuInv, HalfSwitched
    <2> QED
      BY <2>1, <2>2, <2>4 DEF CpuInv
  <1>11. ASSUME NEW t \in Tasks, CreateTask(t) PROVE CpuInv'
    <2>1. /\ cpu = Main /\ ctx.pc = "task" /\ current_task # NoTask
          /\ new_task = NoTask /\ new_task' = t /\ state[t] = "NONE"
          /\ UNCHANGED <<cpu, ctx, current_task>>
      BY <1>11 DEF CreateTask, InMain, QuietInv, AnyTimeInv, BootInv
    <2>2. /\ t # cpu /\ cpu = current_task
      BY <1>t, <2>1 DEF CpuInv, InQueue, Linked, HalfSwitched
    <2>3. /\ stack'[t] = <<At("task", TRUE)>>
          /\ esp'[t] = [on |-> t, depth |-> 1]
          /\ \A u \in Tasks : u # t =>
                stack'[u] = stack[u] /\ esp'[u] = esp[u] /\ state'[u] = state[u]
      BY <1>11, <1>t DEF CreateTask, TypeOK
    <2>4. Suspended(t)'
      <3>1. At("task", TRUE) \in Contexts
        BY AtIsContext DEF PCs
      <3>2. Len(<<At("task", TRUE)>>) = 1 /\ <<At("task", TRUE)>> # <<>>
        BY <3>1, OneContext
      <3> QED
        BY <2>3, <3>2 DEF Suspended
    <2>5. \A u \in Tasks : Linked(u)' /\ u # cpu' => Suspended(u)'
      BY <1>t, <2>1, <2>3, TasksAssumption DEF CpuInv, Linked, Suspended
    <2>6. InQueue(cpu)'
      BY <1>t, <1>g, <2>1 DEF CpuInv, InQueue
    <2> QED
      BY <2>1, <2>2, <2>4, <2>5, <2>6 DEF CpuInv
  <1>12. ASSUME UNCHANGED <<ctx, cpu, esp, stack, state, new_task, current_task>>
         PROVE  CpuInv'
    BY <1>12, <1>t DEF CpuInv, InQueue, Linked, Suspended, HalfSwitched
  <1>13. UNCHANGED vars \/ HltForever \/ PitFires \/ KeyPress \/ TaskInitList
           \/ (\E t \in Tasks : CreateTaskFails(t))
         => UNCHANGED <<ctx, cpu, esp, stack, state, new_task, current_task>>
    BY DEF vars, HltForever, PitFires, KeyPress, TaskInitList, CreateTaskFails
  <1> QED
    BY <1>1, <1>2, <1>3, <1>4, <1>5, <1>6, <1>7, <1>8, <1>9, <1>10, <1>11,
       <1>12, <1>13
    DEF Next, CpuStep, Boot, Handlers, TaskSchedule, SwitchToTask

----------------------------------------------------------------------------
(* Where a task's own code is, and what task_schedule has loaded. *)

\* At first kernel_main runs on an empty stack.
LEMMA InitBottom == Init => BottomInv /\ NextInv
  BY TasksAssumption DEF Init, BottomInv, NextInv, LoadedNext, At

\* Where the steps of the handlers and of task_schedule go on.
LEMMA PcAfter ==
    ASSUME ctx \in Contexts
    PROVE  /\ TimerHandlerMain => ctx'.pc = "test"
           /\ TestReschedule => ctx'.pc \in {"ret", "current"}
           /\ KeyboardHandlerMain => ctx'.pc = "kbd"
           /\ ReadCurrent => ctx'.pc \in {"ret", "next"}
           /\ ReadNext => ctx'.pc = "store"
           /\ StoreCurrent => ctx'.pc = "switch"
           /\ CallSwitch => ctx'.pc \in {"ret", "save"}
           /\ SaveEsp => ctx'.pc = "load"
  <1>1. TimerHandlerMain => ctx'.pc = "test"
    BY DEF TimerHandlerMain, GoTo, Contexts
  <1>2. TestReschedule => ctx'.pc \in {"ret", "current"}
    BY DEF TestReschedule, Contexts
  <1>3. KeyboardHandlerMain => ctx'.pc = "kbd"
    BY DEF KeyboardHandlerMain, Contexts
  <1>4. ReadCurrent => ctx'.pc \in {"ret", "next"}
    BY DEF ReadCurrent, Contexts
  <1>5. ReadNext => ctx'.pc = "store"
    BY DEF ReadNext, Contexts
  <1>6. StoreCurrent => ctx'.pc = "switch"
    BY DEF StoreCurrent, GoTo, Contexts
  <1>7. CallSwitch => ctx'.pc \in {"ret", "save"}
    BY DEF CallSwitch, At, Contexts
  <1>8. SaveEsp => ctx'.pc = "load"
    BY DEF SaveEsp, GoTo, Contexts
  <1> QED
    BY <1>1, <1>2, <1>3, <1>4, <1>5, <1>6, <1>7, <1>8

\* Every step keeps the code of a task at the bottom of its stack.
LEMMA StepBottom ==
    ASSUME TypeOK, BottomInv, FrameComesFrom, BootInv, [Next]_vars
    PROVE  BottomInv'
  <1> USE DEF sched, pic, boot
  <1>t. /\ ctx \in Contexts /\ cpu \in Tasks
        /\ stack \in [Tasks -> Seq(Contexts)]
    BY DEF TypeOK
  <1>f. ASSUME NEW t \in Tasks, NEW i \in DOMAIN stack'[t], stack'[t][i].pc = "task"
        PROVE  i = 1
    <2>1. CASE i \in DOMAIN stack[t] /\ stack'[t][i] = stack[t][i]
      BY <1>f, <2>1 DEF BottomInv
    <2>2. CASE t = cpu /\ stack'[t][i] = ctx /\ i = Len(stack[cpu]) + 1
      <3>1. stack[cpu] = <<>>
        BY <1>f, <2>2 DEF BottomInv
      <3>2. Len(stack[cpu]) = 0
        BY <3>1
      <3> QED
        BY <2>2, <3>2
    <2>3. CASE stack'[t][i] = At("ret", ctx.iflag)
      BY <1>f, <2>3 DEF At
    <2> QED
      BY <2>1, <2>2, <2>3 DEF FrameComesFrom
  <1>c. ctx'.pc = "task" => stack'[cpu'] = <<>>
    <2>1. CASE Irq0Return \/ Irq1Return \/ PopContext
      <3>1. Resume /\ cpu' = cpu
        BY <2>1 DEF Irq0Return, Irq1Return, PopContext
      <3>2. PICK i \in DOMAIN stack[cpu] :
                /\ ctx' = stack[cpu][i]
                /\ i = 1 => stack'[cpu] = <<>>
        BY <3>1, ResumeTypes
      <3>3. stack[cpu][i].pc = "task" => i = 1
        BY <1>t DEF BottomInv
      <3>4. ctx'.pc = "task" => stack'[cpu] = <<>>
        BY <3>2, <3>3
      <3> QED
        BY <3>1, <3>4
    <2>2. ASSUME ctx'.pc # "task" PROVE ctx'.pc = "task" => stack'[cpu'] = <<>>
      BY <2>2
    <2>3. TimerHandlerMain \/ TestReschedule \/ KeyboardHandlerMain \/ TaskSchedule
            \/ SaveEsp => ctx'.pc # "task"
      BY <1>t, PcAfter DEF TaskSchedule
    <2>4. LoadEsp \/ Fault => ctx'.pc # "task"
      BY DEF LoadEsp, Fault, At
    <2>5. ASSUME NEW n \in IRQs, Interrupt(n) PROVE ctx'.pc # "task"
      BY <2>5 DEF Interrupt, At
    <2>6. ASSUME UNCHANGED <<ctx, cpu>>, stack'[cpu] = stack[cpu]
          PROVE  ctx'.pc = "task" => stack'[cpu'] = <<>>
      BY <2>6 DEF BottomInv
    <2>7. ASSUME NEW t \in Tasks, CreateTask(t)
          PROVE  UNCHANGED <<ctx, cpu>> /\ stack'[cpu] = stack[cpu]
      BY <1>t, <2>7 DEF CreateTask, InMain, BootInv
    <2>8. ASSUME NEW t \in Tasks, CreateTaskFails(t)
          PROVE  UNCHANGED <<ctx, cpu, stack>>
      BY <2>8 DEF CreateTaskFails
    <2>9. UNCHANGED vars \/ HltForever \/ PitFires \/ KeyPress \/ TaskInitTcb
             \/ TaskInitCurrent \/ TaskInitList \/ LinkTask
           => UNCHANGED <<ctx, cpu, stack>>
      BY DEF vars, HltForever, PitFires, KeyPress, TaskInitTcb,
         TaskInitCurrent, TaskInitList, LinkTask
    <2> QED
      BY <2>1, <2>2, <2>3, <2>4, <2>5, <2>6, <2>7, <2>8, <2>9
      DEF Next, CpuStep, Boot, Handlers, SwitchToTask
  <1> QED
    BY <1>f, <1>c DEF BottomInv

\* A next pointer that task_schedule has loaded and not yet used is not changed
\* by anyone: only create_task changes one, that of main_task, and then nothing
\* of main_task's is inside task_schedule.
LEMMA LoadedStays ==
    ASSUME TypeOK, BootInv, QueueInv, BottomInv, [Next]_vars,
           NEW t \in Tasks, NEW c, LocalsInQueue(c), LocalsOf(t, c), LoadedNext(c),
           c.pc = "store", t = cpu => stack[cpu] # <<>> \/ ctx.pc # "task"
    PROVE  c.new = next'[c.old]
  <1> USE DEF sched, pic, boot
  <1>1. /\ c.old = t /\ c.new = next[t] /\ InQueue(t) /\ current_task # NoTask
    BY DEF LocalsInQueue, LocalsOf, LoadedNext
  <1>2. CASE TaskInitTcb
    BY <1>1, <1>2 DEF TaskInitTcb, InMain, BootInv
  <1>3. CASE LinkTask
    <2>1. t # Main
      BY <1>3 DEF LinkTask, InMain, BottomInv
    <2>2. task_list = Main
      BY <1>3 DEF LinkTask, InMain, BootInv
    <2> QED
      BY <1>1, <1>3, <2>1, <2>2 DEF LinkTask, TypeOK
  <1>4. ASSUME NEW u \in Tasks, CreateTask(u) PROVE next'[t] = next[t]
    <2>1. u # t
      BY <1>1, <1>4 DEF CreateTask, BootInv, InQueue, Linked
    <2> QED
      BY <1>4, <2>1 DEF CreateTask, TypeOK
  <1>5. ASSUME NEW n \in IRQs, Interrupt(n) PROVE UNCHANGED next
    BY <1>5 DEF Interrupt
  <1>6. ASSUME NEW u \in Tasks, CreateTaskFails(u) PROVE UNCHANGED next
    BY <1>6 DEF CreateTaskFails
  <1>7. UNCHANGED vars \/ HltForever \/ PitFires \/ KeyPress \/ Handlers
           \/ TaskInitCurrent \/ TaskInitList \/ TaskSchedule \/ SwitchToTask
           \/ Fault => UNCHANGED next
    BY DEF vars, HltForever, PitFires, KeyPress, Handlers, TimerHandlerMain,
       TestReschedule, Irq0Return, KeyboardHandlerMain, Irq1Return,
       TaskInitCurrent, TaskInitList, TaskSchedule, ReadCurrent, ReadNext,
       StoreCurrent, CallSwitch, SwitchToTask, SaveEsp, LoadEsp, PopContext, Fault
  <1> QED
    BY <1>1, <1>2, <1>3, <1>4, <1>5, <1>6, <1>7 DEF Next, CpuStep, Boot

\* Every step keeps what task_schedule has loaded true of the run queue.
LEMMA StepNext ==
    ASSUME AnyTimeInv, FramesInv, BottomInv, NextInv, FrameComesFrom, [Next]_vars
    PROVE  NextInv'
  <1> USE DEF sched, pic, boot
  <1>t. /\ TypeOK /\ BootInv /\ QueueInv
        /\ ctx \in Contexts /\ cpu \in Tasks
        /\ LocalsInQueue(ctx) /\ LocalsOf(cpu, ctx) /\ LoadedNext(ctx)
    BY DEF AnyTimeInv, TypeOK, QueueInv, FramesInv, NextInv
  <1>o. ctx.pc = "store" => ctx.new = next'[ctx.old]
    BY <1>t, LoadedStays
  <1>s. ASSUME NEW t \in Tasks, NEW i \in DOMAIN stack[t], stack[t][i].pc = "store"
        PROVE  stack[t][i].new = next'[stack[t][i].old]
    <2>1. /\ LocalsInQueue(stack[t][i]) /\ LocalsOf(t, stack[t][i])
          /\ LoadedNext(stack[t][i])
      BY <1>t DEF QueueInv, FramesInv, NextInv
    <2>2. stack[t] # <<>>
      OBVIOUS
    <2> QED
      BY <1>s, <1>t, <2>1, <2>2, LoadedStays
  <1>f. ASSUME NEW t \in Tasks, NEW i \in DOMAIN stack'[t], stack'[t][i].pc = "store"
        PROVE  stack'[t][i].new = next'[stack'[t][i].old]
    <2>1. CASE i \in DOMAIN stack[t] /\ stack'[t][i] = stack[t][i]
      BY <1>f, <1>s, <2>1
    <2>2. CASE stack'[t][i] = ctx
      BY <1>f, <1>o, <2>2
    <2>3. CASE stack'[t][i] = At("ret", ctx.iflag) \/ stack'[t][i] = At("task", TRUE)
      BY <1>f, <2>3 DEF At
    <2> QED
      BY <2>1, <2>2, <2>3 DEF FrameComesFrom
  <1>c. ASSUME ctx'.pc = "store" PROVE ctx'.new = next'[ctx'.old]
    <2>1. CASE ReadNext
      BY <1>t, <2>1 DEF ReadNext, Contexts
    <2>2. CASE Irq0Return \/ Irq1Return \/ PopContext
      <3>1. PICK i \in DOMAIN stack[cpu] : ctx' = stack[cpu][i]
        BY <1>t, <2>2, ResumeTypes DEF Irq0Return, Irq1Return, PopContext
      <3> QED
        BY <1>c, <1>s, <1>t, <3>1
    <2>3. CASE UNCHANGED ctx
      BY <1>c, <1>o, <2>3
    <2>4. ~(TimerHandlerMain \/ TestReschedule \/ KeyboardHandlerMain
              \/ ReadCurrent \/ StoreCurrent \/ CallSwitch \/ SaveEsp)
      BY <1>c, <1>t, PcAfter
    <2>5. ~(LoadEsp \/ Fault)
      BY <1>c DEF LoadEsp, Fault, At
    <2>6. ASSUME NEW n \in IRQs, Interrupt(n) PROVE FALSE
      BY <1>c, <2>6 DEF Interrupt, At
    <2>7. UNCHANGED vars \/ HltForever \/ PitFires \/ KeyPress \/ Boot
           => UNCHANGED ctx
      BY DEF vars, HltForever, PitFires, KeyPress, Boot, TaskInitTcb,
         TaskInitCurrent, TaskInitList, LinkTask, CreateTask, CreateTaskFails
    <2> QED
      BY <2>1, <2>2, <2>3, <2>4, <2>5, <2>6, <2>7
      DEF Next, CpuStep, Handlers, TaskSchedule, SwitchToTask
  <1> QED
    BY <1>f, <1>c DEF NextInv, LoadedNext

\* The invariant of the undisturbed switch holds at first,
LEMMA InitQuietInv == Init => QuietInv
  BY InitAnyTime, InitQuiet, InitBottom DEF QuietInv

\* and every step keeps it, if no interrupt comes in the middle of a switch.
LEMMA StepQuietInv == QuietSwitch /\ QuietInv /\ [Next]_vars => QuietInv'
  <1> SUFFICES ASSUME QuietSwitch, QuietInv, [Next]_vars PROVE QuietInv'
    OBVIOUS
  <1>1. AnyTimeInv /\ AnyTimeInv' /\ FrameComesFrom
    BY StepAnyTime DEF QuietInv
  <1>2. FramesInv'
    BY <1>1, StepFrames
  <1>3. SwitchInv'
    BY StepSwitch
  <1>4. CpuInv'
    BY <1>1, <1>3, StepCpu
  <1>5. BottomInv' /\ NextInv'
    BY <1>1, StepBottom, StepNext DEF QuietInv, AnyTimeInv
  <1> QED
    BY <1>1, <1>2, <1>3, <1>4, <1>5 DEF QuietInv

\* Without an interrupt in the middle of a switch, QuietInv holds in every state: it is
\* the inductive invariant behind the theorems about saved contexts and round robin.
THEOREM Quiet ==
    ASSUME QuietSwitch
    PROVE  Spec => []QuietInv
  <1>1. QuietInv /\ [Next]_vars => QuietInv'
    BY StepQuietInv
  <1> QED
    BY <1>1, InitQuietInv, PTL DEF Spec

(***************************************************************************)
(* If no interrupt comes between task_schedule's store to current_task and *)
(* switch_to_task's load of ESP, every task in the run queue that does not *)
(* have the CPU can be resumed: its esp is the top of its own stack.       *)
(***************************************************************************)
THEOREM ContextsAreSaved ==
    ASSUME QuietSwitch
    PROVE  Spec => []SavedContexts
  <1>1. QuietInv => SavedContexts
    BY DEF QuietInv, CpuInv, SavedContexts
  <1> QED
    BY <1>1, Quiet, PTL

\* Then the stack in use is that of current_task, except inside the switch.
THEOREM CpuFollowsCurrent ==
    ASSUME QuietSwitch
    PROVE  Spec => []CpuIsCurrent
  <1>1. QuietInv => CpuIsCurrent
    BY DEF QuietInv, CpuInv, CpuIsCurrent, Stopped
  <1> QED
    BY <1>1, Quiet, PTL

(***************************************************************************)
(* Then each switch lands on the stack of the task that has become         *)
(* current, at the depth at which it was left, and no context is lost: the *)
(* task "resumes exactly where it left off" (task.h).                      *)
(***************************************************************************)
THEOREM SwitchResumes ==
    ASSUME QuietSwitch
    PROVE  Spec => ResumesWhereItLeftOff
  <1> DEFINE Lands ==
        ctx.pc = "load" /\ ctx'.pc # "load"
          => ctx'.pc = "irq0" \/ ctx'.pc = "irq1"
             \/ (ctx'.pc = "pop" /\ cpu' = current_task /\ stack' = stack)
  <1>1. QuietInv /\ [Next]_vars => [Lands]_vars
    <2> SUFFICES ASSUME QuietInv, Next, ctx.pc = "load", ctx'.pc # "load"
                 PROVE  Lands
      OBVIOUS
    <2>1. LoadEsp \/ \E n \in IRQs : Interrupt(n)
      BY DEF Next, CpuStep, Boot, InMain, TaskInitTcb, TaskInitCurrent,
         TaskInitList, LinkTask, CreateTask, CreateTaskFails, Handlers,
         TimerHandlerMain, TestReschedule, Irq0Return, KeyboardHandlerMain,
         Irq1Return, TaskSchedule, ReadCurrent, ReadNext, StoreCurrent,
         CallSwitch, SwitchToTask, SaveEsp, PopContext, Fault, HltForever,
         Stopped, PitFires, KeyPress
    <2>2. CASE LoadEsp
      BY <2>2, LoadLands DEF At
    <2>3. CASE \E n \in IRQs : Interrupt(n)
      BY <2>3 DEF Interrupt, At
    <2> QED
      BY <2>1, <2>2, <2>3
  <1> QED
    BY <1>1, Quiet, PTL DEF Spec, ResumesWhereItLeftOff

(***************************************************************************)
(* Then, too, whatever nests in task_schedule between its load of          *)
(* current_task and its store, the store makes the next task of the run    *)
(* queue current: none is passed over.                                     *)
(***************************************************************************)
THEOREM RoundRobin ==
    ASSUME QuietSwitch
    PROVE  Spec => AdvancesByOne
  <1> DEFINE Advances ==
        current_task # NoTask /\ current_task' # current_task
          => current_task' = next[current_task]
  <1>1. QuietInv /\ [Next]_vars => [Advances]_vars
    <2> SUFFICES ASSUME QuietInv, Next, current_task # NoTask,
                        current_task' # current_task
                 PROVE  current_task' = next[current_task]
      OBVIOUS
    <2>1. StoreCurrent \/ TaskInitCurrent
      BY DEF Next, CpuStep, Boot, TaskInitTcb, TaskInitList, LinkTask, CreateTask,
         CreateTaskFails, Handlers, TimerHandlerMain, TestReschedule, Irq0Return,
         KeyboardHandlerMain, Irq1Return, TaskSchedule, ReadCurrent, ReadNext,
         CallSwitch, SwitchToTask, SaveEsp, LoadEsp, PopContext, Fault,
         HltForever, vars, sched, PitFires, KeyPress, Interrupt
    <2>2. ~TaskInitCurrent
      BY DEF TaskInitCurrent, InMain, QuietInv, AnyTimeInv, BootInv
    <2>3. ctx.pc = "store" /\ current_task' = ctx.new
      BY <2>1, <2>2 DEF StoreCurrent
    <2>4. ctx.old = cpu /\ cpu = current_task
      BY <2>3 DEF QuietInv, FramesInv, LocalsOf, CpuInv, HalfSwitched
    <2> QED
      BY <2>3, <2>4 DEF QuietInv, NextInv, LoadedNext
  <1> QED
    BY <1>1, Quiet, PTL DEF Spec, AdvancesByOne
=====================
