----------------------------- MODULE Switching -----------------------------
(***************************************************************************)
(* The single CPU of FriscaOS, its two interrupt lines and its preemptive  *)
(* task switch: interrupt.asm, the PIC handling of idt.c, the reschedule   *)
(* flag of timer.c, task.c and task_asm.asm.                               *)
(*                                                                         *)
(* One action is the code between two points at which an interrupt can be  *)
(* told apart: a load or a store of state that another context reads.      *)
(* Code that runs with IF=0 is one action, because nothing interleaves.    *)
(*                                                                         *)
(* A stack is the sequence of the contexts saved on it (by the CPU and     *)
(* pusha at an interrupt, by pushfd and the pushes of switch_to_task), and *)
(* ESP is a stack together with a depth.  ctx is the context that is       *)
(* executing.  The body of a task (background_task, the idle loop) and the *)
(* body of keyboard_handle_interrupt are one step each: they change none   *)
(* of the state of this module.                                            *)
(***************************************************************************)
EXTENDS Naturals, Sequences, SequencesExt

CONSTANTS
    Tasks,        \* the TCBs there can be: main_task and what create_task makes
    Main,         \* main_task: kernel_main on the boot stack
    NoTask,       \* NULL
    MaxDepth,     \* bound: no interrupt nests deeper than this on one stack
    QuietSwitch   \* TRUE: no interrupt arrives while a switch is half done

ASSUME TasksAssumption == Main \in Tasks /\ NoTask \notin Tasks
ASSUME DepthAssumption == MaxDepth \in Nat
ASSUME QuietAssumption == QuietSwitch \in BOOLEAN

VARIABLES
    cpu,              \* the task whose stack ESP points into
    ctx,              \* the executing context: pc, EFLAGS.IF and the live registers
    stack,            \* stack[t]: the contexts saved on the stack of t
    esp,              \* esp[t]: task_t.esp
    next,             \* next[t]: task_t.next
    state,            \* state[t]: task_t.state, "NONE" before there is a TCB
    current_task,
    task_list,
    need_reschedule,
    irr, isr,         \* the PIC's requests and the interrupts in service
    stage, todo,      \* how far kernel_main is, and the tasks still to create
    new_task          \* the TCB create_task has built but not linked

sched == <<esp, next, state, current_task, task_list>>
pic   == <<irr, isr>>
boot  == <<stage, todo, new_task>>
vars  == <<cpu, ctx, stack, sched, need_reschedule, pic, boot>>

TaskOrNull == Tasks \cup {NoTask}
Esp        == [on : Tasks, depth : Nat]
NoEsp      == [on |-> Main, depth |-> 0]    \* main_task.esp = 0

(***************************************************************************)
(* Where a context can be.  "task": the code of a task.  "irq0": the entry *)
(* of irq0_handler, "test" its test of the flag.  "current" .. "switch":   *)
(* task_schedule, named for what it does next.  "save", "load", "pop":     *)
(* switch_to_task.  "ret": after the call of task_schedule in              *)
(* irq0_handler.  "irq1", "kbd": irq1_handler before and after its sti.    *)
(* "halted": the hlt loop of isr.c and panic.c.                            *)
(* "wild": ESP was loaded with something that is not a saved context.      *)
(***************************************************************************)
PCs == {"task", "irq0", "test", "current", "next", "store", "switch", "save", "load",
        "pop", "ret", "irq1", "kbd", "halted", "wild"}

Contexts == [pc : PCs, iflag : BOOLEAN, old : TaskOrNull, new : TaskOrNull,
             nesp : Esp]

At(pc, iflag) == [pc |-> pc, iflag |-> iflag, old |-> NoTask, new |-> NoTask,
               nesp |-> NoEsp]

\* current_task already names the next task and ESP is still the old one's.
HalfSwitched == ctx.pc \in {"switch", "save", "load"}

Stopped == ctx.pc \in {"halted", "wild"}

Linked(t) == state[t] # "NONE" /\ t # new_task

GoTo(pc) == ctx' = [ctx EXCEPT !.pc = pc]

Push(t, frame) == stack' = [stack EXCEPT ![t] = Append(@, frame)]

\* Drop the top context of the executing stack and continue it (iretd, ret).
Resume ==
    /\ stack[cpu] # <<>>
    /\ ctx' = Last(stack[cpu])
    /\ stack' = [stack EXCEPT ![cpu] = Front(@)]

----------------------------------------------------------------------------
(* The 8259 PIC: IRQ0 outranks IRQ1, and an interrupt in service holds off *)
(* itself and what it outranks.  A non-specific EOI ends the highest one.  *)

IRQs == {0, 1}

Deliverable(n) ==
    /\ n \in irr
    /\ \A m \in isr : n < m
    /\ \A m \in irr : n <= m

EOI(inService) == {n \in inService : \E m \in inService : m < n}

\* The PIT raises IRQ0 on every period; a period in which the last request is still
\* pending adds none, and is not a step.
PitFires ==
    /\ 0 \notin irr
    /\ irr' = irr \cup {0}
    /\ UNCHANGED <<cpu, ctx, stack, sched, need_reschedule, isr, boot>>

KeyPress ==
    /\ 1 \notin irr
    /\ irr' = irr \cup {1}
    /\ UNCHANGED <<cpu, ctx, stack, sched, need_reschedule, isr, boot>>

\* Both vectors are interrupt gates (0x8E): the CPU saves EFLAGS with IF=1
\* and enters the stub with IF=0; the stub starts with pusha.
Interrupt(n) ==
    /\ ctx.iflag
    /\ Deliverable(n)
    /\ Len(stack[cpu]) < MaxDepth
    /\ QuietSwitch => ~HalfSwitched
    /\ Push(cpu, ctx)
    /\ ctx' = At(IF n = 0 THEN "irq0" ELSE "irq1", FALSE)
    /\ irr' = irr \ {n}
    /\ isr' = isr \cup {n}
    /\ UNCHANGED <<cpu, sched, need_reschedule, boot>>

----------------------------------------------------------------------------
(* IRQ0: irq0_handler and what it calls.                                   *)

\* Mutant: neither timer_handler nor timer_handler_main sends an EOI.
TimerHandlerMain_NoEoi ==
    /\ ctx.pc = "irq0"
    /\ need_reschedule' = 1
    /\ GoTo("test")
    /\ UNCHANGED <<cpu, stack, sched, pic, boot>>

\* timer_handler raises the flag and sends an EOI, timer_handler_main a second.
TimerHandlerMain ==
    /\ ctx.pc = "irq0"
    /\ need_reschedule' = 1
    /\ isr' = EOI(EOI(isr))
    /\ GoTo("test")
    /\ UNCHANGED <<cpu, stack, sched, irr, boot>>

\* Mutant: the flag is cleared after the sti, where task_schedule may be late.
TestReschedule_NoClear ==
    /\ ctx.pc = "test"
    /\ ctx' = IF need_reschedule = 0
              THEN [ctx EXCEPT !.pc = "ret"]
              ELSE [ctx EXCEPT !.pc = "current", !.iflag = TRUE]
    /\ UNCHANGED <<cpu, stack, sched, need_reschedule, pic, boot>>

\* Test the flag, clear it, sti.
TestReschedule ==
    /\ ctx.pc = "test"
    /\ ctx' = IF need_reschedule = 0
              THEN [ctx EXCEPT !.pc = "ret"]
              ELSE [ctx EXCEPT !.pc = "current", !.iflag = TRUE]
    /\ need_reschedule' = 0
    /\ UNCHANGED <<cpu, stack, sched, pic, boot>>

\* cli; popa; iretd.
Irq0Return ==
    /\ ctx.pc = "ret"
    /\ Resume
    /\ UNCHANGED <<cpu, sched, need_reschedule, pic, boot>>

----------------------------------------------------------------------------
(* task_schedule, between its loads and stores.                            *)

ReadCurrent ==
    /\ ctx.pc = "current"
    /\ ctx' = IF current_task = NoTask
              THEN [ctx EXCEPT !.pc = "ret"]
              ELSE [ctx EXCEPT !.pc = "next", !.old = current_task]
    /\ UNCHANGED <<cpu, stack, sched, need_reschedule, pic, boot>>

\* Mutant: the next task is passed over.
ReadNext_Twice ==
    /\ ctx.pc = "next"
    /\ ctx' = [ctx EXCEPT !.pc = "store", !.new = next[next[ctx.old]]]
    /\ UNCHANGED <<cpu, stack, sched, need_reschedule, pic, boot>>

ReadNext ==
    /\ ctx.pc = "next"
    /\ ctx' = [ctx EXCEPT !.pc = "store", !.new = next[ctx.old]]
    /\ UNCHANGED <<cpu, stack, sched, need_reschedule, pic, boot>>

\* From here until ESP is loaded, current_task and ESP disagree.
StoreCurrent ==
    /\ ctx.pc = "store"
    /\ current_task' = ctx.new
    /\ GoTo("switch")
    /\ UNCHANGED <<cpu, stack, esp, next, state, task_list, need_reschedule,
                   pic, boot>>

\* Mutant: the early return is taken when the next task is the head.
CallSwitch_ComparesHead ==
    /\ ctx.pc = "switch"
    /\ ctx' = IF task_list = ctx.new
              THEN At("ret", ctx.iflag)
              ELSE [ctx EXCEPT !.pc = "save", !.nesp = esp[ctx.new]]
    /\ UNCHANGED <<cpu, stack, sched, need_reschedule, pic, boot>>

\* The comparison, and the arguments of switch_to_task.
CallSwitch ==
    /\ ctx.pc = "switch"
    /\ ctx' = IF ctx.old = ctx.new
              THEN At("ret", ctx.iflag)
              ELSE [ctx EXCEPT !.pc = "save", !.nesp = esp[ctx.new]]
    /\ UNCHANGED <<cpu, stack, sched, need_reschedule, pic, boot>>

----------------------------------------------------------------------------
(* switch_to_task.                                                         *)

\* Mutant: *old_esp is stored before EFLAGS and the registers are pushed.
SaveEsp_BeforePush ==
    /\ ctx.pc = "save"
    /\ esp' = [esp EXCEPT ![ctx.old] = [on |-> cpu, depth |-> Len(stack[cpu])]]
    /\ Push(cpu, At("ret", ctx.iflag))
    /\ GoTo("load")
    /\ UNCHANGED <<cpu, next, state, current_task, task_list, need_reschedule,
                   pic, boot>>

\* Push the registers and EFLAGS, then *old_esp = ESP.  What is pushed returns
\* to the end of task_schedule.
SaveEsp ==
    /\ ctx.pc = "save"
    /\ esp' = [esp EXCEPT ![ctx.old] =
                   [on |-> cpu, depth |-> Len(stack[cpu]) + 1]]
    /\ Push(cpu, At("ret", ctx.iflag))
    /\ GoTo("load")
    /\ UNCHANGED <<cpu, next, state, current_task, task_list, need_reschedule,
                   pic, boot>>

\* ESP := new_esp.  Whatever lies above the new ESP on that stack is gone; an
\* ESP that no save or create_task produced, or whose contexts have been
\* popped since, leads anywhere.
LoadEsp ==
    /\ ctx.pc = "load"
    /\ UNCHANGED <<sched, need_reschedule, pic, boot>>
    /\ LET to == ctx.nesp IN
       IF to.depth \in 1 .. Len(stack[to.on])
       THEN /\ cpu' = to.on
            /\ stack' = [stack EXCEPT ![to.on] = SubSeq(@, 1, to.depth)]
            /\ ctx' = At("pop", ctx.iflag)
       ELSE /\ ctx' = At("wild", FALSE)
            /\ UNCHANGED <<cpu, stack>>

\* popfd, the pops and ret.
PopContext ==
    /\ ctx.pc = "pop"
    /\ Resume
    /\ UNCHANGED <<cpu, sched, need_reschedule, pic, boot>>

----------------------------------------------------------------------------
(* IRQ1: irq1_handler and keyboard_handler_main.                           *)

\* Mutant: sti with no EOI sent before it.
KeyboardHandlerMain_NoEoi ==
    /\ ctx.pc = "irq1"
    /\ ctx' = [ctx EXCEPT !.pc = "kbd", !.iflag = TRUE]
    /\ UNCHANGED <<cpu, stack, sched, need_reschedule, pic, boot>>

\* EOI, sti; keyboard_handle_interrupt and the shell then run with IF=1.
KeyboardHandlerMain ==
    /\ ctx.pc = "irq1"
    /\ isr' = EOI(isr)
    /\ ctx' = [ctx EXCEPT !.pc = "kbd", !.iflag = TRUE]
    /\ UNCHANGED <<cpu, stack, sched, need_reschedule, irr, boot>>

\* The keyboard handler returns: popa; iretd, with no cli before.
Irq1Return ==
    /\ ctx.pc = "kbd"
    /\ Resume
    /\ UNCHANGED <<cpu, sched, need_reschedule, pic, boot>>

\* A command raised an exception (divzero) or called panic (crash): isr_handler
\* and panic print with interrupts off and halt for good.
Fault ==
    /\ ctx.pc = "kbd"
    /\ ctx' = At("halted", FALSE)
    /\ UNCHANGED <<cpu, stack, sched, need_reschedule, pic, boot>>

HltForever ==
    /\ Stopped
    /\ UNCHANGED vars

----------------------------------------------------------------------------
(* kernel_main from the sti of idt_init on.  Only the boot context runs it. *)

InMain(s) == cpu = Main /\ ctx.pc = "task" /\ stage = s

\* task_init fills main_task in before it publishes it.
TaskInitTcb ==
    /\ InMain("tcb")
    /\ esp' = [esp EXCEPT ![Main] = NoEsp]
    /\ state' = [state EXCEPT ![Main] = "RUNNING"]
    /\ next' = [next EXCEPT ![Main] = Main]
    /\ stage' = "current"
    /\ UNCHANGED <<cpu, ctx, stack, current_task, task_list, need_reschedule,
                   pic, todo, new_task>>

TaskInitCurrent ==
    /\ InMain("current")
    /\ current_task' = Main
    /\ stage' = "list"
    /\ UNCHANGED <<cpu, ctx, stack, esp, next, state, task_list,
                   need_reschedule, pic, todo, new_task>>

TaskInitList ==
    /\ InMain("list")
    /\ task_list' = Main
    /\ stage' = "create"
    /\ UNCHANGED <<cpu, ctx, stack, esp, next, state, current_task,
                   need_reschedule, pic, todo, new_task>>

\* One of the two kmallocs returns NULL, and create_task does too.
CreateTaskFails(t) ==
    /\ InMain("create") /\ t \in todo
    /\ todo' = todo \ {t}
    /\ UNCHANGED <<cpu, ctx, stack, sched, need_reschedule, pic, stage, new_task>>

\* Mutant: the frame of the new task has EFLAGS 0x002, IF=0.
CreateTask_IfClear(t) ==
    /\ InMain("create") /\ t \in todo
    /\ todo' = todo \ {t}
    /\ stack' = [stack EXCEPT ![t] = <<At("task", FALSE)>>]
    /\ esp' = [esp EXCEPT ![t] = [on |-> t, depth |-> 1]]
    /\ state' = [state EXCEPT ![t] = "READY"]
    /\ next' = [next EXCEPT ![t] = next[task_list]]
    /\ new_task' = t
    /\ stage' = "link"
    /\ UNCHANGED <<cpu, ctx, current_task, task_list, need_reschedule, pic>>

\* Mutant: state keeps what kmalloc left in it.
CreateTask_StateUnset(t) ==
    /\ InMain("create") /\ t \in todo
    /\ todo' = todo \ {t}
    /\ stack' = [stack EXCEPT ![t] = <<At("task", TRUE)>>]
    /\ esp' = [esp EXCEPT ![t] = [on |-> t, depth |-> 1]]
    /\ state' = [state EXCEPT ![t] = "UNSET"]
    /\ next' = [next EXCEPT ![t] = next[task_list]]
    /\ new_task' = t
    /\ stage' = "link"
    /\ UNCHANGED <<cpu, ctx, current_task, task_list, need_reschedule, pic>>

\* Build the TCB and the frame that starts at entry_point with EFLAGS 0x202;
\* the last step reads task_list->next.
CreateTask(t) ==
    /\ InMain("create") /\ t \in todo
    /\ todo' = todo \ {t}
    /\ stack' = [stack EXCEPT ![t] = <<At("task", TRUE)>>]
    /\ esp' = [esp EXCEPT ![t] = [on |-> t, depth |-> 1]]
    /\ state' = [state EXCEPT ![t] = "READY"]
    /\ next' = [next EXCEPT ![t] = next[task_list]]
    /\ new_task' = t
    /\ stage' = "link"
    /\ UNCHANGED <<cpu, ctx, current_task, task_list, need_reschedule, pic>>

\* Mutant: new_task->next = task_list, which forgets the tasks in between.
LinkTask_NextIsHead ==
    /\ InMain("link")
    /\ next' = [next EXCEPT ![task_list] = new_task, ![new_task] = task_list]
    /\ new_task' = NoTask
    /\ stage' = "create"
    /\ UNCHANGED <<cpu, ctx, stack, esp, state, current_task, task_list,
                   need_reschedule, pic, todo>>

\* Mutant: the store that publishes the task is missing.
LinkTask_NotPublished ==
    /\ InMain("link")
    /\ new_task' = NoTask
    /\ stage' = "create"
    /\ UNCHANGED <<cpu, ctx, stack, esp, next, state, current_task, task_list,
                   need_reschedule, pic, todo>>

\* task_list->next = new_task, the store that publishes it.
LinkTask ==
    /\ InMain("link")
    /\ next' = [next EXCEPT ![task_list] = new_task]
    /\ new_task' = NoTask
    /\ stage' = "create"
    /\ UNCHANGED <<cpu, ctx, stack, esp, state, current_task, task_list,
                   need_reschedule, pic, todo>>

----------------------------------------------------------------------------
Init ==
    /\ cpu = Main
    /\ ctx = At("task", TRUE)
    /\ stack = [t \in Tasks |-> <<>>]
    /\ esp = [t \in Tasks |-> NoEsp]
    /\ next = [t \in Tasks |-> NoTask]
    /\ state = [t \in Tasks |-> "NONE"]
    /\ current_task = NoTask
    /\ task_list = NoTask
    /\ need_reschedule = 0
    /\ irr = {} /\ isr = {}
    /\ stage = "tcb"
    /\ todo = Tasks \ {Main}
    /\ new_task = NoTask

Boot ==
    \/ TaskInitTcb \/ TaskInitCurrent \/ TaskInitList \/ LinkTask
    \/ \E t \in Tasks : CreateTask(t) \/ CreateTaskFails(t)

TaskSchedule == ReadCurrent \/ ReadNext \/ StoreCurrent \/ CallSwitch

SwitchToTask == SaveEsp \/ LoadEsp \/ PopContext

Handlers ==
    \/ TimerHandlerMain \/ TestReschedule \/ Irq0Return
    \/ KeyboardHandlerMain \/ Irq1Return

CpuStep == Boot \/ Handlers \/ TaskSchedule \/ SwitchToTask

Next ==
    \/ CpuStep
    \/ Fault
    \/ HltForever
    \/ PitFires
    \/ KeyPress
    \/ \E n \in IRQs : Interrupt(n)

\* The PIT never stops, the CPU executes, and it takes an interrupt that is
\* pending while it has nothing else to do.  No key need ever be pressed.
Fairness ==
    /\ WF_vars(PitFires)
    /\ WF_vars(CpuStep)
    /\ WF_vars(\E n \in IRQs : Interrupt(n))

Spec == Init /\ [][Next]_vars

FairSpec == Spec /\ Fairness

----------------------------------------------------------------------------
TypeOK ==
    /\ cpu \in Tasks
    /\ ctx \in Contexts
    /\ stack \in [Tasks -> Seq(Contexts)]
    /\ esp \in [Tasks -> Esp]
    /\ next \in [Tasks -> TaskOrNull]
    /\ state \in [Tasks -> {"NONE", "READY", "RUNNING"}]
    /\ current_task \in TaskOrNull
    /\ task_list \in TaskOrNull
    /\ need_reschedule \in {0, 1}
    /\ irr \in SUBSET IRQs /\ isr \in SUBSET IRQs
    /\ stage \in {"tcb", "current", "list", "create", "link"}
    /\ todo \in SUBSET Tasks
    /\ new_task \in TaskOrNull

(***************************************************************************)
(* Every task in the run queue that does not have the CPU can be resumed:  *)
(* its esp points to the last context that was saved on its own stack, so  *)
(* task_schedule may switch to it at any time (switch_to_task, task.h:     *)
(* "saved stack pointer").                                                 *)
(***************************************************************************)
Suspended(t) ==
    /\ stack[t] # <<>>
    /\ esp[t] = [on |-> t, depth |-> Len(stack[t])]

SavedContexts ==
    ~Stopped => \A t \in Tasks : Linked(t) /\ t # cpu => Suspended(t)

(***************************************************************************)
(* A switch moves the CPU to the stack of the task it has made current, at *)
(* the depth at which that task was left, and loses no context of any task *)
(* (task.h: "the task resumes exactly where it left off").                 *)
(***************************************************************************)
ResumesWhereItLeftOff ==
    [][ctx.pc = "load" /\ ctx'.pc # "load"
         => ctx'.pc = "irq0" \/ ctx'.pc = "irq1"
            \/ (ctx'.pc = "pop" /\ cpu' = current_task /\ stack' = stack)]_vars

(***************************************************************************)
(* The scheduler and the CPU agree on who is running: except inside the    *)
(* switch itself, the stack in use is that of current_task.                *)
(***************************************************************************)
CpuIsCurrent ==
    current_task # NoTask /\ ~HalfSwitched /\ ~Stopped => cpu = current_task

(***************************************************************************)
(* Interrupts are only ever enabled with every interrupt acknowledged: no  *)
(* handler that lets itself be nested, and no switch to another task in    *)
(* the middle of irq0_handler, leaves the PIC holding off an interrupt.    *)
(***************************************************************************)
EnabledOnlyAfterEoi == ctx.iflag => isr = {}

(***************************************************************************)
(* The reschedule a tick asked for is taken by the handler of that tick:   *)
(* the flag is never left for another context to find.                     *)
(***************************************************************************)
RescheduleTakenAtOnce == ctx.iflag => need_reschedule = 0

(***************************************************************************)
(* The run queue is one cycle through every linked task, at every moment   *)
(* at which an interrupt could walk it, also between the two stores with   *)
(* which create_task links a task in.                                      *)
(***************************************************************************)
RunQueue == {t \in Tasks : Linked(t)}

OneCycle ==
    /\ Main \in RunQueue
    /\ \A t \in RunQueue : next[t] \in RunQueue
    /\ \A S \in SUBSET RunQueue :
            S # {} /\ (\A t \in S : next[t] \in S) => S = RunQueue

RunQueueIsOneCycle == current_task # NoTask => OneCycle

(***************************************************************************)
(* Round robin: whatever nests in task_schedule between its load of        *)
(* current_task and its store, the store advances the run queue by one.    *)
(***************************************************************************)
AdvancesByOne ==
    [][current_task # NoTask /\ current_task' # current_task
         => current_task' = next[current_task]]_vars

(***************************************************************************)
(* Preemption: unless the system halts, every task in the run queue gets   *)
(* the CPU again and again, whatever the other tasks do (timer.c: "every   *)
(* task gets at most 10 ms of CPU before it's forcibly swapped out").      *)
(***************************************************************************)
EveryTaskRuns ==
    \A t \in Tasks : []<>(Linked(t) => cpu = t \/ Stopped)

(***************************************************************************)
(* A tick that is requested is served, unless the system halts.  A second  *)
(* one meanwhile would be the same request, and PitFires does not make it. *)
(***************************************************************************)
TicksAreServed == 0 \in irr ~> (0 \notin irr \/ Stopped)
=============================================================================
