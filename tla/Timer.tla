-------------------------------- MODULE Timer --------------------------------
(***************************************************************************)
(* The tick counter and sleep, timer.c, with who calls it: the background  *)
(* task, and the command testdelay of the shell, in the keyboard           *)
(* interrupt.  It begins where idt_init connects the lines with their      *)
(* handlers, so that what keeps a tick from the CPU is part of it.         *)
(*                                                                         *)
(* A tick wakes the CPU from hlt and switches to the other stack, once the *)
(* background task exists.  A key wakes it too, and may start another      *)
(* sleep on top of the one it interrupts, which then waits for it.         *)
(*                                                                         *)
(* A tick is longer than a few instructions: when it ends, the stack that  *)
(* runs has made a step, if it had one to make.  That is all that is       *)
(* assumed of the speed of the CPU, so a tick may come between the look at *)
(* the counter and hlt.  Time is counted in cycles of the PIT's clock; of  *)
(* the tick in which a sleep begins, and of that in which it ends, nobody  *)
(* knows how much is left, so its length is known up to two ticks.         *)
(***************************************************************************)
EXTENDS Interrupts, SequencesExt

CONSTANTS
    Frequencies,    \* what timer_init may be called with; kernel.c: 100
    Delays,         \* the milliseconds a command sleeps; shell.c: 2000
    Pause,          \* the milliseconds the background task sleeps; kernel.c: 500
    Modulus,        \* 2^32, where ticks wraps
    Devices,        \* the lines that may be raised before sti
    MaxKeys,        \* bound: keys that are pressed
    MaxNested       \* bound: sleeps open at once on one stack

ASSUME ModulusAssumption == Modulus \in Nat \ {0}
ASSUME FrequenciesAssumption == Frequencies \subseteq 1 .. 1000
ASSUME DelaysAssumption == Delays \subseteq Nat /\ Pause \in Nat
\* ticks and the arguments of sleep are of one type, so the ticks of a sleep fit.
ASSUME TicksAssumption ==
    /\ Modulus > 1
    /\ \A ms \in Delays \cup {Pause}, frequency \in Frequencies \cup {100} :
          ms \div (1000 \div frequency) < Modulus
ASSUME DevicesAssumption == Devices \subseteq Lines
ASSUME KeysAssumption == MaxKeys \in Nat /\ MaxNested \in Nat

VARIABLES
    step,       \* the step of idt_init that comes next; LastStep + 1 after sti
    pics,       \* the 8259s
    ticks, target_freq,
    reload,     \* what the PIT counts down from, in cycles
    boot,       \* how far kernel_main is: "idt" comes next, "timer", "task", "idle";
                \* "stopped" by an interrupt without a handler
    running,    \* the stack the CPU is on
    sleeps,     \* sleeps[s]: the calls of sleep open on stack s
    ran,        \* the stack that runs has made a step in this tick
    keys

lines == <<step, pics>>

vars == <<lines, ticks, target_freq, reload, boot, running, sleeps, ran, keys>>

PIT_BASE_FREQUENCY == 1193182

MaxReload == 65536      \* 16 bits, and 0 stands for 2^16

Stacks == {"main", "background"}

Other(s) == IF s = "main" THEN "background" ELSE "main"

Now == sleeps[running]

Top == Last(Now)

Goes(pc) == sleeps' = [sleeps EXCEPT ![running] = Append(Front(@), [Top EXCEPT !.pc = pc])]

----------------------------------------------------------------------------
(* Up to sti, with interrupts off.                                         *)

IdtInit ==
    /\ boot = "idt"
    /\ pics' = AfterStep(step, pics)
    /\ step' = step + 1
    /\ boot' = IF step = LastStep THEN "timer" ELSE boot
    /\ UNCHANGED <<ticks, target_freq, reload, running, sleeps, ran, keys>>

\* A device requests an interrupt, at most once until it is heard.
Request ==
    /\ boot = "idt"
    /\ \E line \in Devices : pics' = Requests(pics, line)
    /\ UNCHANGED <<step, ticks, target_freq, reload, boot, running, sleeps, ran, keys>>

\* What was requested by then is served at once.  A vector without a gate, or
\* with that of an exception, ends in isr_handler, which halts.
Serve ==
    /\ boot # "idt" /\ Pending(pics) # {}
    /\ LET line == Highest(pics)
       IN  /\ pics' = Acknowledged(pics, line)
           /\ CASE Handler(step, pics, line) = "irq0_handler" ->
                       ticks' = (ticks + 1) % Modulus /\ UNCHANGED boot
                [] Handler(step, pics, line) = "irq1_handler" -> UNCHANGED <<ticks, boot>>
                [] OTHER -> boot' = "stopped" /\ UNCHANGED ticks
    /\ UNCHANGED <<step, target_freq, reload, running, sleeps, ran, keys>>

\* A line that is raised from then on is heard by its handler.
Heard(line, handler) ==
    /\ boot \notin {"idt", "stopped"} /\ Pending(pics) = {}
    /\ Unmasked(pics, line) /\ Handler(step, pics, line) = handler
    /\ UNCHANGED lines

----------------------------------------------------------------------------
(* timer_init                                                              *)

\* What the PIT makes of the two bytes it is sent, low byte first.
Count(low, high) == IF low + 256 * high = 0 THEN MaxReload ELSE low + 256 * high

\* The divisor in two bytes.
Send(divisor) == Count(divisor % 256, (divisor \div 256) % 256)

\* kernel_main goes on when what interrupted it has returned.
InMain == running = "main" /\ sleeps["main"] = <<>> /\ Pending(pics) = {}

TimerInit ==
    /\ boot = "timer" /\ InMain
    /\ \E frequency \in Frequencies :
          /\ target_freq' = frequency
          /\ reload' = Send(PIT_BASE_FREQUENCY \div frequency)
    /\ boot' = "task"
    /\ UNCHANGED <<lines, ticks, running, sleeps, ran, keys>>

CreateTask ==
    /\ boot = "task" /\ InMain
    /\ boot' = "idle"
    /\ UNCHANGED <<lines, ticks, target_freq, reload, running, sleeps, ran, keys>>

\* Times, in thousandths of a cycle: a call asks for Asked, and a tick lasts a
\* Period, if the PIT runs at the rate the conversion assumes.
Asked(call) == call.ms * PIT_BASE_FREQUENCY

Period == 1000 * (PIT_BASE_FREQUENCY \div target_freq)

\* A call has lasted this long at least: the first tick may have been about to come.
AtLeast(call) == 1000 * (call.counted - reload)

\* And no longer than this: it may have begun just behind a tick, and the next
\* may be about to come.
AtMost(call) == AtLeast(call) + 2 * Period

Longer(a, b) == IF a > b THEN a ELSE b

\* Longer than a sleep may last, SleepsAsAsked below.
TooLong(call) == AtMost(call) > Longer(Asked(call), Period) + 4 * Period

\* What a sleep may lack: the first tick, the milliseconds over whole ticks, and
\* one more for the cycles cut from the divisor.
Lacks(call) ==
    Period + ((call.ms % (1000 \div target_freq)) + 1) * PIT_BASE_FREQUENCY

----------------------------------------------------------------------------
(* The interrupts                                                          *)

\* Whether the stack that runs has a step of sleep to make, or the background
\* task the next call of it.
AtWork == IF Now = <<>> THEN running = "background" ELSE Top.pc # "halted"

\* hlt is over, for the call that was in it.
Woken(call) == IF call.pc = "halted" THEN [call EXCEPT !.pc = "check"] ELSE call

\* The PIT's next interrupt does not find the stack before its first step.
Due == AtWork => ran

\* The PIT has counted down once more since the call; the first of these
\* countdowns began before it.  Those beyond a sleep that is too long are not added.
Counts(call) == IF TooLong(call) THEN call ELSE [call EXCEPT !.counted = @ + reload]

\* timer_handler, and the switch to the other task that irq0_handler makes.
Tick ==
    /\ Due /\ Heard(0, "irq0_handler")
    /\ ticks' = (ticks + 1) % Modulus
    /\ running' = IF boot = "idle" THEN Other(running) ELSE running
    /\ sleeps' = [s \in Stacks |->
          [i \in DOMAIN sleeps[s] |-> Counts(Woken(sleeps[s][i]))]]
    /\ ran' = FALSE
    /\ UNCHANGED <<target_freq, reload, boot, keys>>

\* A mutant of the conversion, without its minimum, and the conversion.
ToTicks_MayBeZero(ms) == ms \div (1000 \div target_freq)

ToTicks(ms) ==
    LET ticks_to_wait == ms \div (1000 \div target_freq)
    IN  IF ticks_to_wait = 0 THEN 1 ELSE ticks_to_wait

\* A key that runs no command, or none that sleeps: it ends hlt.
Key ==
    /\ keys < MaxKeys /\ Heard(1, "irq1_handler")
    /\ keys' = keys + 1
    /\ sleeps' = [sleeps EXCEPT ![running] =
                      [i \in DOMAIN @ |-> Woken(@[i])]]
    /\ UNCHANGED <<ticks, target_freq, reload, boot, running, ran>>

\* A call of sleep, up to its loop, on top of what the stack is at.
Sleep(ms) ==
    sleeps' = [sleeps EXCEPT ![running] =
          Append([i \in DOMAIN @ |-> [Woken(@[i]) EXCEPT !.alone = FALSE]],
                 [ms |-> ms, ticks_to_wait |-> ToTicks(ms), start_ticks |-> ticks,
                  pc |-> "check", counted |-> 0, alone |-> TRUE,
                  set |-> boot # "timer"])]

\* A key that runs testdelay.
TestDelay ==
    /\ keys < MaxKeys /\ Len(Now) < MaxNested /\ Heard(1, "irq1_handler")
    /\ \E ms \in Delays : Sleep(ms)
    /\ keys' = keys + 1
    /\ UNCHANGED <<ticks, target_freq, reload, boot, running, ran>>

----------------------------------------------------------------------------
(* sleep                                                                   *)

Since(call) == (ticks - call.start_ticks) % Modulus

Elapsed == Since(Top)

\* The loop's condition, after two mutants: one compares with the tick to
\* wake at, which may be behind the wrap, one waits for that very tick.
Waits_ForTime == ticks < (Top.start_ticks + Top.ticks_to_wait) % Modulus

Waits_ForEqual == Elapsed # Top.ticks_to_wait

Waits == Elapsed < Top.ticks_to_wait

Step ==
    /\ AtWork
    /\ ran' = TRUE
    /\ UNCHANGED <<lines, ticks, target_freq, reload, boot, running, keys>>

\* background_task calls sleep, and again when that returns.
BackgroundTask ==
    /\ Step
    /\ Now = <<>>
    /\ Sleep(Pause)

Check ==
    /\ Step /\ Now # <<>>
    /\ Top.pc = "check" /\ Waits
    /\ Goes("hlt")

Hlt ==
    /\ Step /\ Now # <<>>
    /\ Top.pc = "hlt"
    /\ Goes("halted")

WakeUp ==
    /\ Step /\ Now # <<>>
    /\ Top.pc = "check" /\ ~Waits
    /\ sleeps' = [sleeps EXCEPT ![running] = Front(@)]

\* kernel_main calls idt_init.
Init ==
    /\ step = 0
    /\ pics = BiosPics
    /\ ticks = 0
    /\ target_freq = 100
    /\ reload = MaxReload    \* as the BIOS left it
    /\ boot = "idt"
    /\ running = "main"
    /\ sleeps = [s \in Stacks |-> <<>>]
    /\ ran = FALSE
    /\ keys = 0

Next ==
    \/ IdtInit \/ Request \/ Serve \/ TimerInit \/ CreateTask
    \/ Tick \/ Key \/ TestDelay
    \/ BackgroundTask \/ Check \/ Hlt \/ WakeUp

\* The PIT runs, and so does the CPU when it is not halted.
Fairness ==
    /\ WF_vars(Tick)
    /\ WF_vars(IdtInit \/ Serve \/ TimerInit \/ CreateTask
                  \/ BackgroundTask \/ Check \/ Hlt \/ WakeUp)

Spec == Init /\ [][Next]_vars /\ Fairness

----------------------------------------------------------------------------
CallType ==
    [ms : Delays \cup {Pause}, ticks_to_wait : 1 .. Modulus - 1, start_ticks : 0 .. Modulus - 1,
     pc : {"check", "hlt", "halted"}, counted : Nat, alone : BOOLEAN,
     set : BOOLEAN]

PicType ==
    [due : {0, 2, 3, 4}, base : {8, 112, 32, 40},
     imr : SUBSET (0 .. 7), irr : SUBSET (0 .. 7)]

\* A sleep of no ticks is not one (timer.c: "we still wait one tick").
TypeOK ==
    /\ step \in 0 .. LastStep + 1
    /\ pics \in [{"master", "slave"} -> PicType]
    /\ ticks \in 0 .. Modulus - 1
    /\ target_freq \in Frequencies \cup {100}
    /\ reload \in 1 .. MaxReload
    /\ boot \in {"idt", "timer", "task", "idle", "stopped"}
    /\ running \in Stacks
    /\ sleeps \in [Stacks -> Seq(CallType)]
    /\ ran \in BOOLEAN
    /\ keys \in 0 .. MaxKeys

(***************************************************************************)
(* Whatever was requested before, and whenever during idt_init, no         *)
(* interrupt is taken that has no handler, and none but the timer's and    *)
(* the keyboard's (idt.c: "so hardware IRQs don't clash with CPU           *)
(* exceptions").                                                           *)
(***************************************************************************)
InterruptsHaveHandlers ==
    boot # "idt" => \A line \in Lines :
        line % 8 \in pics[Chip(line)].irr =>
            \/ ~Unmasked(pics, line)
            \/ <<line, Handler(step, pics, line)>> \in
                   {<<0, "irq0_handler">>, <<1, "irq1_handler">>}

(***************************************************************************)
(* timer.h promises a sleep "for the given number of milliseconds".  What   *)
(* it really lasts may be less: by a tick, since the first may come at     *)
(* once, by the milliseconds that are cut to make whole ticks, and by      *)
(* another for what timer_init's division cuts.  sleep(15) at 100 Hz may   *)
(* last no time at all, sleep(20) about 10 ms.  It never lacks more, also  *)
(* where the counter wraps while it sleeps and whatever wakes it.  It ends *)
(* less than four ticks after that time or one tick, if no other sleep     *)
(* interrupts it and the PIT runs at the rate the conversion assumes, also *)
(* when it halts just after the tick it waits for and when it has every    *)
(* other tick of the CPU only.                                             *)
(***************************************************************************)
SleepsAsAsked ==
    [][WakeUp => /\ AtLeast(Top) + Lacks(Top) > Asked(Top)
                 /\ Top.alone /\ Top.set => ~TooLong(Top)]_vars

(***************************************************************************)
(* Every sleep ends (timer.c: the loop "works correctly even if ticks      *)
(* wraps around"), and the background task, whose counter the command ps   *)
(* shows, never stops calling it.                                          *)
(***************************************************************************)
SleepEnds ==
    /\ \A s \in Stacks : sleeps[s] # <<>> ~> sleeps[s] = <<>>
    /\ []<><<BackgroundTask>>_vars
=============================================================================
