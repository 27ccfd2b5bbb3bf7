# FriscaOS in TLA+

FriscaOS is a 32-bit x86 kernel: a preemptive round-robin scheduler, a physical
memory manager, a heap, identity paging, a RAM file system and a shell that
runs inside the keyboard interrupt. There is one CPU and no lock anywhere.
Everything that is hard in it comes from two interrupt lines that may arrive at
nearly any instruction, and from interrupt handlers that enable interrupts
themselves. The modules here model that code, TLC checks them on small
instances, and TLAPS proves every safety property of them for all values
of the constants.

Paths below are relative to `src/kernel/`.

## Inventory

| component | state | operations | what makes it correct |
|---|---|---|---|
| interrupt entry, PIC (`arch/i386/interrupt.asm`, `idt.c`) | the IDT; the 8259s' base, mask, IRR and ISR; EFLAGS.IF, the contexts on the stacks | `idt_init`, `pic_remap`, `irq0_handler`, `irq1_handler`, `timer_handler_main`, `keyboard_handler_main` | every interrupt that is taken has its handler; interrupts are acknowledged before they are enabled; every interrupt the 8259 has a request for is served |
| scheduler (`task/task.c`, `task_asm.asm`) | `current_task`, `task_list`, `task_t.esp/state/next`, the stacks | `task_init`, `create_task`, `task_schedule`, `switch_to_task` | a task resumes where it was left; round robin; no starvation; the run queue is always one cycle |
| timer (`drivers/timer/timer.c`) | `ticks`, `need_reschedule` | `timer_handler`, `sleep`, `timer_init` | the tick that asks for a reschedule gets it; sleep lasts as asked up to what ticks can count, also when `ticks` wraps |
| physical memory (`memory/pmm.c`) | `pmm_bitmap`, `max_blocks`, `used_blocks` | `pmm_init`, `pmm_alloc_block`, `pmm_free_block`, `pmm_get_free_memory` | no block has two owners; the count matches the bitmap; the first megabyte is never handed out |
| heap (`memory/heap.c`) | the list of headers | `heap_init`, `kmalloc`, `kfree` | payloads are disjoint and inside the heap; no byte is lost; free neighbours are merged; calls return |
| paging (`memory/paging.c`, `paging_asm.asm`) | the directory and four tables, CR3, CR0.PG | `paging_init` | an identity map of 16 MB, in blocks nobody else has |
| file system (`fs/vfs.c`) | `file_table`, `file_count` | `vfs_init`, `vfs_create_file`, `vfs_read_file`, `vfs_list_files` | names are unique; what was written is read back; nobody sees half a file |
| shell (`shell.c`) | `command_buffer`, `buffer_idx` | `shell_input`, the commands | what is run is what was typed, once |
| keyboard (`drivers/keyboard/keyboard.c`) | `shift_pressed`, the controller's data port | `keyboard_handle_interrupt` | keys arrive in order and in the right case |
| console (`drivers/vga/vga.c`) | `row`, `column`, `current_color`, the text buffer | `vga_putchar`, `vga_clear`, scrolling | the cursor stays on the screen |
| boot (`kernel.c`, `kernel_entry.asm`) | how far `kernel_main` is | the initialisers, in order | nothing is used before it is initialised |
| exceptions, panic (`isr.c`, `isr_stub.asm`, `lib/panic.c`) | the frame on the stack | the stubs, `isr_handler`, `page_fault_handler` | the report names the exception and can be read, whatever it interrupts; the system stops |
| strings (`lib/string.c`) and the parser of `shell.c` | the bytes of the line | `strcmp`, `strncmp`, `strcpy`, `strchr`, `memset`, `memcpy`, `print_uint`, `print_hex` | a command runs exactly if it was typed, with the arguments that were typed |
| boot loader, build | none that lasts | | |

How they interact:

- `idt_init` is the *second* thing `kernel_main` does, and it ends in `sti`. The
  timer, the memory manager, the heap, paging, the file system and the scheduler
  are initialised with interrupts on.
- IRQ0: `irq0_handler` calls `timer_handler_main` (ticks, flag, EOI), tests and
  clears the flag, does `sti` and calls `task_schedule`, which may come back
  only when the task is scheduled again.
- IRQ1: `keyboard_handler_main` sends the EOI, does `sti` and calls
  `keyboard_handle_interrupt`, which calls `shell_input`, which on Enter runs a
  whole command. The commands use the memory manager, the heap, the file
  system, the console and `sleep`.
- So a command can interrupt the boot code, a task, another command, or itself,
  and with two tasks two commands can be preempted in favour of each other.

Which behaviours are hard: the switch, which is done in several stores with
interrupts on; nested interrupts; a list (`task_t.next`, the heap's, the file
table) that is walked while it is changed; caches of other state
(`used_blocks`, `need_reschedule`, `file_count`); results that are not checked
(`pmm_alloc_block` in `testmem`, `heap_init` and `paging_init`). `PROJECT.json`
lists them line by line under `hazards`. Nothing is persistent, so there is no
recovery to model, and nothing waits for a lock.

## Modules

| module | what it is |
|---|---|
| `Switching` | the CPU, the PIC, the interrupt entry and exit, the scheduler, and `kernel_main`'s part in it |
| `SwitchingProofs` | its inductive invariants and theorems |
| `BlockPool` | the abstract promise of `pmm.h`: a set of free blocks |
| `Pmm` | the functions of `pmm.c`, as actions on its statics, down to the loads and stores of the bitmap and the count |
| `Paging` | the directory and the tables of `paging.c`, and the walk the CPU makes through them |
| `KernelMemory` | the users of `Pmm` composed: boot (`pmm_init`, `heap_init`, `paging_init`) and `testmem` commands; implements `BlockPool` |
| `KernelMemoryProofs` | its inductive invariant and theorems |
| `Heap` | `heap.c`, node by node, for several callers |
| `HeapProofs` | its inductive invariant and theorems |
| `FileStore` | the abstract promise of `vfs.h`: named files that appear at once and stay |
| `Files` | `vfs.c` with `vfs_init` and the commands `write` and `cat`; implements `FileStore` |
| `FilesProofs` | its inductive invariant and theorems, with those of `Strings` and `CommandLine` |
| `Strings` | `string.c`, function by function, on memory as bytes |
| `CommandLine` | what `execute_command` makes of a line, and the slot of a file of its name |
| `MCFiles` | gives `Files` its names and contents for TLC, those that lines typed at the shell come to, and checks `Strings` and `CommandLine` against what they are for |
| `Interrupts` | the 8259s and the IDT, and what `idt_init` does to them step by step |
| `Timer` | `timer.c` and its callers, from `idt_init` on: ticks, `timer_init`, `sleep`, the background task and `testdelay` |
| `TimerProofs` | its inductive invariant and theorems, with those of `Interrupts` |
| `LineEditor` | the abstract promise of a shell: a line is edited at its end and runs once, as typed |
| `Keyboard` | the keys, their scancodes, and `keyboard.c`'s translation and Shift flag |
| `Shell` | `shell.c` on top of `Keyboard`: the line buffer under nested and preempted handlers; implements `LineEditor` |
| `ShellProofs` | its inductive invariant and theorems |
| `Terminal` | the abstract promise of a text screen: a window on a roll of paper |
| `Exceptions` | the frame an exception leaves, by the CPU and the stub of its vector, and how `isr.c` and `panic.c` read it |
| `Console` | `vga.c`: characters, scrolling and clearing, nested and preempted, and the report of an exception over all of that; implements `Terminal` |
| `ConsoleProofs` | its inductive invariant and theorems, with those of `Exceptions` |
| `StackLemmas` | lemmas on stacks of calls, on finite sets and on induction over numbers, for the proofs above |

Operators whose comment says "mutant" are the code with one plausible bug;
no specification uses them. Each shows that a property notices that bug.

### Switching

A stack is the sequence of the contexts saved on it, an ESP is a stack with a
depth, and `ctx` is the context that executes. A context is a program counter
with IF and the locals of `task_schedule` that live across an interrupt
(`old_task`, the next task, the value of `new_esp`). The program counters name
the points between two accesses to state another context reads, and every such
point is one at which an interrupt may come if IF=1. Code that runs with IF=0 is
one step.

| code | actions |
|---|---|
| the CPU's interrupt entry, the stubs' `pusha` | `Interrupt(n)` |
| `timer_handler_main` with `timer_handler`, both EOIs | `TimerHandlerMain` |
| `irq0_handler`, test of the flag to `sti` | `TestReschedule` |
| `task_schedule` | `ReadCurrent`, `ReadNext`, `StoreCurrent`, `CallSwitch` |
| `switch_to_task` | `SaveEsp`, `LoadEsp`, `PopContext` |
| `irq0_handler`, `cli; popa; iretd` | `Irq0Return` |
| `keyboard_handler_main`; the return from `irq1_handler` | `KeyboardHandlerMain`; `Irq1Return` |
| the commands `crash` and `divzero` | `Fault`, then `HltForever` |
| `task_init`, store by store | `TaskInitTcb`, `TaskInitCurrent`, `TaskInitList` |
| `create_task`; its failing `kmalloc`s; its last store | `CreateTask`; `CreateTaskFails`; `LinkTask` |
| the 8253 and the 8259 (outside the source) | `PitFires`, `KeyPress`, `Deliverable`, `EOI` |

`PitFires` waits while a request is pending: two periods in which no tick can be
taken are one request at the 8259, and `TicksAreServed` is about requests.

`LoadEsp` with an ESP that points to no saved context goes to the context
`"wild"`, from which nothing is claimed. `kernel_main` creates one task; the
model creates any number, because `create_task` is written for that and a run
queue of two would hide what an insertion into a longer one does. What a task
computes is one step, because it changes nothing here.

### KernelMemory, Pmm and Paging

One variable per static of `pmm.c`; block numbers stand for addresses, so that
block 0 and `NULL` coincide as they do in the code. `call[s]` are the calls open on
stack `s`. A step is the code between two accesses to the bitmap or the count, as
the build does them:

| code | actions |
|---|---|
| `pmm_init`: up to the first loop; the second loop | `PmmInitMark`; `PmmInitFree` |
| `pmm_alloc_block`: the quick check, which loads `used_blocks`; the scan; `set_bit`; `used_blocks++`, a store of the value loaded first | `Alloc`; `Scan`; `Mark`; `Count` |
| `pmm_free_block`: the test; `clear_bit`; `used_blocks--` | `Free`; `Unmark`; `Uncount` |
| `heap_init`'s loop | `BootAlloc`, `HeapInit` |
| `paging_init`: the directory; a table; CR3; CR0.PG | `BootAlloc`, `PagingDirectory`; `BootAlloc`, `PagingTable`; `PagingLoad`; `PagingEnable` |
| the command `testmem` | `TestmemAlloc`, `TestmemFree` |

A command nests in any of these steps on the stack that runs; what it interrupts
goes on when it has returned, and finds the count as it left it, because every
command frees what it takes. `QuietPmm` says that the timer does not switch stacks
inside `pmm.c`. When it is FALSE, a stale count or a stale word of the bitmap can be
stored over a newer one: `UsedCountsBits`, `BlocksHaveOneOwner` and `IsBlockPool`
then fail, and would be as many findings of one kind, for which no text of the
repository speaks. `pmm_init` is two steps because interrupts are on while
it runs. `Walk` translates a page the way the CPU does, through what the blocks
hold at that time; a block nobody has written to holds garbage, so an entry that
the code forgets to clear counts.

### Heap

A step is one look at the list: one round of `kmalloc`'s search loop, the header
of the new node, its linking, the claim; the entry of `kfree` and one round of
its merge loop. A caller is one place in the kernel that has at most one pointer
from `kmalloc` at a time: a command, `vfs_create_file`, or `create_task`.
`QuietHeap` says that no call starts while another is inside the heap. When it
is FALSE, the headers that a merge removes stay readable for the other callers,
as the bytes do.

### Files

A step is one look at `file_table` or `file_count`: the check, the allocation,
the copy of the name, the stores to the node, the count; the name, and the rest of a
slot, in `vfs_init`'s loop. The source stores the buffer and then counts the file; the `-O2` build of the
Makefile stores the count first, and since `file_table` and `file_count` are not
`volatile` either is right for the compiler. The model therefore allows both orders.

`Files` sees of a name only which one it is and, in `Stored[n]`, what
`MAX_FILENAME - 1` characters keep of it. Where they come from is in `CommandLine`:
`execute_command` takes bytes, with what an older line left behind the terminator,
and gives the command and its arguments, by calls of `Strings`, whose operators
are the loops of `string.c` as recursive functions. `MCFiles` types lines and uses the
names and contents they come to. `LibraryAgrees` and `LinesParseAsTyped` say nothing of a state,
so they are asked of the first ones only; TLC asks them of short strings over three bytes, and the
proofs of all strings.

Commands run before and inside `vfs_init` too. It drops what they have created,
and clears, the name first, a slot that a command has filled since it set `file_count`
to 0: such a slot stays listed for good, without a name, or without a buffer if the
command came between the stores to that slot. No text says otherwise;
the properties are about what was created behind `vfs_init`'s back or after it.

### Interrupts and Timer

`Interrupts` has no state: it says what a byte sent to an 8259 makes of it, which gates
are there at which step of `idt_init`, and which request the CPU takes. `Timer` has
the state, and the steps:

| code | actions |
|---|---|
| `idt_init`, up to `sti`: the table, each byte to the 8259s, the gates, `lidt`, `sti` | `IdtInit` |
| a device that raises its line meanwhile; the interrupts that are taken at `sti` | `Request`; `Serve` |
| `timer_init`, with the divisor in two bytes; `create_task` | `TimerInit`; `CreateTask` |
| `timer_handler`, the reschedule | `Tick` |
| a key; a key that runs `testdelay` | `Key`; `TestDelay` |
| `background_task` | `BackgroundTask` |
| `sleep`: the conversion and `start_ticks`; the look at `ticks`; `hlt`; the return | `Sleep`; `Check`; `Hlt`; `WakeUp` |

Time is counted in cycles of the PIT. `counted` adds up its countdowns since the call, at
the rate they really have. The first of them began before the call, and the last has ended before
the return, nobody knows by how much, so a sleep has lasted between `AtLeast`, which leaves out
the first, and `AtMost`, which has the first and one more. `SleepsAsAsked` takes the worse end for each of its bounds.
The switch is one step here: how it is
done is the subject of `Switching`. `Due` is what is assumed of the speed of the CPU:
a stack that runs for a tick makes at least one step of `sleep` in these 10 ms.

### Shell and Keyboard

`handler[s]` is the stack of keyboard handlers open on stack `s`; the last one
runs, and the timer may switch stacks between any two steps once `create_task`
has run. A handler begins when it has read its scancode, because the controller
sends no other interrupt before. A step is one access to `command_buffer`,
`buffer_idx` or `shift_pressed`; the build keeps the incremented index in a
register until it stores it.

| code | actions |
|---|---|
| `keyboard_handle_interrupt`: the scancode; Shift; the translation | `Key`; `DecodeShift`; `Decode` |
| `shell_input`, a character: the limit, the two stores | `Type`, `StoreChar`, `StoreCount` |
| `shell_input`, Backspace | `Erase`, `StoreCount` |
| `execute_command`: the empty line and the terminator; the comparisons; the end | `Enter`; `Dispatch`; `Finish` |
| the command `write`: `strchr`, `*space_ptr = '\0'` | `FindSpace`; `Cut` |
| `create_task` and `shell_init` in `kernel_main` | `CreateTask`, `ShellInit` |

The body of a command is only what it does to the line: the rest of it belongs to
the component it calls. What the shell promises of keys that come one after the
other is much more than what it promises of keys that do not, so the auxiliary
variable `apart` records whether a handler has ever run while another one was open.
`EditsLines` and `ShiftFollowsKeys` speak of the first case, `TypeOK` (the index stays in
bounds) and `CommandsFindTheEnd` of every case.

### Console and Exceptions

A write is one call of `vga_putchar` or `vga_clear`; `writer[s]` holds those open on
stack `s`, as `handler[s]` does for the shell. Anybody writes at any time: boot code,
commands, the echo. A step is one access to `row`, `column` or the screen. The build
loads `row` first, stores the incremented `row` *before* it calls `vga_scroll`, and
loads it again behind that call, so another write can see a row below the screen.

| code | actions |
|---|---|
| a call of `vga_putchar` or `vga_clear`, up to the load of `row` | `Call` |
| newline: `column = 0`; `++row == VGA_HEIGHT` | `Newline`; `NextRow` |
| `vga_scroll`: the lines; the row | `ScrollLines`; `ScrollRow`, `ReloadRow` |
| backspace: the position; the blank | `LoadColumn`, `BackColumn`, `BackRow`; `StoreCell` |
| any other character: the cell; `++column == VGA_WIDTH` | `LoadColumn`, `StoreCell`; `Advance`, `NextRow` |
| the port writes | `vga_update_cursor` |
| `vga_clear` | `ClearCells`, `ClearRow`, `ClearColumn` |
| an exception, its stub, the dispatch; the text; the halt | `Raise`; `WriteReport`; `HltForever` |

`overlap` and `before` are auxiliary: whether writes have met so far, on one stack or
on two, and what the screen was when the open one began. `IsTerminal` lets a call take
effect when it returns. `Terminal` counts places, not rows and columns, so that
wrapping, scrolling and the backspace over the start of a line are not defined the way
the code does them. The first part of `ScreenRecovers` needs its hypothesis: with writes on both
stacks a `NextRow` that has loaded a row below the screen can be preempted until the
`vga_scroll` of the other stack has set the row, and then stores the larger one. From
there no `++row` equals `VGA_HEIGHT`, and only `vga_clear` brings the row back. On one stack a row below
the screen is only found by a write on top of a `vga_scroll` or `vga_clear`, and only such a write stores behind
the text buffer, which is the second part. A report
begins with a `vga_clear`, so it can always be read, which is the third; what it says is what
`isr_handler` finds at the places of `registers_t`, so one stub of the wrong kind, which shifts
the frame of one exception by a word, is seen too. (`isr_stub.asm` lists the
exceptions with an error code and leaves out 30, for which it has the right stub.)

## Runs

| run | expected | instance | what it shows |
|---|---|---|---|
| `SwitchingQuiet` | pass, 258 052 states | 3 tasks, nesting 2, no interrupt inside a half-done switch | everything below about the switch, with fairness |
| `SwitchingAnyTime` | pass, 76 956 states | 2 tasks, nesting 2, interrupts anywhere | the PIC protocol, the flag and the run queue survive interrupts inside the switch |
| `SwitchingResume` | violation | the same | finding 1 |
| `KernelMemory` | pass, 116 132 states | 20 blocks, 3 commands deep on each of 2 stacks | ownership, count, contiguity, the identity map, refinement |
| `KernelMemoryEarly` | violation | commands also between the loops of `pmm_init` | finding 2 |
| `Heap` | pass, 64 684 states | 3 callers, sizes 5, 16, 28 in 120 bytes | disjointness, tiling, coalescing, completeness of the search, termination |
| `HeapRace` | violation | 2 callers, one may interrupt the other | finding 3 |
| `Files` | pass, 25 940 states | 3 names, 2 contents, 2 slots, `MAX_FILENAME` 3, 1 write and 2 cats at a time; strings of up to 3 bytes | uniqueness, read-back, complete files, refinement; the string library and the parser |
| `FilesLongNames` | violation | `MAX_FILENAME` 2 | finding 4 |
| `Shell` | pass, 3 653 204 states | a line of 2 characters, 2 handlers open at once on 2 stacks, both Shift keys | the buffer and its index survive any interleaving; refinement for keys apart |
| `Console` | pass, 1 097 349 states | 2 by 2 places, one glyph, 2 writes open at once, 4 exceptions | the column stays on the screen, the row comes back to it, and what is stored behind it till then; a report is seen; refinement for writes that do not meet |
| `Timer` | pass, 423 272 states | 2 frequencies, delays of 5, 15 and 20 ms, a counter modulo 8, 2 keys | interrupts have handlers; by how much a sleep misses what was asked; sleeps end; the background task goes on |

The bounds, and why they are enough:

- `MaxDepth` bounds how deep interrupts nest on one stack. The real bound is the
  4 KB stack. At depth 2 a key nests in a tick and a tick in a key, on each of
  the stacks at once. Three tasks at depth 3 have also been run once, with the
  same result (19.5 million states). Three tasks are the fewest for which the
  next task, the previous one and the head of the list differ. The theorems
  need neither bound.
- With interrupts anywhere, two tasks are enough for the violation; three
  exceed what TLC can exhaust.
- `KernelMemory`: 3 reserved blocks, 9 of the boot and up to 6 of commands make 18 of 20, so
  that memory is never exhausted: in the kernel that would take 3831 nested commands.
  Words of 4 bits put the heap's blocks into two words and let commands
  share a word with each other and with the boot. Three calls open on one stack are a
  command in a command in the boot.
- `Heap`: 12-byte headers and the 16-byte threshold are the code's own, only the
  region is scaled from 16 KB to 120 bytes. The sizes are one that is
  rounded, one for which splitting leaves more than the threshold and one for
  which it may not; three callers fill the region and fragment it. Both an exact
  fit and a refused split occur, as the mutants that change them show.
- `Files`: three names for two slots make the table overflow. The names `x`, `y` and `xy` fit
  into slots of three bytes; in slots of two, `xy` is kept as `x`. One write at a time:
  two that interrupt each other share a slot (see below). The bytes of the strings are a
  space, a letter, and one above 127; three of them make every prefix, first difference and
  empty argument. `INT_MAX` is 2^20 - 1 and the numbers go to twice that: TLC's own integers end where
  an `int` does, and the negative ones must be met. The proofs are for every
  `INT_MAX` up to that of 32 bits.
- `Timer`: the longest wait is 4 ticks, and a stack looks at the counter at least every other
  tick, so a counter modulo 8 wraps in the middle of a sleep and not twice. 100 Hz is what
  `kernel.c` uses, where 5 ms are less than a tick, 15 are one and a half and 20 are two; at 200 Hz
  a sleep is several ticks, and the wrong frequency shows. Modulus 16,
  and 19 Hz, where every delay is less than a tick, have also been run once, with the same
  result. Two keys are two sleeps on top of the background task's, or one on each stack.
  Requests may be pending, when `idt_init` starts or at any step of it, on the two lines the kernel
  listens to and on one of the slave.
- `Shell`: `MAX_COMMAND_LEN` is scaled from 256 to 3. A line then can be empty, half
  full and full, shorter or longer than the one before, and be cut by `write`
  in the middle. Two handlers open at once are the fewest that can interfere, and
  they do so on one stack and across two.
- `Console`: two lines of two places have a first and a last place, line and column; a
  screen of three lines has also been run once, with the same result. `MaxRow` ends
  how far `row` runs away when it is lost; `clear` is possible there too.

### Fairness

`Switching`: the PIT never stops (`WF(PitFires)`), the CPU executes the code it is
in (`WF(CpuStep)`), and an interrupt that stays deliverable is taken
(`WF` of `Interrupt`). No key is ever assumed to be pressed, and no command to
fault. That the handlers come to an end is part of the code modelled, except the
body of a command, which is one step: `sleep` would make it a long one, not an
endless one. `Heap`: a call that has begun goes on; with `QuietHeap` nothing
delays it. `Timer`: the PIT never stops (`WF(Tick)`), and the stack that runs, if not halted, goes
on; no key is assumed. The other runs check safety only. Deadlock is checked everywhere but in
`Files`: a `vfs_init` that other commands have met can leave a full table without a file, and then
every command fails, which is not a step. After a fault the CPU executes `hlt` for ever, which is.

### Findings

1. `SwitchingResume`: `task_schedule` stores `current_task` and `switch_to_task`
   exchanges the stacks later, all with interrupts on. A tick in between runs
   `task_schedule` again: it takes the task that was to run for the one that
   runs, saves the running stack's ESP into the wrong TCB and switches with
   arguments that are stale when control comes back. `task.h` says a task
   "resumes exactly where it left off", and a comment in `task_asm.asm` says
   that no IRQ nests there "in a dangerous way".
2. `KernelMemoryEarly`: a `testmem` between the loops of `pmm_init` is given `NULL`,
   frees it, and so frees block 0 of the reserved megabyte.
3. `HeapRace`: a `kmalloc` that interrupts another between its test of `is_free`
   and its store to it returns the same block.
4. `FilesLongNames`: a name is compared whole and stored cut, so two files can
   have the same name.

Where the code and a text disagree and no run is spent on it: `keyboard.c` says that `shift_pressed` is
1 while either Shift key is held, and one let go clears it although the other is held
(`ShiftFollowsKeys` is what remains true); `timer.h` says that `timer_init` is called before
interrupts are enabled, and it is called after, so that a `testdelay` before it is five times too long
(`SleepsAsAsked` has its upper bound for the others); `timer.h` promises a sleep "for the given number of
milliseconds", but `sleep` cuts them to whole ticks, except that it waits one at least, and the first may come at once, so
that `sleep(15)` at 100 Hz may last no time at all (`SleepsAsAsked` says what a sleep may lack and that it never lacks more);
`vfs_list_files` prints no digit for a file of 2^31 bytes or more, for which the 16 KB of the heap have no room
(`LibraryAgrees`); `isr.c` and `panic.c` print `0x` before numbers to which `print_hex` adds it again.

## Proofs

All proofs are checked to the last leaf, and none uses a bound of the runs. For each
component there is one inductive invariant (two for the switch), defined at the start of its module
of proofs and checked by TLC before it was proved: give TLC that module, the cfg of the component's run
and the invariant (`HeapInv`, `FilesInv`, ...) as an `INVARIANT`. The theorems about properties follow from it.

| module | theorems | hypotheses |
|---|---|---|
| `SwitchingProofs` | `AnyTime`, `TypeCorrect`, `EoiBeforeSti`, `FlagIsConsumed`, `QueueIsOneCycle` | none |
| | `Quiet`, `ContextsAreSaved`, `CpuFollowsCurrent`, `SwitchResumes`, `RoundRobin` | `QuietSwitch` |
| `HeapProofs` | `HeapInvariant`, `TypeCorrect`, `EveryByteHandedOutOnce`, `NoByteIsLost`, `FreeNodesAreMerged`, `NullOnlyIfFull`, `CallsEnd` | `QuietHeap` |
| `KernelMemoryProofs` | `InvIsInvariant`, `TypeCorrect`, `CountIsExact`, `OneOwner`, `HeapBlocksFollow`, `FirstMegabyteStays`, `IdentityIsMapped`, `ImplementsBlockPool` | `QuietPmm`, `QuietInit` |
| `FilesProofs` | `FilesInvariant`, `FilesTypeCorrect`, `NamesStayUnique`, `CreatedReadsBack`, `PrintsOnlyCreated`, `ImplementsFileStore` | `OneWriter`, `NamesFit` |
| | `StrcmpCompares`, `StrncmpCompares`, `StrcpyCopies`, `StrchrFinds`, `NumbersArePrinted`, `LibraryAlwaysAgrees`, `LineIsParsed`, `LinesAlwaysParse` | none |
| `ShellProofs` | `ShellInvariant`, `ShellTypeCorrect`, `EndIsFound`, `ShiftIsFollowed`, `EditsAsTyped` | none |
| `ConsoleProofs` | `ConsoleInvariant`, `ConsoleTypeCorrect`, `ScreenIsRestored`, `ConsoleIsATerminal` | none |
| `TimerProofs` | `TimerInvariant`, `TimerTypeCorrect`, `LinesHaveHandlers` | none |
| | `SleepsOnTime` | `RatesFit` |

The hypotheses are switches of the model, or conditions on constants, and each of
the first kind is something the code does not ensure. For four of them a run shows that the theorem is false
without: `SwitchingResume` (`QuietSwitch`), `KernelMemoryEarly` (`QuietInit`),
`HeapRace` (`QuietHeap`) and `FilesLongNames` (`NamesFit`). For `QuietPmm` and `OneWriter`
see below.

`SwitchingProofs`:

- `AnyTimeInv` (types, `IrqInv`, `BootInv`, `QueueInv`, `CycleInv`) holds *whenever* interrupts
  come, also inside a switch. The properties do not hold by themselves
  inductively, because a step may continue any context on any stack: the
  invariant says of every saved context that it is one with IF=1 outside the
  masked parts of the handlers, and that what it has loaded from the run queue
  is still in the run queue. The lemma behind it is that contexts come from
  somewhere (`FrameComesFrom`): what executes or is saved after a step executed
  or was saved before, or is new.
- That the queue is *one* cycle is stated without walking it: a set of queued tasks
  that `next` does not leave is all of the queue. `create_task`'s last store adds one
  task behind `main_task`, and a set closed under the new pointers is closed
  under the old ones without it (`CycleGrows`).
- `QuietInv` adds `FramesInv`, `SwitchInv`, `CpuInv`, `BottomInv` and `NextInv` and needs
  `QuietSwitch`: no interrupt between the store to `current_task` and the load of
  ESP. No context is then ever saved in the middle of a switch, and
  `old_task` in any context is the task whose stack it is on. For `AdvancesByOne` two more are needed: the
  `next` that a context has loaded is still its task's when it stores it, which `create_task` could
  break, but `create_task` runs on `main_task`'s stack below any handler (`BottomInv`). The hypothesis
  is exactly what a `cli` in `task_schedule` would give.

`HeapProofs`: `HandedOutOnce` speaks of payloads only;
what a step preserves is about nodes: those in the list are disjoint
and inside the region, a `next` is the end of its node (`Tiled`), each
holder has a node of its own that is in use and large enough (`Owned`), and what
a call has found out about the node it looks at is still so (`Inside`), the
new node of a half-done split included, which is no node of the list yet. For what
the list as a whole is there are four more: the last node reaches the end of the region (`Gapless`), a node in use is
somebody's (`AllHeld`), two free neighbours are either what a split has just made or
lie where `kfree`'s loop has still to come (`Merged`), and the free nodes behind the search are too
small (`Searched`). `Nodes`, what a walk from the head reaches, is again the smallest closed set,
and that it is all of the list follows from addresses: the first node a walk would miss has one
before it, the last that starts below it. `CallsEnd` is what of `CallsReturn` needs no fairness: each step
of an open call makes its `Distance` to the return smaller, which starts at no more than
`2 * HeapBytes + 4`. `kmalloc` goes up in addresses, and `kfree`, at a node it has just made larger, comes
closer to the end by where that node ends.

`KernelMemoryProofs`: the invariant describes `pmm.c` before `pmm_init` (`OffInv`), between its
loops (`MarkedInv`) and after (`ReadyInv`), where `kernel_main` is (`StageInv`), and what the
tables hold (`PagingInv`). `ReadyInv` is the part that interrupts make hard: a call holds
a count, or a word of the bitmap, that it loaded before commands nested above it. `CountIsCurrent` and
`WordIsCurrent` say how far such a value is from the static: by the blocks that the calls
above it have taken so far, all of which they give back before it is stored. The lemmas
`CountsStayCurrent` and `MarksStayOwned` do this once for all steps that move the call on top. `QuietPmm`
is needed because a switch inside `pmm.c` would run steps of a stack that is not above. `SizesAssumption` says
that memory is larger than what the boot and the open commands take.

`FilesProofs`: `FilesInv` says of a write under way which of its stores are done and what is in its slot
(`WriteInv`), of a cat that the file it found is still listed under its
name (`CatInv`), and that slots at `file_count` and above are empty or that write's. The
refinement shows a file when both the node and the count are stored, in either order (`CountShows`,
`WriteNodeShows`).

The theorems about `Strings` and `CommandLine`, in the same module, hold for all strings of bytes, all lines and
all numbers of 32 bits. A loop of `string.c` is a recursive function on places in memory, and two things have
to be shown of it. That it *has* the value its equation says: a function that
satisfies the equation is put together from a property of the end of the string (`LoopExists`, and `ByDigitsExists`
for `print_uint` and `FoldExists` for values of digits), since CHOOSE says nothing of one that does not exist. And what
the value is: by induction (`NumbersOneByOne`), which is the least counterexample of a set of numbers and not the library's
induction rule. `Reads(m, s)` says that memory `m` holds string `s`, its NUL and then anything: what an older, longer line left
behind the terminator is no part of any theorem's hypothesis. A comparison stops at the first
place where two strings differ (`FirstDifference`, `SameStart`); a number is printed digit by digit
(`NumbersByDigits`). A line is one of a word, a `cat`, a `write` or nothing (`EveryLine`), and each comparison of
`execute_command` is decided for each kind; the argument of `write` is cut at its first space
(`PlaceOfSpace`, `ReadsCut`, `SplitAtSpace`), which `*space_ptr = '\0'` turns into two strings in one memory.

`ShellProofs`: `LastIsNul` and `StoresFit` hold whatever interrupts what, and give `EndIsFound`; the index a handler
stores may be stale, but is never past the last place. `Alone`, `HandlerInv`, `LineInv` and
`KeysInv` hold while keys are apart and carry the refinement of `LineEditor`.

`ConsoleProofs`: `FramesInv` and `RowInv` hold however writes meet. `RowInv` says why the row comes
back as long as one stack writes: what is off the screen, in `row` or loaded by a write, was put there on top of a write
that is about to set `row`. `WriteInv` says what the only open write has done so far, place by place of its code (`Done`);
`ReportInv` how many characters of a report are on the page. The
refinement counts places, and the code rows and columns: the lemmas `Counting` and
`ScrolledByPlaces` relate them.

`TimerProofs`: `ChipsInv` and `BootInv` follow what each byte of `pic_remap` makes of the 8259s, and which requests
they still hold. For `SleepsOnTime` it is not enough to know how long a call has slept: `OnTimeInv` adds what it
still needs (`Needs`: until its stack runs, makes its step, and comes out of a
`hlt` it was on its way into), and their sum never exceeds three ticks over `ticks_to_wait`. `AtMost` adds the one in which
it returns. `RatesFit` says that
the frequency divides 1000 and is at least 19 Hz, that the cycles which the divisor cuts off add up
to less than a millisecond in one sleep, and that the counter does not wrap within three ticks of its end. At 100 Hz, the only
frequency the kernel sets, that is so for up to 12 seconds; `testdelay` sleeps 2.

The assumptions about constants (`TasksAssumption`, `BytesAssumption`, `SizeAssumption`, ...) are
evaluated by TLC on each run.

Only model-checked: the liveness properties (`EveryTaskRuns`, `TicksAreServed`,
`CallsReturn`, `SleepEnds`), since neither fairness nor ENABLED is in the prover's reach. For `CallsReturn`
the part that needs no fairness is the theorem `CallsEnd`.

## Not modelled, and why

- The bytes of a stack, hence its overflow by nested interrupts, and the halves of an address in a
  gate.
- The wrap of `size + 3` in `kmalloc`: no caller passes such a size.
- The memory behind the text buffer, and what a character stored there does to it.
- A switch of stacks inside `pmm.c` (`QuietPmm`), and two `write`s at once (`OneWriter`): both take
  the slot at `file_count`, and `ReadsBack` and `NamesAreUnique` fail, which `vfs.c`'s "filenames must
  be unique" does not foresee. The hazards list both.
- A command inside `timer_init`, which is one step: what a tick then finds half-set lasts for three
  port writes.
- The keyboard's output buffer while `idt_init` runs, hence the key whose edge ICW1 forgets; and requests
  that vanish, for which the 8259 raises vector 0x27, where there is no gate. Both are hazards
  of hardware.
- Colours, and the four port writes that move the blinking cursor one after the other:
  the next character repairs what a write in between does to it.
- `task_t.state`: it is set by `task_init` and `create_task` and never changed, and
  nothing reads it, although `task.h` says what its values mean.
- In `Shell`, what a command makes of the line: it runs any line as any command, and `CommandLine`
  says which it would be.
- The commands that only print (`help`, `version`, `timer`, `mem`, `ps`), what a command prints,
  and `reboot`, which ends every behaviour.
- Break codes other than those of Shift, and keys without a character: the driver
  ignores them without touching any state.
- The boot loader, the linker script and the Makefile: BIOS calls and
  layout, nothing that interleaves.

## Plan

Done: the switch, the memory manager with its users, the heap, the file system,
the shell with the keyboard and the console, in that order; then the inner steps
of the memory manager with paging, the timer from `idt_init` on, the strings and
the parser, and the exceptions.

The proofs were made in this order too: the switch and the heap first, then the
memory manager, the file system, the shell, the timer and the console, and last the
string library and the parser.

Next: `Terminal`, `LineEditor`, `FileStore` and `BlockPool` have properties of their own that
the refinements carry over, and can be stated as theorems about them; and the longest proofs
(the console's, action by action) can be shortened.
