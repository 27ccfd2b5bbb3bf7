------------------------------- MODULE Shell -------------------------------
(***************************************************************************)
(* The shell, shell.c, under the keyboard driver: the line buffer, and the *)
(* handlers that fill it and run it.  A handler runs with interrupts on    *)
(* and executes the whole command, so a key can interrupt it; what it has  *)
(* interrupted goes on when it returns.  There is one stack for handlers   *)
(* until create_task has run, then two, between which the timer switches.  *)
(*                                                                         *)
(* A step is the code between two accesses to the line or to               *)
(* shift_pressed, as the -O2 build keeps buffer_idx in a register.  A      *)
(* command is what it reads of the line, in one step for the comparisons   *)
(* with the commands' names; what else it does is modelled with the        *)
(* components it calls.                                                    *)
(***************************************************************************)
EXTENDS Keyboard, Integers, Sequences, SequencesExt, FiniteSets

CONSTANTS
    MaxCommandLen,   \* MAX_COMMAND_LEN
    MaxOpen          \* bound: handlers that are open at once

ASSUME LenAssumption == MaxCommandLen \in Nat \ {0, 1}
ASSUME OpenAssumption == MaxOpen \in Nat

VARIABLES
    command_buffer,
    buffer_idx,
    handler,    \* handler[s]: the open handlers on stack s, the last one runs
    stage,      \* how far kernel_main is
    apart       \* auxiliary: no handler has run while another one was open

line == <<command_buffer, buffer_idx>>
vars == <<keyboard, line, handler, stage, apart>>

Stacks == {"main", "background"}
Places == 0 .. MaxCommandLen - 1
NUL    == [key |-> "nul", shift |-> 0]

(***************************************************************************)
(* A handler: first, the scancode it has read.  Inside shell_input, where  *)
(* it is, the character it got, the buffer_idx it has loaded and what its  *)
(* command takes the line to be.                                           *)
(***************************************************************************)
KeyHandler(code) == [pc |-> "decode", code |-> code]

ShellInput(label, c) == [pc |-> label, char |-> c, idx |-> 0, text |-> <<>>]

Idle == \A s \in Stacks : handler[s] = <<>>

Open == Len(handler["main"]) + Len(handler["background"])

At(s, label) == handler[s] # <<>> /\ Last(handler[s]).pc = label

Top(s) == Last(handler[s])

Becomes(s, h) == handler' = [handler EXCEPT ![s] = Append(Front(@), h)]

\* iretd: what was interrupted on this stack goes on.
Return(s) == handler' = [handler EXCEPT ![s] = Front(@)]

----------------------------------------------------------------------------
\* A scancode arrives and its handler has read it from the data port.  The
\* controller sends the next one only then.
Key(s) ==
    /\ s = "background" => stage # "boot"
    /\ Open < MaxOpen
    /\ \E code \in Codes :
          /\ Strike(code)
          /\ handler' = [handler EXCEPT ![s] = Append(@, KeyHandler(code))]
    /\ apart' = (apart /\ Idle)
    /\ UNCHANGED <<shift_pressed, line, stage>>

\* keyboard_handle_interrupt, up to the call of shell_input.
DecodeShift(s) ==
    /\ At(s, "decode") /\ IsShift(Top(s).code)
    /\ SetShift(Top(s).code)
    /\ Return(s)
    /\ UNCHANGED <<held, line, stage, apart>>

Decode(s) ==
    /\ At(s, "decode") /\ ~IsShift(Top(s).code)
    /\ LET key == Top(s).code.key IN
       Becomes(s, CASE key = "enter"     -> ShellInput("enter", NUL)
                    [] key = "backspace" -> ShellInput("erase", NUL)
                    [] OTHER -> ShellInput("type", Character(key, shift_pressed)))
    /\ UNCHANGED <<keyboard, line, stage, apart>>

----------------------------------------------------------------------------
(* shell_input, a character                                                *)

\* There is a place for a character and for the terminator, after a mutant that
\* forgets the terminator.
HasPlace_OneMore == buffer_idx < MaxCommandLen

HasPlace == buffer_idx < MaxCommandLen - 1

\* The line is full, or there is a place.
Type(s) ==
    /\ At(s, "type")
    /\ IF HasPlace
       THEN Becomes(s, [Top(s) EXCEPT !.pc = "char", !.idx = buffer_idx])
       ELSE Return(s)
    /\ UNCHANGED <<keyboard, line, stage, apart>>

StoreChar(s) ==
    /\ At(s, "char")
    /\ command_buffer' = [command_buffer EXCEPT ![Top(s).idx] = Top(s).char]
    /\ Becomes(s, [Top(s) EXCEPT !.pc = "count", !.idx = @ + 1])
    /\ UNCHANGED <<keyboard, buffer_idx, stage, apart>>

\* There is something to erase, after a mutant that does not look.
HasChars_Always == TRUE

HasChars == buffer_idx > 0

\* Backspace.
Erase(s) ==
    /\ At(s, "erase")
    /\ IF HasChars
       THEN Becomes(s, [Top(s) EXCEPT !.pc = "count", !.idx = buffer_idx - 1])
       ELSE Return(s)
    /\ UNCHANGED <<keyboard, line, stage, apart>>

StoreCount(s) ==
    /\ At(s, "count")
    /\ buffer_idx' = Top(s).idx
    /\ Return(s)
    /\ UNCHANGED <<keyboard, command_buffer, stage, apart>>

----------------------------------------------------------------------------
(* execute_command                                                         *)

\* The terminator, after a mutant without it: the line reads up to what it once
\* was.
Terminate_Not == UNCHANGED command_buffer

Terminate == command_buffer' = [command_buffer EXCEPT ![buffer_idx] = NUL]

\* The empty line, or the terminator.
Enter(s) ==
    /\ At(s, "enter")
    /\ IF buffer_idx = 0
       THEN Return(s) /\ UNCHANGED line
       ELSE /\ Terminate
            /\ Becomes(s, [Top(s) EXCEPT !.pc = "dispatch"])
            /\ UNCHANGED buffer_idx
    /\ UNCHANGED <<keyboard, stage, apart>>

\* Where the string in the buffer ends.
Terminated == \E i \in Places : command_buffer[i] = NUL

End == CHOOSE i \in Places :
           /\ command_buffer[i] = NUL
           /\ \A j \in Places : j < i => command_buffer[j] # NUL

Text == [i \in 1 .. End |-> command_buffer[i - 1]]

\* The comparisons with the names of the commands.
Dispatch(s) ==
    /\ At(s, "dispatch") /\ Terminated
    /\ Becomes(s, [Top(s) EXCEPT !.pc = "run", !.text = Text])
    /\ UNCHANGED <<keyboard, line, stage, apart>>

\* write looks for the space behind the file name, and puts a terminator there.
FindSpace(s) ==
    /\ At(s, "run") /\ Terminated
    /\ \E i \in Places :
          /\ command_buffer[i].key = "space" /\ i < End
          /\ Becomes(s, [Top(s) EXCEPT !.pc = "cut", !.idx = i])
    /\ UNCHANGED <<keyboard, line, stage, apart>>

Cut(s) ==
    /\ At(s, "cut")
    /\ command_buffer' = [command_buffer EXCEPT ![Top(s).idx] = NUL]
    /\ Becomes(s, [Top(s) EXCEPT !.pc = "done"])
    /\ UNCHANGED <<keyboard, buffer_idx, stage, apart>>

\* The command has run.
Finish(s) ==
    /\ At(s, "run") \/ At(s, "done")
    /\ buffer_idx' = 0
    /\ Return(s)
    /\ UNCHANGED <<keyboard, command_buffer, stage, apart>>

----------------------------------------------------------------------------
\* kernel_main: create_task, which makes the second stack, and shell_init.
CreateTask ==
    /\ stage = "boot" /\ handler["main"] = <<>>
    /\ stage' = "tasks"
    /\ UNCHANGED <<keyboard, line, handler, apart>>

ShellInit ==
    /\ stage = "tasks" /\ handler["main"] = <<>>
    /\ buffer_idx' = 0
    /\ stage' = "ready"
    /\ apart' = (apart /\ Idle)
    /\ UNCHANGED <<keyboard, command_buffer, handler>>

Init ==
    /\ held = {} /\ shift_pressed = 0
    /\ command_buffer = [i \in Places |-> NUL]
    /\ buffer_idx = 0
    /\ handler = [s \in Stacks |-> <<>>]
    /\ stage = "boot"
    /\ apart = TRUE

Handler(s) ==
    \/ DecodeShift(s) \/ Decode(s)
    \/ Type(s) \/ StoreChar(s) \/ Erase(s) \/ StoreCount(s)
    \/ Enter(s) \/ Dispatch(s) \/ FindSpace(s) \/ Cut(s) \/ Finish(s)

Next ==
    \/ \E s \in Stacks : Key(s) \/ Handler(s)
    \/ CreateTask \/ ShellInit

Spec == Init /\ [][Next]_vars

----------------------------------------------------------------------------
Labels == {"type", "char", "erase", "count", "enter", "dispatch", "run", "cut", "done"}

Handlers ==
    [pc : {"decode"}, code : Codes]
        \cup [pc : Labels, char : Characters \cup {NUL}, idx : Places,
              text : Seq(Characters)]

TypeOK ==
    /\ held \in SUBSET ShiftKeys /\ shift_pressed \in {0, 1}
    /\ command_buffer \in [Places -> Characters \cup {NUL}]
    /\ buffer_idx \in Places
    /\ handler \in [Stacks -> Seq(Handlers)]
    /\ stage \in {"boot", "tasks", "ready"}
    /\ apart \in BOOLEAN

(***************************************************************************)
(* However handlers nest and preempt each other, the string a command      *)
(* reads ends inside the buffer.                                           *)
(***************************************************************************)
CommandsFindTheEnd ==
    \A s \in Stacks : At(s, "dispatch") \/ At(s, "run") => Terminated

(***************************************************************************)
(* As long as no key is struck while another one is being handled, the     *)
(* shell is a LineEditor: commands run as they were typed, once, from      *)
(* their first character, whatever was in the buffer before them.          *)
(***************************************************************************)
Running ==
    {s \in Stacks : At(s, "run") \/ At(s, "cut") \/ At(s, "done")}

TypedLine ==
    IF Running # {} THEN <<>> ELSE [i \in 1 .. buffer_idx |-> command_buffer[i - 1]]

RunningLine ==
    IF Running = {} THEN <<>> ELSE Top(CHOOSE s \in Running : TRUE).text

Editor == INSTANCE LineEditor WITH
    MaxLine <- MaxCommandLen - 1, line <- TypedLine, running <- RunningLine

EditsLines ==
    Editor!Init /\ [][apart' => [Editor!Next]_(Editor!vars)]_vars

(***************************************************************************)
(* As long as keys do not overtake each other, shift_pressed is 0 when no  *)
(* Shift key is held and 1 when all are, whatever was held before.  When   *)
(* one of two is let go, the driver takes both for released: keyboard.c    *)
(* says "1 = shift is held (either left or right)", which is not so then.  *)
(***************************************************************************)
ShiftFollowsKeys ==
    apart /\ Idle =>
        /\ held = {} => shift_pressed = 0
        /\ held = ShiftKeys => shift_pressed = 1
=============================================================================
