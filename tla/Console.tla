------------------------------ MODULE Console ------------------------------
(***************************************************************************)
(* The console, vga.c.  Everybody writes: the boot code, commands, and the *)
(* echo of the keys, all with interrupts on, so a write may interrupt      *)
(* another one on its stack or be preempted by one on the other stack.     *)
(*                                                                         *)
(* A step is the code between two accesses to row, column or the screen,   *)
(* in the order in which the -O2 build does them; the loops over the       *)
(* screen are one step.  Colours are left out.                             *)
(*                                                                         *)
(* An exception may come at any point; what it reports, isr.c and panic.c, *)
(* is written with interrupts off, over whatever was half-done.            *)
(***************************************************************************)
EXTENDS Exceptions, SequencesExt, TLC

CONSTANTS
    Width, Height,   \* VGA_WIDTH, VGA_HEIGHT
    Glyphs,          \* characters that are written as they are
    Blank,
    Raised,          \* the exceptions that may be raised
    MaxOpen,         \* bound: writes that are open at once
    MaxRow           \* bound: how far row runs away

ASSUME SizeAssumption == Width \in Nat \ {0, 1} /\ Height \in Nat \ {0, 1}
ASSUME BlankAssumption == Blank \notin Glyphs
ASSUME RaisedAssumption == Raised \subseteq Vectors
ASSUME BoundAssumption == MaxOpen \in Nat /\ MaxRow \in Nat

VARIABLES
    buffer,          \* the part of VGA_MEMORY that is seen
    row, column,
    cursor,          \* the CRT controller's cursor location
    writer,          \* writer[s]: the open writes on stack s, the last one runs
    left,            \* what is left to write of a report
    raised,          \* the exceptions that have been raised: one at most
    overlap,         \* auxiliary: how writes have met so far
    before           \* auxiliary: the screen when the only open write began

screen == <<buffer, row, column, cursor>>
fault == <<left, raised>>
vars == <<screen, writer, fault, overlap, before>>

Stacks  == {"main", "background"}
Cells   == Width * Height
Places  == 0 .. Cells - 1

\* What can be seen, besides Blank.
Marks == Glyphs \cup {ToString(n) : n \in Vectors \cup {ErrorCode}}

Controls == {"newline", "backspace", "clear"}

ASSUME MarksAssumption == Marks \cap Controls = {}

vga_get_index(x, y) == y * Width + x

At(s, label) == writer[s] # <<>> /\ Last(writer[s]).pc = label

Top(s) == Last(writer[s])

Becomes(s, w) == writer' = [writer EXCEPT ![s] = Append(Front(@), w)]

Goto(s, label) == Becomes(s, [Top(s) EXCEPT !.pc = label])

Return(s) == writer' = [writer EXCEPT ![s] = Front(@)]

Idle == \A s \in Stacks : writer[s] = <<>>

----------------------------------------------------------------------------
\* What is asked of the console: a character, or to clear the screen.
Chars == Glyphs \cup {"newline", "backspace"}

Label(c) == IF c \in {"newline", "clear"} THEN c ELSE "column"

\* The call's own record; vga_putchar has loaded row.
Entered(c) == [pc |-> Label(c), char |-> c, row |-> row, column |-> 0]

\* vga_putchar or vga_clear is called.
Call(s) ==
    /\ raised = {}
    /\ Len(writer["main"]) + Len(writer["background"]) < MaxOpen
    /\ \E c \in Chars \cup {"clear"} :
          /\ c = "clear" \/ row < MaxRow
          /\ writer' = [writer EXCEPT ![s] = Append(@, Entered(c))]
    /\ overlap' = IF Idle THEN overlap
                  ELSE IF \A t \in Stacks \ {s} : writer[t] = <<>>
                       THEN IF overlap = "none" THEN "nested" ELSE overlap
                       ELSE "preempted"
    /\ before' = IF overlap' = "none" THEN screen ELSE <<>>
    /\ UNCHANGED <<screen, fault>>

Step == UNCHANGED <<fault, overlap, before>>

\* Mutant: the line goes on where it was.
Newline_ColumnKept(s) ==
    /\ At(s, "newline")
    /\ Goto(s, "row")
    /\ UNCHANGED screen /\ Step

Newline(s) ==
    /\ At(s, "newline")
    /\ column' = 0
    /\ Goto(s, "row")
    /\ UNCHANGED <<buffer, row, cursor>> /\ Step

\* vga_update_cursor follows, except after a newline.
Finish(s, w) ==
    IF w.char = "newline" THEN Return(s) ELSE Becomes(s, [w EXCEPT !.pc = "cursor"])

\* ++row == VGA_HEIGHT
NextRow(s) ==
    /\ At(s, "row")
    /\ LET y == Top(s).row + 1 IN
       /\ row' = y
       /\ IF y = Height
          THEN Goto(s, "scroll")
          ELSE Finish(s, [Top(s) EXCEPT !.row = y])
    /\ UNCHANGED <<buffer, column, cursor>> /\ Step

Scrolled(text) ==
    [i \in Places |-> IF i \div Width < Height - 1 THEN text[i + Width] ELSE Blank]

\* vga_scroll: the lines move up, the last one is cleared, row is set.
ScrollLines(s) ==
    /\ At(s, "scroll")
    /\ buffer' = Scrolled(buffer)
    /\ Goto(s, "lastrow")
    /\ UNCHANGED <<row, column, cursor>> /\ Step

\* Mutant: the row is left to whoever has changed it meanwhile.
ScrollRow_Decrement(s) ==
    /\ At(s, "lastrow")
    /\ row' = row - 1
    /\ IF Top(s).char = "newline" THEN Return(s) ELSE Goto(s, "reload")
    /\ UNCHANGED <<buffer, column, cursor>> /\ Step

ScrollRow(s) ==
    /\ At(s, "lastrow")
    /\ row' = Height - 1
    /\ IF Top(s).char = "newline" THEN Return(s) ELSE Goto(s, "reload")
    /\ UNCHANGED <<buffer, column, cursor>> /\ Step

\* row is loaded again behind the call of vga_scroll.
ReloadRow(s) ==
    /\ At(s, "reload")
    /\ Becomes(s, [Top(s) EXCEPT !.pc = "cursor", !.row = row])
    /\ UNCHANGED screen /\ Step

----------------------------------------------------------------------------
\* A backspace or a glyph: column is loaded.
LoadColumn(s) ==
    /\ At(s, "column")
    /\ Becomes(s, [Top(s) EXCEPT !.column = column,
           !.pc = IF Top(s).char = "backspace" THEN "back" ELSE "cell"])
    /\ UNCHANGED screen /\ Step

\* One place back, unless it is the first one of the line.
BackColumn(s) ==
    /\ At(s, "back")
    /\ LET w == Top(s) IN
       CASE w.column > 0 ->
              /\ column' = w.column - 1
              /\ Becomes(s, [w EXCEPT !.pc = "cell", !.column = @ - 1])
         [] w.column = 0 /\ w.row > 0 ->
              /\ column' = Width - 1
              /\ Becomes(s, [w EXCEPT !.pc = "backrow",
                                      !.column = Width - 1, !.row = @ - 1])
         [] OTHER -> Goto(s, "cell") /\ UNCHANGED column
    /\ UNCHANGED <<buffer, row, cursor>> /\ Step

BackRow(s) ==
    /\ At(s, "backrow")
    /\ row' = Top(s).row
    /\ Goto(s, "cell")
    /\ UNCHANGED <<buffer, column, cursor>> /\ Step

\* A store below the screen is behind the text buffer, in memory that is not modelled;
\* ScreenRecovers says when there is one.
StoreCell(s) ==
    /\ At(s, "cell")
    /\ LET w == Top(s)
           i == vga_get_index(w.column, w.row)
           c == IF w.char = "backspace" THEN Blank ELSE w.char
       IN  buffer' = IF i \in Places THEN [buffer EXCEPT ![i] = c] ELSE buffer
    /\ Goto(s, IF Top(s).char = "backspace" THEN "cursor" ELSE "advance")
    /\ UNCHANGED <<row, column, cursor>> /\ Step

\* Mutant: the line is one place too long.
Advance_Late(s) ==
    /\ At(s, "advance")
    /\ LET x == Top(s).column + 1 IN
       /\ column' = IF x > Width THEN 0 ELSE x
       /\ Becomes(s, [Top(s) EXCEPT !.column = column',
                                    !.pc = IF x > Width THEN "row" ELSE "cursor"])
    /\ UNCHANGED <<buffer, row, cursor>> /\ Step

\* ++column == VGA_WIDTH
Advance(s) ==
    /\ At(s, "advance")
    /\ LET x == Top(s).column + 1 IN
       /\ column' = IF x = Width THEN 0 ELSE x
       /\ Becomes(s, [Top(s) EXCEPT !.column = column',
                                    !.pc = IF x = Width THEN "row" ELSE "cursor"])
    /\ UNCHANGED <<buffer, row, cursor>> /\ Step

vga_update_cursor(s) ==
    /\ At(s, "cursor")
    /\ cursor' = vga_get_index(Top(s).column, Top(s).row)
    /\ Return(s)
    /\ UNCHANGED <<buffer, row, column>> /\ Step

----------------------------------------------------------------------------
(* vga_clear                                                               *)

ClearCells(s) ==
    /\ At(s, "clear")
    /\ buffer' = [i \in Places |-> Blank]
    /\ Goto(s, "home")
    /\ UNCHANGED <<row, column, cursor>> /\ Step

ClearRow(s) ==
    /\ At(s, "home")
    /\ row' = 0
    /\ Goto(s, "left")
    /\ UNCHANGED <<buffer, column, cursor>> /\ Step

ClearColumn(s) ==
    /\ At(s, "left")
    /\ column' = 0
    /\ Return(s)
    /\ overlap' = IF overlap = "fault" THEN "none" ELSE overlap
    /\ UNCHANGED <<buffer, row, cursor, fault, before>>

----------------------------------------------------------------------------
(* isr_handler and page_fault_handler                                      *)

\* The banner and the rest of the text are left out, and a number is one glyph:
\* the report is a line with the exception's and one with the error code's.
Message(report) ==
    <<ToString(report.exception), "newline", ToString(report.error)>>

\* An exception, up to the call of vga_clear.  Nothing it interrupts goes
\* on, on whichever stack, and from here on there is no other.
Raise ==
    /\ raised = {}
    /\ \E vector \in Raised :
          /\ raised' = {vector}
          /\ left' = Message(isr_handler(registers_t(vector)))
    /\ writer' = [s \in Stacks |-> IF s = "main" THEN <<Entered("clear")>> ELSE <<>>]
    /\ overlap' = "fault" /\ before' = <<>>
    /\ UNCHANGED screen

WriteReport ==
    /\ Idle /\ left # <<>>
    /\ writer' = [writer EXCEPT !["main"] = <<Entered(Head(left))>>]
    /\ left' = Tail(left)
    /\ before' = screen
    /\ UNCHANGED <<screen, raised, overlap>>

Halted == raised # {} /\ Idle /\ left = <<>>

HltForever == Halted /\ UNCHANGED vars

----------------------------------------------------------------------------
\* vga_init has run; the cursor is where the boot loader left it.
Init ==
    /\ buffer = [i \in Places |-> Blank]
    /\ row = 0 /\ column = 0
    /\ cursor \in Places
    /\ writer = [s \in Stacks |-> <<>>]
    /\ left = <<>>
    /\ raised = {}
    /\ overlap = "none"
    /\ before = <<>>

Write(s) ==
    \/ Newline(s) \/ NextRow(s)
    \/ ScrollLines(s) \/ ScrollRow(s) \/ ReloadRow(s)
    \/ LoadColumn(s) \/ BackColumn(s) \/ BackRow(s)
    \/ StoreCell(s) \/ Advance(s) \/ vga_update_cursor(s)
    \/ ClearCells(s) \/ ClearRow(s) \/ ClearColumn(s)

Next ==
    \/ \E s \in Stacks : Call(s) \/ Write(s)
    \/ Raise \/ WriteReport \/ HltForever

Spec == Init /\ [][Next]_vars

----------------------------------------------------------------------------
Labels == {"newline", "clear", "column", "row", "scroll", "lastrow", "reload",
           "back", "backrow", "cell", "advance", "cursor", "home", "left"}

Frames == [pc : Labels, char : Marks \cup Controls, row : Nat, column : 0 .. Width - 1]

(***************************************************************************)
(* However writes meet, the column stays on the screen: what is tested     *)
(* with = was loaded in bounds.  The row does not, see ScreenRecovers.     *)
(***************************************************************************)
TypeOK ==
    /\ buffer \in [Places -> Marks \cup {Blank}]
    /\ row \in Nat /\ column \in 0 .. Width - 1
    /\ cursor \in Nat
    /\ writer \in [Stacks -> Seq(Frames)]
    /\ left \in Seq(Marks \cup {"newline"}) /\ raised \in SUBSET Raised
    /\ overlap \in {"none", "nested", "preempted", "fault"}

\* Inside vga_scroll or vga_clear, which set row at their end.
SetsRow == {"scroll", "lastrow", "clear", "home"}

SetByOneBelow(s, i) == \E j \in 1 .. i - 1 : writer[s][j].pc \in SetsRow

\* The next store of s is on the screen, or on top of a write that sets row.
StoresOnScreen(s) ==
    At(s, "cell") /\ overlap # "preempted" =>
        \/ vga_get_index(Top(s).column, Top(s).row) \in Places
        \/ SetByOneBelow(s, Len(writer[s]))

\* The screen has the report at its top, and nothing else.
Reads(report) ==
    \A i \in Places :
        buffer[i] = CASE i = 0     -> ToString(report.exception)
                      [] i = Width -> ToString(report.error)
                      [] OTHER     -> Blank

(***************************************************************************)
(* "Keep cursor on the last row after scrolling": writes that interrupt    *)
(* each other may push row off the screen, but the outermost one brings it *)
(* back.  On two stacks, which the timer switches between, none does, but  *)
(* an exception does: whatever it interrupts, its report is what is seen   *)
(* in the end, at the top, and names the exception and its error code.     *)
(* As long as one stack writes, a character is stored behind the text      *)
(* buffer only on top of a write that is about to set row.                 *)
(***************************************************************************)
ScreenRecovers ==
    /\ Idle /\ overlap # "preempted" => row < Height
    /\ \A s \in Stacks : StoresOnScreen(s)
    /\ Halted => \A vector \in raised : Reads(Report(vector))

(***************************************************************************)
(* As long as no write meets another, the console is a Terminal, which     *)
(* gets each character when the call returns.  A report makes it one again *)
(* by clearing the screen.                                                 *)
(***************************************************************************)
Shown == IF Idle \/ before = <<>> THEN screen ELSE before

Paper == INSTANCE Terminal WITH
    Glyphs <- Marks,
    paper  <- Shown[1],
    place  <- vga_get_index(Shown[3], Shown[2]),
    cursor <- Shown[4]

IsTerminal ==
    Paper!Init /\ [][overlap' = "none" => [Paper!Next]_(Paper!vars)]_vars
=============================================================================
