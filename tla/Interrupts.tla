----------------------------- MODULE Interrupts -----------------------------
(***************************************************************************)
(* The way from an interrupt line to its handler, as idt_init, idt.c, sets *)
(* it up while interrupts are off: the gates of the IDT, and the base and  *)
(* the mask of the two 8259s.  Which of the lines is in service, and what  *)
(* the handlers do, is in Switching.                                       *)
(***************************************************************************)
EXTENDS Integers, Sequences

Lines == 0 .. 15

----------------------------------------------------------------------------
(* The 8259                                                                *)

\* As the BIOS leaves them; due is the ICW that is expected next, or 0.
BiosPics ==
    [master |-> [due |-> 0, base |-> 8,   imr |-> {}, irr |-> {}],
     slave  |-> [due |-> 0, base |-> 112, imr |-> {}, irr |-> {}]]

Bits(byte) ==
    LET weight == <<1, 2, 4, 8, 16, 32, 64, 128>>
    IN  {i \in 0 .. 7 : (byte \div weight[i + 1]) % 2 = 1}

\* What a byte sent to it makes of the chip.  ICW1 forgets the mask and the
\* requests; of ICW3, the wiring, and ICW4, the mode, only that they are taken.
Told(pic, port, byte) ==
    IF port = "command" THEN [pic EXCEPT !.due = 2, !.imr = {}, !.irr = {}]
    ELSE IF pic.due = 2 THEN [pic EXCEPT !.due = 3, !.base = byte - (byte % 8)]
    ELSE IF pic.due = 3 THEN [pic EXCEPT !.due = 4]
    ELSE IF pic.due = 4 THEN [pic EXCEPT !.due = 0]
    ELSE [pic EXCEPT !.imr = Bits(byte)]

Chip(line) == IF line < 8 THEN "master" ELSE "slave"

Requests(pics, line) == [pics EXCEPT ![Chip(line)].irr = @ \cup {line % 8}]

Acknowledged(pics, line) == [pics EXCEPT ![Chip(line)].irr = @ \ {line % 8}]

\* A line of the slave comes through line 2 of the master.
Unmasked(pics, line) ==
    /\ line % 8 \notin pics[Chip(line)].imr
    /\ Chip(line) = "slave" => 2 \notin pics.master.imr

Pending(pics) ==
    {l \in Lines : l % 8 \in pics[Chip(l)].irr /\ Unmasked(pics, l)}

\* The slave's lines have the priority of line 2.
Priority(line) == IF Chip(line) = "slave" THEN 8 + line ELSE 8 * line

Highest(pics) ==
    CHOOSE l \in Pending(pics) : \A k \in Pending(pics) : Priority(l) <= Priority(k)

Vector(pics, line) == pics[Chip(line)].base + (line % 8)

----------------------------------------------------------------------------
(* idt_init                                                                *)

\* pic_remap, after a mutant that lets all lines of the master through.
pic_remap_NoMask ==
    << <<"master", "command", 17>>, <<"slave", "command", 17>>,
       <<"master", "data", 32>>,    <<"slave", "data", 40>>,
       <<"master", "data", 4>>,     <<"slave", "data", 2>>,
       <<"master", "data", 1>>,     <<"slave", "data", 1>> >>

pic_remap == pic_remap_NoMask \o
    << <<"master", "data", 252>>, <<"slave", "data", 255>> >>

\* The steps of idt_init: the table with the exceptions, the bytes for the
\* 8259s, the two gates of the lines, lidt and sti.
LastStep == Len(pic_remap) + 3

\* The gates that are there before a step; a gate names its handler.
Gate(step, vector) ==
    CASE step > 0 /\ vector < 32                       -> "isr"
      [] step > Len(pic_remap) + 1 /\ vector = 32      -> "irq0_handler"
      [] step > Len(pic_remap) + 1 /\ vector = 33      -> "irq1_handler"
      [] OTHER                                         -> "none"

Handler(step, pics, line) == Gate(step, Vector(pics, line))

\* The chips after a step.
AfterStep(step, pics) ==
    IF step \in DOMAIN pic_remap
    THEN LET out == pic_remap[step]
         IN  [pics EXCEPT ![out[1]] = Told(@, out[2], out[3])]
    ELSE pics
=============================================================================
