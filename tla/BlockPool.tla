----------------------------- MODULE BlockPool -----------------------------
(***************************************************************************)
(* What pmm.h promises of the physical memory manager: a pool of blocks    *)
(* that is empty until it is opened, from which a free block is taken, and *)
(* to which a block that was taken is given back.                          *)
(***************************************************************************)
CONSTANT Pool       \* the blocks from 1 MB to the end of memory

VARIABLES opened, free

vars == <<opened, free>>

Init == opened = FALSE /\ free = {}

Open ==
    /\ ~opened
    /\ opened' = TRUE
    /\ free' = Pool

Take ==
    /\ opened
    /\ \E b \in free : free' = free \ {b}
    /\ UNCHANGED opened

Give ==
    /\ opened
    /\ \E b \in Pool \ free : free' = free \cup {b}
    /\ UNCHANGED opened

Next == Open \/ Take \/ Give

Spec == Init /\ [][Next]_vars
=============================================================================
