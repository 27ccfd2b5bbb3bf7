------------------------------- MODULE Paging -------------------------------
(***************************************************************************)
(* The tables paging_init fills, and the walk the CPU makes through them.  *)
(* An entry is the number of a block and the present bit; a block that     *)
(* nothing was written to holds Garbage.  The sizes of the code are 1024   *)
(* entries and 4 tables; addresses are block and page numbers.  The loops  *)
(* are one step each: nobody reads a table before enable_paging.           *)
(***************************************************************************)
EXTENDS Integers

CONSTANT Entries    \* in the directory and in a table

ASSUME EntriesAssumption == Entries \in Nat \ {0}

VARIABLES
    written,    \* the contents of the blocks that hold a directory or a table
    cr3, pg     \* the CPU's page directory register, and CR0.PG

memory == <<written, cr3, pg>>

Tables == 4

Indices == 0 .. Entries - 1

Garbage == [frame |-> 0, present |-> TRUE]

\* What is in memory at a block.
Contents(b) ==
    IF b \in DOMAIN written THEN written[b] ELSE [i \in Indices |-> Garbage]

PagingOff ==
    /\ written = <<>>
    /\ cr3 = 0
    /\ pg = FALSE

\* Memory once the block b has been filled.
Filled(mem, b, entries) ==
    [a \in DOMAIN mem \cup {b} |-> IF a = b THEN entries ELSE mem[a]]

\* page_directory[i] = 0x00000002, after a mutant: the loop is left out.
ClearDirectory_Not(dir) == written' = Filled(written, dir, Contents(dir))

ClearDirectory(dir) ==
    written' = Filled(written, dir, [i \in Indices |-> [frame |-> 0, present |-> FALSE]])

\* The page an entry of table t maps to.
Page(t, i) == t * Entries + i

\* One turn of the loop over the tables.
FillTable(t, table, dir) ==
    written' = Filled(
        Filled(written, table, [i \in Indices |-> [frame |-> Page(t, i), present |-> TRUE]]),
        dir, [Contents(dir) EXCEPT ![t] = [frame |-> table, present |-> TRUE]])

load_page_directory(dir) ==
    /\ cr3' = dir
    /\ UNCHANGED <<written, pg>>

enable_paging ==
    /\ pg' = TRUE
    /\ UNCHANGED <<written, cr3>>

\* Where the CPU finds the page v, if it does.
Fault == -1

Lookup(entry, next) == IF entry.present THEN next ELSE Fault

Walk(v) ==
    LET pde == Contents(cr3)[v \div Entries]
        pte == Contents(pde.frame)[v % Entries]
    IN  Lookup(pde, Lookup(pte, pte.frame))
=============================================================================
