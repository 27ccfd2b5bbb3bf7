-------------------------------- MODULE Pmm --------------------------------
(***************************************************************************)
(* The physical memory manager, pmm.c: one bit per 4 KB block and a count  *)
(* of the bits that are set.  A block's address is its number (times 4096, *)
(* which nothing here tells apart), so address 0 is both block 0 and NULL. *)
(*                                                                         *)
(* All of it runs with interrupts on, and what an interrupt has stopped    *)
(* goes on when it has returned: call[s] are the calls open on the stack   *)
(* s, of which the last one runs.  A step is the code between two accesses *)
(* to the bitmap or the count, as the -O2 build does them: pmm_alloc_block *)
(* loads used_blocks when it is called, and the word with the bit it       *)
(* takes, and stores both later.  The scan for that bit is one step.       *)
(***************************************************************************)
EXTENDS Integers, FiniteSets, FiniteSetsExt, Sequences, SequencesExt

CONSTANTS
    WordBits,     \* 32
    Capacity,     \* BITMAP_SIZE * 32, the blocks the bitmap has bits for
    MemBlocks,    \* mem_size / PMM_BLOCK_SIZE
    StartBlock,   \* 1 MB / PMM_BLOCK_SIZE, the first block that is not reserved
    QuietPmm      \* TRUE: the timer does not switch stacks inside these functions

ASSUME WordAssumption == WordBits \in Nat \ {0}
ASSUME CapacityAssumption == Capacity \in Nat \ {0}
ASSUME MemAssumption == MemBlocks \in Nat
ASSUME StartAssumption == StartBlock \in Nat \ {0}
ASSUME QuietPmmAssumption == QuietPmm \in BOOLEAN

VARIABLES pmm_bitmap, max_blocks, used_blocks, call

statics == <<pmm_bitmap, max_blocks, used_blocks>>
pmm == <<statics, call>>

NULL == 0

Stacks == {"main", "background"}

Addresses == 0 .. Capacity - 1

ClearBits == {i \in 0 .. max_blocks - 1 : pmm_bitmap[i] = 0}

SetBits == {i \in 0 .. max_blocks - 1 : pmm_bitmap[i] = 1}

\* The statics before pmm_init: nothing is marked, and everything is used.
PmmStatics ==
    /\ pmm_bitmap = [i \in Addresses |-> 0]
    /\ max_blocks = Capacity
    /\ used_blocks = Capacity
    /\ call = [s \in Stacks |-> <<>>]

----------------------------------------------------------------------------
(* pmm_init, which leaves used_blocks at its maximum until every bit is    *)
(* cleared.                                                                *)

\* Up to the second loop: every block is used.
PmmInitMark ==
    /\ max_blocks' = IF MemBlocks > Capacity THEN Capacity ELSE MemBlocks
    /\ pmm_bitmap' = [i \in Addresses |-> 1]
    /\ used_blocks' = max_blocks'
    /\ UNCHANGED call

\* Where the second loop starts, after a mutant: inside the first megabyte.
FirstFree_OneEarly == StartBlock - 1

FirstFree == StartBlock

\* The second loop: everything from 1 MB on is free.
PmmInitFree ==
    /\ pmm_bitmap' = [i \in Addresses |->
            IF i \in FirstFree .. max_blocks - 1 THEN 0 ELSE pmm_bitmap[i]]
    /\ used_blocks' = IF max_blocks > FirstFree THEN FirstFree ELSE used_blocks
    /\ UNCHANGED <<max_blocks, call>>

----------------------------------------------------------------------------
(* Calls                                                                   *)

Top(s) == Last(call[s])

At(s, label) == call[s] # <<>> /\ Top(s).pc = label

\* A call is inside a function of pmm.c, or somebody has its result.
Inside(s) == \E i \in DOMAIN call[s] : call[s][i].pc # "got"

MayEnter(s) == QuietPmm => \A t \in Stacks \ {s} : ~Inside(t)

Goes(s, c) == call' = [call EXCEPT ![s] = Append(Front(@), c)]

Return(s) == call' = [call EXCEPT ![s] = Front(@)]

\* The word of the bitmap a block's bit is in.
Word(b) == {i \in Addresses : i \div WordBits = b \div WordBits}

Load(b) == [i \in Word(b) |-> pmm_bitmap[i]]

Store(word) ==
    pmm_bitmap' = [i \in Addresses |->
                       IF i \in DOMAIN word THEN word[i] ELSE pmm_bitmap[i]]

\* pmm_alloc_block is called for a user: the quick check.
Alloc(s, user) ==
    /\ MayEnter(s)
    /\ call' = [call EXCEPT ![s] = Append(@,
           [user |-> user, pc |-> IF max_blocks = used_blocks THEN "got" ELSE "scan",
            used |-> used_blocks, addr |-> NULL, word |-> <<>>, due |-> {}])]
    /\ UNCHANGED statics

\* The first free bit, after a mutant: the last one.
FirstFit_Last == Max(ClearBits)

FirstFit == Min(ClearBits)

Scan(s) ==
    /\ At(s, "scan")
    /\ Goes(s, IF ClearBits = {}
               THEN [Top(s) EXCEPT !.pc = "got"]
               ELSE [Top(s) EXCEPT !.pc = "mark", !.addr = FirstFit,
                                   !.word = Load(FirstFit)])
    /\ UNCHANGED statics

\* set_bit.
Mark(s) ==
    /\ At(s, "mark")
    /\ Store([Top(s).word EXCEPT ![Top(s).addr] = 1])
    /\ Goes(s, [Top(s) EXCEPT !.pc = "count", !.word = <<>>])
    /\ UNCHANGED <<max_blocks, used_blocks>>

\* used_blocks++, after a mutant: it is forgotten.
OneMore_Forgotten(used) == used

OneMore(used) == used + 1

Count(s) ==
    /\ At(s, "count")
    /\ used_blocks' = OneMore(Top(s).used)
    /\ Goes(s, [Top(s) EXCEPT !.pc = "got", !.used = 0])
    /\ UNCHANGED <<pmm_bitmap, max_blocks>>

\* pmm_free_block: NULL is not told from the address of block 0.
Free(s) ==
    /\ At(s, "got") /\ MayEnter(s)
    /\ LET b == Top(s).addr IN
       IF b < max_blocks /\ pmm_bitmap[b] = 1
       THEN Goes(s, [Top(s) EXCEPT !.pc = "free", !.word = Load(b),
                                   !.due = {"bit", "count"}])
       ELSE Return(s)
    /\ UNCHANGED statics

\* Its two stores, in the source's order or, as in the build, the other way.
Done(s, part) ==
    /\ At(s, "free") /\ part \in Top(s).due
    /\ IF Top(s).due = {part}
       THEN Return(s)
       ELSE Goes(s, [Top(s) EXCEPT !.due = @ \ {part}])

\* The bit a freed block gets, after a mutant: it stays marked.
FreeBit_Marked == 1

FreeBit == 0

\* clear_bit.
Unmark(s) ==
    /\ Done(s, "bit")
    /\ Store([Top(s).word EXCEPT ![Top(s).addr] = FreeBit])
    /\ UNCHANGED <<max_blocks, used_blocks>>

\* used_blocks--, one instruction.
Uncount(s) ==
    /\ Done(s, "count")
    /\ used_blocks' = used_blocks - 1
    /\ UNCHANGED <<pmm_bitmap, max_blocks>>

PmmStep(s) == Scan(s) \/ Mark(s) \/ Count(s) \/ Unmark(s) \/ Uncount(s)
=============================================================================
