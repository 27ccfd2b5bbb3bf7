---------------------------- MODULE KernelMemory ----------------------------
(***************************************************************************)
(* The users of the physical memory manager, as they interleave: at boot,  *)
(* pmm_init, heap_init's four blocks and paging_init's directory and four  *)
(* tables; at any time after idt_init's sti, the command testmem, which    *)
(* runs in the keyboard interrupt, takes a block and frees it again.       *)
(*                                                                         *)
(* A keyboard interrupt nests on the stack it finds, also inside pmm.c:    *)
(* what it interrupts goes on when it has returned.  There is one stack    *)
(* until the background task exists, and then two, between which the       *)
(* timer switches.                                                         *)
(***************************************************************************)
EXTENDS Pmm, Paging

CONSTANTS
    MaxNested,    \* bound: calls open at once on one stack
    QuietInit     \* TRUE: no command runs between the two loops of pmm_init

ASSUME NestedAssumption == MaxNested \in Nat \ {0}
ASSUME QuietAssumption == QuietInit \in BOOLEAN

VARIABLES
    stage,        \* how far kernel_main is
    heap,         \* the blocks heap_init got, in order
    paging        \* the blocks paging_init got: the directory, then the tables

vars == <<pmm, memory, stage, heap, paging>>

HeapBlocks == 4

\* kernel_main counts 4096 blocks, as many as the bitmap has bits for and four
\* tables map.  They are enough for the kernel and the commands that can be open.
ASSUME SizesAssumption ==
    /\ MemBlocks <= Capacity /\ MemBlocks <= Tables * Entries
    /\ Tables <= Entries
    /\ StartBlock + HeapBlocks + 1 + Tables + 2 * MaxNested < MemBlocks

Allocating == {"heap", "directory", "table"}

\* kernel_main goes on when the interrupts on its stack have returned.
Boot(s) == stage = s /\ call["main"] = <<>>

BootPmmMark ==
    /\ Boot("off")
    /\ PmmInitMark
    /\ stage' = "marked"
    /\ UNCHANGED <<memory, heap, paging>>

BootPmmFree ==
    /\ Boot("marked")
    /\ PmmInitFree
    /\ stage' = "heap"
    /\ UNCHANGED <<memory, heap, paging>>

\* heap_init and paging_init call pmm_alloc_block.
BootAlloc ==
    /\ \E user \in Allocating : Boot(user) /\ Alloc("main", user)
    /\ UNCHANGED <<memory, stage, heap, paging>>

\* They have its result, which they do not check.
Got(user) ==
    /\ stage = user /\ Len(call["main"]) = 1 /\ At("main", "got")
    /\ Top("main").user = user
    /\ Return("main")
    /\ UNCHANGED statics

\* heap_init's loop.
HeapInit ==
    /\ Got("heap")
    /\ heap' = Append(heap, Top("main").addr)
    /\ stage' = IF Len(heap') = HeapBlocks THEN "directory" ELSE "heap"
    /\ UNCHANGED <<memory, paging>>

\* paging_init: the directory.
PagingDirectory ==
    /\ Got("directory")
    /\ paging' = <<Top("main").addr>>
    /\ ClearDirectory(Top("main").addr)
    /\ stage' = "table"
    /\ UNCHANGED <<cr3, pg, heap>>

\* paging_init: one of the tables.
PagingTable ==
    /\ Got("table")
    /\ paging' = Append(paging, Top("main").addr)
    /\ FillTable(Len(paging) - 1, Top("main").addr, paging[1])
    /\ stage' = IF Len(paging) = Tables THEN "load" ELSE "table"
    /\ UNCHANGED <<cr3, pg, heap>>

PagingLoad ==
    /\ Boot("load")
    /\ load_page_directory(paging[1])
    /\ stage' = "enable"
    /\ UNCHANGED <<pmm, heap, paging>>

PagingEnable ==
    /\ Boot("enable")
    /\ enable_paging
    /\ stage' = "tasks"
    /\ UNCHANGED <<pmm, heap, paging>>

\* testmem: ptr1 = pmm_alloc_block(); the result is not checked.
TestmemAlloc(s) ==
    /\ s = "background" => stage = "tasks"
    /\ QuietInit => stage # "marked"
    /\ Len(call[s]) < MaxNested
    /\ Alloc(s, "testmem")
    /\ UNCHANGED <<memory, stage, heap, paging>>

\* testmem: pmm_free_block(ptr1).
TestmemFree(s) ==
    /\ call[s] # <<>> /\ Top(s).user = "testmem"
    /\ Free(s)
    /\ UNCHANGED <<memory, stage, heap, paging>>

\* A step inside a function of pmm.c.
Inner(s) ==
    /\ PmmStep(s)
    /\ UNCHANGED <<memory, stage, heap, paging>>

Init ==
    /\ PmmStatics
    /\ PagingOff
    /\ stage = "off"
    /\ heap = <<>> /\ paging = <<>>

Next ==
    \/ BootPmmMark \/ BootPmmFree \/ BootAlloc
    \/ HeapInit \/ PagingDirectory \/ PagingTable \/ PagingLoad \/ PagingEnable
    \/ \E s \in Stacks : TestmemAlloc(s) \/ TestmemFree(s) \/ Inner(s)

Spec == Init /\ [][Next]_vars

----------------------------------------------------------------------------
Ready == stage \notin {"off", "marked"}

CallType ==
    [user : Allocating \cup {"testmem"},
     pc   : {"scan", "mark", "count", "got", "free"},
     used : 0 .. Capacity, addr : Addresses,
     word : {<<>>} \cup UNION {[Word(b) -> {0, 1}] : b \in Addresses},
     due  : SUBSET {"bit", "count"}]

TypeOK ==
    /\ pmm_bitmap \in [Addresses -> {0, 1}]
    /\ max_blocks \in 0 .. Capacity
    /\ used_blocks \in 0 .. max_blocks
    /\ call \in [Stacks -> Seq(CallType)]
    /\ stage \in Allocating \cup {"off", "marked", "load", "enable", "tasks"}
    /\ heap \in Seq(Addresses) /\ paging \in Seq(Addresses)

(***************************************************************************)
(* used_blocks, which pmm_alloc_block and the command mem rely on, is the  *)
(* number of bits that are set whenever no call is inside pmm.c, although  *)
(* every call stores a count it loaded before others came and went.        *)
(***************************************************************************)
UsedCountsBits ==
    Ready /\ ~(\E s \in Stacks : Inside(s)) => used_blocks = Cardinality(SetBits)

(***************************************************************************)
(* The first megabyte stays reserved (kernel.c: pmm_init "marks the first  *)
(* 1 MB as reserved").                                                     *)
(***************************************************************************)
ReservedStaysReserved ==
    Ready => \A b \in 0 .. StartBlock - 1 :
                b < max_blocks => pmm_bitmap[b] = 1

(***************************************************************************)
(* No block belongs to two users, every block in use belongs to one, and   *)
(* only those and the first megabyte are marked: nothing is handed out     *)
(* twice and nothing leaks, wherever in pmm.c a command interrupts.        *)
(***************************************************************************)
Owner(c) ==
    /\ c.pc \in {"count", "got"} \/ (c.pc = "free" /\ "bit" \in c.due)
    /\ c.addr # NULL

\* The calls on the stack s that own a block.
Owners(s) == {i \in DOMAIN call[s] : Owner(call[s][i])}

\* Who has the block b: the first megabyte is nobody else's.
Held(b) ==
    {<<"reserved", i>> : i \in {j \in {b} : j < StartBlock}}
        \cup {<<"heap", i>> : i \in {j \in DOMAIN heap : heap[j] = b}}
        \cup {<<"paging", i>> : i \in {j \in DOMAIN paging : paging[j] = b}}
        \cup {u \in Stacks \X (1 .. MaxNested) :
                  u[2] \in Owners(u[1]) /\ call[u[1]][u[2]].addr = b}

BlocksHaveOneOwner ==
    Ready => \A b \in 0 .. max_blocks - 1 :
        /\ \A u, v \in Held(b) : u = v
        /\ pmm_bitmap[b] = 1 <=> Held(b) # {}

(***************************************************************************)
(* heap_init treats its four blocks as one region, which they are even     *)
(* when commands allocate and free between its calls and inside them       *)
(* (heap.c: "assumes the PMM returns contiguous blocks").                  *)
(***************************************************************************)
HeapIsContiguous ==
    \A i \in 2 .. Len(heap) : heap[i] = heap[i - 1] + 1

(***************************************************************************)
(* With paging on, every page of the first four tables is found where it   *)
(* was without, every block that pmm.c may hand out among them, and every  *)
(* other page faults (paging.c: "every PDE is initially not present").     *)
(***************************************************************************)
IdentityMapped ==
    pg => /\ \A v \in 0 .. Entries * Entries - 1 :
                 Walk(v) = IF v < Tables * Entries THEN v ELSE Fault
          /\ max_blocks <= Tables * Entries

(***************************************************************************)
(* The memory manager, used as the kernel uses it, is a BlockPool: what    *)
(* can be allocated at any time is the abstract pool's free set.           *)
(***************************************************************************)
Allocatable == IF max_blocks = used_blocks THEN {} ELSE ClearBits

Promise == INSTANCE BlockPool WITH
    Pool <- StartBlock .. MemBlocks - 1,
    opened <- Ready,
    free <- Allocatable

IsBlockPool == Promise!Spec
=============================================================================
