-------------------------------- MODULE Heap --------------------------------
(***************************************************************************)
(* The kernel heap, heap.c: a list of nodes, each a header followed by its *)
(* payload, that kmalloc searches first fit and splits and kfree merges.   *)
(*                                                                         *)
(* kmalloc and kfree run with interrupts on, in commands (the keyboard     *)
(* interrupt, on whatever stack it finds) and in create_task, so a step is *)
(* the code between two looks at the list.  A caller is one such place in  *)
(* the kernel, with the one pointer it has from kmalloc.                   *)
(***************************************************************************)
EXTENDS Integers, FiniteSets

CONSTANTS
    Callers,      \* the commands and create_task
    Sizes,        \* the sizes they ask for, in bytes
    HeapStart,    \* the address of heap_init's first block
    HeapBytes,    \* 4 * PMM_BLOCK_SIZE
    HeaderBytes,  \* sizeof(heap_node_t)
    SplitBytes,   \* the payload a split must leave: 16
    QuietHeap     \* TRUE: no call starts while another is in the heap

ASSUME SizesAssumption == Sizes \subseteq Nat \ {0}
ASSUME StartAssumption == HeapStart \in Nat \ {0}
ASSUME BytesAssumption ==
    /\ HeaderBytes \in Nat \ {0}
    /\ SplitBytes \in Nat
    /\ HeapBytes \in Nat /\ HeapBytes > HeaderBytes
ASSUME QuietAssumption == QuietHeap \in BOOLEAN

VARIABLES
    node,     \* node[a]: the header at address a
    pc,       \* pc[u]: where the call of u is, "out" when it is in none
    size,     \* size[u]: the rounded size kmalloc looks for
    current,  \* current[u]: the local of that name
    holds     \* holds[u]: the payload u has, and how many bytes it asked for

vars == <<node, pc, size, current, holds>>

NULL    == 0
HeapEnd == HeapStart + HeapBytes
Nothing == [ptr |-> NULL, bytes |-> 0]

\* (size + 3) & ~3.  No size comes near the width of a size_t.
Align4(bytes) == ((bytes + 3) \div 4) * 4

\* Payload of the node at a.
Payload(a) == a + HeaderBytes

MayRun(u) == QuietHeap => \A v \in Callers \ {u} : pc[v] = "out"

At(u, label) == pc[u] = label /\ MayRun(u)

GoTo(u, label) == pc' = [pc EXCEPT ![u] = label]

\* The locals are gone.
Return(u) ==
    /\ GoTo(u, "out")
    /\ size' = [size EXCEPT ![u] = 0]
    /\ current' = [current EXCEPT ![u] = NULL]

----------------------------------------------------------------------------
\* heap_init: one free node over the whole region.
Init ==
    /\ node = [a \in {HeapStart} |->
                  [size |-> HeapBytes - HeaderBytes, is_free |-> 1, next |-> NULL]]
    /\ pc = [u \in Callers |-> "out"]
    /\ size = [u \in Callers |-> 0]
    /\ current = [u \in Callers |-> NULL]
    /\ holds = [u \in Callers |-> Nothing]

(* kmalloc                                                                 *)

\* kmalloc(0) returns NULL at once and is left out.
KMalloc(u) ==
    /\ At(u, "out") /\ holds[u] = Nothing
    /\ \E bytes \in Sizes :
          /\ size' = [size EXCEPT ![u] = Align4(bytes)]
          /\ holds' = [holds EXCEPT ![u].bytes = bytes]
    /\ current' = [current EXCEPT ![u] = HeapStart]
    /\ GoTo(u, "fit")
    /\ UNCHANGED node

\* Mutant: a node that fits exactly is passed over.
Fit_Strict(u) ==
    /\ At(u, "fit") /\ current[u] # NULL
    /\ LET n == node[current[u]] IN
       IF n.is_free = 1 /\ n.size > size[u]
       THEN /\ GoTo(u, IF n.size >= size[u] + HeaderBytes + SplitBytes
                       THEN "split" ELSE "claim")
            /\ UNCHANGED current
       ELSE /\ current' = [current EXCEPT ![u] = n.next]
            /\ UNCHANGED pc
    /\ UNCHANGED <<node, size, holds>>

\* Mutant: every node that fits is split, whatever is left over.
Fit_AlwaysSplits(u) ==
    /\ At(u, "fit") /\ current[u] # NULL
    /\ LET n == node[current[u]] IN
       IF n.is_free = 1 /\ n.size >= size[u]
       THEN GoTo(u, "split") /\ UNCHANGED current
       ELSE /\ current' = [current EXCEPT ![u] = n.next]
            /\ UNCHANGED pc
    /\ UNCHANGED <<node, size, holds>>

\* Mutant: the walk does not go on when the node does not fit.
Fit_NoAdvance(u) ==
    /\ At(u, "fit") /\ current[u] # NULL
    /\ LET n == node[current[u]] IN
       /\ n.is_free = 1 /\ n.size >= size[u]
       /\ GoTo(u, IF n.size >= size[u] + HeaderBytes + SplitBytes
                  THEN "split" ELSE "claim")
    /\ UNCHANGED <<node, size, current, holds>>

\* Look at one node; take it, or go on to the next.
Fit(u) ==
    /\ At(u, "fit") /\ current[u] # NULL
    /\ LET n == node[current[u]] IN
       IF n.is_free = 1 /\ n.size >= size[u]
       THEN /\ GoTo(u, IF n.size >= size[u] + HeaderBytes + SplitBytes
                       THEN "split" ELSE "claim")
            /\ UNCHANGED current
       ELSE /\ current' = [current EXCEPT ![u] = n.next]
            /\ UNCHANGED pc
    /\ UNCHANGED <<node, size, holds>>

\* The end of the list: return NULL.
NoFit(u) ==
    /\ At(u, "fit") /\ current[u] = NULL
    /\ holds' = [holds EXCEPT ![u] = Nothing]
    /\ Return(u)
    /\ UNCHANGED node

\* The address of new_node.
NewNode(u) == current[u] + HeaderBytes + size[u]

\* Write the new node's header.
SplitNew(u) ==
    /\ At(u, "split")
    /\ LET n == node[current[u]]
           rest == [size |-> n.size - size[u] - HeaderBytes, is_free |-> 1,
                    next |-> n.next]
       IN  node' = [a \in DOMAIN node \cup {NewNode(u)} |->
                        IF a = NewNode(u) THEN rest ELSE node[a]]
    /\ GoTo(u, "link")
    /\ UNCHANGED <<size, current, holds>>

\* Mutant: the current node is shrunk, but next still skips the new one.
SplitLink_NotLinked(u) ==
    /\ At(u, "link")
    /\ node' = [node EXCEPT ![current[u]].size = size[u]]
    /\ GoTo(u, "claim")
    /\ UNCHANGED <<size, current, holds>>

\* Shrink the current node and link the new one behind it.
SplitLink(u) ==
    /\ At(u, "link")
    /\ node' = [node EXCEPT ![current[u]].size = size[u],
                            ![current[u]].next = NewNode(u)]
    /\ GoTo(u, "claim")
    /\ UNCHANGED <<size, current, holds>>

\* Mutant: the node stays free.
Claim_StaysFree(u) ==
    /\ At(u, "claim")
    /\ holds' = [holds EXCEPT ![u].ptr = Payload(current[u])]
    /\ Return(u)
    /\ UNCHANGED node

\* is_free = 0, and return the payload.
Claim(u) ==
    /\ At(u, "claim")
    /\ node' = [node EXCEPT ![current[u]].is_free = 0]
    /\ holds' = [holds EXCEPT ![u].ptr = Payload(current[u])]
    /\ Return(u)

----------------------------------------------------------------------------
(* kfree                                                                   *)

\* kfree(NULL) returns at once and is left out.
KFree(u) ==
    /\ At(u, "out") /\ holds[u] # Nothing
    /\ node' = [node EXCEPT ![holds[u].ptr - HeaderBytes].is_free = 1]
    /\ holds' = [holds EXCEPT ![u] = Nothing]
    /\ current' = [current EXCEPT ![u] = HeapStart]
    /\ GoTo(u, "merge")
    /\ UNCHANGED size

\* The node at current takes in the next one, whose header is forgotten when
\* no other call can be looking at it.
Absorbed(u) ==
    LET gone == node[current[u]].next
        kept == IF \A v \in Callers \ {u} : pc[v] = "out"
                THEN DOMAIN node \ {gone} ELSE DOMAIN node
    IN  [a \in kept |->
            IF a = current[u]
            THEN [size |-> node[a].size + HeaderBytes + node[gone].size,
                  is_free |-> node[a].is_free, next |-> node[gone].next]
            ELSE node[a]]

\* Mutant: the walk goes on to the next node after a merge too.
Merge_Advances(u) ==
    /\ At(u, "merge") /\ current[u] # NULL /\ node[current[u]].next # NULL
    /\ LET n == node[current[u]]
           m == node[n.next]
       IN  IF n.is_free = 1 /\ m.is_free = 1
           THEN /\ node' = Absorbed(u)
                /\ current' = [current EXCEPT ![u] = m.next]
           ELSE /\ current' = [current EXCEPT ![u] = n.next]
                /\ UNCHANGED node
    /\ UNCHANGED <<pc, size, holds>>

\* Absorb the next node, or go on to it.
Merge(u) ==
    /\ At(u, "merge") /\ current[u] # NULL /\ node[current[u]].next # NULL
    /\ LET n == node[current[u]]
           m == node[n.next]
       IN  IF n.is_free = 1 /\ m.is_free = 1
           THEN /\ node' = Absorbed(u)
                /\ UNCHANGED current
           ELSE /\ current' = [current EXCEPT ![u] = n.next]
                /\ UNCHANGED node
    /\ UNCHANGED <<pc, size, holds>>

\* current or its next is NULL: return.
MergeDone(u) ==
    /\ At(u, "merge")
    /\ current[u] # NULL => node[current[u]].next = NULL
    /\ Return(u)
    /\ UNCHANGED <<node, holds>>

----------------------------------------------------------------------------
Call(u) == KMalloc(u) \/ KFree(u)

\* A step of a call that has begun.
Step(u) ==
    \/ Fit(u) \/ NoFit(u) \/ SplitNew(u) \/ SplitLink(u) \/ Claim(u)
    \/ Merge(u) \/ MergeDone(u)

Next == \E u \in Callers : Call(u) \/ Step(u)

Spec == Init /\ [][Next]_vars

\* A call that has begun goes on.
FairSpec == Spec /\ \A u \in Callers : WF_vars(Step(u))

----------------------------------------------------------------------------
\* S has with every header the one its next leads to.
Closed(S) == \A a \in S : node[a].next = NULL \/ node[a].next \in S

\* The list: what next leads to from heap_start on.
Nodes ==
    {a \in DOMAIN node :
        \A S \in SUBSET DOMAIN node : HeapStart \in S /\ Closed(S) => a \in S}

\* Where the payload of the node at a ends.
EndOf(a) == Payload(a) + node[a].size

\* The node at a and the next one are both free.
FreePair(a) ==
    /\ node[a].is_free = 1
    /\ node[a].next # NULL /\ node[node[a].next].is_free = 1

AtRest == \A u \in Callers : pc[u] = "out"

Headers == [size : Nat, is_free : {0, 1}, next : Nat]

TypeOK ==
    /\ DOMAIN node \in SUBSET (HeapStart .. HeapEnd - 1)
    /\ node \in [DOMAIN node -> Headers]
    /\ pc \in [Callers -> {"out", "fit", "split", "link", "claim", "merge"}]
    /\ size \in [Callers -> Nat]
    /\ current \in [Callers -> Nat]
    /\ holds \in [Callers -> [ptr : Nat, bytes : Nat]]

Holders == {u \in Callers : holds[u].ptr # NULL}

(***************************************************************************)
(* What kmalloc hands out is the caller's own: it lies behind a header in  *)
(* the heap, has room for every byte that was asked for, and shares none   *)
(* with what another caller holds (heap.h: kmalloc returns "a pointer to   *)
(* the allocated block").                                                  *)
(***************************************************************************)
HandedOutOnce ==
    /\ \A u \in Holders :
          /\ HeapStart + HeaderBytes <= holds[u].ptr
          /\ holds[u].ptr + holds[u].bytes <= HeapEnd
    /\ \A u, v \in Holders : u # v =>
          \/ holds[u].ptr + holds[u].bytes <= holds[v].ptr
          \/ holds[v].ptr + holds[v].bytes <= holds[u].ptr

(***************************************************************************)
(* Between calls no byte of the heap is lost: the nodes of the list follow *)
(* each other without a gap from heap_start to the end of the region, and  *)
(* the nodes in use are exactly those somebody holds.                      *)
(***************************************************************************)
NothingLost ==
    AtRest =>
        /\ \A a \in Nodes : \/ node[a].next = EndOf(a) /\ EndOf(a) # HeapEnd
                            \/ node[a].next = NULL /\ EndOf(a) = HeapEnd
        /\ {Payload(a) : a \in {n \in Nodes : node[n].is_free = 0}}
                = {holds[u].ptr : u \in Holders}

(***************************************************************************)
(* Between calls no two neighbours are both free, so free memory is never  *)
(* broken up (heap.h: kfree merges "any adjacent free nodes").             *)
(***************************************************************************)
Coalesced == AtRest => \A a \in Nodes : ~FreePair(a)

(***************************************************************************)
(* kmalloc gives up only if no free node is large enough (heap.h: NULL if  *)
(* "no free block is large enough").                                       *)
(***************************************************************************)
GivesUpOnlyIfFull ==
    [][\A u \in Callers : pc[u] = "fit" /\ pc'[u] = "out" =>
           \A a \in Nodes : node[a].is_free = 1 => node[a].size < size[u]]_vars

(***************************************************************************)
(* kmalloc and kfree return: no list they build makes a walk go round.     *)
(***************************************************************************)
CallsReturn == \A u \in Callers : pc[u] # "out" ~> pc[u] = "out"
=============================================================================
