------------------------- MODULE KernelMemoryProofs -------------------------
(***************************************************************************)
(* The memory manager and its users, for any size of memory and bitmap,    *)
(* and commands nested to any depth.                                       *)
(***************************************************************************)
EXTENDS KernelMemory, StackLemmas

----------------------------------------------------------------------------
(***************************************************************************)
(* The inductive invariant behind the properties, for QuietPmm and         *)
(* QuietInit.                                                              *)
(***************************************************************************)

\* The blocks kernel_main has got so far, which come after each other.
Kept == Len(heap) + Len(paging)

\* The calls on s whose block used_blocks counts, and those of them above i.
Counts(c) == c.pc = "got" \/ (c.pc = "free" /\ "count" \in c.due)

Counted(s) == {i \in DOMAIN call[s] : Counts(call[s][i])}

Above(s, i) == {j \in Counted(s) : j > i}

\* Whose blocks the calls on the stack s own that are above i.
TakenAbove(s, i) == {call[s][j].addr : j \in {k \in Owners(s) : k > i}}

\* The word and the count that a call has loaded are what they are without the
\* calls that interrupt it, and will be when those have returned.
WordIsCurrent(s, i) ==
    LET c == call[s][i] IN
    /\ c.word \in [Word(c.addr) -> {0, 1}]
    /\ \A k \in Word(c.addr) :
          c.word[k] = IF k \in TakenAbove(s, i) THEN 0 ELSE pmm_bitmap[k]

CountIsCurrent(s, i) ==
    used_blocks = call[s][i].used + Cardinality(Above(s, i))

Pool == StartBlock .. MemBlocks - 1

CallInv(s, i) ==
    LET c == call[s][i] IN
    /\ c.pc \in {"scan", "mark", "count"} => CountIsCurrent(s, i)
    /\ c.pc # "scan" => c.addr \in Pool
    /\ c.pc = "mark" => WordIsCurrent(s, i) /\ c.word[c.addr] = 0
    /\ c.pc = "free" => c.due # {}
    /\ c.pc = "free" /\ "bit" \in c.due => WordIsCurrent(s, i)
    /\ c.user # "testmem" =>
          /\ s = "main" /\ i = 1 /\ c.user = stage /\ c.pc # "free"
          /\ c.pc # "scan" => c.addr = StartBlock + Kept

\* Before pmm_init nothing can be allocated, and nothing is.
OffInv ==
    /\ pmm_bitmap = [i \in Addresses |-> 0]
    /\ max_blocks = Capacity /\ used_blocks = Capacity
    /\ \A i \in DOMAIN call["main"] :
          call["main"][i].pc = "got" /\ call["main"][i].addr = NULL

MarkedInv ==
    /\ pmm_bitmap = [i \in Addresses |-> 1]
    /\ max_blocks = MemBlocks /\ used_blocks = MemBlocks
    /\ call["main"] = <<>>

\* kernel_main's progress.
StageInv ==
    /\ stage # "tasks" => call["background"] = <<>>
    /\ stage \in {"off", "marked"} => heap = <<>>
    /\ stage = "heap" => Len(heap) < HeapBlocks
    /\ stage \in {"off", "marked", "heap", "directory"} => paging = <<>>
    /\ stage \notin {"off", "marked", "heap"} => Len(heap) = HeapBlocks
    /\ stage = "table" => Len(paging) \in 1 .. Tables
    /\ stage \in {"load", "enable", "tasks"} => Len(paging) = Tables + 1
    /\ \A i \in DOMAIN heap : heap[i] = StartBlock + i - 1
    /\ \A i \in DOMAIN paging : paging[i] = StartBlock + HeapBlocks + i - 1

\* One stack is inside pmm.c at most.
OneStackInside == ~(Inside("main") /\ Inside("background"))

OwnersDiffer ==
    \A s, t \in Stacks : \A i \in Owners(s), j \in Owners(t) :
        /\ call[s][i].addr >= StartBlock + Kept
        /\ call[s][i].addr = call[t][j].addr => s = t /\ i = j

MarkedAreOwned ==
    \A b \in 0 .. MemBlocks - 1 :
        pmm_bitmap[b] = 1 <=>
            \/ b < StartBlock + Kept
            \/ \E s \in Stacks : \E i \in Owners(s) : call[s][i].addr = b

ReadyInv ==
    /\ max_blocks = MemBlocks
    /\ used_blocks = StartBlock + Kept
            + Cardinality(Counted("main")) + Cardinality(Counted("background"))
    /\ \A s \in Stacks : \A i \in DOMAIN call[s] : CallInv(s, i)
    /\ OneStackInside
    /\ OwnersDiffer
    /\ MarkedAreOwned

\* The directory and the tables as far as they are filled.
PagingInv ==
    /\ paging # <<>> => Contents(paging[1]) =
          [t \in Indices |-> IF t < Len(paging) - 1
                              THEN [frame |-> paging[t + 2], present |-> TRUE]
                              ELSE [frame |-> 0, present |-> FALSE]]
    /\ \A t \in 0 .. Len(paging) - 2 : Contents(paging[t + 2]) =
          [i \in Indices |-> [frame |-> Page(t, i), present |-> TRUE]]
    /\ stage \in {"enable", "tasks"} => cr3 = paging[1]
    /\ pg => stage = "tasks"

KernelMemoryInv ==
    /\ TypeOK
    /\ \A s \in Stacks : Len(call[s]) <= MaxNested
    /\ stage = "off" => OffInv
    /\ stage = "marked" => MarkedInv
    /\ Ready => ReadyInv
    /\ StageInv
    /\ PagingInv

----------------------------------------------------------------------------
(* What the invariant says of a moment.                                    *)

\* Memory is large enough for the kernel and all commands.
LEMMA Sizes ==
    /\ StartBlock \in Nat \ {0} /\ MemBlocks \in Nat /\ Capacity \in Nat \ {0}
    /\ MaxNested \in Nat \ {0} /\ Entries \in Nat \ {0}
    /\ MemBlocks <= Capacity /\ MemBlocks <= 4 * Entries /\ 4 <= Entries
    /\ StartBlock + 9 + 2 * MaxNested < MemBlocks
  BY SizesAssumption, StartAssumption, MemAssumption, CapacityAssumption,
     NestedAssumption, EntriesAssumption
     DEF Tables, HeapBlocks

\* The calls on a stack, and those whose blocks count or are marked.
LEMMA Calls ==
    ASSUME TypeOK, NEW s \in Stacks
    PROVE  /\ Len(call[s]) \in Nat /\ DOMAIN call[s] = 1 .. Len(call[s])
           /\ \A i \in DOMAIN call[s] : call[s][i] \in CallType
           /\ call[s] # <<>> => /\ Len(call[s]) >= 1
                                /\ Len(call[s]) \in DOMAIN call[s]
                                /\ Top(s) = call[s][Len(call[s])]
           /\ Counted(s) \in SUBSET (1 .. Len(call[s]))
           /\ Owners(s) \in SUBSET (1 .. Len(call[s]))
<1>1. call[s] \in Seq(CallType)
  BY DEF TypeOK
<1> QED
  BY <1>1, StackElements DEF Top, Last, Counted, Owners

\* The calls of a stack that count, own or lie above another are finite many, so that
\* used_blocks can be compared with their number.
LEMMA Cards ==
    ASSUME TypeOK, NEW s \in Stacks
    PROVE  /\ IsFiniteSet(Counted(s)) /\ IsFiniteSet(Owners(s))
           /\ Cardinality(Counted(s)) \in 0 .. Len(call[s])
           /\ Cardinality(Owners(s)) \in 0 .. Len(call[s])
           /\ \A i : IsFiniteSet(Above(s, i)) /\ Cardinality(Above(s, i)) \in Nat
<1>1. \A i : Above(s, i) \in SUBSET (1 .. Len(call[s]))
  BY Calls DEF Above
<1> QED
  BY <1>1, Calls, PositionsAreFinite

\* The heap and the tables: kernel_main keeps nine blocks at most.
LEMMA KeptBlocks ==
    ASSUME TypeOK, StageInv
    PROVE  /\ Len(heap) \in 0 .. 4 /\ Len(paging) \in 0 .. 5 /\ Kept \in 0 .. 9
           /\ DOMAIN heap = 1 .. Len(heap) /\ DOMAIN paging = 1 .. Len(paging)
           /\ paging # <<>> => Len(heap) = 4
<1>1. /\ Len(heap) \in Nat /\ DOMAIN heap = 1 .. Len(heap)
      /\ Len(paging) \in Nat /\ DOMAIN paging = 1 .. Len(paging)
      /\ Len(<<>>) = 0
  BY LenProperties DEF TypeOK
<1>2. stage \in {"off", "marked", "heap", "directory", "table", "load", "enable", "tasks"}
  BY DEF TypeOK, Allocating
<1>3. Len(heap) \in 0 .. 4
  BY <1>1, <1>2 DEF StageInv, HeapBlocks
<1>4. Len(paging) \in 0 .. 5 /\ (paging # <<>> => Len(heap) = 4)
  BY <1>1, <1>2 DEF StageInv, HeapBlocks, Tables
<1>5. Kept \in 0 .. 9
  <2>1. \A m \in 0 .. 4, n \in 0 .. 5 : m + n \in 0 .. 9
    OBVIOUS
  <2> QED
    BY <1>3, <1>4, <2>1 DEF Kept
<1> QED
  BY <1>1, <1>3, <1>4, <1>5

\* There is always a block left, as far as used_blocks knows.
LEMMA NeverFull ==
    ASSUME KernelMemoryInv, Ready
    PROVE  used_blocks \in Nat /\ used_blocks < MemBlocks /\ max_blocks = MemBlocks
<1>1. \A s \in Stacks : Cardinality(Counted(s)) \in 0 .. MaxNested
  BY Cards, Sizes, Calls DEF KernelMemoryInv
<1>2. Kept \in 0 .. 9
  BY KeptBlocks DEF KernelMemoryInv
<1> QED
  BY <1>1, <1>2, Sizes DEF KernelMemoryInv, ReadyInv, Stacks

----------------------------------------------------------------------------
(* The marked blocks                                                       *)

\* The blocks the calls on s own.
Owned(s) == {call[s][i].addr : i \in Owners(s)}

\* The calls that own a block own as many blocks as they are: no two share one.
LEMMA OwnedCardinality ==
    ASSUME KernelMemoryInv, Ready, NEW s \in Stacks
    PROVE  /\ IsFiniteSet(Owned(s))
           /\ Cardinality(Owned(s)) = Cardinality(Owners(s))
<1> DEFINE f == [i \in Owners(s) |-> call[s][i].addr]
<1>1. IsFiniteSet(Owners(s))
  BY Cards DEF KernelMemoryInv
<1>2. /\ f \in [Owners(s) -> Owned(s)]
      /\ \A b \in Owned(s) : \E i \in Owners(s) : f[i] = b
  BY DEF Owned
<1>3. \A i, j \in Owners(s) : f[i] = f[j] => i = j
  BY DEF KernelMemoryInv, ReadyInv, OwnersDiffer
<1> HIDE DEF f
<1> QED
  BY <1>1, <1>2, <1>3, ImageCardinality

\* A block that a call of pmm.c owns is one of the pool, above what the boot keeps.
LEMMA OwnersInPool ==
    ASSUME KernelMemoryInv, Ready, NEW s \in Stacks, NEW i \in Owners(s)
    PROVE  /\ i \in DOMAIN call[s]
           /\ call[s][i].addr \in Pool /\ call[s][i].addr >= StartBlock + Kept
  BY DEF KernelMemoryInv, ReadyInv, OwnersDiffer, CallInv, Owners, Owner

\* The bits that are set: the first megabyte, the kernel's blocks, the calls'.
LEMMA SetBitsCardinality ==
    ASSUME KernelMemoryInv, Ready
    PROVE  Cardinality(SetBits) = StartBlock + Kept + Cardinality(Owners("main"))
                                      + Cardinality(Owners("background"))
<1> DEFINE low == 0 .. StartBlock + Kept - 1
           m == Owned("main")
           b == Owned("background")
<1>0. Kept \in 0 .. 9
  BY KeptBlocks DEF KernelMemoryInv
<1>1. \A s \in Stacks : Owned(s) \subseteq Pool /\ \A a \in Owned(s) : a >= StartBlock + Kept
  BY OwnersInPool DEF Owned
<1>2. SetBits = (low \cup m) \cup b
  <2>1. low \subseteq 0 .. MemBlocks - 1 /\ Pool \subseteq 0 .. MemBlocks - 1
    BY <1>0, Sizes DEF Pool
  <2>2. \A a \in 0 .. MemBlocks - 1 :
            pmm_bitmap[a] = 1 <=> a < StartBlock + Kept \/ a \in m \/ a \in b
    BY DEF KernelMemoryInv, ReadyInv, MarkedAreOwned, Owned, Stacks
  <2>3. \A a \in 0 .. MemBlocks - 1 : a < StartBlock + Kept <=> a \in low
    BY <1>0, Sizes
  <2>4. max_blocks = MemBlocks
    BY NeverFull
  <2> HIDE DEF low, m, b
  <2> QED
    BY <1>1, <2>1, <2>2, <2>3, <2>4 DEF SetBits, Stacks, m, b
<1>3. low \cap m = {} /\ (low \cup m) \cap b = {}
  <2>1. m \cap b = {}
    BY DEF KernelMemoryInv, ReadyInv, OwnersDiffer, Owned, Stacks
  <2> QED
    BY <1>0, <1>1, <2>1, Sizes DEF Stacks
<1>4. IsFiniteSet(low) /\ Cardinality(low) = StartBlock + Kept
  BY <1>0, FS_Interval, Sizes
<1>5. /\ IsFiniteSet(m) /\ Cardinality(m) = Cardinality(Owners("main"))
      /\ IsFiniteSet(b) /\ Cardinality(b) = Cardinality(Owners("background"))
  BY OwnedCardinality DEF Stacks
<1>6. Cardinality(Owners("main")) \in Nat /\ Cardinality(Owners("background")) \in Nat
  BY Cards DEF KernelMemoryInv, Stacks
<1>7. IsFiniteSet(low \cup m) /\ Cardinality(low \cup m) = Cardinality(low) + Cardinality(m)
  <2> HIDE DEF low, m, b
  <2> QED
    BY <1>3, <1>4, <1>5, DisjointUnion
<1>8. Cardinality((low \cup m) \cup b) = Cardinality(low \cup m) + Cardinality(b)
  <2> HIDE DEF low, m, b
  <2> QED
    BY <1>3, <1>5, <1>7, DisjointUnion
<1> QED
  BY <1>2, <1>4, <1>5, <1>7, <1>8

\* There is always a clear bit, for a scan to find.
LEMMA SomeBitIsClear ==
    ASSUME KernelMemoryInv, Ready
    PROVE  /\ ClearBits # {}
           /\ FirstFit \in ClearBits /\ \A b \in ClearBits : FirstFit <= b
<1>1. max_blocks = MemBlocks
  BY NeverFull
<1>2. ClearBits # {}
  <2> SUFFICES ASSUME ClearBits = {} PROVE FALSE
    OBVIOUS
  <2>1. SetBits = 0 .. MemBlocks - 1
    BY <1>1, Sizes DEF ClearBits, SetBits, KernelMemoryInv, TypeOK, Addresses
  <2>2. Cardinality(SetBits) = MemBlocks
    BY <2>1, FS_Interval, Sizes
  <2>3. \A s \in Stacks : Cardinality(Owners(s)) \in 0 .. MaxNested
    BY Cards, Calls, Sizes DEF KernelMemoryInv
  <2>4. Kept \in 0 .. 9
    BY KeptBlocks DEF KernelMemoryInv
  <2> QED
    BY <2>2, <2>3, <2>4, SetBitsCardinality, Sizes DEF Stacks
<1>3. ClearBits \in SUBSET Nat
  BY DEF ClearBits
<1> QED
  BY <1>2, <1>3, MinOfNumbers DEF FirstFit

----------------------------------------------------------------------------
(* A step of one call.                                                     *)

\* The call at n, which is the top of the stack s or becomes it, does something;
\* the calls below it and those on the other stack, which is outside, do not.
Moves(s, n) ==
    /\ DOMAIN call[s] \subseteq 1 .. n /\ DOMAIN call'[s] \subseteq 1 .. n
    /\ \A i \in 1 .. n - 1 :
          i \in DOMAIN call[s] /\ i \in DOMAIN call'[s] /\ call'[s][i] = call[s][i]
    /\ \A t \in Stacks \ {s} : call'[t] = call[t] /\ ~Inside(t)
    /\ UNCHANGED <<max_blocks, memory, stage, heap, paging>>

\* Only the call at n changes what it owns and whether its block counts.
LEMMA MovesOne ==
    ASSUME NEW s \in Stacks, NEW n \in Nat \ {0}, Moves(s, n)
    PROVE  /\ Counted(s) \ {n} = Counted(s)' \ {n}
           /\ Owners(s) \ {n} = Owners(s)' \ {n}
           /\ \A i \in Owners(s) \ {n} : call'[s][i] = call[s][i]
           /\ \A i \in 1 .. n - 1 : Above(s, i) \ {n} = Above(s, i)' \ {n}
           /\ \A i \in 1 .. n - 1 : (n \in Above(s, i)) <=> (n \in Counted(s))
           /\ \A i \in 1 .. n - 1 : (n \in Above(s, i)') <=> (n \in Counted(s)')
           /\ \A t \in Stacks \ {s} : Counted(t)' = Counted(t) /\ Owners(t)' = Owners(t)
<1>1. \A i \in 1 .. n : i # n => i \in 1 .. n - 1
  OBVIOUS
<1>2. \A i \in DOMAIN call[s] : i # n => i \in DOMAIN call'[s] /\ call'[s][i] = call[s][i]
  BY <1>1 DEF Moves
<1>3. \A i \in DOMAIN call'[s] : i # n => i \in DOMAIN call[s] /\ call'[s][i] = call[s][i]
  BY <1>1 DEF Moves
<1>4. Counted(s) \ {n} = Counted(s)' \ {n}
  BY <1>2, <1>3 DEF Counted
<1>5. Owners(s) \ {n} = Owners(s)' \ {n} /\ \A i \in Owners(s) \ {n} : call'[s][i] = call[s][i]
  BY <1>2, <1>3 DEF Owners
<1>6. \A t \in Stacks \ {s} : Counted(t)' = Counted(t) /\ Owners(t)' = Owners(t)
  BY DEF Moves, Counted, Owners
<1>7. \A i \in 1 .. n - 1 : Above(s, i) \ {n} = Above(s, i)' \ {n}
  BY <1>4 DEF Above
<1>8. \A i \in 1 .. n - 1 : n > i
  OBVIOUS
<1> QED
  BY <1>4, <1>5, <1>6, <1>7, <1>8 DEF Above

\* Arithmetic of the counts.
LEMMA Tally ==
    ASSUME NEW u \in Nat, NEW a \in Nat, NEW up \in {0, 1}, NEW down \in {0, 1}
    PROVE  u + a + up - down = u + (a + up - down)
  OBVIOUS

\* A step that counts or uncounts its own block, and no other, keeps the counts
\* that the calls below it loaded as far from used_blocks as they were.
Tallied(s, n) ==
    used_blocks' = used_blocks + (IF n \in Counted(s)' THEN 1 ELSE 0)
                               - (IF n \in Counted(s) THEN 1 ELSE 0)

\* With such a step used_blocks stays the number of the blocks counted, and the counts
\* that calls below it loaded are as current as before.
LEMMA CountsStayCurrent ==
    ASSUME KernelMemoryInv, Ready, call' \in [Stacks -> Seq(CallType)],
           NEW s \in Stacks, NEW n \in Nat \ {0}, Moves(s, n), Tallied(s, n)
    PROVE  /\ used_blocks' = StartBlock + Kept + Cardinality(Counted("main")')
                                               + Cardinality(Counted("background")')
           /\ \A i \in 1 .. n - 1 : CountIsCurrent(s, i) => CountIsCurrent(s, i)'
<1>1. \A t \in Stacks : \A P \in SUBSET DOMAIN call'[t] : IsFiniteSet(P)
  BY StackElements, PositionsAreFinite
<1>2. \A t \in Stacks : \A P \in SUBSET DOMAIN call[t] : IsFiniteSet(P)
  BY StackElements, PositionsAreFinite DEF KernelMemoryInv, TypeOK
<1>3. \A t \in Stacks : IsFiniteSet(Counted(t)) /\ IsFiniteSet(Counted(t)')
  BY <1>1, <1>2 DEF Counted
<1>4. \A i \in 1 .. n - 1 : IsFiniteSet(Above(s, i)) /\ IsFiniteSet(Above(s, i)')
  BY <1>1, <1>2 DEF Above, Counted
<1>5. used_blocks \in Nat /\ Kept \in 0 .. 9
  BY NeverFull, KeptBlocks DEF KernelMemoryInv
<1>6. \A i \in 1 .. n - 1 : CountIsCurrent(s, i) => CountIsCurrent(s, i)'
  <2> SUFFICES ASSUME NEW i \in 1 .. n - 1, CountIsCurrent(s, i)
               PROVE  CountIsCurrent(s, i)'
    OBVIOUS
  <2>1. /\ Cardinality(Above(s, i)) \in Nat /\ Cardinality(Above(s, i)') \in Nat
        /\ Cardinality(Above(s, i)') = Cardinality(Above(s, i))
                                       + (IF n \in Counted(s)' THEN 1 ELSE 0)
                                       - (IF n \in Counted(s) THEN 1 ELSE 0)
    <3>1. /\ IsFiniteSet(Above(s, i)) /\ IsFiniteSet(Above(s, i)')
          /\ Above(s, i) \ {n} = Above(s, i)' \ {n}
          /\ (n \in Above(s, i)) <=> (n \in Counted(s))
          /\ (n \in Above(s, i)') <=> (n \in Counted(s)')
      BY <1>4, MovesOne
    <3>2. /\ Cardinality(Above(s, i)) \in Nat /\ Cardinality(Above(s, i)') \in Nat
          /\ Cardinality(Above(s, i)') = Cardinality(Above(s, i))
                                       + (IF n \in Above(s, i)' THEN 1 ELSE 0)
                                       - (IF n \in Above(s, i) THEN 1 ELSE 0)
      BY <3>1, DifferInOne
    <3> QED
      BY <3>1, <3>2
  <2>2. call'[s][i] = call[s][i] /\ call[s][i].used \in Nat
    BY Calls, CapacityAssumption DEF Moves, CallType, KernelMemoryInv
  <2>3. (Cardinality(Above(s, i)))' = Cardinality(Above(s, i)')
    OBVIOUS
  <2>4. PICK up, down \in {0, 1} : /\ up = IF n \in Counted(s)' THEN 1 ELSE 0
                                  /\ down = IF n \in Counted(s) THEN 1 ELSE 0
    OBVIOUS
  <2>5. PICK a, b \in Nat : /\ a = Cardinality(Above(s, i)) /\ b = Cardinality(Above(s, i)')
                           /\ b = a + up - down
    BY <2>1, <2>4
  <2>6. used_blocks = call[s][i].used + a /\ used_blocks' = used_blocks + up - down
    BY <2>4, <2>5 DEF CountIsCurrent, Tallied
  <2>7. used_blocks' = call'[s][i].used + b
    <3>1. PICK u \in Nat : u = call[s][i].used /\ call'[s][i].used = u
      BY <2>2
    <3>2. used_blocks' = u + a + up - down
      BY <2>6, <3>1
    <3>3. u + a + up - down = u + (a + up - down)
      BY <3>1, Tally
    <3>4. used_blocks' = u + b
      BY <2>5, <3>2, <3>3
    <3> QED
      BY <3>1, <3>4
  <2> QED
    BY <2>3, <2>5, <2>7 DEF CountIsCurrent
<1>7. /\ Cardinality(Counted(s)) \in Nat
      /\ Cardinality(Counted(s)') = Cardinality(Counted(s))
                                       + (IF n \in Counted(s)' THEN 1 ELSE 0)
                                       - (IF n \in Counted(s) THEN 1 ELSE 0)
  BY <1>3, MovesOne, DifferInOne
<1>8. \A t \in Stacks \ {s} : /\ Cardinality(Counted(t)) \in Nat
                              /\ Cardinality(Counted(t)') = Cardinality(Counted(t))
  BY <1>3, MovesOne, FS_CardinalityType
<1>9. used_blocks = StartBlock + Kept
            + Cardinality(Counted("main")) + Cardinality(Counted("background"))
  BY DEF KernelMemoryInv, ReadyInv
<1> QED
  <2>1. CASE s = "main"
    BY <1>5, <1>6, <1>7, <1>8, <1>9, <2>1, Sizes DEF Tallied, Stacks
  <2>2. CASE s = "background"
    BY <1>5, <1>6, <1>7, <1>8, <1>9, <2>2, Sizes DEF Tallied, Stacks
  <2> QED
    BY <2>1, <2>2 DEF Stacks

\* A step that marks its own block when it comes to own it, or clears the block
\* it owned, and changes no other bit.
Marks(s, n) ==
    LET was == n \in Owners(s)
        is  == n \in Owners(s)' IN
    /\ was /\ is => pmm_bitmap' = pmm_bitmap /\ call'[s][n].addr = call[s][n].addr
    /\ ~was /\ ~is => pmm_bitmap' = pmm_bitmap
    /\ ~was /\ is => /\ call'[s][n].addr \in Pool
                     /\ pmm_bitmap[call'[s][n].addr] = 0
                     /\ pmm_bitmap' = [pmm_bitmap EXCEPT ![call'[s][n].addr] = 1]
    /\ was /\ ~is => pmm_bitmap' = [pmm_bitmap EXCEPT ![call[s][n].addr] = 0]

\* With such a step no two calls own one block, and a bit is set exactly for the blocks
\* that somebody owns.
LEMMA MarksStayOwned ==
    ASSUME KernelMemoryInv, Ready,
           NEW s \in Stacks, NEW n \in Nat \ {0}, Moves(s, n), Marks(s, n)
    PROVE  OwnersDiffer' /\ MarkedAreOwned'
<1> DEFINE was == n \in Owners(s)
           is  == n \in Owners(s)'
<1>1. /\ Kept' = Kept /\ Kept \in 0 .. 9 /\ Pool \subseteq Addresses
      /\ Pool \subseteq 0 .. MemBlocks - 1 /\ 0 .. MemBlocks - 1 \subseteq Addresses
      /\ pmm_bitmap \in [Addresses -> {0, 1}]
  BY KeptBlocks, Sizes DEF Kept, Moves, Pool, Addresses, KernelMemoryInv, TypeOK
<1>2. /\ Owners(s) \ {n} = Owners(s)' \ {n}
      /\ \A i \in Owners(s) \ {n} : call'[s][i] = call[s][i]
      /\ \A t \in Stacks \ {s} : Owners(t)' = Owners(t) /\ call'[t] = call[t]
  BY MovesOne DEF Moves
<1>3. /\ \A t \in Stacks : \A i \in Owners(t) : call[t][i].addr \in Pool
      /\ OwnersDiffer /\ MarkedAreOwned
  BY OwnersInPool DEF KernelMemoryInv, ReadyInv
<1>4. \A t \in Stacks : \A i \in Owners(t)' :
          \/ t = s /\ i = n
          \/ i \in Owners(t) /\ call'[t][i] = call[t][i] /\ ~(t = s /\ i = n)
  BY <1>2
<1>5. \A t \in Stacks : \A i \in Owners(t) :
          \/ t = s /\ i = n
          \/ i \in Owners(t)' /\ call'[t][i] = call[t][i]
  BY <1>2
<1>6. CASE ~was /\ is
  <2> DEFINE a == call'[s][n].addr
  <2>1. a \in Pool /\ pmm_bitmap[a] = 0 /\ pmm_bitmap' = [pmm_bitmap EXCEPT ![a] = 1]
    BY <1>6 DEF Marks
  <2>2. ~(a < StartBlock + Kept) /\ \A t \in Stacks : \A i \in Owners(t) : call[t][i].addr # a
    <3> HIDE DEF a
    <3>1. a \in 0 .. MemBlocks - 1 /\ pmm_bitmap[a] # 1
      BY <1>1, <2>1
    <3> QED
      BY <1>3, <3>1 DEF MarkedAreOwned
  <2>3. a >= StartBlock + Kept
    BY <1>1, <2>1, <2>2, Sizes DEF Pool
  <2> HIDE DEF a
  <2>4. OwnersDiffer'
    BY <1>1, <1>3, <1>4, <2>2, <2>3 DEF OwnersDiffer, a
  <2>5. \A b \in 0 .. MemBlocks - 1 : pmm_bitmap'[b] = IF b = a THEN 1 ELSE pmm_bitmap[b]
    BY <1>1, <2>1
  <2>6. \A b \in 0 .. MemBlocks - 1 :
            (\E t \in Stacks : \E i \in Owners(t)' : call'[t][i].addr = b)
              <=> \/ b = a
                  \/ \E t \in Stacks : \E i \in Owners(t) : call[t][i].addr = b
    <3>1. \A t \in Stacks : \A i \in Owners(t) : i \in Owners(t)' /\ call'[t][i] = call[t][i]
      BY <1>5, <1>6
    <3>2. n \in Owners(s)' /\ call'[s][n].addr = a
      BY <1>6 DEF a
    <3>3. \A t \in Stacks : \A i \in Owners(t)' :
              call'[t][i].addr = a \/ (i \in Owners(t) /\ call'[t][i] = call[t][i])
      BY <1>4, <3>2
    <3> TAKE b \in 0 .. MemBlocks - 1
    <3>4. (\E t \in Stacks : \E i \in Owners(t)' : call'[t][i].addr = b)
              => \/ b = a
                 \/ \E t \in Stacks : \E i \in Owners(t) : call[t][i].addr = b
      BY <3>3
    <3>5. (\E t \in Stacks : \E i \in Owners(t) : call[t][i].addr = b)
              => \E t \in Stacks : \E i \in Owners(t)' : call'[t][i].addr = b
      BY <3>1
    <3>6. b = a => \E t \in Stacks : \E i \in Owners(t)' : call'[t][i].addr = b
      BY <3>2
    <3> QED
      BY <3>4, <3>5, <3>6
  <2>7. MarkedAreOwned'
    <3> SUFFICES ASSUME NEW b \in 0 .. MemBlocks - 1
                 PROVE  pmm_bitmap'[b] = 1 <=>
                            \/ b < StartBlock + Kept
                            \/ \E t \in Stacks : \E i \in Owners(t)' : call'[t][i].addr = b
      BY <1>1 DEF MarkedAreOwned
    <3>1. pmm_bitmap[b] = 1 <=>
              \/ b < StartBlock + Kept
              \/ \E t \in Stacks : \E i \in Owners(t) : call[t][i].addr = b
      BY <1>3 DEF MarkedAreOwned
    <3>2. CASE b = a
      BY <2>5, <2>6, <3>2
    <3>3. CASE b # a
      BY <2>5, <2>6, <3>1, <3>3
    <3> QED
      BY <3>2, <3>3
  <2> QED
    BY <2>4, <2>7
<1>7. CASE was /\ ~is
  <2> DEFINE a == call[s][n].addr
  <2>1. pmm_bitmap' = [pmm_bitmap EXCEPT ![a] = 0] /\ a \in Pool
    BY <1>3, <1>7 DEF Marks
  <2>2. /\ a >= StartBlock + Kept
        /\ \A t \in Stacks : \A i \in Owners(t) : call[t][i].addr = a => t = s /\ i = n
    <3>1. n \in Owners(s)
      BY <1>7
    <3>2. \A t \in Stacks : \A i \in Owners(t), j \in Owners(s) :
              /\ call[s][j].addr >= StartBlock + Kept
              /\ call[t][i].addr = call[s][j].addr => t = s /\ i = j
      BY <1>3 DEF OwnersDiffer
    <3> QED
      BY <3>1, <3>2, Zenon
  <2>3. ~(a < StartBlock + Kept)
    <3> HIDE DEF a
    <3>1. PICK k \in Nat : k = StartBlock + Kept
      BY <1>1, Sizes
    <3>2. a \in Nat
      BY <2>1, Sizes DEF Pool
    <3> QED
      BY <2>2, <3>1, <3>2
  <2> HIDE DEF a
  <2>4. \A t \in Stacks : \A i \in Owners(t)' :
            i \in Owners(t) /\ call'[t][i] = call[t][i] /\ ~(t = s /\ i = n)
    BY <1>4, <1>7
  <2>5. OwnersDiffer'
    BY <1>1, <1>3, <2>4 DEF OwnersDiffer
  <2>6. \A b \in 0 .. MemBlocks - 1 : pmm_bitmap'[b] = IF b = a THEN 0 ELSE pmm_bitmap[b]
    BY <1>1, <2>1
  <2>7. \A b \in 0 .. MemBlocks - 1 :
            (\E t \in Stacks : \E i \in Owners(t)' : call'[t][i].addr = b)
              <=> /\ b # a
                  /\ \E t \in Stacks : \E i \in Owners(t) : call[t][i].addr = b
    BY <1>5, <2>2, <2>4 DEF a
  <2>8. MarkedAreOwned'
    <3> SUFFICES ASSUME NEW b \in 0 .. MemBlocks - 1
                 PROVE  pmm_bitmap'[b] = 1 <=>
                            \/ b < StartBlock + Kept
                            \/ \E t \in Stacks : \E i \in Owners(t)' : call'[t][i].addr = b
      BY <1>1 DEF MarkedAreOwned
    <3>1. pmm_bitmap[b] = 1 <=>
              \/ b < StartBlock + Kept
              \/ \E t \in Stacks : \E i \in Owners(t) : call[t][i].addr = b
      BY <1>3 DEF MarkedAreOwned
    <3>2. CASE b = a
      BY <2>3, <2>6, <2>7, <3>2
    <3>3. CASE b # a
      BY <2>6, <2>7, <3>1, <3>3
    <3> QED
      BY <3>2, <3>3
  <2> QED
    BY <2>5, <2>8
<1>8. CASE was /\ is
  <2>1. pmm_bitmap' = pmm_bitmap /\ call'[s][n].addr = call[s][n].addr
    BY <1>8 DEF Marks
  <2>2. Owners(s)' = Owners(s)
    BY <1>2, <1>8
  <2>3. \A t \in Stacks : /\ Owners(t)' = Owners(t)
                          /\ \A i \in Owners(t) : call'[t][i].addr = call[t][i].addr
    BY <1>2, <2>1, <2>2
  <2> QED
    BY <1>1, <1>3, <2>1, <2>3 DEF OwnersDiffer, MarkedAreOwned
<1>9. CASE ~was /\ ~is
  <2>1. pmm_bitmap' = pmm_bitmap
    BY <1>9 DEF Marks
  <2>2. \A t \in Stacks : /\ Owners(t)' = Owners(t)
                          /\ \A i \in Owners(t) : call'[t][i].addr = call[t][i].addr
    <3> TAKE t \in Stacks
    <3>1. CASE t = s
      <4>1. Owners(s)' = Owners(s)
        BY <1>2, <1>9
      <4>2. \A i \in Owners(s) : call'[s][i] = call[s][i]
        BY <1>2, <1>9
      <4> QED
        BY <3>1, <4>1, <4>2
    <3>2. CASE t # s
      BY <1>2, <3>2
    <3> QED
      BY <3>1, <3>2
  <2> QED
    BY <1>1, <1>3, <2>1, <2>2 DEF OwnersDiffer, MarkedAreOwned
<1> QED
  BY <1>6, <1>7, <1>8, <1>9

\* What the calls below loaded is still what they will find: a block that is
\* taken above them is one they saw free.
LEMMA WordsStayCurrent ==
    ASSUME KernelMemoryInv, Ready,
           NEW s \in Stacks, NEW n \in Nat \ {0}, Moves(s, n), Marks(s, n),
           NEW i \in 1 .. n - 1, WordIsCurrent(s, i)
    PROVE  WordIsCurrent(s, i)'
<1> DEFINE was == n \in Owners(s)
           is  == n \in Owners(s)'
           others == {call[s][j].addr : j \in {k \in Owners(s) \ {n} : k > i}}
<1>1. /\ pmm_bitmap \in [Addresses -> {0, 1}] /\ Pool \subseteq Addresses
      /\ n > i /\ call'[s][i] = call[s][i]
  BY Sizes DEF Moves, Pool, Addresses, KernelMemoryInv, TypeOK
<1>2. /\ Owners(s) \ {n} = Owners(s)' \ {n}
      /\ \A j \in Owners(s) \ {n} : call'[s][j] = call[s][j]
  BY MovesOne
<1>3. TakenAbove(s, i) = others \cup (IF was THEN {call[s][n].addr} ELSE {})
  BY <1>1 DEF TakenAbove
<1>4. TakenAbove(s, i)' = others \cup (IF is THEN {call'[s][n].addr} ELSE {})
  BY <1>1, <1>2 DEF TakenAbove
<1>5. was => call[s][n].addr \in Pool
  BY OwnersInPool
<1>6. was => \A j \in Owners(s) \ {n} : call[s][j].addr # call[s][n].addr
  BY DEF KernelMemoryInv, ReadyInv, OwnersDiffer
<1>7. \A k \in Addresses : (IF k \in TakenAbove(s, i) THEN 0 ELSE pmm_bitmap[k])
                        = (IF k \in TakenAbove(s, i)' THEN 0 ELSE pmm_bitmap'[k])
  <2> HIDE DEF others
  <2>1. CASE ~was /\ is
    BY <1>1, <1>3, <1>4, <2>1 DEF Marks
  <2>2. CASE was /\ ~is
    BY <1>1, <1>3, <1>4, <1>5, <2>2 DEF Marks
  <2>3. CASE (was /\ is) \/ (~was /\ ~is)
    BY <1>1, <1>3, <1>4, <2>3 DEF Marks
  <2> QED
    BY <2>1, <2>2, <2>3
<1> QED
  BY <1>1, <1>7 DEF WordIsCurrent, Word

\* So such a step keeps the invariant if it does for its own call.
LEMMA OneCallMoves ==
    ASSUME KernelMemoryInv, Ready, call' \in [Stacks -> Seq(CallType)],
           NEW s \in Stacks, NEW n \in Nat \ {0},
           Moves(s, n), Tallied(s, n), Marks(s, n),
           n \in DOMAIN call'[s] => CallInv(s, n)',
           n <= MaxNested, s = "background" => stage = "tasks"
    PROVE  KernelMemoryInv'
<1>1. /\ Kept' = Kept /\ stage' = stage /\ heap' = heap /\ paging' = paging
      /\ max_blocks' = max_blocks /\ memory' = memory /\ Ready'
  BY DEF Moves, Kept, Ready
<1>2. \A t \in Stacks : Len(call'[t]) \in Nat /\ DOMAIN call'[t] = 1 .. Len(call'[t])
  BY StackElements
<1>3. \A t \in Stacks : Len(call'[t]) <= MaxNested
  <2>1. Len(call'[s]) <= n
    BY <1>2 DEF Moves
  <2> QED
    BY <1>2, <2>1, Sizes DEF Moves, KernelMemoryInv
<1>4. ReadyInv'
  <2>1. \A i \in DOMAIN call'[s] : CallInv(s, i)'
    <3> SUFFICES ASSUME NEW i \in DOMAIN call'[s], i # n PROVE CallInv(s, i)'
      OBVIOUS
    <3>1. i \in 1 .. n - 1
      BY DEF Moves
    <3>2. CallInv(s, i) /\ call'[s][i] = call[s][i]
      BY <3>1 DEF Moves, KernelMemoryInv, ReadyInv
    <3>3. /\ CountIsCurrent(s, i) => CountIsCurrent(s, i)'
          /\ WordIsCurrent(s, i) => WordIsCurrent(s, i)'
      BY <3>1, CountsStayCurrent, WordsStayCurrent
    <3> QED
      BY <1>1, <3>2, <3>3 DEF CallInv
  <2>2. \A t \in Stacks \ {s} : \A i \in DOMAIN call'[t] : CallInv(t, i)'
    <3> SUFFICES ASSUME NEW t \in Stacks \ {s}, NEW i \in DOMAIN call'[t] PROVE CallInv(t, i)'
      OBVIOUS
    <3>1. /\ CallInv(t, i) /\ call'[t][i] = call[t][i] /\ call[t][i].pc = "got"
      BY DEF Moves, KernelMemoryInv, ReadyInv, Inside
    <3> QED
      BY <1>1, <3>1 DEF CallInv
  <2>3. OneStackInside'
    BY DEF OneStackInside, Moves, Inside, Stacks
  <2>4. max_blocks' = MemBlocks
    BY <1>1, NeverFull
  <2> QED
    BY <1>1, <2>1, <2>2, <2>3, <2>4, CountsStayCurrent, MarksStayOwned DEF ReadyInv
<1>5. used_blocks' \in 0 .. max_blocks'
  <2>1. \A t \in Stacks : Counted(t)' \in SUBSET (1 .. Len(call'[t]))
    BY <1>2 DEF Counted
  <2>2. \A t \in Stacks : /\ Cardinality(Counted(t)') \in Nat
                          /\ Cardinality(Counted(t)') <= Len(call'[t])
    BY <1>2, <2>1, PositionsAreFinite
  <2>3. \A t \in Stacks : /\ Cardinality(Counted(t)') \in Nat
                          /\ Cardinality(Counted(t)') <= MaxNested
    BY <1>2, <1>3, <2>2, Sizes
  <2>4. Kept \in 0 .. 9 /\ max_blocks' = MemBlocks
    BY <1>1, KeptBlocks, NeverFull DEF KernelMemoryInv
  <2> QED
    BY <2>3, <2>4, CountsStayCurrent, Sizes DEF Stacks
<1>6. TypeOK'
  <2>1. pmm_bitmap' \in [Addresses -> {0, 1}]
    BY DEF Marks, KernelMemoryInv, TypeOK
  <2> QED
    BY <1>1, <1>5, <2>1 DEF KernelMemoryInv, TypeOK
<1>7. StageInv'
  BY <1>1 DEF Moves, KernelMemoryInv, StageInv, Stacks
<1>8. PagingInv'
  <2>1. written' = written /\ cr3' = cr3 /\ pg' = pg
    BY <1>1 DEF memory
  <2>2. \A b : Contents(b)' = Contents(b)
    BY <2>1 DEF Contents
  <2> QED
    BY <1>1, <2>1, <2>2 DEF KernelMemoryInv, PagingInv
<1> QED
  BY <1>1, <1>3, <1>4, <1>6, <1>7, <1>8 DEF KernelMemoryInv, Ready

\* The call at n is the top of its stack, and goes on with another record or
\* returns.
OnTop(s, n) ==
    /\ n \in DOMAIN call[s] /\ n <= MaxNested
    /\ Top(s) = call[s][n] /\ Top(s) \in CallType /\ CallInv(s, n)
    /\ Above(s, n) = {} /\ TakenAbove(s, n) = {}
    /\ s = "background" => stage = "tasks"
    /\ \A c \in CallType :
          Goes(s, c) => /\ call' \in [Stacks -> Seq(CallType)] /\ Moves(s, n)
                        /\ n \in DOMAIN call'[s] /\ call'[s][n] = c
                        /\ Above(s, n)' = {} /\ TakenAbove(s, n)' = {}
    /\ Return(s) => /\ call' \in [Stacks -> Seq(CallType)] /\ Moves(s, n)
                    /\ n \notin DOMAIN call'[s]

\* The call on top of a stack that runs alone is such a call.
LEMMA TopMoves ==
    ASSUME KernelMemoryInv, Ready, NEW s \in Stacks, call[s] # <<>>,
           \A t \in Stacks \ {s} : ~Inside(t),
           UNCHANGED <<max_blocks, memory, stage, heap, paging>>
    PROVE  \E n \in Nat \ {0} : OnTop(s, n)
<1>1. call \in [Stacks -> Seq(CallType)]
  BY DEF KernelMemoryInv, TypeOK
<1>0. PICK n \in Nat \ {0} : n = Len(call[s])
  BY <1>1, StackElements
<1>2. /\ n \in DOMAIN call[s] /\ n <= MaxNested /\ DOMAIN call[s] = 1 .. n
      /\ Top(s) = call[s][n] /\ Top(s) \in CallType /\ CallInv(s, n)
  BY <1>0, Calls DEF KernelMemoryInv, ReadyInv
<1>3. Above(s, n) = {} /\ TakenAbove(s, n) = {}
  BY <1>2 DEF Above, TakenAbove, Counted, Owners
<1>4. s = "background" => stage = "tasks"
  BY DEF KernelMemoryInv, StageInv
<1>5. ASSUME NEW c \in CallType, Goes(s, c)
      PROVE  /\ call' \in [Stacks -> Seq(CallType)] /\ Moves(s, n)
             /\ n \in DOMAIN call'[s] /\ call'[s][n] = c
             /\ Above(s, n)' = {} /\ TakenAbove(s, n)' = {}
  <2>1. call' = [call EXCEPT ![s] = Append(Front(@), c)]
    BY <1>5 DEF Goes
  <2>2. /\ call' \in [Stacks -> Seq(CallType)]
        /\ \A t \in Stacks \ {s} : call'[t] = call[t]
        /\ DOMAIN call'[s] = 1 .. n /\ call'[s][n] = c
        /\ \A i \in 1 .. n \ {n} : call'[s][i] = call[s][i]
    <3>1. /\ call'[s] = Append(Front(call[s]), c)
          /\ \A t \in Stacks \ {s} : call'[t] = call[t]
      BY <1>1, <2>1
    <3>2. /\ call'[s] \in Seq(CallType)
          /\ DOMAIN call'[s] = DOMAIN call[s]
          /\ call'[s][Len(call[s])] = c
          /\ \A i \in DOMAIN call[s] \ {Len(call[s])} : call'[s][i] = call[s][i]
      BY <1>1, <1>5, <3>1, StackReplace
    <3>3. call' \in [Stacks -> Seq(CallType)]
      BY <1>1, <2>1, <3>1, <3>2
    <3> QED
      BY <1>0, <1>2, <3>1, <3>2, <3>3
  <2>3. Moves(s, n)
    BY <1>2, <2>2 DEF Moves
  <2>4. Above(s, n)' = {} /\ TakenAbove(s, n)' = {}
    BY <1>2, <2>2 DEF Above, TakenAbove, Counted, Owners
  <2> QED
    BY <1>2, <2>2, <2>3, <2>4
<1>6. ASSUME Return(s)
      PROVE  /\ call' \in [Stacks -> Seq(CallType)] /\ Moves(s, n)
             /\ n \notin DOMAIN call'[s]
  <2>1. call' = [call EXCEPT ![s] = Front(@)]
    BY <1>6 DEF Return
  <2>2. /\ call' \in [Stacks -> Seq(CallType)]
        /\ \A t \in Stacks \ {s} : call'[t] = call[t]
        /\ DOMAIN call'[s] = 1 .. n - 1
        /\ \A i \in DOMAIN call'[s] : call'[s][i] = call[s][i]
    <3>1. call'[s] = Front(call[s]) /\ call[s] \in Seq(CallType)
      BY <1>1, <2>1
    <3>2. /\ call'[s] \in Seq(CallType)
          /\ DOMAIN call'[s] = 1 .. n - 1
          /\ \A i \in DOMAIN call'[s] : call'[s][i] = call[s][i]
      BY <1>0, <3>1, StackPop
    <3> QED
      BY <1>1, <2>1, <3>2
  <2> QED
    BY <1>2, <2>2 DEF Moves
<1> QED
  BY <1>2, <1>3, <1>4, <1>5, <1>6 DEF OnTop

----------------------------------------------------------------------------
(* The functions of pmm.c, step by step.                                   *)

\* pmm_alloc_block is called by a command or by kernel_main: it loads the count.
LEMMA AllocKeeps ==
    ASSUME KernelMemoryInv, Ready, QuietPmm, NEW s \in Stacks, NEW user, Alloc(s, user),
           UNCHANGED <<memory, stage, heap, paging>>,
           \/ user = "testmem" /\ Len(call[s]) < MaxNested /\ (s = "background" => stage = "tasks")
           \/ user \in Allocating /\ user = stage /\ s = "main" /\ call[s] = <<>>
    PROVE  KernelMemoryInv'
<1>1. used_blocks \in Nat /\ used_blocks < MemBlocks /\ max_blocks = MemBlocks
  BY NeverFull
<1>2. used_blocks \in 0 .. Capacity /\ NULL \in Addresses /\ max_blocks # used_blocks
  BY <1>1, Sizes DEF NULL, Addresses
<1>3. PICK c \in CallType :
        c = [user |-> user, pc |-> "scan", used |-> used_blocks,
             addr |-> NULL, word |-> <<>>, due |-> {}]
  <2>1. <<>> \in {<<>>} \cup UNION {[Word(b) -> {0, 1}] : b \in Addresses}
    OBVIOUS
  <2>2. user \in Allocating \cup {"testmem"}
    OBVIOUS
  <2> QED
    BY <1>2, <2>1, <2>2 DEF CallType
<1>4. /\ call' = [call EXCEPT ![s] = Append(@, c)]
      /\ UNCHANGED <<pmm_bitmap, max_blocks, used_blocks>>
      /\ \A t \in Stacks \ {s} : ~Inside(t)
  BY <1>2, <1>3 DEF Alloc, MayEnter, statics
<1>5. c.pc = "scan" /\ c.user = user /\ c.used = used_blocks
  BY <1>3
<1>6. call \in [Stacks -> Seq(CallType)] /\ Len(call[s]) \in Nat
  BY Calls DEF KernelMemoryInv, TypeOK
<1>7. PICK n \in Nat \ {0} : n = Len(call[s]) + 1
  BY <1>6
<1>8. /\ call' \in [Stacks -> Seq(CallType)]
      /\ \A t \in Stacks \ {s} : call'[t] = call[t]
      /\ DOMAIN call'[s] = 1 .. n /\ DOMAIN call[s] = 1 .. n - 1
      /\ call'[s][n] = c
      /\ \A i \in 1 .. n - 1 : call'[s][i] = call[s][i]
  <2>1. /\ call' \in [Stacks -> Seq(CallType)]
        /\ \A t \in Stacks \ {s} : call'[t] = call[t]
        /\ DOMAIN call'[s] = 1 .. Len(call[s]) + 1 /\ DOMAIN call[s] = 1 .. Len(call[s])
        /\ call'[s][Len(call[s]) + 1] = c
        /\ \A i \in DOMAIN call[s] : call'[s][i] = call[s][i]
    BY <1>4, <1>6, StackPush
  <2>2. Len(call[s]) = n - 1
    BY <1>6, <1>7
  <2> QED
    BY <1>7, <2>1, <2>2
<1>9. n <= MaxNested /\ n \notin DOMAIN call[s] /\ n \in DOMAIN call'[s]
  <2>1. Len(<<>>) = 0
    BY EmptySeq
  <2> QED
    BY <1>6, <1>7, <1>8, <2>1, Sizes
<1>10. Moves(s, n)
  BY <1>4, <1>8, <1>9 DEF Moves
<1>11. n \notin Counted(s) /\ n \notin Counted(s)' /\ n \notin Owners(s) /\ n \notin Owners(s)'
  BY <1>5, <1>8, <1>9 DEF Counted, Counts, Owners, Owner
<1>12. Tallied(s, n) /\ Marks(s, n)
  BY <1>1, <1>4, <1>11 DEF Tallied, Marks
<1>13. CallInv(s, n)'
  <2>1. Above(s, n)' = {}
    BY <1>8 DEF Above, Counted
  <2>2. Cardinality(Above(s, n)') = 0
    BY <2>1, FS_EmptySet
  <2>3. CountIsCurrent(s, n)'
    BY <1>1, <1>4, <1>5, <1>8, <2>2 DEF CountIsCurrent
  <2>4. user # "testmem" => s = "main" /\ n = 1 /\ user = stage'
    <3>1. Len(<<>>) = 0
      BY EmptySeq
    <3> QED
      BY <1>7, <3>1 DEF Allocating
  <2> QED
    BY <1>5, <1>8, <2>3, <2>4 DEF CallInv
<1>14. s = "background" => stage = "tasks"
  OBVIOUS
<1> QED
  BY <1>8, <1>9, <1>10, <1>12, <1>13, <1>14, OneCallMoves

\* While a call is inside pmm.c, the other stack is not.
LEMMA OthersOutside ==
    ASSUME KernelMemoryInv, Ready, NEW s \in Stacks, call[s] # <<>>, Top(s).pc # "got"
    PROVE  Inside(s) /\ \A t \in Stacks \ {s} : ~Inside(t)
<1>1. Inside(s)
  BY Calls DEF Inside, KernelMemoryInv
<1> QED
  BY <1>1 DEF KernelMemoryInv, ReadyInv, OneStackInside, Stacks

\* The scan of a call of kernel_main finds the block after those it has: no
\* command is open on its stack below the call, and none on the other.
LEMMA KernelScans ==
    ASSUME KernelMemoryInv, Ready, NEW s \in Stacks, call[s] # <<>>,
           Top(s).pc = "scan", Top(s).user # "testmem", FirstFit \in Pool
    PROVE  FirstFit = StartBlock + Kept
<1>1. /\ Len(call[s]) \in DOMAIN call[s] /\ DOMAIN call[s] = 1 .. Len(call[s])
      /\ Top(s) = call[s][Len(call[s])] /\ Top(s) \in CallType
      /\ CallInv(s, Len(call[s]))
  BY Calls DEF KernelMemoryInv, ReadyInv
<1>2. s = "main" /\ Len(call[s]) = 1 /\ Top(s).user = stage
  BY <1>1 DEF CallInv
<1>3. stage \in Allocating
  BY <1>1, <1>2 DEF CallType
<1>4. call["background"] = <<>>
  BY <1>3 DEF KernelMemoryInv, StageInv, Allocating
<1>5. DOMAIN call["background"] = 1 .. 0
  BY <1>4, EmptySeq, Calls DEF KernelMemoryInv, Stacks
<1>6. \A t \in Stacks : Owners(t) = {}
  BY <1>1, <1>2, <1>5 DEF Owners, Owner, Stacks
<1>7. Kept \in 0 .. 9
  BY KeptBlocks DEF KernelMemoryInv
<1>8. /\ StartBlock + Kept \in 0 .. MemBlocks - 1 /\ StartBlock + Kept \in Addresses
      /\ ~(StartBlock + Kept < StartBlock + Kept)
  BY <1>7, Sizes DEF Addresses
<1>9. \A b \in 0 .. MemBlocks - 1 : pmm_bitmap[b] = 1 <=> b < StartBlock + Kept
  BY <1>6 DEF KernelMemoryInv, ReadyInv, MarkedAreOwned
<1>10. pmm_bitmap[StartBlock + Kept] = 0
  BY <1>8, <1>9 DEF KernelMemoryInv, TypeOK
<1>11. max_blocks = MemBlocks /\ FirstFit \in ClearBits /\ \A b \in ClearBits : FirstFit <= b
  BY SomeBitIsClear, NeverFull
<1>12. FirstFit <= StartBlock + Kept
  BY <1>8, <1>10, <1>11 DEF ClearBits
<1>13. ~(FirstFit < StartBlock + Kept)
  BY <1>9, <1>11 DEF ClearBits
<1> QED
  BY <1>7, <1>12, <1>13, Sizes DEF Pool

\* At the end of the scan a word is loaded, with a clear bit in it.
LEMMA ScanKeeps ==
    ASSUME KernelMemoryInv, Ready, NEW s \in Stacks, Scan(s),
           UNCHANGED <<memory, stage, heap, paging>>
    PROVE  KernelMemoryInv'
<1>1. /\ ClearBits # {} /\ FirstFit \in ClearBits
      /\ max_blocks = MemBlocks
  BY SomeBitIsClear, NeverFull
<1>2. /\ call[s] # <<>> /\ Top(s).pc = "scan"
      /\ Goes(s, [Top(s) EXCEPT !.pc = "mark", !.addr = FirstFit, !.word = Load(FirstFit)])
      /\ UNCHANGED <<pmm_bitmap, max_blocks, used_blocks>>
  BY <1>1 DEF Scan, At, statics
<1>3. PICK n \in Nat \ {0} : OnTop(s, n)
  BY <1>2, OthersOutside, TopMoves
<1>4. FirstFit \in Pool /\ pmm_bitmap[FirstFit] = 0
  <2>1. FirstFit \in 0 .. MemBlocks - 1 /\ pmm_bitmap[FirstFit] = 0
    BY <1>1 DEF ClearBits
  <2>2. ~(FirstFit < StartBlock + Kept)
    BY <2>1 DEF KernelMemoryInv, ReadyInv, MarkedAreOwned
  <2>3. Kept \in 0 .. 9
    BY KeptBlocks DEF KernelMemoryInv
  <2> QED
    BY <2>1, <2>2, <2>3, Sizes DEF Pool
<1>5. FirstFit \in Addresses /\ Load(FirstFit) \in [Word(FirstFit) -> {0, 1}]
  BY <1>4, Sizes DEF Pool, Addresses, Load, Word, KernelMemoryInv, TypeOK
<1>6. PICK c \in CallType :
        c = [Top(s) EXCEPT !.pc = "mark", !.addr = FirstFit, !.word = Load(FirstFit)]
  BY <1>3, <1>5 DEF CallType, OnTop
<1>7. /\ call' \in [Stacks -> Seq(CallType)] /\ Moves(s, n)
      /\ n \in DOMAIN call'[s] /\ call'[s][n] = c
      /\ Above(s, n)' = {} /\ TakenAbove(s, n)' = {}
  BY <1>2, <1>3, <1>6 DEF OnTop
<1>8. /\ c.pc = "mark" /\ c.addr = FirstFit /\ c.word = Load(FirstFit)
      /\ c.used = Top(s).used /\ c.user = Top(s).user
  BY <1>3, <1>6 DEF CallType, OnTop
<1>9. n \notin Counted(s) /\ n \notin Counted(s)' /\ n \notin Owners(s) /\ n \notin Owners(s)'
  BY <1>2, <1>3, <1>7, <1>8 DEF Counted, Counts, Owners, Owner, OnTop
<1>10. used_blocks \in Nat
  BY NeverFull
<1>11. Tallied(s, n) /\ Marks(s, n)
  BY <1>2, <1>9, <1>10 DEF Tallied, Marks
<1>12. CallInv(s, n)'
  <2>1. CountIsCurrent(s, n)'
    <3>1. CountIsCurrent(s, n)
      BY <1>2, <1>3 DEF CallInv, OnTop
    <3> QED
      BY <1>2, <1>3, <1>7, <1>8, <3>1 DEF CountIsCurrent, OnTop
  <2>2. FirstFit \in Word(FirstFit)
    BY <1>5 DEF Word
  <2>3. WordIsCurrent(s, n)'
    <3>1. \A k \in Word(FirstFit) : c.word[k] = pmm_bitmap[k]
      BY <1>8 DEF Load
    <3> QED
      BY <1>2, <1>5, <1>7, <1>8, <3>1 DEF WordIsCurrent
  <2>4. c.word[FirstFit] = 0
    BY <1>4, <1>8, <2>2 DEF Load
  <2>5. c.user # "testmem" => /\ s = "main" /\ n = 1 /\ c.user = stage
                              /\ FirstFit = StartBlock + Kept
    BY <1>2, <1>3, <1>4, <1>8, KernelScans DEF CallInv, OnTop
  <2>6. Kept' = Kept /\ stage' = stage
    BY DEF Kept
  <2> QED
    BY <1>4, <1>7, <1>8, <2>1, <2>3, <2>4, <2>5, <2>6 DEF CallInv
<1> QED
  BY <1>3, <1>7, <1>11, <1>12, OneCallMoves DEF OnTop

\* A word that is current is stored: its own bit is all that changes.
LEMMA StoreChangesOneBit ==
    ASSUME KernelMemoryInv, NEW s \in Stacks, NEW n \in Nat \ {0}, OnTop(s, n),
           WordIsCurrent(s, n), Top(s).addr \in Pool, NEW v,
           Store([Top(s).word EXCEPT ![Top(s).addr] = v])
    PROVE  /\ pmm_bitmap' = [pmm_bitmap EXCEPT ![Top(s).addr] = v]
           /\ Top(s).word[Top(s).addr] = pmm_bitmap[Top(s).addr]
<1> DEFINE a == Top(s).addr
           w == Top(s).word
<1>1. pmm_bitmap \in [Addresses -> {0, 1}] /\ a \in Addresses /\ a \in Word(a)
  BY Sizes DEF KernelMemoryInv, TypeOK, Pool, Addresses, Word
<1>2. w \in [Word(a) -> {0, 1}] /\ \A k \in Word(a) : w[k] = pmm_bitmap[k]
  BY DEF WordIsCurrent, OnTop
<1>3. pmm_bitmap' = [i \in Addresses |->
          IF i \in DOMAIN [w EXCEPT ![a] = v] THEN [w EXCEPT ![a] = v][i] ELSE pmm_bitmap[i]]
  BY DEF Store
<1> HIDE DEF a, w
<1>4. /\ DOMAIN [w EXCEPT ![a] = v] = Word(a)
      /\ \A k \in Word(a) : [w EXCEPT ![a] = v][k] = IF k = a THEN v ELSE pmm_bitmap[k]
  BY <1>1, <1>2
<1>5. pmm_bitmap' = [pmm_bitmap EXCEPT ![a] = v]
  BY <1>1, <1>3, <1>4
<1> QED
  BY <1>1, <1>2, <1>5 DEF a, w

\* No block of the pool is at NULL.
LEMMA InPool == \A b \in Pool : b # NULL
  BY Sizes DEF Pool, NULL

\* set_bit keeps the invariant: from there on the call owns the block.
LEMMA MarkKeeps ==
    ASSUME KernelMemoryInv, Ready, NEW s \in Stacks, Mark(s),
           UNCHANGED <<memory, stage, heap, paging>>
    PROVE  KernelMemoryInv'
<1>1. /\ call[s] # <<>> /\ Top(s).pc = "mark"
      /\ Store([Top(s).word EXCEPT ![Top(s).addr] = 1])
      /\ Goes(s, [Top(s) EXCEPT !.pc = "count", !.word = <<>>])
      /\ UNCHANGED <<max_blocks, used_blocks>>
  BY DEF Mark, At
<1>2. PICK n \in Nat \ {0} : OnTop(s, n)
  BY <1>1, OthersOutside, TopMoves
<1>3. /\ CountIsCurrent(s, n) /\ WordIsCurrent(s, n)
      /\ Top(s).addr \in Pool /\ Top(s).word[Top(s).addr] = 0
      /\ Top(s).user # "testmem" => /\ s = "main" /\ n = 1 /\ Top(s).user = stage
                                    /\ Top(s).addr = StartBlock + Kept
  BY <1>1, <1>2 DEF OnTop, CallInv
<1>4. /\ pmm_bitmap' = [pmm_bitmap EXCEPT ![Top(s).addr] = 1]
      /\ pmm_bitmap[Top(s).addr] = 0
  BY <1>1, <1>2, <1>3, StoreChangesOneBit
<1>5. PICK c \in CallType : c = [Top(s) EXCEPT !.pc = "count", !.word = <<>>]
  BY <1>2 DEF CallType, OnTop
<1>6. /\ call' \in [Stacks -> Seq(CallType)] /\ Moves(s, n)
      /\ n \in DOMAIN call'[s] /\ call'[s][n] = c
      /\ Above(s, n)' = {}
  BY <1>1, <1>2, <1>5 DEF OnTop
<1>7. /\ c.pc = "count" /\ c.addr = Top(s).addr /\ c.used = Top(s).used /\ c.user = Top(s).user
  BY <1>2, <1>5 DEF CallType, OnTop
<1>8. n \notin Counted(s) /\ n \notin Counted(s)' /\ n \notin Owners(s) /\ n \in Owners(s)'
  <2>1. call[s][n].pc = "mark" /\ call'[s][n].pc = "count" /\ call'[s][n].addr # NULL
    BY <1>1, <1>2, <1>3, <1>6, <1>7, InPool DEF OnTop
  <2> QED
    BY <1>6, <2>1 DEF Counted, Counts, Owners, Owner
<1>9. used_blocks \in Nat
  BY NeverFull
<1>10. Tallied(s, n) /\ Marks(s, n)
  BY <1>1, <1>3, <1>4, <1>6, <1>7, <1>8, <1>9 DEF Tallied, Marks
<1>11. CallInv(s, n)'
  <2>1. CountIsCurrent(s, n)'
    BY <1>1, <1>2, <1>3, <1>6, <1>7 DEF CountIsCurrent, OnTop
  <2>2. Kept' = Kept /\ stage' = stage
    BY DEF Kept
  <2> QED
    BY <1>3, <1>6, <1>7, <2>1, <2>2 DEF CallInv
<1> QED
  BY <1>2, <1>6, <1>10, <1>11, OneCallMoves DEF OnTop

\* used_blocks++: the count it loaded is the one it should add to.
LEMMA CountKeeps ==
    ASSUME KernelMemoryInv, Ready, NEW s \in Stacks, Count(s),
           UNCHANGED <<memory, stage, heap, paging>>
    PROVE  KernelMemoryInv'
<1>1. /\ call[s] # <<>> /\ Top(s).pc = "count"
      /\ used_blocks' = Top(s).used + 1
      /\ Goes(s, [Top(s) EXCEPT !.pc = "got", !.used = 0])
      /\ UNCHANGED <<pmm_bitmap, max_blocks>>
  BY DEF Count, At, OneMore
<1>2. PICK n \in Nat \ {0} : OnTop(s, n)
  BY <1>1, OthersOutside, TopMoves
<1>3. /\ CountIsCurrent(s, n) /\ Top(s).addr \in Pool
      /\ Top(s).user # "testmem" => /\ s = "main" /\ n = 1 /\ Top(s).user = stage
                                    /\ Top(s).addr = StartBlock + Kept
  BY <1>1, <1>2 DEF OnTop, CallInv
<1>4. used_blocks' = used_blocks + 1
  <2>1. Cardinality(Above(s, n)) = 0
    BY <1>2, FS_EmptySet DEF OnTop
  <2>2. Top(s).used \in Nat
    BY <1>2, CapacityAssumption DEF OnTop, CallType
  <2> QED
    BY <1>1, <1>2, <1>3, <2>1, <2>2 DEF CountIsCurrent, OnTop
<1>5. PICK c \in CallType : c = [Top(s) EXCEPT !.pc = "got", !.used = 0]
  <2>1. 0 \in 0 .. Capacity /\ "got" \in {"scan", "mark", "count", "got", "free"}
    BY CapacityAssumption
  <2> QED
    BY <1>2, <2>1 DEF CallType, OnTop
<1>6. /\ call' \in [Stacks -> Seq(CallType)] /\ Moves(s, n)
      /\ n \in DOMAIN call'[s] /\ call'[s][n] = c
  BY <1>1, <1>2, <1>5 DEF OnTop
<1>7. /\ c.pc = "got" /\ c.addr = Top(s).addr /\ c.user = Top(s).user
  BY <1>2, <1>5 DEF CallType, OnTop
<1>8. n \notin Counted(s) /\ n \in Counted(s)' /\ n \in Owners(s) /\ n \in Owners(s)'
  <2>1. /\ n \in DOMAIN call[s] /\ call[s][n].pc = "count" /\ call[s][n].addr # NULL
        /\ call'[s][n].pc = "got" /\ call'[s][n].addr # NULL
    BY <1>1, <1>2, <1>3, <1>6, <1>7, InPool DEF OnTop
  <2> QED
    BY <1>6, <2>1 DEF Counted, Counts, Owners, Owner
<1>9. used_blocks \in Nat
  BY NeverFull
<1>10. Tallied(s, n) /\ Marks(s, n)
  BY <1>1, <1>2, <1>4, <1>6, <1>7, <1>8, <1>9 DEF Tallied, Marks, OnTop
<1>11. CallInv(s, n)'
  <2>2. Kept' = Kept /\ stage' = stage
    BY DEF Kept
  <2> QED
    BY <1>3, <1>6, <1>7, <2>2 DEF CallInv
<1> QED
  BY <1>2, <1>6, <1>10, <1>11, OneCallMoves DEF OnTop

\* pmm_free_block is called by the command that has the block: the bit is set,
\* so that it is going to clear it.
LEMMA FreeKeeps ==
    ASSUME KernelMemoryInv, Ready, QuietPmm, NEW s \in Stacks, Free(s),
           call[s] # <<>>, Top(s).user = "testmem",
           UNCHANGED <<memory, stage, heap, paging>>
    PROVE  KernelMemoryInv'
<1>1. /\ Top(s).pc = "got" /\ UNCHANGED <<pmm_bitmap, max_blocks, used_blocks>>
      /\ \A t \in Stacks \ {s} : ~Inside(t)
  BY DEF Free, At, MayEnter, statics
<1>2. PICK n \in Nat \ {0} : OnTop(s, n)
  BY <1>1, TopMoves
<1>3. Top(s).addr \in Pool
  BY <1>1, <1>2 DEF OnTop, CallInv
<1>4. n \in Counted(s) /\ n \in Owners(s)
  BY <1>1, <1>2, <1>3, Sizes DEF Counted, Counts, Owners, Owner, OnTop, Pool, NULL
<1>5. Top(s).addr < max_blocks /\ pmm_bitmap[Top(s).addr] = 1
  <2>1. max_blocks = MemBlocks
    BY NeverFull
  <2>2. Top(s).addr \in 0 .. MemBlocks - 1
    BY <1>3, Sizes DEF Pool
  <2>3. call[s][n].addr = Top(s).addr
    BY <1>2 DEF OnTop
  <2>4. \E t \in Stacks : \E i \in Owners(t) : call[t][i].addr = Top(s).addr
    BY <1>4, <2>3
  <2>5. MarkedAreOwned
    BY DEF KernelMemoryInv, ReadyInv
  <2>6. pmm_bitmap[Top(s).addr] = 1
    BY <2>2, <2>4, <2>5 DEF MarkedAreOwned
  <2> QED
    BY <2>1, <2>2, <2>6, Sizes
<1>6. Goes(s, [Top(s) EXCEPT !.pc = "free", !.word = Load(Top(s).addr), !.due = {"bit", "count"}])
  BY <1>5 DEF Free
<1>7. Top(s).addr \in Addresses /\ Load(Top(s).addr) \in [Word(Top(s).addr) -> {0, 1}]
  BY <1>3, Sizes DEF Pool, Addresses, Load, Word, KernelMemoryInv, TypeOK
<1>8. PICK c \in CallType :
        c = [Top(s) EXCEPT !.pc = "free", !.word = Load(Top(s).addr), !.due = {"bit", "count"}]
  BY <1>2, <1>7 DEF CallType, OnTop
<1>9. /\ call' \in [Stacks -> Seq(CallType)] /\ Moves(s, n)
      /\ n \in DOMAIN call'[s] /\ call'[s][n] = c /\ TakenAbove(s, n)' = {}
  BY <1>2, <1>6, <1>8 DEF OnTop
<1>10. /\ c.pc = "free" /\ c.addr = Top(s).addr /\ c.user = "testmem"
       /\ c.word = Load(Top(s).addr) /\ c.due = {"bit", "count"}
  BY <1>2, <1>8 DEF CallType, OnTop
<1>11. n \in Counted(s)' /\ n \in Owners(s)'
  BY <1>3, <1>9, <1>10, Sizes DEF Counted, Counts, Owners, Owner, Pool, NULL
<1>12. used_blocks \in Nat
  BY NeverFull
<1>13. Tallied(s, n) /\ Marks(s, n)
  BY <1>1, <1>2, <1>4, <1>9, <1>10, <1>11, <1>12 DEF Tallied, Marks, OnTop
<1>14. CallInv(s, n)'
  <2>1. \A k \in Word(c.addr) : c.word[k] = pmm_bitmap'[k]
    BY <1>1, <1>10 DEF Load
  <2>2. WordIsCurrent(s, n)'
    BY <1>7, <1>9, <1>10, <2>1 DEF WordIsCurrent
  <2> QED
    BY <1>3, <1>9, <1>10, <2>2 DEF CallInv
<1> QED
  BY <1>2, <1>9, <1>13, <1>14, OneCallMoves DEF OnTop

\* clear_bit: the call owns the block no longer.
LEMMA UnmarkKeeps ==
    ASSUME KernelMemoryInv, Ready, NEW s \in Stacks, Unmark(s),
           UNCHANGED <<memory, stage, heap, paging>>
    PROVE  KernelMemoryInv'
<1>1. /\ call[s] # <<>> /\ Top(s).pc = "free" /\ "bit" \in Top(s).due
      /\ IF Top(s).due = {"bit"} THEN Return(s)
                                 ELSE Goes(s, [Top(s) EXCEPT !.due = @ \ {"bit"}])
      /\ Store([Top(s).word EXCEPT ![Top(s).addr] = 0])
      /\ UNCHANGED <<max_blocks, used_blocks>>
  BY DEF Unmark, Done, At, FreeBit
<1>2. PICK n \in Nat \ {0} : OnTop(s, n)
  BY <1>1, OthersOutside, TopMoves
<1>3. WordIsCurrent(s, n) /\ Top(s).addr \in Pool /\ Top(s).user = "testmem"
  BY <1>1, <1>2 DEF OnTop, CallInv
<1>4. pmm_bitmap' = [pmm_bitmap EXCEPT ![Top(s).addr] = 0]
  BY <1>1, <1>2, <1>3, StoreChangesOneBit
<1>5. n \in Owners(s)
  BY <1>1, <1>2, <1>3, Sizes DEF Owners, Owner, OnTop, Pool, NULL
<1>6. used_blocks \in Nat
  BY NeverFull
<1>7. CASE Top(s).due = {"bit"}
  <2>1. /\ call' \in [Stacks -> Seq(CallType)] /\ Moves(s, n) /\ n \notin DOMAIN call'[s]
    BY <1>1, <1>2, <1>7 DEF OnTop
  <2>2. n \notin Counted(s) /\ n \notin Counted(s)' /\ n \notin Owners(s)'
    BY <1>1, <1>2, <1>7, <2>1 DEF Counted, Counts, Owners, OnTop
  <2>3. Tallied(s, n) /\ Marks(s, n)
    BY <1>1, <1>2, <1>4, <1>5, <1>6, <2>2 DEF Tallied, Marks, OnTop
  <2> QED
    BY <1>2, <2>1, <2>3, OneCallMoves DEF OnTop
<1>8. CASE Top(s).due # {"bit"}
  <2>1. PICK c \in CallType : c = [Top(s) EXCEPT !.due = @ \ {"bit"}]
    BY <1>2 DEF CallType, OnTop
  <2>2. /\ call' \in [Stacks -> Seq(CallType)] /\ Moves(s, n)
        /\ n \in DOMAIN call'[s] /\ call'[s][n] = c
    BY <1>1, <1>2, <1>8, <2>1 DEF OnTop
  <2>3. /\ c.pc = "free" /\ c.addr = Top(s).addr /\ c.user = "testmem"
        /\ "bit" \notin c.due /\ c.due # {}
        /\ ("count" \in c.due) <=> ("count" \in Top(s).due)
    BY <1>1, <1>2, <1>3, <1>8, <2>1 DEF CallType, OnTop
  <2>4. (n \in Counted(s)) <=> (n \in Counted(s)')
    BY <1>1, <1>2, <2>2, <2>3 DEF Counted, Counts, OnTop
  <2>5. n \notin Owners(s)'
    BY <2>2, <2>3 DEF Owners, Owner
  <2>6. Tallied(s, n) /\ Marks(s, n)
    BY <1>1, <1>2, <1>4, <1>5, <1>6, <2>4, <2>5 DEF Tallied, Marks, OnTop
  <2>7. CallInv(s, n)'
    BY <1>3, <2>2, <2>3 DEF CallInv
  <2> QED
    BY <1>2, <2>2, <2>6, <2>7, OneCallMoves DEF OnTop
<1> QED
  BY <1>7, <1>8

\* used_blocks-- at the end of pmm_free_block keeps the invariant.
LEMMA UncountKeeps ==
    ASSUME KernelMemoryInv, Ready, NEW s \in Stacks, Uncount(s),
           UNCHANGED <<memory, stage, heap, paging>>
    PROVE  KernelMemoryInv'
<1>1. /\ call[s] # <<>> /\ Top(s).pc = "free" /\ "count" \in Top(s).due
      /\ IF Top(s).due = {"count"} THEN Return(s)
                                   ELSE Goes(s, [Top(s) EXCEPT !.due = @ \ {"count"}])
      /\ used_blocks' = used_blocks - 1
      /\ UNCHANGED <<max_blocks, pmm_bitmap>>
  BY DEF Uncount, Done, At
<1>2. PICK n \in Nat \ {0} : OnTop(s, n)
  BY <1>1, OthersOutside, TopMoves
<1>3. /\ Top(s).addr \in Pool /\ Top(s).user = "testmem"
      /\ "bit" \in Top(s).due => WordIsCurrent(s, n)
  BY <1>1, <1>2 DEF OnTop, CallInv
<1>5. n \in Counted(s)
  BY <1>1, <1>2 DEF Counted, Counts, OnTop
<1>6. used_blocks \in Nat
  BY NeverFull
<1>7. CASE Top(s).due = {"count"}
  <2>1. /\ call' \in [Stacks -> Seq(CallType)] /\ Moves(s, n) /\ n \notin DOMAIN call'[s]
    BY <1>1, <1>2, <1>7 DEF OnTop
  <2>2. n \notin Counted(s)' /\ n \notin Owners(s) /\ n \notin Owners(s)'
    BY <1>1, <1>2, <1>7, <2>1 DEF Counted, Owners, Owner, OnTop
  <2>3. Tallied(s, n) /\ Marks(s, n)
    BY <1>1, <1>5, <1>6, <2>2 DEF Tallied, Marks
  <2> QED
    BY <1>2, <2>1, <2>3, OneCallMoves DEF OnTop
<1>8. CASE Top(s).due # {"count"}
  <2>1. PICK c \in CallType : c = [Top(s) EXCEPT !.due = @ \ {"count"}]
    BY <1>2 DEF CallType, OnTop
  <2>2. /\ call' \in [Stacks -> Seq(CallType)] /\ Moves(s, n)
        /\ n \in DOMAIN call'[s] /\ call'[s][n] = c /\ TakenAbove(s, n)' = {}
    BY <1>1, <1>2, <1>8, <2>1 DEF OnTop
  <2>3. /\ c.pc = "free" /\ c.addr = Top(s).addr /\ c.user = "testmem" /\ c.word = Top(s).word
        /\ "count" \notin c.due /\ c.due # {}
        /\ ("bit" \in c.due) <=> ("bit" \in Top(s).due)
    BY <1>1, <1>2, <1>3, <1>8, <2>1 DEF CallType, OnTop
  <2>4. (n \in Owners(s)) <=> (n \in Owners(s)')
    BY <1>1, <1>2, <2>2, <2>3 DEF Owners, Owner, OnTop
  <2>5. n \notin Counted(s)'
    BY <2>2, <2>3 DEF Counted, Counts
  <2>6. Tallied(s, n) /\ Marks(s, n)
    BY <1>1, <1>2, <1>5, <1>6, <2>2, <2>3, <2>4, <2>5 DEF Tallied, Marks, OnTop
  <2>7. "bit" \in c.due => WordIsCurrent(s, n)'
    BY <1>1, <1>2, <1>3, <2>2, <2>3 DEF WordIsCurrent, OnTop
  <2>8. CallInv(s, n)'
    BY <1>3, <2>2, <2>3, <2>7 DEF CallInv
  <2> QED
    BY <1>2, <2>2, <2>6, <2>8, OneCallMoves DEF OnTop
<1> QED
  BY <1>7, <1>8

----------------------------------------------------------------------------
(* The steps of kernel_main.                                               *)

\* pmm_init up to the end of its first loop, which sets every bit, leads from OffInv to
\* MarkedInv.
LEMMA BootPmmMarkKeeps ==
    ASSUME KernelMemoryInv, BootPmmMark
    PROVE  KernelMemoryInv'
<1>1. /\ stage = "off" /\ stage' = "marked" /\ call["main"] = <<>> /\ call' = call
      /\ max_blocks' = MemBlocks /\ used_blocks' = MemBlocks
      /\ pmm_bitmap' = [i \in Addresses |-> 1]
      /\ UNCHANGED <<memory, heap, paging>>
  BY Sizes DEF BootPmmMark, Boot, PmmInitMark
<1>2. heap = <<>> /\ paging = <<>> /\ call["background"] = <<>>
  BY <1>1 DEF KernelMemoryInv, StageInv
<1>3. MarkedInv' /\ StageInv'
  BY <1>1, <1>2, EmptySeq DEF KernelMemoryInv, MarkedInv, StageInv, Allocating
<1>4. TypeOK'
  <2>1. pmm_bitmap' \in [Addresses -> {0, 1}]
    BY <1>1
  <2>2. max_blocks' \in 0 .. Capacity /\ used_blocks' \in 0 .. max_blocks'
    BY <1>1, Sizes
  <2> QED
    BY <1>1, <2>1, <2>2 DEF KernelMemoryInv, TypeOK
<1>5. PagingInv'
  <2>1. written' = written /\ cr3' = cr3 /\ pg' = pg
    BY <1>1 DEF memory
  <2>2. \A b : Contents(b)' = Contents(b)
    BY <2>1 DEF Contents
  <2> QED
    BY <1>1, <2>1, <2>2 DEF KernelMemoryInv, PagingInv
<1> QED
  BY <1>1, <1>3, <1>4, <1>5 DEF KernelMemoryInv, Ready

\* No call is open: the bits that are set are those of the first megabyte and
\* the kernel's, and used_blocks is their number.
LEMMA NobodyElse ==
    ASSUME call'["main"] = <<>>, call'["background"] = <<>>,
           max_blocks' = MemBlocks, used_blocks' = StartBlock + Kept', StartBlock + Kept' \in Nat,
           \A b \in 0 .. MemBlocks - 1 : pmm_bitmap'[b] = 1 <=> b < StartBlock + Kept'
    PROVE  ReadyInv'
<1>1. \A s \in Stacks : call'[s] = <<>> /\ DOMAIN call'[s] = {}
  BY EmptySeq DEF Stacks
<1>2. \A s \in Stacks : Counted(s)' = {} /\ Owners(s)' = {} /\ ~Inside(s)'
  BY <1>1 DEF Counted, Owners, Inside
<1>3. \A s \in Stacks : Cardinality(Counted(s)') = 0
  BY <1>2, FS_EmptySet
<1>4. \A s \in Stacks : \A i \in DOMAIN call'[s] : CallInv(s, i)'
  BY <1>1
<1>5. OneStackInside' /\ OwnersDiffer' /\ MarkedAreOwned'
  BY <1>2 DEF OneStackInside, OwnersDiffer, MarkedAreOwned, Stacks
<1>6. used_blocks' = StartBlock + Kept' + Cardinality(Counted("main")')
                                        + Cardinality(Counted("background")')
  BY <1>3, Sizes DEF Stacks
<1> QED
  BY <1>4, <1>5, <1>6 DEF ReadyInv

\* The second loop of pmm_init, which clears the usable blocks' bits, leads from
\* MarkedInv to ReadyInv.
LEMMA BootPmmFreeKeeps ==
    ASSUME KernelMemoryInv, BootPmmFree
    PROVE  KernelMemoryInv'
<1>1. /\ stage = "marked" /\ stage' = "heap" /\ call["main"] = <<>> /\ call' = call
      /\ max_blocks = MemBlocks /\ used_blocks = MemBlocks
      /\ pmm_bitmap = [i \in Addresses |-> 1]
      /\ UNCHANGED <<memory, heap, paging>>
  BY DEF BootPmmFree, Boot, PmmInitFree, KernelMemoryInv, MarkedInv
<1>2. /\ max_blocks' = MemBlocks /\ used_blocks' = StartBlock
      /\ pmm_bitmap' = [i \in Addresses |->
                            IF i \in StartBlock .. MemBlocks - 1 THEN 0 ELSE pmm_bitmap[i]]
  BY <1>1, Sizes DEF BootPmmFree, PmmInitFree, FirstFree
<1>3. heap = <<>> /\ paging = <<>> /\ call["background"] = <<>> /\ Kept = 0 /\ Kept' = 0
  BY <1>1, EmptySeq DEF KernelMemoryInv, StageInv, Kept
<1>4. StageInv'
  BY <1>1, <1>3, EmptySeq DEF KernelMemoryInv, StageInv, HeapBlocks
<1>5. TypeOK'
  <2>1. pmm_bitmap' \in [Addresses -> {0, 1}]
    BY <1>1, <1>2
  <2>2. max_blocks' \in 0 .. Capacity /\ used_blocks' \in 0 .. max_blocks'
    BY <1>1, <1>2, Sizes
  <2> QED
    BY <1>1, <2>1, <2>2 DEF KernelMemoryInv, TypeOK, Allocating
<1>6. PagingInv'
  <2>1. written' = written /\ cr3' = cr3 /\ pg' = pg
    BY <1>1 DEF memory
  <2>2. \A b : Contents(b)' = Contents(b)
    BY <2>1 DEF Contents
  <2> QED
    BY <1>1, <2>1, <2>2 DEF KernelMemoryInv, PagingInv
<1>7. ReadyInv'
  <2>1. \A b \in 0 .. MemBlocks - 1 : pmm_bitmap'[b] = 1 <=> b < StartBlock + Kept'
    BY <1>1, <1>2, <1>3, Sizes DEF Addresses
  <2>2. StartBlock + Kept' \in Nat /\ used_blocks' = StartBlock + Kept'
    BY <1>2, <1>3, Sizes
  <2>3. call'["main"] = <<>> /\ call'["background"] = <<>>
    BY <1>1, <1>3
  <2> QED
    BY <1>2, <2>1, <2>2, <2>3, NobodyElse
<1> QED
  BY <1>1, <1>4, <1>5, <1>6, <1>7 DEF KernelMemoryInv, Ready

\* A call of heap_init or paging_init has returned: its block is the next one,
\* and becomes one of the kernel's.
LEMMA GotKeeps ==
    ASSUME KernelMemoryInv, NEW user \in Allocating, Got(user), Kept' = Kept + 1
    PROVE  /\ Top("main").addr = StartBlock + Kept
           /\ Top("main").addr \in Addresses
           /\ call' \in [Stacks -> Seq(CallType)]
           /\ call'["main"] = <<>> /\ call'["background"] = <<>>
           /\ UNCHANGED statics
           /\ ReadyInv'
<1>1. /\ stage = user /\ Len(call["main"]) = 1 /\ call["main"] # <<>>
      /\ Top("main").pc = "got" /\ Top("main").user = user
      /\ call' = [call EXCEPT !["main"] = Front(@)]
      /\ UNCHANGED <<pmm_bitmap, max_blocks, used_blocks>>
  BY DEF Got, At, Return, statics
<1>2. Ready /\ user # "testmem" /\ call["background"] = <<>>
  BY <1>1 DEF Ready, Allocating, KernelMemoryInv, StageInv
<1>3. /\ DOMAIN call["main"] = 1 .. 1 /\ Top("main") = call["main"][1]
      /\ CallInv("main", 1) /\ DOMAIN call["background"] = 1 .. 0
  <2>1. Len(<<>>) = 0
    BY EmptySeq
  <2>2. \A s \in Stacks : DOMAIN call[s] = 1 .. Len(call[s])
    BY Calls DEF KernelMemoryInv
  <2>3. Top("main") = call["main"][1]
    BY <1>1, Calls DEF KernelMemoryInv, Stacks
  <2>4. DOMAIN call["main"] = 1 .. 1 /\ DOMAIN call["background"] = 1 .. 0
    BY <1>1, <1>2, <2>1, <2>2 DEF Stacks
  <2> QED
    BY <1>2, <2>3, <2>4 DEF KernelMemoryInv, ReadyInv, Stacks
<1>4. Top("main").addr = StartBlock + Kept /\ Top("main").addr \in Pool
  BY <1>1, <1>2, <1>3 DEF CallInv
<1>5. Top("main").addr \in Addresses /\ Top("main").addr # NULL
  BY <1>4, Sizes DEF Pool, Addresses, NULL
<1>6. /\ call' \in [Stacks -> Seq(CallType)]
      /\ call'["main"] = <<>> /\ call'["background"] = <<>>
  <2>1. call \in [Stacks -> Seq(CallType)] /\ "main" \in Stacks /\ "background" \in Stacks
    BY DEF KernelMemoryInv, TypeOK, Stacks
  <2>2. /\ call' \in [Stacks -> Seq(CallType)]
        /\ \A t \in Stacks \ {"main"} : call'[t] = call[t]
        /\ Len(call'["main"]) = 0 /\ call'["main"] \in Seq(CallType)
    <3>1. call'["main"] = Front(call["main"]) /\ call["main"] \in Seq(CallType)
      BY <1>1, <2>1
    <3>2. call'["main"] \in Seq(CallType) /\ Len(call'["main"]) = Len(call["main"]) - 1
      BY <1>1, <3>1, StackPop
    <3> QED
      BY <1>1, <2>1, <3>2
  <2>3. Len(call'["main"]) = 0 /\ call'["main"] \in Seq(CallType)
    BY <2>2
  <2>4. call'["main"] = <<>>
    BY <2>3, StackElements
  <2> QED
    BY <1>2, <2>1, <2>2, <2>4
<1>7. Counted("main") = {1} /\ Owners("main") = {1} /\ Counted("background") = {} /\ Owners("background") = {}
  BY <1>1, <1>3, <1>5 DEF Counted, Counts, Owners, Owner
<1>8. Kept \in 0 .. 9
  BY KeptBlocks DEF KernelMemoryInv
<1>9. max_blocks = MemBlocks /\ used_blocks = StartBlock + Kept + 1
  <2>1. Cardinality(Counted("main")) = 1 /\ Cardinality(Counted("background")) = 0
    BY <1>7, FS_EmptySet, FS_Singleton
  <2> QED
    BY <1>2, <1>8, <2>1, Sizes DEF KernelMemoryInv, ReadyInv
<1>10. \A b \in 0 .. MemBlocks - 1 : pmm_bitmap[b] = 1 <=> b < StartBlock + Kept + 1
  <2>1. \A b \in 0 .. MemBlocks - 1 : pmm_bitmap[b] = 1 <=>
            b < StartBlock + Kept \/ \E s \in Stacks : \E i \in Owners(s) : call[s][i].addr = b
    BY <1>2 DEF KernelMemoryInv, ReadyInv, MarkedAreOwned
  <2>2. \A b : (\E s \in Stacks : \E i \in Owners(s) : call[s][i].addr = b) <=> b = StartBlock + Kept
    BY <1>3, <1>4, <1>7 DEF Stacks
  <2>3. \A b \in 0 .. MemBlocks - 1 : b < StartBlock + Kept + 1 <=> (b < StartBlock + Kept \/ b = StartBlock + Kept)
    BY <1>8, Sizes
  <2> QED
    BY <2>1, <2>2, <2>3
<1>11. /\ StartBlock + Kept' \in Nat /\ StartBlock + Kept' = StartBlock + Kept + 1
  BY <1>8, Sizes
<1>12. ReadyInv'
  <2>1. max_blocks' = MemBlocks /\ used_blocks' = StartBlock + Kept'
    BY <1>1, <1>9, <1>11
  <2>2. \A b \in 0 .. MemBlocks - 1 : pmm_bitmap'[b] = 1 <=> b < StartBlock + Kept'
    BY <1>1, <1>10, <1>11
  <2> QED
    BY <1>6, <1>11, <2>1, <2>2, NobodyElse
<1> QED
  BY <1>1, <1>4, <1>5, <1>6, <1>12 DEF statics

\* heap_init keeping the block that pmm_alloc_block returned keeps the invariant.
LEMMA HeapInitKeeps ==
    ASSUME KernelMemoryInv, HeapInit
    PROVE  KernelMemoryInv'
<1> DEFINE b == Top("main").addr
<1>1. /\ Got("heap") /\ stage = "heap" /\ heap' = Append(heap, b)
      /\ stage' = IF Len(heap') = 4 THEN "directory" ELSE "heap"
      /\ memory' = memory /\ paging' = paging
  BY DEF HeapInit, Got, HeapBlocks
<1>2. /\ heap \in Seq(Addresses) /\ Len(heap) \in 0 .. 3 /\ paging = <<>> /\ Len(paging) = 0
      /\ \A i \in DOMAIN heap : heap[i] = StartBlock + i - 1
      /\ DOMAIN heap = 1 .. Len(heap)
  <2>1. Len(heap) < 4 /\ paging = <<>> /\ heap \in Seq(Addresses)
    BY <1>1 DEF KernelMemoryInv, StageInv, HeapBlocks, TypeOK
  <2> QED
    BY <1>1, <2>1, KeptBlocks, EmptySeq DEF KernelMemoryInv, StageInv
<1>3. Len(heap') = Len(heap) + 1 /\ Kept' = Kept + 1 /\ Kept = Len(heap)
  <2>1. Len(heap') = Len(heap) + 1
    BY <1>1, <1>2, LenProperties
  <2> QED
    BY <1>1, <1>2, <2>1 DEF Kept
<1>4. /\ b = StartBlock + Kept /\ b \in Addresses
      /\ call' \in [Stacks -> Seq(CallType)]
      /\ call'["main"] = <<>> /\ call'["background"] = <<>>
      /\ UNCHANGED statics
      /\ ReadyInv'
  BY <1>1, <1>3, GotKeeps DEF Allocating
<1> HIDE DEF b
<1>5. /\ heap' \in Seq(Addresses) /\ DOMAIN heap' = 1 .. Len(heap) + 1
      /\ \A i \in 1 .. Len(heap) : heap'[i] = heap[i]
      /\ heap'[Len(heap) + 1] = b
  BY <1>1, <1>2, <1>3, <1>4, AppendProperties, LenProperties
<1>6. stage' \in {"heap", "directory"} /\ (stage' = "heap" => Len(heap') < 4)
      /\ (stage' = "directory" => Len(heap') = 4)
  BY <1>1, <1>2, <1>3
<1>7. \A i \in DOMAIN heap' : heap'[i] = StartBlock + i - 1
  <2>1. \A i \in 1 .. Len(heap) + 1 : i = Len(heap) + 1 \/ i \in 1 .. Len(heap)
    BY <1>2
  <2>2. heap'[Len(heap) + 1] = StartBlock + (Len(heap) + 1) - 1
    BY <1>2, <1>3, <1>4, <1>5, Sizes
  <2> QED
    BY <1>2, <1>5, <2>1, <2>2
<1>8. StageInv'
  BY <1>1, <1>2, <1>4, <1>6, <1>7, EmptySeq DEF StageInv, HeapBlocks, Tables
<1>9. TypeOK'
  BY <1>1, <1>4, <1>5, <1>6 DEF KernelMemoryInv, TypeOK, statics, Allocating
<1>10. PagingInv'
  <2>1. written' = written /\ cr3' = cr3 /\ pg' = pg
    BY <1>1 DEF memory
  <2>2. Len(paging') - 2 = -2 /\ paging' = <<>>
    BY <1>1, <1>2
  <2>3. stage' \notin {"enable", "tasks"} /\ ~pg'
    BY <1>1, <1>6, <2>1 DEF KernelMemoryInv, PagingInv
  <2> QED
    BY <2>1, <2>2, <2>3 DEF PagingInv
<1>11. \A s \in Stacks : Len(call'[s]) <= MaxNested
  BY <1>4, EmptySeq, Sizes DEF Stacks
<1> QED
  BY <1>4, <1>6, <1>8, <1>9, <1>10, <1>11 DEF KernelMemoryInv

\* What is in memory once a block has been filled.
LEMMA FilledContents ==
    ASSUME NEW dir, NEW entries, written' = Filled(written, dir, entries)
    PROVE  \A a : Contents(a)' = IF a = dir THEN entries ELSE Contents(a)
<1>1. /\ DOMAIN written' = DOMAIN written \cup {dir}
      /\ \A a \in DOMAIN written' : written'[a] = IF a = dir THEN entries ELSE written[a]
  BY DEF Filled
<1> QED
  BY <1>1 DEF Contents

\* And once a table has been filled and entered in the directory.
LEMMA FilledTwice ==
    ASSUME NEW table, NEW page, NEW dir, NEW entries,
           written' = Filled(Filled(written, table, page), dir, entries)
    PROVE  \A a : Contents(a)' = IF a = dir THEN entries
                                 ELSE IF a = table THEN page ELSE Contents(a)
<1>1. /\ DOMAIN written' = (DOMAIN written \cup {table}) \cup {dir}
      /\ \A a \in DOMAIN written' :
            written'[a] = IF a = dir THEN entries ELSE IF a = table THEN page ELSE written[a]
  BY DEF Filled
<1> QED
  BY <1>1 DEF Contents

\* paging_init's directory: no entry is present.
LEMMA PagingDirectoryKeeps ==
    ASSUME KernelMemoryInv, PagingDirectory
    PROVE  KernelMemoryInv'
<1> DEFINE clear == [i \in Indices |-> [frame |-> 0, present |-> FALSE]]
<1>1. /\ Got("directory") /\ stage = "directory" /\ paging' = <<Top("main").addr>>
      /\ stage' = "table"
      /\ written' = Filled(written, Top("main").addr, clear)
      /\ cr3' = cr3 /\ pg' = pg /\ heap' = heap
  BY DEF PagingDirectory, Got, ClearDirectory
<1>2. paging = <<>> /\ Len(heap) = 4 /\ Len(paging) = 0 /\ Len(paging') = 1 /\ ~pg
  BY <1>1, EmptySeq DEF KernelMemoryInv, StageInv, HeapBlocks, PagingInv
<1>3. Kept' = Kept + 1 /\ Kept = 4
  BY <1>1, <1>2 DEF Kept
<1>4. /\ Top("main").addr = StartBlock + 4 /\ Top("main").addr \in Addresses
      /\ call' \in [Stacks -> Seq(CallType)]
      /\ call'["main"] = <<>> /\ call'["background"] = <<>>
      /\ UNCHANGED statics
      /\ ReadyInv'
  BY <1>1, <1>3, GotKeeps DEF Allocating
<1>5. PICK b \in Addresses : b = Top("main").addr
  BY <1>4
<1>6. /\ paging' \in Seq(Addresses) /\ DOMAIN paging' = 1 .. 1 /\ paging'[1] = b /\ paging' = <<b>>
  BY <1>1, <1>5
<1>7. Contents(b)' = clear
  BY <1>1, <1>5, FilledContents
<1>8. StageInv'
  <2>1. \A i \in DOMAIN paging' : paging'[i] = StartBlock + 4 + i - 1
    BY <1>4, <1>5, <1>6, Sizes
  <2>2. Len(paging') \in 1 .. 4
    BY <1>2
  <2> QED
    BY <1>1, <1>2, <1>4, <2>1, <2>2 DEF KernelMemoryInv, StageInv, HeapBlocks, Tables
<1>9. TypeOK'
  BY <1>1, <1>4, <1>6 DEF KernelMemoryInv, TypeOK, statics, Allocating
<1>10. PagingInv'
  <2>1. \A i \in Indices : ~(i < Len(paging') - 1)
    BY <1>2, Sizes DEF Indices
  <2>2. 0 .. Len(paging') - 2 = {}
    BY <1>2
  <2>3. Contents(paging[1])' = clear
    BY <1>6, <1>7 DEF Contents
  <2>4. (Contents(paging[1]) =
          [t \in Indices |-> IF t < Len(paging) - 1
                              THEN [frame |-> paging[t + 2], present |-> TRUE]
                              ELSE [frame |-> 0, present |-> FALSE]])'
    BY <2>1, <2>3
  <2> QED
    BY <1>1, <1>2, <2>2, <2>4 DEF PagingInv
<1>11. \A s \in Stacks : Len(call'[s]) <= MaxNested
  BY <1>4, EmptySeq, Sizes DEF Stacks
<1> QED
  BY <1>1, <1>4, <1>8, <1>9, <1>10, <1>11 DEF KernelMemoryInv

\* One of paging_init's tables: it maps its pages where they are, and the
\* directory finds it.
LEMMA PagingTableKeeps ==
    ASSUME KernelMemoryInv, PagingTable
    PROVE  KernelMemoryInv'
<1>1. /\ Got("table") /\ stage = "table" /\ paging' = Append(paging, Top("main").addr)
      /\ stage' = IF Len(paging) = 4 THEN "load" ELSE "table"
      /\ FillTable(Len(paging) - 1, Top("main").addr, paging[1])
      /\ cr3' = cr3 /\ pg' = pg /\ heap' = heap
  BY DEF PagingTable, Got, Tables
<1>2. /\ Len(paging) \in 1 .. 4 /\ Len(heap) = 4 /\ ~pg /\ DOMAIN paging = 1 .. Len(paging)
      /\ paging \in Seq(Addresses) /\ paging # <<>>
      /\ \A i \in DOMAIN paging : paging[i] = StartBlock + 4 + i - 1
  <2>1. paging # <<>>
    BY <1>1, EmptySeq DEF KernelMemoryInv, StageInv, Tables
  <2> QED
    BY <1>1, <2>1, KeptBlocks DEF KernelMemoryInv, StageInv, HeapBlocks, Tables, PagingInv, TypeOK
<1>3. Len(paging') = Len(paging) + 1 /\ Kept' = Kept + 1 /\ Kept = 4 + Len(paging)
  <2>1. Len(paging') = Len(paging) + 1
    BY <1>1, <1>2, LenProperties
  <2> QED
    BY <1>1, <1>2, <2>1 DEF Kept
<1>4. /\ Top("main").addr = StartBlock + Kept /\ Top("main").addr \in Addresses
      /\ call' \in [Stacks -> Seq(CallType)]
      /\ call'["main"] = <<>> /\ call'["background"] = <<>>
      /\ UNCHANGED statics
      /\ ReadyInv'
  BY <1>1, <1>3, GotKeeps DEF Allocating
<1>5. PICK b \in Addresses : b = Top("main").addr
  BY <1>4
<1>6. PICK l \in 1 .. 4 : l = Len(paging)
  BY <1>2
<1>7. PICK dir \in Addresses : dir = paging[1]
  BY <1>2
<1> DEFINE page == [i \in Indices |-> [frame |-> Page(l - 1, i), present |-> TRUE]]
           entries == [Contents(dir) EXCEPT ![l - 1] = [frame |-> b, present |-> TRUE]]
<1>8. /\ paging' \in Seq(Addresses) /\ DOMAIN paging' = 1 .. l + 1 /\ Len(paging') = l + 1
      /\ \A i \in 1 .. l : paging'[i] = paging[i]
      /\ paging'[l + 1] = b /\ paging'[1] = dir
  <2>1. /\ paging' \in Seq(Addresses) /\ DOMAIN paging' = 1 .. l + 1
        /\ \A i \in 1 .. l : paging'[i] = paging[i]
        /\ paging'[l + 1] = b
    BY <1>1, <1>2, <1>3, <1>4, <1>5, <1>6, AppendProperties, LenProperties
  <2> QED
    BY <1>3, <1>6, <1>7, <2>1
<1>9. b = StartBlock + 4 + l /\ dir = StartBlock + 4
  BY <1>2, <1>3, <1>4, <1>5, <1>6, <1>7, Sizes
<1>10. \A i \in 1 .. l + 1 : paging'[i] = StartBlock + 4 + i - 1
  <2>1. \A i \in 1 .. l + 1 : i = l + 1 \/ i \in 1 .. l
    OBVIOUS
  <2>2. b = StartBlock + 4 + (l + 1) - 1
    BY <1>9, Sizes
  <2> QED
    BY <1>2, <1>6, <1>8, <2>1, <2>2
<1>11. \A a : Contents(a)' = IF a = dir THEN entries ELSE IF a = b THEN page ELSE Contents(a)
  BY <1>1, <1>5, <1>6, <1>7, FilledTwice DEF FillTable
<1>12. StageInv'
  <2>1. /\ stage' \in {"table", "load"}
        /\ stage' = "table" => Len(paging') \in 1 .. 4
        /\ stage' = "load" => Len(paging') = 5
    BY <1>1, <1>6, <1>8
  <2>2. \A i \in DOMAIN heap' : heap'[i] = StartBlock + i - 1
    BY <1>1 DEF KernelMemoryInv, StageInv
  <2>3. \A i \in DOMAIN paging' : paging'[i] = StartBlock + 4 + i - 1
    BY <1>8, <1>10
  <2>4. Len(heap') = 4 /\ call'["background"] = <<>>
    BY <1>1, <1>2, <1>4
  <2> QED
    BY <2>1, <2>2, <2>3, <2>4 DEF StageInv, HeapBlocks, Tables
<1>13. TypeOK'
  BY <1>1, <1>4, <1>8 DEF KernelMemoryInv, TypeOK, statics, Allocating
<1>14. PagingInv'
  <2>1. Contents(dir) = [t \in Indices |-> IF t < l - 1
                              THEN [frame |-> paging[t + 2], present |-> TRUE]
                              ELSE [frame |-> 0, present |-> FALSE]]
    BY <1>2, <1>6, <1>7 DEF KernelMemoryInv, PagingInv
  <2>2. \A t \in 0 .. l - 2 : Contents(paging[t + 2]) =
          [i \in Indices |-> [frame |-> Page(t, i), present |-> TRUE]]
    BY <1>6 DEF KernelMemoryInv, PagingInv
  <2>3. l - 1 \in Indices /\ Indices = 0 .. Entries - 1
    BY Sizes DEF Indices
  <2>4. b # dir /\ \A t \in 0 .. l - 2 : t + 2 \in 1 .. l /\ paging[t + 2] # dir /\ paging[t + 2] # b
    <3>1. \A t \in 0 .. l - 2 : t + 2 \in 1 .. l /\ paging[t + 2] = StartBlock + 4 + (t + 2) - 1
      BY <1>2, <1>6
    <3> QED
      BY <1>9, <3>1, Sizes
  <2>5. (Contents(paging[1]) =
          [t \in Indices |-> IF t < Len(paging) - 1
                              THEN [frame |-> paging[t + 2], present |-> TRUE]
                              ELSE [frame |-> 0, present |-> FALSE]])'
    <3>1. Contents(paging[1])' = entries
      <4>1. Contents(dir)' = entries
        BY <1>11
      <4> HIDE DEF entries
      <4> QED
        BY <1>8, <4>1 DEF Contents
    <3>2. DOMAIN entries = Indices
      BY <2>1
    <3>3. \A t \in Indices : entries[t] = IF t < l
                              THEN [frame |-> paging'[t + 2], present |-> TRUE]
                              ELSE [frame |-> 0, present |-> FALSE]
      <4> SUFFICES ASSUME NEW t \in Indices
                   PROVE  entries[t] = IF t < l
                              THEN [frame |-> paging'[t + 2], present |-> TRUE]
                              ELSE [frame |-> 0, present |-> FALSE]
        OBVIOUS
      <4>1. CASE t = l - 1
        <5>1. t + 2 = l + 1 /\ t < l
          BY <4>1
        <5> QED
          BY <1>8, <2>1, <2>3, <4>1, <5>1
      <4>2. CASE t # l - 1
        <5>1. (t < l - 1) <=> (t < l)
          BY <2>3, <4>2, Sizes
        <5>2. t < l - 1 => paging'[t + 2] = paging[t + 2]
          BY <1>8, <2>3, <4>2, Sizes
        <5>3. entries[t] = Contents(dir)[t]
          BY <2>1, <2>3, <4>2
        <5> QED
          BY <2>1, <5>1, <5>2, <5>3
      <4> QED
        BY <4>1, <4>2
    <3>4. Len(paging') - 1 = l
      BY <1>8
    <3>5. entries = [t \in Indices |-> entries[t]]
      BY <3>2
    <3> HIDE DEF entries
    <3> QED
      BY <3>1, <3>3, <3>4, <3>5
  <2>6. \A t \in 0 .. l - 1 : (Contents(paging[t + 2]))' =
          [i \in Indices |-> [frame |-> Page(t, i), present |-> TRUE]]
    <3> SUFFICES ASSUME NEW t \in 0 .. l - 1
                 PROVE  (Contents(paging[t + 2]))' =
                          [i \in Indices |-> [frame |-> Page(t, i), present |-> TRUE]]
      OBVIOUS
    <3>1. CASE t = l - 1
      <4>1. paging'[t + 2] = b
        <5>1. t + 2 = l + 1
          BY <3>1
        <5> QED
          BY <1>8, <5>1
      <4>2. Contents(b)' = [i \in Indices |-> [frame |-> Page(t, i), present |-> TRUE]]
        BY <1>11, <2>4, <3>1
      <4> QED
        BY <4>1, <4>2 DEF Contents
    <3>2. CASE t # l - 1
      <4>1. t \in 0 .. l - 2 /\ t + 2 \in 1 .. l
        BY <3>2
      <4>2. PICK a : a = paging[t + 2]
        OBVIOUS
      <4>3. paging'[t + 2] = a /\ a # dir /\ a # b
        BY <1>8, <2>4, <4>1, <4>2
      <4>4. Contents(a)' = Contents(a)
        BY <1>11, <4>3
      <4>5. Contents(a)' = [i \in Indices |-> [frame |-> Page(t, i), present |-> TRUE]]
        BY <2>2, <4>1, <4>2, <4>4
      <4> QED
        BY <4>3, <4>5 DEF Contents
    <3> QED
      BY <3>1, <3>2
  <2>7. ~pg' /\ stage' \notin {"enable", "tasks"} /\ Len(paging') - 2 = l - 1
    BY <1>1, <1>2, <1>8
  <2> QED
    BY <2>5, <2>6, <2>7 DEF PagingInv
<1>15. \A s \in Stacks : Len(call'[s]) <= MaxNested
  BY <1>4, EmptySeq, Sizes DEF Stacks
<1> QED
  BY <1>1, <1>4, <1>12, <1>13, <1>14, <1>15 DEF KernelMemoryInv

\* kernel_main loads cr3 and turns paging on: nothing is open on its stack,
\* and there is no other.
LEMMA LoadKeeps ==
    ASSUME KernelMemoryInv, PagingLoad \/ PagingEnable
    PROVE  KernelMemoryInv'
<1>1. /\ (stage = "load" /\ stage' = "enable") \/ (stage = "enable" /\ stage' = "tasks")
      /\ call["main"] = <<>>
      /\ written' = written
      /\ UNCHANGED <<pmm_bitmap, max_blocks, used_blocks, call, heap, paging>>
  BY DEF PagingLoad, PagingEnable, Boot, load_page_directory, enable_paging, pmm, statics
<1>2. /\ stage' = "enable" => cr3' = paging[1]
      /\ stage' = "tasks" => cr3' = cr3
  BY DEF PagingLoad, PagingEnable, load_page_directory, enable_paging
<1>3. Ready /\ Ready' /\ call["background"] = <<>> /\ Len(heap) = 4 /\ Len(paging) = 5
  BY <1>1 DEF Ready, KernelMemoryInv, StageInv, HeapBlocks, Tables
<1>4. TypeOK' /\ StageInv'
  BY <1>1, <1>3 DEF KernelMemoryInv, TypeOK, StageInv, HeapBlocks, Tables
<1>5. Kept' = Kept /\ Kept = 9
  BY <1>1, <1>3 DEF Kept
<1>6. ReadyInv'
  <2>1. \A s \in Stacks : DOMAIN call[s] = {} /\ call[s] = <<>>
    BY <1>1, <1>3, EmptySeq DEF Stacks
  <2>2. \A s \in Stacks : Counted(s) = {} /\ Owners(s) = {}
    BY <2>1 DEF Counted, Owners
  <2>3. Cardinality({}) = 0
    BY FS_EmptySet
  <2>4. max_blocks = MemBlocks /\ used_blocks = StartBlock + Kept
    <3>1. ReadyInv /\ Cardinality(Counted("main")) = 0 /\ Cardinality(Counted("background")) = 0
      BY <1>3, <2>2, <2>3 DEF KernelMemoryInv, Stacks
    <3> QED
      BY <1>5, <3>1, Sizes DEF ReadyInv
  <2>5. \A b \in 0 .. MemBlocks - 1 : pmm_bitmap[b] = 1 <=> b < StartBlock + Kept
    BY <1>3, <2>2 DEF KernelMemoryInv, ReadyInv, MarkedAreOwned
  <2>6. \A b \in 0 .. MemBlocks - 1 : pmm_bitmap'[b] = 1 <=> b < StartBlock + Kept'
    BY <1>1, <1>5, <2>5
  <2>7. max_blocks' = MemBlocks /\ used_blocks' = StartBlock + Kept' /\ StartBlock + Kept' \in Nat
    BY <1>1, <1>5, <2>4, Sizes
  <2>8. call'["main"] = <<>> /\ call'["background"] = <<>>
    BY <1>1, <1>3
  <2> QED
    BY <2>6, <2>7, <2>8, NobodyElse
<1>7. PagingInv'
  <2>1. \A b : Contents(b)' = Contents(b)
    BY <1>1 DEF Contents
  <2>2. stage' \in {"enable", "tasks"} => cr3' = paging'[1]
    BY <1>1, <1>2 DEF KernelMemoryInv, PagingInv
  <2>3. pg' => stage' = "tasks"
    BY DEF PagingLoad, PagingEnable, Boot, load_page_directory, KernelMemoryInv, PagingInv
  <2>4. (Contents(paging[1]))' = Contents(paging[1])
    BY <1>1 DEF Contents
  <2> QED
    BY <1>1, <1>3, <2>1, <2>2, <2>3, <2>4 DEF KernelMemoryInv, PagingInv
<1> QED
  BY <1>1, <1>3, <1>4, <1>6, <1>7 DEF KernelMemoryInv

\* Before pmm_init a command gets NULL, and pmm_free_block ignores it: the bit
\* of block 0 is not set.
LEMMA TooEarly ==
    ASSUME KernelMemoryInv, stage = "off", NEW s \in Stacks,
           TestmemAlloc(s) \/ TestmemFree(s) \/ Inner(s)
    PROVE  KernelMemoryInv'
<1>1. /\ OffInv /\ call["background"] = <<>> /\ call \in [Stacks -> Seq(CallType)]
      /\ \A t \in Stacks : Len(call[t]) <= MaxNested
  BY DEF KernelMemoryInv, StageInv, TypeOK
<1>2. stage' = stage /\ UNCHANGED <<memory, heap, paging>>
  BY DEF TestmemAlloc, TestmemFree, Inner
<1>3. call[s] # <<>> => /\ s = "main" /\ Top(s).pc = "got" /\ Top(s).addr = NULL
                        /\ Len(call[s]) \in DOMAIN call[s]
  <2>1. s = "main" \/ s = "background"
    BY DEF Stacks
  <2> QED
    BY <1>1, <2>1, Calls DEF OffInv, KernelMemoryInv
<1>4. ~Inner(s)
  BY <1>3 DEF Inner, PmmStep, Scan, Mark, Count, Unmark, Uncount, Done, At
<1>5. /\ UNCHANGED <<pmm_bitmap, max_blocks, used_blocks>>
      /\ call' \in [Stacks -> Seq(CallType)]
      /\ call'["background"] = <<>>
      /\ \A t \in Stacks : Len(call'[t]) <= MaxNested
      /\ \A i \in DOMAIN call'["main"] :
            call'["main"][i].pc = "got" /\ call'["main"][i].addr = NULL
  <2>1. CASE TestmemAlloc(s)
    <3>1. s = "main" /\ Len(call[s]) < MaxNested /\ Alloc(s, "testmem")
      BY <2>1 DEF TestmemAlloc, Stacks
    <3>2. used_blocks \in 0 .. Capacity /\ max_blocks = used_blocks /\ NULL \in Addresses
      BY <1>1, CapacityAssumption DEF OffInv, NULL, Addresses
    <3>3. PICK c \in CallType :
            c = [user |-> "testmem", pc |-> "got", used |-> used_blocks,
                 addr |-> NULL, word |-> <<>>, due |-> {}]
      <4>1. <<>> \in {<<>>} \cup UNION {[Word(b) -> {0, 1}] : b \in Addresses}
        OBVIOUS
      <4> QED
        BY <3>2, <4>1 DEF CallType
    <3>4. /\ call' = [call EXCEPT ![s] = Append(@, c)]
          /\ UNCHANGED <<pmm_bitmap, max_blocks, used_blocks>>
      BY <3>1, <3>2, <3>3 DEF Alloc, statics
    <3>5. /\ call' \in [Stacks -> Seq(CallType)]
          /\ \A t \in Stacks \ {s} : call'[t] = call[t]
          /\ Len(call[s]) \in Nat /\ Len(call'[s]) = Len(call[s]) + 1
          /\ DOMAIN call'[s] = 1 .. Len(call[s]) + 1 /\ DOMAIN call[s] = 1 .. Len(call[s])
          /\ call'[s][Len(call[s]) + 1] = c
          /\ \A i \in DOMAIN call[s] : call'[s][i] = call[s][i]
      BY <1>1, <3>4, StackPush
    <3>6. c.pc = "got" /\ c.addr = NULL
      BY <3>3
    <3>7. \A i \in DOMAIN call'["main"] :
            call'["main"][i].pc = "got" /\ call'["main"][i].addr = NULL
      <4>1. \A i \in 1 .. Len(call[s]) + 1 : i = Len(call[s]) + 1 \/ i \in 1 .. Len(call[s])
        BY <3>5
      <4> QED
        BY <1>1, <3>1, <3>5, <3>6, <4>1 DEF OffInv
    <3>8. \A t \in Stacks : Len(call'[t]) <= MaxNested
      <4>1. Len(call'[s]) <= MaxNested
        BY <3>1, <3>5, Sizes
      <4>2. \A t \in Stacks \ {s} : Len(call'[t]) <= MaxNested
        BY <1>1, <3>5
      <4> QED
        BY <4>1, <4>2
    <3> QED
      BY <1>1, <3>1, <3>4, <3>5, <3>7, <3>8 DEF Stacks
  <2>2. CASE TestmemFree(s)
    <3>1. call[s] # <<>> /\ Free(s) /\ s = "main"
      BY <1>3, <2>2 DEF TestmemFree
    <3>2. ~(Top(s).addr < max_blocks /\ pmm_bitmap[Top(s).addr] = 1)
      BY <1>1, <1>3, <3>1, CapacityAssumption DEF OffInv, NULL, Addresses
    <3>3. call' = [call EXCEPT ![s] = Front(@)] /\ UNCHANGED <<pmm_bitmap, max_blocks, used_blocks>>
      BY <3>1, <3>2 DEF Free, Return, statics
    <3>4. call[s] \in Seq(CallType) /\ call'[s] = Front(call[s])
      BY <1>1, <3>3
    <3>5. /\ call'[s] \in Seq(CallType)
          /\ Len(call[s]) \in Nat \ {0} /\ Len(call'[s]) = Len(call[s]) - 1
          /\ DOMAIN call'[s] = 1 .. Len(call[s]) - 1 /\ DOMAIN call[s] = 1 .. Len(call[s])
          /\ \A i \in DOMAIN call'[s] : call'[s][i] = call[s][i]
      BY <3>1, <3>4, StackPop
    <3>6. /\ call' \in [Stacks -> Seq(CallType)]
          /\ \A t \in Stacks \ {s} : call'[t] = call[t]
      BY <1>1, <3>3, <3>4, <3>5
    <3>7. \A i \in DOMAIN call'["main"] :
            call'["main"][i].pc = "got" /\ call'["main"][i].addr = NULL
      BY <1>1, <3>1, <3>5 DEF OffInv
    <3>8. \A t \in Stacks : Len(call'[t]) <= MaxNested
      <4>1. Len(call'[s]) <= MaxNested
        <5>1. Len(call[s]) <= MaxNested
          BY <1>1
        <5> QED
          BY <3>5, <5>1, NestedAssumption
      <4>2. \A t \in Stacks \ {s} : Len(call'[t]) <= MaxNested
        BY <1>1, <3>6
      <4> QED
        BY <4>1, <4>2
    <3> QED
      BY <1>1, <3>1, <3>3, <3>6, <3>7, <3>8 DEF Stacks
  <2> QED
    BY <1>4, <2>1, <2>2
<1>6. OffInv' /\ StageInv' /\ TypeOK'
  BY <1>1, <1>2, <1>5 DEF OffInv, StageInv, TypeOK, KernelMemoryInv
<1>7. PagingInv'
  <2>1. written' = written /\ cr3' = cr3 /\ pg' = pg
    BY <1>2 DEF memory
  <2>2. \A b : Contents(b)' = Contents(b)
    BY <2>1 DEF Contents
  <2> QED
    BY <1>2, <2>1, <2>2 DEF KernelMemoryInv, PagingInv
<1> QED
  BY <1>2, <1>5, <1>6, <1>7 DEF KernelMemoryInv, Ready

----------------------------------------------------------------------------
(* The invariant.                                                          *)

\* The statics as the image has them, before pmm_init, satisfy the invariant.
LEMMA InitiallyInv == Init => KernelMemoryInv
<1> SUFFICES ASSUME Init PROVE KernelMemoryInv
  OBVIOUS
<1>1. /\ pmm_bitmap = [i \in Addresses |-> 0] /\ max_blocks = Capacity /\ used_blocks = Capacity
      /\ call = [s \in Stacks |-> <<>>] /\ pg = FALSE
      /\ stage = "off" /\ heap = <<>> /\ paging = <<>>
  BY DEF Init, PmmStatics, PagingOff
<1>2. /\ \A s \in Stacks : call[s] = <<>> /\ Len(call[s]) = 0 /\ DOMAIN call[s] = {}
      /\ call["main"] = <<>> /\ call["background"] = <<>>
  BY <1>1, EmptySeq DEF Stacks
<1>3. TypeOK
  <2>1. call \in [Stacks -> Seq(CallType)]
    BY <1>1, EmptySeq
  <2>2. heap \in Seq(Addresses) /\ paging \in Seq(Addresses)
    BY <1>1, EmptySeq
  <2> QED
    BY <1>1, <2>1, <2>2, CapacityAssumption DEF TypeOK
<1>4. OffInv
  BY <1>1, <1>2 DEF OffInv, Stacks
<1>5. StageInv
  BY <1>1, <1>2, EmptySeq DEF StageInv
<1>6. PagingInv
  BY <1>1, EmptySeq DEF PagingInv
<1>7. \A s \in Stacks : Len(call[s]) <= MaxNested
  BY <1>2, NestedAssumption
<1> QED
  BY <1>1, <1>3, <1>4, <1>5, <1>6, <1>7 DEF KernelMemoryInv, Ready

\* Every step of the boot and of the commands keeps the invariant.
LEMMA NextInv ==
    ASSUME KernelMemoryInv, [Next]_vars, QuietPmm, QuietInit
    PROVE  KernelMemoryInv'
<1>1. CASE UNCHANGED vars
  <2>1. /\ UNCHANGED <<pmm_bitmap, max_blocks, used_blocks, call, written, cr3, pg>>
        /\ UNCHANGED <<stage, heap, paging>>
    BY <1>1 DEF vars, pmm, statics, memory
  <2>2. /\ \A s \in Stacks : Counted(s)' = Counted(s) /\ Owners(s)' = Owners(s)
        /\ \A s \in Stacks : (Inside(s))' <=> Inside(s)
        /\ Kept' = Kept /\ (Ready' <=> Ready)
    BY <2>1 DEF Counted, Owners, Inside, Kept, Ready
  <2>3. \A s \in Stacks : \A i : Above(s, i)' = Above(s, i) /\ TakenAbove(s, i)' = TakenAbove(s, i)
    BY <2>1, <2>2 DEF Above, TakenAbove
  <2>4. \A s \in Stacks : \A i : CallInv(s, i) => CallInv(s, i)'
    <3> SUFFICES ASSUME NEW s \in Stacks, NEW i, CallInv(s, i) PROVE CallInv(s, i)'
      OBVIOUS
    <3>1. call'[s][i] = call[s][i] /\ stage' = stage /\ Kept' = Kept
      BY <2>1, <2>2
    <3>2. /\ CountIsCurrent(s, i) => CountIsCurrent(s, i)'
          /\ WordIsCurrent(s, i) => WordIsCurrent(s, i)'
      BY <2>1, <2>3 DEF CountIsCurrent, WordIsCurrent
    <3> QED
      BY <3>1, <3>2 DEF CallInv
  <2>5. ReadyInv => ReadyInv'
    <3>1. MarkedAreOwned => MarkedAreOwned'
      BY <2>1, <2>2 DEF MarkedAreOwned
    <3>2. OwnersDiffer => OwnersDiffer'
      BY <2>1, <2>2 DEF OwnersDiffer
    <3>3. OneStackInside => OneStackInside'
      BY <2>2 DEF OneStackInside, Stacks
    <3>4. used_blocks' = used_blocks /\ max_blocks' = max_blocks /\ call' = call
      BY <2>1
    <3> QED
      BY <2>2, <2>4, <3>1, <3>2, <3>3, <3>4 DEF ReadyInv, Stacks
  <2>6. PagingInv'
    <3>1. \A b : Contents(b)' = Contents(b)
      BY <2>1 DEF Contents
    <3> QED
      BY <2>1, <3>1 DEF KernelMemoryInv, PagingInv
  <2>7. TypeOK' /\ StageInv' /\ (OffInv => OffInv') /\ (MarkedInv => MarkedInv')
    BY <2>1 DEF KernelMemoryInv, TypeOK, StageInv, OffInv, MarkedInv
  <2>8. (\A s \in Stacks : Len(call[s]) <= MaxNested)' /\ stage' = stage
    BY <2>1 DEF KernelMemoryInv
  <2> QED
    BY <2>2, <2>5, <2>6, <2>7, <2>8 DEF KernelMemoryInv
<1>2. CASE BootPmmMark
  BY <1>2, BootPmmMarkKeeps
<1>3. CASE BootPmmFree
  BY <1>3, BootPmmFreeKeeps
<1>4. CASE BootAlloc
  <2>1. PICK user \in Allocating : Boot(user) /\ Alloc("main", user)
    BY <1>4 DEF BootAlloc
  <2>2. /\ Ready /\ user = stage /\ call["main"] = <<>> /\ "main" \in Stacks
        /\ UNCHANGED <<memory, stage, heap, paging>>
    BY <1>4, <2>1 DEF Boot, Ready, Allocating, Stacks, BootAlloc
  <2> QED
    BY <2>1, <2>2, AllocKeeps
<1>5. CASE HeapInit
  BY <1>5, HeapInitKeeps
<1>6. CASE PagingDirectory
  BY <1>6, PagingDirectoryKeeps
<1>7. CASE PagingTable
  BY <1>7, PagingTableKeeps
<1>8. CASE PagingLoad \/ PagingEnable
  BY <1>8, LoadKeeps
<1>9. ASSUME NEW s \in Stacks, TestmemAlloc(s) \/ TestmemFree(s) \/ Inner(s)
      PROVE  KernelMemoryInv'
  <2>1. UNCHANGED <<memory, stage, heap, paging>>
    BY <1>9 DEF TestmemAlloc, TestmemFree, Inner
  <2>2. CASE stage = "off"
    BY <1>9, <2>2, TooEarly
  <2>3. CASE stage = "marked"
    <3>1. call[s] = <<>>
      BY <2>3 DEF KernelMemoryInv, MarkedInv, StageInv, Stacks
    <3>2. FALSE
      BY <1>9, <2>3, <3>1 DEF TestmemAlloc, TestmemFree, Inner, PmmStep, Scan, Mark, Count,
                              Unmark, Uncount, Done, At
    <3> QED
      BY <3>2
  <2>4. CASE Ready
    <3>1. CASE TestmemAlloc(s)
      BY <2>1, <2>4, <3>1, AllocKeeps DEF TestmemAlloc
    <3>2. CASE TestmemFree(s)
      BY <2>1, <2>4, <3>2, FreeKeeps DEF TestmemFree
    <3>3. CASE Inner(s)
      BY <2>1, <2>4, <3>3, ScanKeeps, MarkKeeps, CountKeeps, UnmarkKeeps, UncountKeeps
         DEF Inner, PmmStep
    <3> QED
      BY <1>9, <3>1, <3>2, <3>3
  <2> QED
    BY <2>2, <2>3, <2>4 DEF Ready
<1> QED
  BY <1>1, <1>2, <1>3, <1>4, <1>5, <1>6, <1>7, <1>8, <1>9 DEF Next

\* KernelMemoryInv holds in every state: of pmm.c's bitmap and count, the boot's blocks
\* and the calls open on both stacks.
THEOREM InvIsInvariant ==
    ASSUME QuietPmm, QuietInit
    PROVE  Spec => []KernelMemoryInv
<1>1. KernelMemoryInv /\ [Next]_vars => KernelMemoryInv'
  BY NextInv
<1> QED
  BY InitiallyInv, <1>1, PTL DEF Spec

----------------------------------------------------------------------------
(* What follows from it.                                                   *)

\* max_blocks, used_blocks, the bitmap, the tables and the calls keep their types:
\* pmm.c never marks or returns a block past the memory.
THEOREM TypeCorrect ==
    ASSUME QuietPmm, QuietInit
    PROVE  Spec => []TypeOK
<1>1. KernelMemoryInv => TypeOK
  BY DEF KernelMemoryInv
<1> QED
  BY <1>1, InvIsInvariant, PTL

\* Outside pmm.c every call that counts owns its block.
LEMMA InvCountsBits == KernelMemoryInv => UsedCountsBits
<1> SUFFICES ASSUME KernelMemoryInv, Ready, \A s \in Stacks : ~Inside(s)
             PROVE  used_blocks = Cardinality(SetBits)
  BY DEF UsedCountsBits
<1>1. \A s \in Stacks : Counted(s) = Owners(s)
  <2>1. \A s \in Stacks : \A i \in DOMAIN call[s] :
            call[s][i].pc = "got" /\ call[s][i].addr \in Pool
    BY DEF Inside, KernelMemoryInv, ReadyInv, CallInv
  <2>2. NULL \notin Pool
    BY Sizes DEF Pool, NULL
  <2> QED
    BY <2>1, <2>2 DEF Counted, Counts, Owners, Owner
<1>2. Counted("main") = Owners("main") /\ Counted("background") = Owners("background")
  BY <1>1 DEF Stacks
<1>3. used_blocks = StartBlock + Kept
            + Cardinality(Counted("main")) + Cardinality(Counted("background"))
  BY DEF KernelMemoryInv, ReadyInv
<1> QED
  BY <1>2, <1>3, SetBitsCardinality

(***************************************************************************)
(* used_blocks is the number of bits that are set whenever no call is      *)
(* inside pmm.c, at any depth of commands.                                 *)
(***************************************************************************)
THEOREM CountIsExact ==
    ASSUME QuietPmm, QuietInit
    PROVE  Spec => []UsedCountsBits
  BY InvCountsBits, InvIsInvariant, PTL

\* Who has a block: a place in the heap, a place in paging's tables, or an open call,
\* and which block that is.
LEMMA Holders ==
    ASSUME KernelMemoryInv, Ready, NEW b \in 0 .. MemBlocks - 1, NEW u \in Held(b)
    PROVE  \/ u = <<"reserved", b>> /\ b < StartBlock
           \/ \E i \in 1 .. Len(heap) : u = <<"heap", i>> /\ b = StartBlock + i - 1
           \/ \E i \in 1 .. Len(paging) : u = <<"paging", i>> /\ b = StartBlock + Len(heap) + i - 1
           \/ \E s \in Stacks : \E i \in Owners(s) :
                 u = <<s, i>> /\ call[s][i].addr = b /\ b >= StartBlock + Kept
<1>1. /\ DOMAIN heap = 1 .. Len(heap) /\ DOMAIN paging = 1 .. Len(paging)
      /\ paging # <<>> => Len(heap) = 4
  BY KeptBlocks DEF KernelMemoryInv
<1>2. CASE u \in {<<"reserved", i>> : i \in {j \in {b} : j < StartBlock}}
  BY <1>2
<1>3. CASE u \in {<<"heap", i>> : i \in {j \in DOMAIN heap : heap[j] = b}}
  BY <1>1, <1>3 DEF KernelMemoryInv, StageInv
<1>4. CASE u \in {<<"paging", i>> : i \in {j \in DOMAIN paging : paging[j] = b}}
  <2>1. PICK i \in DOMAIN paging : u = <<"paging", i>> /\ paging[i] = b
    BY <1>4
  <2>2. paging # <<>>
    BY <2>1, EmptySeq
  <2>3. b = StartBlock + 4 + i - 1 /\ Len(heap) = 4
    BY <1>1, <2>1, <2>2 DEF KernelMemoryInv, StageInv, HeapBlocks
  <2> QED
    BY <1>1, <2>1, <2>3
<1>5. CASE u \in {v \in Stacks \X (1 .. MaxNested) :
                    v[2] \in Owners(v[1]) /\ call[v[1]][v[2]].addr = b}
  <2>1. PICK s \in Stacks, i \in 1 .. MaxNested :
            u = <<s, i>> /\ i \in Owners(s) /\ call[s][i].addr = b
    BY <1>5
  <2> QED
    BY <2>1, OwnersInPool
<1> QED
  BY <1>2, <1>3, <1>4, <1>5 DEF Held

\* The invariant says in particular that a block has at most one owner, and its bit is
\* set exactly if it has one.
LEMMA InvOneOwner == KernelMemoryInv => BlocksHaveOneOwner
<1> SUFFICES ASSUME KernelMemoryInv, Ready, NEW b \in 0 .. max_blocks - 1
             PROVE  /\ \A u, v \in Held(b) : u = v
                    /\ pmm_bitmap[b] = 1 <=> Held(b) # {}
  BY DEF BlocksHaveOneOwner
<1>1. /\ max_blocks = MemBlocks /\ b \in 0 .. MemBlocks - 1
      /\ Len(heap) \in Nat /\ Len(paging) \in Nat /\ Kept = Len(heap) + Len(paging)
      /\ DOMAIN heap = 1 .. Len(heap) /\ DOMAIN paging = 1 .. Len(paging)
  BY NeverFull, KeptBlocks DEF KernelMemoryInv, Kept
<1>2. \A u, v \in Held(b) : u = v
  <2> SUFFICES ASSUME NEW u \in Held(b), NEW v \in Held(b) PROVE u = v
    OBVIOUS
  <2>1. CASE b < StartBlock + Kept
    <3>1. \/ u = <<"reserved", b>> /\ b < StartBlock
          \/ \E i \in 1 .. Len(heap) : u = <<"heap", i>> /\ b = StartBlock + i - 1
          \/ \E i \in 1 .. Len(paging) : u = <<"paging", i>> /\ b = StartBlock + Len(heap) + i - 1
      BY <1>1, <2>1, Holders, Sizes
    <3>2. \/ v = <<"reserved", b>> /\ b < StartBlock
          \/ \E i \in 1 .. Len(heap) : v = <<"heap", i>> /\ b = StartBlock + i - 1
          \/ \E i \in 1 .. Len(paging) : v = <<"paging", i>> /\ b = StartBlock + Len(heap) + i - 1
      BY <1>1, <2>1, Holders, Sizes
    <3> QED
      BY <1>1, <3>1, <3>2, Sizes
  <2>2. CASE ~(b < StartBlock + Kept)
    <3>1. \A w \in Held(b) : \E s \in Stacks : \E i \in Owners(s) : w = <<s, i>> /\ call[s][i].addr = b
      <4>1. /\ ~(b < StartBlock)
            /\ \A i \in 1 .. Len(heap) : b # StartBlock + i - 1
            /\ \A i \in 1 .. Len(paging) : b # StartBlock + Len(heap) + i - 1
        BY <1>1, <2>2, Sizes
      <4> QED
        BY <1>1, <4>1, Holders
    <3>2. PICK s \in Stacks : \E i \in Owners(s) : u = <<s, i>> /\ call[s][i].addr = b
      BY <3>1
    <3>3. PICK t \in Stacks : \E i \in Owners(t) : v = <<t, i>> /\ call[t][i].addr = b
      BY <3>1
    <3> QED
      BY <3>2, <3>3 DEF KernelMemoryInv, ReadyInv, OwnersDiffer
  <2> QED
    BY <2>1, <2>2
<1>3. ASSUME pmm_bitmap[b] = 1 PROVE Held(b) # {}
  <2>1. b < StartBlock + Kept \/ \E s \in Stacks : \E i \in Owners(s) : call[s][i].addr = b
    BY <1>1, <1>3 DEF KernelMemoryInv, ReadyInv, MarkedAreOwned
  <2>2. CASE b < StartBlock
    <3>1. <<"reserved", b>> \in Held(b)
      BY <2>2 DEF Held
    <3> QED
      BY <3>1
  <2>3. CASE b \in StartBlock .. StartBlock + Len(heap) - 1
    <3>1. PICK i \in 1 .. Len(heap) : b = StartBlock + i - 1
      <4>1. b - StartBlock + 1 \in 1 .. Len(heap) /\ b = StartBlock + (b - StartBlock + 1) - 1
        BY <1>1, <2>3, Sizes
      <4> QED
        BY <4>1
    <3>2. heap[i] = b
      BY <1>1, <3>1 DEF KernelMemoryInv, StageInv
    <3>3. <<"heap", i>> \in Held(b)
      BY <1>1, <3>2 DEF Held
    <3> QED
      BY <3>3
  <2>4. CASE b \in StartBlock + Len(heap) .. StartBlock + Kept - 1
    <3>1. PICK i \in 1 .. Len(paging) : b = StartBlock + Len(heap) + i - 1
      <4>1. /\ b - StartBlock - Len(heap) + 1 \in 1 .. Len(paging)
            /\ b = StartBlock + Len(heap) + (b - StartBlock - Len(heap) + 1) - 1
        BY <1>1, <2>4, Sizes
      <4> QED
        BY <4>1
    <3>2. Len(heap) = 4
      BY <1>1, <3>1, EmptySeq, KeptBlocks DEF KernelMemoryInv
    <3>3. paging[i] = b
      BY <1>1, <3>1, <3>2 DEF KernelMemoryInv, StageInv, HeapBlocks
    <3>4. <<"paging", i>> \in Held(b)
      BY <1>1, <3>3 DEF Held
    <3> QED
      BY <3>4
  <2>5. CASE \E s \in Stacks : \E i \in Owners(s) : call[s][i].addr = b
    <3>1. PICK s \in Stacks : \E i \in Owners(s) : call[s][i].addr = b
      BY <2>5
    <3>2. PICK i \in Owners(s) : call[s][i].addr = b
      BY <3>1
    <3>3. i \in 1 .. MaxNested
      BY Calls, Sizes DEF KernelMemoryInv
    <3>4. <<s, i>> \in Held(b)
      BY <3>2, <3>3 DEF Held
    <3> QED
      BY <3>4
  <2> QED
    BY <1>1, <2>1, <2>2, <2>3, <2>4, <2>5, Sizes
<1>4. ASSUME Held(b) # {} PROVE pmm_bitmap[b] = 1
  <2>1. PICK u \in Held(b) : TRUE
    BY <1>4
  <2>2. b < StartBlock + Kept \/ \E s \in Stacks : \E i \in Owners(s) : call[s][i].addr = b
    BY <1>1, <2>1, Holders, Sizes
  <2> QED
    BY <1>1, <2>2 DEF KernelMemoryInv, ReadyInv, MarkedAreOwned
<1> QED
  BY <1>2, <1>3, <1>4

(***************************************************************************)
(* No block belongs to two of the first megabyte, the heap, the paging     *)
(* structures and the commands, and the bits that are set are those of     *)
(* blocks that belong to one.                                              *)
(***************************************************************************)
THEOREM OneOwner ==
    ASSUME QuietPmm, QuietInit
    PROVE  Spec => []BlocksHaveOneOwner
  BY InvOneOwner, InvIsInvariant, PTL

\* The heap's blocks follow each other, whatever the commands do meanwhile.
THEOREM HeapBlocksFollow ==
    ASSUME QuietPmm, QuietInit
    PROVE  Spec => []HeapIsContiguous
<1>1. KernelMemoryInv => HeapIsContiguous
  <2> SUFFICES ASSUME KernelMemoryInv, NEW i \in 2 .. Len(heap)
               PROVE  heap[i] = heap[i - 1] + 1
    BY DEF HeapIsContiguous
  <2>1. i \in DOMAIN heap /\ i - 1 \in DOMAIN heap
    BY KeptBlocks DEF KernelMemoryInv
  <2>2. heap[i] = StartBlock + i - 1 /\ heap[i - 1] = StartBlock + (i - 1) - 1
    BY <2>1 DEF KernelMemoryInv, StageInv
  <2> QED
    BY <2>2, Sizes
<1> QED
  BY <1>1, InvIsInvariant, PTL

\* The first megabyte stays marked: with a command between the loops of
\* pmm_init it would not.
THEOREM FirstMegabyteStays ==
    ASSUME QuietPmm, QuietInit
    PROVE  Spec => []ReservedStaysReserved
<1>1. KernelMemoryInv => ReservedStaysReserved
  <2> SUFFICES ASSUME KernelMemoryInv, Ready, NEW b \in 0 .. StartBlock - 1
               PROVE  pmm_bitmap[b] = 1
    BY DEF ReservedStaysReserved
  <2>1. Kept \in 0 .. 9
    BY KeptBlocks DEF KernelMemoryInv
  <2>2. b \in 0 .. MemBlocks - 1 /\ b < StartBlock + Kept
    BY <2>1, Sizes
  <2> QED
    BY <2>2 DEF KernelMemoryInv, ReadyInv, MarkedAreOwned
<1> QED
  BY <1>1, InvIsInvariant, PTL

\* Quotients and remainders by the number of entries.
LEMMA PageNumbers ==
    ASSUME NEW n \in Nat \ {0}, NEW v \in 0 .. n * n - 1
    PROVE  /\ v \div n \in 0 .. n - 1 /\ v % n \in 0 .. n - 1
           /\ v = (v \div n) * n + (v % n)
           /\ v < 4 * n <=> v \div n < 4
<1>1. v \in Nat /\ v < n * n
  OBVIOUS
<1>2. v \div n \in Nat /\ v % n \in 0 .. n - 1 /\ v = (v \div n) * n + (v % n)
  BY <1>1
<1>3. v \div n < n
  BY <1>1, <1>2
<1>4. v < 4 * n <=> v \div n < 4
  BY <1>1, <1>2
<1> QED
  BY <1>2, <1>3, <1>4

\* The invariant says in particular that what the CPU finds walking through the tables
\* of paging_init is the identity.
LEMMA InvIdentity == KernelMemoryInv => IdentityMapped
<1> SUFFICES ASSUME KernelMemoryInv, pg
             PROVE  /\ \A v \in 0 .. Entries * Entries - 1 :
                          Walk(v) = IF v < Tables * Entries THEN v ELSE Fault
                    /\ max_blocks <= Tables * Entries
  BY DEF IdentityMapped
<1>1. stage = "tasks" /\ Len(paging) = 5 /\ paging # <<>> /\ cr3 = paging[1] /\ Ready
  <2>1. stage = "tasks"
    BY DEF KernelMemoryInv, PagingInv
  <2> QED
    BY <2>1, EmptySeq DEF KernelMemoryInv, PagingInv, StageInv, Tables, Ready
<1>2. Contents(cr3) =
          [t \in Indices |-> IF t < 4 THEN [frame |-> paging[t + 2], present |-> TRUE]
                                      ELSE [frame |-> 0, present |-> FALSE]]
  BY <1>1 DEF KernelMemoryInv, PagingInv
<1>3. \A t \in 0 .. 3 : Contents(paging[t + 2]) =
          [i \in Indices |-> [frame |-> Page(t, i), present |-> TRUE]]
  <2>1. Len(paging) - 2 = 3
    BY <1>1
  <2> QED
    BY <2>1 DEF KernelMemoryInv, PagingInv
<1>4. ASSUME NEW v \in 0 .. Entries * Entries - 1
      PROVE  Walk(v) = IF v < 4 * Entries THEN v ELSE Fault
  <2>1. PICK d \in Indices, i \in Indices : d = v \div Entries /\ i = v % Entries
    BY PageNumbers, Sizes DEF Indices
  <2>2. /\ v = Page(d, i)
        /\ v < 4 * Entries <=> d < 4
    BY <2>1, PageNumbers, Sizes DEF Page
  <2>3. Walk(v) = Lookup(Contents(cr3)[d],
                         Lookup(Contents(Contents(cr3)[d].frame)[i],
                                Contents(Contents(cr3)[d].frame)[i].frame))
    BY <2>1 DEF Walk
  <2>4. CASE d < 4
    <3>1. Contents(cr3)[d] = [frame |-> paging[d + 2], present |-> TRUE]
      BY <1>2, <2>4
    <3>2. d \in 0 .. 3
      BY <2>4, Sizes DEF Indices
    <3>3. Contents(paging[d + 2])[i] = [frame |-> Page(d, i), present |-> TRUE]
      BY <1>3, <3>2
    <3>4. Walk(v) = Page(d, i)
      BY <2>3, <3>1, <3>3 DEF Lookup
    <3> QED
      BY <2>2, <2>4, <3>4
  <2>5. CASE ~(d < 4)
    <3>1. Contents(cr3)[d] = [frame |-> 0, present |-> FALSE]
      BY <1>2, <2>5
    <3>2. Walk(v) = Fault
      BY <2>3, <3>1 DEF Lookup
    <3> QED
      BY <2>2, <2>5, <3>2
  <2> QED
    BY <2>4, <2>5
<1>5. max_blocks <= 4 * Entries
  BY <1>1, NeverFull, Sizes
<1> QED
  BY <1>4, <1>5 DEF Tables

(***************************************************************************)
(* With paging on, every page of the first four tables is where it was,    *)
(* every other page faults, and no block pmm.c can hand out is among those:*)
(* for tables of any size.                                                 *)
(***************************************************************************)
THEOREM IdentityIsMapped ==
    ASSUME QuietPmm, QuietInit
    PROVE  Spec => []IdentityMapped
  BY InvIdentity, InvIsInvariant, PTL

----------------------------------------------------------------------------
(* The memory manager is a BlockPool.                                      *)

\* What can be allocated when it can: the clear bits, of which there is one.
PoolInv ==
    /\ KernelMemoryInv
    /\ Ready => max_blocks = MemBlocks /\ Allocatable = ClearBits
    /\ ~Ready => Allocatable = {}

\* With the invariant the pool has a free block whenever pmm.c is ready, so that its
\* quick check never refuses one.
LEMMA InvPool == KernelMemoryInv => PoolInv
<1> SUFFICES ASSUME KernelMemoryInv PROVE PoolInv
  OBVIOUS
<1>1. Ready => max_blocks = MemBlocks /\ max_blocks # used_blocks
  BY NeverFull, Sizes
<1>2. ~Ready => max_blocks = used_blocks
  BY DEF Ready, KernelMemoryInv, OffInv, MarkedInv
<1> QED
  BY <1>1, <1>2 DEF PoolInv, Allocatable

\* A step that leaves the bitmap and the stage alone changes nothing there.
LEMMA PoolStutters ==
    ASSUME PoolInv, PoolInv', pmm_bitmap' = pmm_bitmap, Ready' <=> Ready
    PROVE  UNCHANGED <<Ready, Allocatable>>
<1>1. Ready => ClearBits' = ClearBits
  BY DEF PoolInv, ClearBits
<1> QED
  BY <1>1 DEF PoolInv, Ready

\* set_bit is the step in which the abstract pool loses a block.
LEMMA MarkTakes ==
    ASSUME PoolInv, PoolInv', Ready, Ready', NEW s \in Stacks, Mark(s),
           UNCHANGED <<memory, stage, heap, paging>>
    PROVE  Promise!Take
<1>1. /\ call[s] # <<>> /\ Top(s).pc = "mark"
      /\ Store([Top(s).word EXCEPT ![Top(s).addr] = 1]) /\ max_blocks' = max_blocks
      /\ KernelMemoryInv /\ max_blocks = MemBlocks
  BY DEF Mark, At, PoolInv
<1>2. PICK n \in Nat \ {0} : OnTop(s, n)
  BY <1>1, OthersOutside, TopMoves
<1>3. WordIsCurrent(s, n) /\ Top(s).addr \in Pool /\ Top(s).word[Top(s).addr] = 0
  BY <1>1, <1>2 DEF OnTop, CallInv
<1>4. pmm_bitmap' = [pmm_bitmap EXCEPT ![Top(s).addr] = 1] /\ pmm_bitmap[Top(s).addr] = 0
  BY <1>1, <1>2, <1>3, StoreChangesOneBit
<1>5. PICK a \in Pool : a = Top(s).addr
  BY <1>3
<1>6. a \in ClearBits /\ ClearBits' = ClearBits \ {a}
  <2>1. a \in 0 .. max_blocks - 1 /\ 0 .. max_blocks - 1 \subseteq Addresses
    BY <1>1, <1>5, Sizes DEF Pool, Addresses
  <2> QED
    BY <1>1, <1>4, <1>5, <2>1 DEF ClearBits, KernelMemoryInv, TypeOK
<1> QED
  BY <1>6 DEF PoolInv, Promise!Take

\* clear_bit is the step in which the abstract pool gets a block back.
LEMMA UnmarkGives ==
    ASSUME PoolInv, PoolInv', Ready, Ready', NEW s \in Stacks, Unmark(s),
           UNCHANGED <<memory, stage, heap, paging>>
    PROVE  Promise!Give
<1>1. /\ call[s] # <<>> /\ Top(s).pc = "free" /\ "bit" \in Top(s).due
      /\ Store([Top(s).word EXCEPT ![Top(s).addr] = 0]) /\ max_blocks' = max_blocks
      /\ KernelMemoryInv /\ max_blocks = MemBlocks
  BY DEF Unmark, Done, At, FreeBit, PoolInv
<1>2. PICK n \in Nat \ {0} : OnTop(s, n)
  BY <1>1, OthersOutside, TopMoves
<1>3. WordIsCurrent(s, n) /\ Top(s).addr \in Pool
  BY <1>1, <1>2 DEF OnTop, CallInv
<1>4. pmm_bitmap' = [pmm_bitmap EXCEPT ![Top(s).addr] = 0]
  BY <1>1, <1>2, <1>3, StoreChangesOneBit
<1>5. PICK a \in Pool : a = Top(s).addr
  BY <1>3
<1>6. a \in 0 .. max_blocks - 1 /\ 0 .. max_blocks - 1 \subseteq Addresses
  BY <1>1, <1>5, Sizes DEF Pool, Addresses
<1>7. pmm_bitmap[a] = 1
  <2>1. n \in Owners(s) /\ call[s][n].addr = a
    BY <1>1, <1>2, <1>5, Sizes DEF Owners, Owner, OnTop, Pool, NULL
  <2>2. \E t \in Stacks : \E i \in Owners(t) : call[t][i].addr = a
    BY <2>1
  <2>3. MarkedAreOwned
    BY <1>1 DEF KernelMemoryInv, ReadyInv
  <2> QED
    BY <1>1, <1>6, <2>2, <2>3 DEF MarkedAreOwned
<1>8. a \notin ClearBits /\ ClearBits' = ClearBits \cup {a}
  BY <1>1, <1>4, <1>5, <1>6, <1>7 DEF ClearBits, KernelMemoryInv, TypeOK
<1> QED
  BY <1>5, <1>8 DEF PoolInv, Promise!Give, Pool

\* Every step is one of the abstract pool, or none.
LEMMA StepOfPool ==
    ASSUME PoolInv, PoolInv', [Next]_vars
    PROVE  Promise!Next \/ UNCHANGED Promise!vars
<1> SUFFICES ASSUME ~(UNCHANGED <<Ready, Allocatable>>)
             PROVE  Promise!Next
  BY DEF Promise!vars
<1>1. ~(pmm_bitmap' = pmm_bitmap /\ (Ready' <=> Ready))
  BY PoolStutters
<1>2. CASE UNCHANGED vars
  BY <1>1, <1>2 DEF vars, pmm, statics, Ready
<1>3. CASE BootPmmMark
  <2>1. ~Ready /\ ~Ready'
    BY <1>3 DEF BootPmmMark, Boot, Ready
  <2> QED
    BY <2>1 DEF PoolInv, Ready
<1>4. CASE BootPmmFree
  <2>1. ~Ready /\ Ready' /\ stage = "marked"
    BY <1>4 DEF BootPmmFree, Boot, Ready
  <2>2. /\ max_blocks = MemBlocks /\ max_blocks' = MemBlocks
        /\ pmm_bitmap = [i \in Addresses |-> 1]
    BY <2>1 DEF PoolInv, KernelMemoryInv, MarkedInv
  <2>3. pmm_bitmap' = [i \in Addresses |->
                          IF i \in StartBlock .. MemBlocks - 1 THEN 0 ELSE pmm_bitmap[i]]
    BY <1>4, <2>2 DEF BootPmmFree, PmmInitFree, FirstFree
  <2>4. /\ \A i \in 0 .. MemBlocks - 1 : i \in Addresses
        /\ StartBlock .. MemBlocks - 1 \subseteq 0 .. MemBlocks - 1
    BY Sizes DEF Addresses
  <2>5. ClearBits' = StartBlock .. MemBlocks - 1
    BY <2>2, <2>3, <2>4 DEF ClearBits
  <2> QED
    BY <2>1, <2>5 DEF PoolInv, Promise!Next, Promise!Open
<1>5. CASE BootAlloc
  BY <1>1, <1>5 DEF BootAlloc, Alloc, statics, Ready
<1>6. CASE HeapInit \/ PagingDirectory \/ PagingTable
  <2>1. pmm_bitmap' = pmm_bitmap
    BY <1>6 DEF HeapInit, PagingDirectory, PagingTable, Got, statics
  <2>2. Ready /\ Ready'
    BY <1>6 DEF HeapInit, PagingDirectory, PagingTable, Got, Ready
  <2> QED
    BY <1>1, <2>1, <2>2
<1>7. CASE PagingLoad \/ PagingEnable
  <2>1. pmm_bitmap' = pmm_bitmap /\ Ready /\ Ready'
    BY <1>7 DEF PagingLoad, PagingEnable, Boot, pmm, statics, Ready
  <2> QED
    BY <1>1, <2>1
<1>8. ASSUME NEW s \in Stacks, TestmemAlloc(s) \/ TestmemFree(s)
      PROVE  FALSE
  <2>1. pmm_bitmap' = pmm_bitmap /\ (Ready' <=> Ready)
    BY <1>8 DEF TestmemAlloc, TestmemFree, Alloc, Free, statics, Ready
  <2> QED
    BY <1>1, <2>1
<1>9. ASSUME NEW s \in Stacks, Inner(s)
      PROVE  Promise!Next
  <2>1. UNCHANGED <<memory, stage, heap, paging>> /\ (Ready' <=> Ready) /\ PmmStep(s)
    BY <1>9 DEF Inner, Ready
  <2>2. Ready
    <3> SUFFICES ASSUME ~Ready PROVE FALSE
      OBVIOUS
    <3>1. Allocatable = {} /\ Allocatable' = {} /\ ~Ready'
      BY <2>1 DEF PoolInv
    <3> QED
      BY <3>1 DEF Ready
  <2>3. pmm_bitmap' # pmm_bitmap
    BY <1>1, <2>1
  <2>4. Mark(s) \/ Unmark(s)
    BY <2>1, <2>3 DEF PmmStep, Scan, Count, Uncount, statics
  <2> QED
    BY <2>1, <2>2, <2>4, MarkTakes, UnmarkGives DEF Promise!Next
<1> QED
  BY <1>2, <1>3, <1>4, <1>5, <1>6, <1>7, <1>8, <1>9 DEF Next

(***************************************************************************)
(* The memory manager, however its calls interleave, is an atomic pool of  *)
(* blocks: a call takes a block in its set_bit and gives one back in its   *)
(* clear_bit.                                                              *)
(***************************************************************************)
THEOREM ImplementsBlockPool ==
    ASSUME QuietPmm, QuietInit
    PROVE  Spec => IsBlockPool
<1>1. Init => Promise!Init
  <2> SUFFICES ASSUME Init PROVE Ready = FALSE /\ Allocatable = {}
    BY DEF Promise!Init
  <2> QED
    BY DEF Init, PmmStatics, Ready, Allocatable
<1>2. PoolInv /\ PoolInv' /\ [Next]_vars => [Promise!Next]_(Promise!vars)
  BY StepOfPool
<1>3. KernelMemoryInv => PoolInv
  BY InvPool
<1> QED
  BY <1>1, <1>2, <1>3, InvIsInvariant, PTL DEF Spec, IsBlockPool, Promise!Spec
=============================================================================
