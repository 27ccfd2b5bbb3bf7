----------------------------- MODULE HeapProofs -----------------------------
(***************************************************************************)
(* The heap hands out every byte once, for every size of the region, every *)
(* set of callers and of sizes, as long as no call starts while another is *)
(* in the heap.                                                            *)
(***************************************************************************)
EXTENDS Heap, StackLemmas

----------------------------------------------------------------------------
(***************************************************************************)
(* The inductive invariant behind the properties, for QuietHeap.           *)
(***************************************************************************)

\* At most one call is in the heap.
OneInside ==
    \A u, v \in Callers : pc[u] # "out" /\ pc[v] # "out" => u = v

\* The headers in the list: all but the one a split has not linked yet.
List == DOMAIN node \ {NewNode(u) : u \in {v \in Callers : pc[v] = "link"}}

Tiled ==
    /\ HeapStart \in List
    /\ \A a \in List :
          /\ HeapStart <= a /\ EndOf(a) <= HeapEnd
          /\ node[a].next # NULL => node[a].next \in List /\ node[a].next = EndOf(a)
    /\ \A a, b \in List : a < b => EndOf(a) <= b

\* Holders have nodes of their own, in use and large enough.
Owned ==
    /\ \A u \in Callers : pc[u] # "out" => holds[u].ptr = NULL
    /\ \A u \in Callers :
          pc[u] \in {"out", "merge"} /\ holds[u].ptr = NULL => holds[u] = Nothing
    /\ \A u \in Holders :
          /\ holds[u].ptr - HeaderBytes \in List
          /\ node[holds[u].ptr - HeaderBytes].is_free = 0
          /\ holds[u].bytes <= node[holds[u].ptr - HeaderBytes].size
    /\ \A u, v \in Holders : u # v => holds[u].ptr # holds[v].ptr

\* What a call knows of the node it looks at.
Inside(u) ==
    /\ pc[u] = "fit" => current[u] = NULL \/ current[u] \in List
    /\ pc[u] = "merge" => current[u] \in List
    /\ pc[u] \in {"fit", "split", "link", "claim"} => holds[u].bytes <= size[u]
    /\ pc[u] \in {"split", "link", "claim"} =>
          /\ current[u] \in List
          /\ node[current[u]].is_free = 1
          /\ node[current[u]].size >= size[u]
    /\ pc[u] \in {"split", "link"} =>
          node[current[u]].size >= size[u] + HeaderBytes + SplitBytes
    /\ pc[u] = "link" =>
          /\ NewNode(u) \in DOMAIN node
          /\ node[NewNode(u)] =
                [size |-> node[current[u]].size - size[u] - HeaderBytes,
                 is_free |-> 1, next |-> node[current[u]].next]

\* The last node of the list reaches to the end of the heap.
Gapless == \A a \in List : node[a].next = NULL => EndOf(a) = HeapEnd

\* Every node in use is somebody's.
AllHeld ==
    \A a \in List : node[a].is_free = 0 =>
        \E u \in Holders : holds[u].ptr = Payload(a)

\* Two free neighbours are what a split has just made, or lie where kfree has
\* still to come.
Merged ==
    \A a \in List :
        FreePair(a) =>
            \E u \in Callers : \/ pc[u] = "claim" /\ a = current[u]
                               \/ pc[u] = "merge" /\ current[u] <= a

\* The free nodes kmalloc has passed are too small.
Searched ==
    \A u \in Callers : pc[u] = "fit" =>
        \A a \in List :
            node[a].is_free = 1 /\ (current[u] = NULL \/ a < current[u])
            => node[a].size < size[u]

HeapInv ==
    /\ TypeOK
    /\ OneInside
    /\ Tiled
    /\ Owned
    /\ \A u \in Callers : Inside(u)
    /\ Gapless
    /\ AllHeld
    /\ Merged
    /\ Searched

----------------------------------------------------------------------------
\* Rounding a size up gives a number that is at least the size (kmalloc's
\* (size + 3) & ~3).
LEMMA AlignIsEnough ==
    ASSUME NEW n \in Nat
    PROVE  Align4(n) \in Nat /\ Align4(n) >= n
BY DEF Align4

\* While the call of u does not link a new node, every header is in the list.
LEMMA AllListed ==
    ASSUME \A v \in Callers : pc[v] # "link"
    PROVE  List = DOMAIN node
BY DEF List

\* While it does, every header but the new one is.
LEMMA AllButNewListed ==
    ASSUME NEW u \in Callers, pc[u] = "link",
           \A v \in Callers \ {u} : pc[v] = "out"
    PROVE  List = DOMAIN node \ {NewNode(u)}
BY DEF List

\* The one free node that heap_init leaves satisfies the invariant.
LEMMA InitInv == Init => HeapInv
<1> SUFFICES ASSUME Init PROVE HeapInv
  OBVIOUS
<1> USE DEF Init
<1>1. List = {HeapStart}
  BY AllListed
<1>2. TypeOK
  BY StartAssumption, BytesAssumption
     DEF TypeOK, Headers, Nothing, NULL, HeapEnd
<1>3. OneInside
  BY DEF OneInside
<1>4. Tiled
  BY <1>1, StartAssumption, BytesAssumption
     DEF Tiled, EndOf, Payload, HeapEnd, NULL
<1>5. Owned
  BY DEF Owned, Holders, Nothing, NULL
<1>6. \A u \in Callers : Inside(u)
  BY DEF Inside
<1>7. Gapless
  BY <1>1, StartAssumption, BytesAssumption DEF Gapless, EndOf, Payload, HeapEnd
<1>8. AllHeld /\ Merged /\ Searched
  BY <1>1 DEF AllHeld, Merged, FreePair, Searched
<1> QED
  BY <1>2, <1>3, <1>4, <1>5, <1>6, <1>7, <1>8 DEF HeapInv

\* The headers of the list are numbers inside the heap, each before its end.
LEMMA NodeFacts ==
    ASSUME HeapInv
    PROVE  /\ HeapEnd \in Nat /\ HeapStart \in Nat
           /\ \A a \in List :
                 /\ a \in Nat /\ node[a] \in Headers /\ EndOf(a) \in Nat
                 /\ EndOf(a) = a + HeaderBytes + node[a].size
                 /\ HeapStart <= a /\ a < EndOf(a) /\ EndOf(a) <= HeapEnd
<1>1. HeapEnd \in Nat /\ HeapStart \in Nat
  BY StartAssumption, BytesAssumption DEF HeapEnd
<1>2. \A a \in List : a \in Nat /\ node[a] \in Headers
  BY <1>1 DEF HeapInv, TypeOK, List
<1>3. \A a \in List : /\ EndOf(a) \in Nat /\ a < EndOf(a)
                      /\ EndOf(a) = a + HeaderBytes + node[a].size
  BY <1>2, BytesAssumption DEF EndOf, Payload, Headers
<1> QED
  BY <1>1, <1>2, <1>3 DEF HeapInv, Tiled

\* Of two nodes one ends before the other begins.
LEMMA Ordered ==
    ASSUME HeapInv, NEW a \in List, NEW b \in List
    PROVE  a = b \/ EndOf(a) <= b \/ EndOf(b) <= a
<1>1. a \in Nat /\ b \in Nat
  BY NodeFacts
<1>2. a = b \/ a < b \/ b < a
  BY <1>1
<1> QED
  BY <1>2 DEF HeapInv, Tiled

\* With no call in the last steps of kmalloc or in kfree, no two neighbours are
\* free.
LEMMA NoPairs ==
    ASSUME HeapInv, \A v \in Callers : pc[v] \notin {"claim", "merge"}
    PROVE  \A a \in List : ~FreePair(a)
BY DEF HeapInv, Merged

----------------------------------------------------------------------------
(* kmalloc                                                                 *)

\* Entering kmalloc, which rounds the size up and starts at the head, keeps HeapInv.
LEMMA KMallocInv ==
    ASSUME HeapInv, QuietHeap, NEW u \in Callers, KMalloc(u)
    PROVE  HeapInv'
<1> USE DEF HeapInv
<1>1. PICK bytes \in Sizes :
        /\ size' = [size EXCEPT ![u] = Align4(bytes)]
        /\ holds' = [holds EXCEPT ![u].bytes = bytes]
  BY DEF KMalloc
<1>2. /\ bytes \in Nat
      /\ Align4(bytes) \in Nat
      /\ Align4(bytes) >= bytes
  BY AlignIsEnough, SizesAssumption
<1>3. /\ pc' = [pc EXCEPT ![u] = "fit"]
      /\ current' = [current EXCEPT ![u] = HeapStart]
      /\ node' = node
      /\ \A v \in Callers : pc[v] = "out"
      /\ holds[u] = Nothing
  BY DEF KMalloc, At, GoTo, MayRun
<1>4. TypeOK'
  BY <1>1, <1>2, <1>3, StartAssumption DEF TypeOK
<1>5. List = DOMAIN node /\ List' = DOMAIN node
  BY <1>3 DEF List, TypeOK
<1>6. OneInside'
  BY <1>3 DEF OneInside, TypeOK
<1>7. Tiled'
  BY <1>3, <1>5 DEF Tiled, EndOf
<1>8. Holders' = Holders /\ \A v \in Holders : v # u /\ holds'[v] = holds[v]
  BY <1>1, <1>3 DEF Holders, Nothing, TypeOK
<1>9. Owned'
  <2>1. \A v \in Callers : pc'[v] # "out" => holds'[v].ptr = NULL
    BY <1>1, <1>3 DEF TypeOK, Nothing
  <2>2. \A v \in Callers :
            pc'[v] \in {"out", "merge"} /\ holds'[v].ptr = NULL
                => holds'[v] = Nothing
    BY <1>1, <1>3 DEF TypeOK, Owned
  <2> QED
    BY <1>3, <1>5, <1>8, <2>1, <2>2 DEF Owned
<1>10. \A v \in Callers : Inside(v)'
  BY <1>1, <1>2, <1>3, <1>5 DEF TypeOK, Inside, Tiled
<1>11. Gapless' /\ AllHeld'
  BY <1>3, <1>5, <1>8 DEF Gapless, AllHeld, EndOf
<1>12. Merged'
  BY <1>3, <1>5, NoPairs DEF Merged, FreePair
<1>13. Searched'
  <2>1. \A v \in Callers : pc'[v] = "fit" => v = u /\ current'[v] = HeapStart
    BY <1>3 DEF TypeOK
  <2>2. HeapStart # NULL /\ \A a \in List : ~(a < HeapStart)
    BY NodeFacts, StartAssumption DEF NULL
  <2> QED
    BY <1>3, <1>5, <2>1, <2>2 DEF Searched
<1> QED
  BY <1>4, <1>6, <1>7, <1>9, <1>10, <1>11, <1>12, <1>13

\* A step that changes only what the call of u knows, and is not about to link,
\* keeps the list and its owners.
LEMMA LocalStepInv ==
    ASSUME HeapInv, NEW u \in Callers, NEW label,
           node' = node, holds' = holds, size' = size,
           pc' = [pc EXCEPT ![u] = label],
           label \in {"fit", "split", "claim", "merge"},
           pc[u] \in {"fit", "merge"}, label = "merge" => pc[u] = "merge",
           \A v \in Callers \ {u} : pc[v] = "out",
           TypeOK', Inside(u)', Merged', Searched'
    PROVE  HeapInv'
<1> USE DEF HeapInv
<1>1. \A v \in Callers \ {u} : pc'[v] = "out"
  BY DEF TypeOK
<1>2. List = DOMAIN node /\ List' = DOMAIN node
  <2>1. \A v \in Callers : pc[v] # "link" /\ pc'[v] # "link"
    BY <1>1 DEF TypeOK
  <2> QED
    BY <2>1 DEF List
<1>3. OneInside'
  BY <1>1 DEF OneInside
<1>4. Tiled'
  BY <1>2 DEF Tiled, EndOf, Payload
<1>5. Owned'
  <2>1. Holders' = Holders
    BY DEF Holders
  <2>2. \A v \in Callers : (pc'[v] # "out" => pc[v] # "out")
                        /\ (pc'[v] \in {"out", "merge"} => pc[v] = pc'[v])
    BY <1>1 DEF TypeOK
  <2> QED
    BY <1>2, <2>1, <2>2 DEF Owned
<1>6. \A v \in Callers : Inside(v)'
  BY <1>1 DEF Inside
<1>7. Gapless' /\ AllHeld'
  BY <1>2 DEF Gapless, AllHeld, EndOf, Payload, Holders
<1> QED
  BY <1>3, <1>4, <1>5, <1>6, <1>7

\* A look at one node by kmalloc, whether it fits or not, keeps HeapInv.
LEMMA FitInv ==
    ASSUME HeapInv, QuietHeap, NEW u \in Callers, Fit(u)
    PROVE  HeapInv'
<1> USE DEF HeapInv
<1> DEFINE n == node[current[u]]
           taken == n.is_free = 1 /\ n.size >= size[u]
           label == IF taken
                    THEN IF n.size >= size[u] + HeaderBytes + SplitBytes
                         THEN "split" ELSE "claim"
                    ELSE "fit"
<1>1. /\ pc[u] = "fit" /\ current[u] # NULL
      /\ \A v \in Callers \ {u} : pc[v] = "out"
      /\ node' = node /\ holds' = holds /\ size' = size
  BY DEF Fit, At, MayRun
<1>2. current[u] \in List /\ List = DOMAIN node
  BY <1>1 DEF Inside, List
<1>3. n \in Headers /\ (n.next = NULL \/ n.next \in List)
  BY <1>2 DEF TypeOK, Tiled
<1>4. pc' = [pc EXCEPT ![u] = label]
  BY <1>1 DEF Fit, GoTo, TypeOK
<1>5. \/ taken /\ current' = current
      \/ ~taken /\ current' = [current EXCEPT ![u] = n.next]
  BY DEF Fit
<1>6. TypeOK'
  BY <1>1, <1>3, <1>4, <1>5 DEF TypeOK, Headers
<1>7. List' = List
  BY <1>1, <1>4 DEF List, TypeOK
<1>8. Inside(u)'
  BY <1>1, <1>2, <1>3, <1>4, <1>5, <1>7 DEF Inside, TypeOK
<1>9. label \in {"fit", "split", "claim"}
  OBVIOUS
<1>10. Merged'
  <2>1. \A a \in List : ~FreePair(a)
    BY <1>1, NoPairs
  <2> QED
    BY <1>1, <1>7, <2>1 DEF Merged, FreePair
<1>11. Searched'
  <2>1. \A v \in Callers : pc'[v] = "fit" =>
            v = u /\ ~taken /\ current'[v] = n.next
    BY <1>1, <1>4, <1>5 DEF TypeOK
  <2>2. ASSUME ~taken, NEW a \in List, node[a].is_free = 1,
               n.next = NULL \/ a < n.next
        PROVE  node[a].size < size[u]
    <3>1. CASE a = current[u]
      BY <1>1, <1>3, <2>2, <3>1 DEF TypeOK, Headers
    <3>2. CASE EndOf(a) <= current[u]
      BY <1>1, <1>2, <2>2, <3>2, NodeFacts DEF Searched
    <3>3. ~(EndOf(current[u]) <= a)
      <4>1. CASE n.next = NULL
        BY <1>2, <4>1, NodeFacts DEF Gapless
      <4>2. CASE n.next # NULL
        BY <1>2, <2>2, <4>2, NodeFacts DEF Tiled
      <4> QED
        BY <4>1, <4>2
    <3> QED
      BY <1>2, <3>1, <3>2, <3>3, Ordered
  <2> QED
    BY <1>1, <1>7, <2>1, <2>2 DEF Searched
<1> HIDE DEF label
<1> QED
  BY <1>1, <1>4, <1>6, <1>8, <1>9, <1>10, <1>11, LocalStepInv

\* kmalloc returning NULL at the end of the list keeps HeapInv.
LEMMA NoFitInv ==
    ASSUME HeapInv, QuietHeap, NEW u \in Callers, NoFit(u)
    PROVE  HeapInv'
<1> USE DEF HeapInv
<1>1. /\ pc[u] = "fit"
      /\ \A v \in Callers : pc'[v] = "out"
      /\ \A v \in Callers \ {u} : pc[v] = "out"
      /\ node' = node
      /\ holds' = [holds EXCEPT ![u] = Nothing]
  BY DEF NoFit, At, MayRun, Return, GoTo, TypeOK
<1>2. TypeOK'
  BY <1>1 DEF NoFit, Return, GoTo, TypeOK, Nothing, NULL
<1>3. List = DOMAIN node /\ List' = DOMAIN node
  BY <1>1 DEF List
<1>4. OneInside'
  BY <1>1 DEF OneInside
<1>5. Tiled'
  BY <1>1, <1>3 DEF Tiled, EndOf
<1>6. /\ Holders' = Holders
      /\ \A v \in Holders : holds'[v] = holds[v]
  BY <1>1 DEF Owned, Holders, Nothing, TypeOK
<1>7. Owned'
  <2>1. \A v \in Callers :
            pc'[v] \in {"out", "merge"} /\ holds'[v].ptr = NULL
                => holds'[v] = Nothing
    BY <1>1 DEF Owned, TypeOK
  <2> QED
    BY <1>1, <1>3, <1>6, <2>1 DEF Owned
<1>8. \A v \in Callers : Inside(v)'
  BY <1>1 DEF Inside
<1>9. Gapless' /\ AllHeld'
  BY <1>1, <1>3, <1>6 DEF Gapless, AllHeld, EndOf
<1>10. Merged' /\ Searched'
  BY <1>1, <1>3, NoPairs DEF Merged, FreePair, Searched
<1> QED
  BY <1>2, <1>4, <1>5, <1>7, <1>8, <1>9, <1>10

\* Where the node that a split makes lies: inside the one it splits, and so at
\* the address of no other node.
LEMMA NewNodeIsInside ==
    ASSUME HeapInv, NEW u \in Callers, pc[u] \in {"split", "link"}
    PROVE  /\ current[u] < NewNode(u)
           /\ NewNode(u) + HeaderBytes <= EndOf(current[u])
           /\ HeapStart <= NewNode(u) /\ NewNode(u) < HeapEnd
           /\ NewNode(u) \in Nat /\ size[u] \in Nat
           /\ NewNode(u) \notin List
<1> USE DEF HeapInv
<1>1. /\ current[u] \in List
      /\ node[current[u]].size >= size[u] + HeaderBytes + SplitBytes
  BY DEF Inside
<1>2. /\ size[u] \in Nat /\ current[u] \in Nat
      /\ node[current[u]].size \in Nat
      /\ List \subseteq HeapStart .. HeapEnd - 1
  BY <1>1 DEF TypeOK, List, Headers
<1>3. /\ current[u] < NewNode(u)
      /\ NewNode(u) + HeaderBytes <= EndOf(current[u])
  BY <1>1, <1>2, BytesAssumption DEF NewNode, EndOf, Payload
<1>4. HeapStart <= current[u] /\ EndOf(current[u]) <= HeapEnd
  BY <1>1 DEF Tiled
<1>5. EndOf(current[u]) \in Nat /\ NewNode(u) \in Nat
  BY <1>2, BytesAssumption DEF EndOf, Payload, NewNode
<1>6. NewNode(u) \notin List
  BY <1>1, <1>2, <1>3, <1>5, BytesAssumption DEF Tiled
<1> QED
  BY <1>2, <1>3, <1>4, <1>5, <1>6, StartAssumption, BytesAssumption DEF HeapEnd

----------------------------------------------------------------------------
\* The header of the new node is written; it is not in the list yet.
LEMMA SplitNewInv ==
    ASSUME HeapInv, QuietHeap, NEW u \in Callers, SplitNew(u)
    PROVE  HeapInv'
<1> USE DEF HeapInv
<1> DEFINE n == node[current[u]]
           rest == [size |-> n.size - size[u] - HeaderBytes, is_free |-> 1,
                    next |-> n.next]
<1>1. /\ pc[u] = "split"
      /\ \A v \in Callers \ {u} : pc[v] = "out" /\ pc'[v] = "out"
      /\ pc' = [pc EXCEPT ![u] = "link"] /\ pc'[u] = "link"
      /\ size' = size /\ current' = current /\ holds' = holds
      /\ node' = [a \in DOMAIN node \cup {NewNode(u)} |->
                      IF a = NewNode(u) THEN rest ELSE node[a]]
  BY DEF SplitNew, At, MayRun, GoTo, TypeOK
<1>2. /\ NewNode(u) \notin List
      /\ NewNode(u) \in HeapStart .. HeapEnd - 1
      /\ NewNode(u) \in Nat
  BY <1>1, NewNodeIsInside, StartAssumption, BytesAssumption DEF HeapEnd
<1>3. /\ current[u] \in List /\ n.is_free = 1
      /\ n.size >= size[u] + HeaderBytes + SplitBytes
      /\ n.size >= size[u]
      /\ holds[u].bytes <= size[u]
  BY <1>1 DEF Inside
<1>4. n \in Headers /\ size[u] \in Nat
  BY <1>3 DEF TypeOK, List
<1>5. rest \in Headers
  BY <1>3, <1>4, BytesAssumption DEF Headers
<1>6. TypeOK'
  <2>1. DOMAIN node' \in SUBSET (HeapStart .. HeapEnd - 1)
    BY <1>1, <1>2 DEF TypeOK
  <2>2. node' \in [DOMAIN node' -> Headers]
    BY <1>1, <1>5 DEF TypeOK
  <2> QED
    BY <1>1, <2>1, <2>2 DEF TypeOK
<1>7. NewNode(u)' = NewNode(u)
  BY <1>1 DEF NewNode
<1>8. List = DOMAIN node
  BY <1>1, AllListed
<1>9. List' = List
  <2>1. {v \in Callers : pc'[v] = "link"} = {u}
    BY <1>1
  <2>2. List' = DOMAIN node' \ {NewNode(u)}
    BY <2>1, <1>7 DEF List
  <2> QED
    BY <2>2, <1>1, <1>2, <1>8
<1>10. \A a \in List : node'[a] = node[a]
  BY <1>1, <1>2, <1>8
<1>11. OneInside'
  BY <1>1 DEF OneInside
<1>12. Tiled'
  BY <1>9, <1>10 DEF Tiled, EndOf, Payload
<1>13. Owned'
  <2>1. Holders' = Holders
    BY <1>1 DEF Holders
  <2>2. \A v \in Holders :
          /\ holds'[v].ptr - HeaderBytes \in List'
          /\ node'[holds'[v].ptr - HeaderBytes] = node[holds[v].ptr - HeaderBytes]
    BY <1>1, <1>9, <1>10 DEF Owned
  <2>3. holds[u].ptr = NULL
    BY <1>1 DEF Owned
  <2> QED
    BY <1>1, <2>1, <2>2, <2>3 DEF Owned
<1>14. \A v \in Callers : Inside(v)'
  <2>1. Inside(u)'
    BY <1>1, <1>2, <1>3, <1>7, <1>9, <1>10 DEF Inside
  <2>2. \A v \in Callers \ {u} : Inside(v)'
    BY <1>1 DEF Inside
  <2> QED
    BY <2>1, <2>2
<1>15. Gapless' /\ AllHeld'
  BY <1>1, <1>9, <1>10 DEF Gapless, AllHeld, EndOf, Payload, Holders
<1>16. Merged'
  <2>1. \A a \in List : ~FreePair(a)
    BY <1>1, NoPairs
  <2>2. \A a \in List : FreePair(a)' => FreePair(a)
    BY <1>10 DEF FreePair, Tiled
  <2> QED
    BY <1>9, <2>1, <2>2 DEF Merged
<1>17. Searched'
  BY <1>1 DEF Searched
<1> QED
  BY <1>6, <1>11, <1>12, <1>13, <1>14, <1>15, <1>16, <1>17

\* The current node is shrunk and the new one enters the list behind it.
LEMMA SplitLinkInv ==
    ASSUME HeapInv, QuietHeap, NEW u \in Callers, SplitLink(u)
    PROVE  HeapInv'
<1> USE DEF HeapInv
<1> DEFINE c == current[u]
           m == NewNode(u)
<1>1. /\ pc[u] = "link"
      /\ \A v \in Callers \ {u} : pc[v] = "out" /\ pc'[v] = "out"
      /\ pc' = [pc EXCEPT ![u] = "claim"] /\ pc'[u] = "claim"
      /\ size' = size /\ current' = current /\ holds' = holds
      /\ node' = [node EXCEPT ![c].size = size[u], ![c].next = m]
  BY DEF SplitLink, At, MayRun, GoTo, TypeOK
<1>2. /\ c < m /\ m + HeaderBytes <= EndOf(c)
      /\ HeapStart <= m /\ m < HeapEnd
      /\ m \in Nat /\ size[u] \in Nat /\ m \notin List
  BY <1>1, NewNodeIsInside
<1>3. /\ c \in List /\ node[c].is_free = 1
      /\ node[c].size >= size[u] + HeaderBytes + SplitBytes
      /\ holds[u].bytes <= size[u]
      /\ m \in DOMAIN node
      /\ node[m] = [size |-> node[c].size - size[u] - HeaderBytes,
                    is_free |-> 1, next |-> node[c].next]
  BY <1>1 DEF Inside
<1>4. /\ List = DOMAIN node \ {m}
      /\ List' = DOMAIN node
  <2>1. List = DOMAIN node \ {m}
    BY <1>1, AllButNewListed
  <2>2. \A v \in Callers : pc'[v] # "link"
    BY <1>1
  <2> QED
    BY <2>1, <2>2, <1>1 DEF List
<1>5. /\ List' = List \cup {m} /\ c \in DOMAIN node /\ c # m
  BY <1>2, <1>3, <1>4
<1>6. \A a \in DOMAIN node : node[a] \in Headers /\ a \in Nat
  BY StartAssumption, BytesAssumption DEF TypeOK, HeapEnd
<1>7. /\ node'[c] = [size |-> size[u], is_free |-> 1, next |-> m]
      /\ node'[m] = node[m]
      /\ \A a \in List : a # c => node'[a] = node[a]
  BY <1>1, <1>3, <1>4, <1>5, <1>6 DEF Headers
<1>8. TypeOK'
  <2>1. DOMAIN node' = DOMAIN node /\ node' = [a \in DOMAIN node' |-> node'[a]]
    BY <1>1
  <2>2. ASSUME NEW a \in DOMAIN node
        PROVE  node'[a] \in Headers
    <3>1. CASE a = c
      BY <1>2, <1>7, <3>1 DEF Headers
    <3>2. CASE a # c
      BY <1>1, <1>6, <3>2
    <3> QED
      BY <3>1, <3>2
  <2>3. node' \in [DOMAIN node' -> Headers]
    BY <2>1, <2>2
  <2>4. /\ size' \in [Callers -> Nat] /\ current' \in [Callers -> Nat]
        /\ pc' \in [Callers -> {"out", "fit", "split", "link", "claim", "merge"}]
        /\ holds' \in [Callers -> [ptr : Nat, bytes : Nat]]
    BY <1>1 DEF TypeOK
  <2> QED
    BY <2>1, <2>3, <2>4 DEF TypeOK
<1>9. OneInside'
  BY <1>1 DEF OneInside
<1>10. \A a \in List' : /\ a = c => EndOf(a)' = m
                        /\ a = m => EndOf(a)' = EndOf(c)
  <2>1. /\ node[c].size \in Nat /\ c \in Nat
        /\ m = c + HeaderBytes + size[u]
        /\ EndOf(c) = c + HeaderBytes + node[c].size
    BY <1>5, <1>6 DEF NewNode, EndOf, Payload, Headers
  <2>2. c + HeaderBytes + node'[c].size = m
    BY <2>1, <1>7
  <2>3. m + HeaderBytes + node'[m].size = EndOf(c)
    BY <2>1, <1>2, <1>3, <1>7, BytesAssumption
  <2> HIDE DEF c, m
  <2> QED
    BY <2>2, <2>3 DEF EndOf, Payload
<1>11. \A a \in List : a # c => EndOf(a)' = EndOf(a)
  BY <1>7 DEF EndOf, Payload
<1>12. \A a \in List : EndOf(a) \in Nat
  BY <1>4, <1>6, BytesAssumption DEF EndOf, Payload, Headers
<1>13. Tiled'
  <2>1. HeapStart \in List'
    BY <1>5 DEF Tiled
  <2> HIDE DEF c, m
  <2>2. \A a \in List' : HeapStart <= a /\ EndOf(a)' <= HeapEnd
    <3>1. m <= HeapEnd
      BY <1>2, StartAssumption, BytesAssumption DEF HeapEnd
    <3> QED
      BY <3>1, <1>2, <1>3, <1>5, <1>10, <1>11 DEF Tiled
  <2>3. \A a \in List' : node'[a].next # NULL =>
            node'[a].next \in List' /\ node'[a].next = EndOf(a)'
    BY <1>3, <1>5, <1>7, <1>10, <1>11 DEF Tiled
  <2>4. \A a, b \in List' : a < b => EndOf(a)' <= b
    <3> SUFFICES ASSUME NEW a \in List', NEW b \in List', a < b
                 PROVE  EndOf(a)' <= b
      OBVIOUS
    <3>1. CASE a = c
      <4>1. b = m \/ (b \in List /\ EndOf(c) <= b)
        BY <1>3, <1>5, <3>1 DEF Tiled
      <4> QED
        <5>1. EndOf(a)' = m
          BY <3>1, <1>10
        <5>2. b \in List => m <= b \/ b = m \/ EndOf(c) > b
          BY <1>2, <1>3, <1>4, <1>6, <1>12, BytesAssumption
        <5> QED
          BY <4>1, <5>1, <5>2, <1>2, <1>3, <1>4, <1>6, <1>12
    <3>2. CASE a = m
      <4>1. b \in List /\ c < b
        BY <1>2, <1>3, <1>4, <1>5, <1>6, <3>2
      <4>2. EndOf(a)' = EndOf(c)
        BY <3>2, <1>10
      <4> QED
        BY <4>1, <4>2, <1>3 DEF Tiled
    <3>3. CASE a # c /\ a # m
      <4>1. a \in List /\ EndOf(a)' = EndOf(a)
        BY <3>3, <1>5, <1>11
      <4>2. CASE b \in List
        BY <4>1, <4>2 DEF Tiled
      <4>3. CASE b = m
        <5>1. a < c
          <6> SUFFICES ASSUME c < a PROVE FALSE
            BY <3>3, <4>1, <1>3, <1>4, <1>6
          <6>1. EndOf(c) <= a
            BY <4>1, <1>3 DEF Tiled
          <6> QED
            BY <6>1, <4>1, <4>3, <1>2, <1>3, <1>4, <1>6, <1>12, BytesAssumption
        <5>2. EndOf(a) <= c
          BY <5>1, <4>1, <1>3 DEF Tiled
        <5> QED
          BY <5>2, <4>1, <4>3, <1>2, <1>3, <1>4, <1>6, <1>12
      <4> QED
        BY <4>2, <4>3, <1>5
    <3> QED
      BY <3>1, <3>2, <3>3
  <2> QED
    BY <2>1, <2>2, <2>3, <2>4 DEF Tiled
<1>14. Owned'
  <2>1. Holders' = Holders
    BY <1>1 DEF Holders
  <2>2. \A v \in Holders : holds[v].ptr - HeaderBytes # c
    BY <1>3 DEF Owned
  <2>3. \A v \in Holders :
          /\ holds'[v].ptr - HeaderBytes \in List'
          /\ node'[holds'[v].ptr - HeaderBytes] = node[holds[v].ptr - HeaderBytes]
    BY <1>1, <1>5, <1>7, <2>2 DEF Owned
  <2>4. \A v \in Callers : pc'[v] # "out" => holds'[v].ptr = NULL
    BY <1>1 DEF Owned
  <2>5. \A v \in Callers :
            pc'[v] \in {"out", "merge"} /\ holds'[v].ptr = NULL
                => holds'[v] = Nothing
    BY <1>1 DEF Owned
  <2>6. \A v, w \in Holders : v # w => holds'[v].ptr # holds'[w].ptr
    BY <1>1 DEF Owned
  <2> QED
    BY <1>1, <2>1, <2>3, <2>4, <2>5, <2>6 DEF Owned
<1>15. \A v \in Callers : Inside(v)'
  <2>1. Inside(u)'
    BY <1>1, <1>2, <1>3, <1>5, <1>7 DEF Inside
  <2>2. \A v \in Callers \ {u} : Inside(v)'
    BY <1>1 DEF Inside
  <2> QED
    BY <2>1, <2>2
<1>16. Gapless'
  <2> SUFFICES ASSUME NEW a \in List', node'[a].next = NULL
               PROVE  EndOf(a)' = HeapEnd
    BY DEF Gapless
  <2> HIDE DEF c, m
  <2>1. CASE a = c
    <3>1. m # NULL
      BY <1>2, StartAssumption DEF NULL
    <3> QED
      BY <1>7, <2>1, <3>1
  <2>2. CASE a = m
    BY <1>3, <1>7, <1>10, <2>2 DEF Gapless
  <2>3. CASE a \in List /\ a # c
    BY <1>7, <1>11, <2>3 DEF Gapless
  <2> QED
    BY <1>5, <2>1, <2>2, <2>3
<1>17. AllHeld'
  <2>1. \A a \in List' : node'[a].is_free = 0 => a \in List /\ node'[a] = node[a]
    <3> HIDE DEF c, m
    <3> QED
      BY <1>3, <1>5, <1>7
  <2> QED
    BY <1>1, <2>1 DEF AllHeld, Holders, Payload
<1>18. Merged'
  <2> SUFFICES ASSUME NEW a \in List', FreePair(a)', a # c
               PROVE  FALSE
    BY <1>1 DEF Merged
  <2>1. \A b \in List : ~FreePair(b)
    BY <1>1, NoPairs
  <2> HIDE DEF c, m
  <2>2. CASE a = m
    <3>1. FreePair(c)
      <4>1. /\ node[c].next # NULL /\ node[c].next \in List
            /\ node'[node[c].next].is_free = 1
        BY <1>3, <1>7, <2>2 DEF FreePair, Tiled
      <4>2. node[node[c].next].is_free = 1
        BY <1>3, <1>7, <4>1
      <4> QED
        BY <1>3, <4>1, <4>2 DEF FreePair
    <3> QED
      BY <1>3, <2>1, <3>1
  <2>3. CASE a \in List
    <3>1. /\ node'[a] = node[a] /\ node[a].is_free = 1
          /\ node[a].next # NULL /\ node[a].next \in List
          /\ node'[node[a].next].is_free = 1
      BY <1>7, <2>3 DEF FreePair, Tiled
    <3>2. node[node[a].next].is_free = 1
      BY <1>3, <1>7, <3>1
    <3> QED
      BY <2>1, <2>3, <3>1, <3>2 DEF FreePair
  <2> QED
    BY <1>5, <2>2, <2>3
<1>19. Searched'
  BY <1>1 DEF Searched
<1> QED
  BY <1>8, <1>9, <1>13, <1>14, <1>15, <1>16, <1>17, <1>18, <1>19

\* The node is taken out of the free ones and handed to the caller.
LEMMA ClaimInv ==
    ASSUME HeapInv, QuietHeap, NEW u \in Callers, Claim(u)
    PROVE  HeapInv'
<1> USE DEF HeapInv
<1> DEFINE c == current[u]
<1>1. /\ pc[u] = "claim"
      /\ \A v \in Callers : pc'[v] = "out"
      /\ \A v \in Callers \ {u} : pc[v] = "out"
      /\ pc' = [pc EXCEPT ![u] = "out"]
      /\ size' = [size EXCEPT ![u] = 0]
      /\ current' = [current EXCEPT ![u] = NULL]
      /\ node' = [node EXCEPT ![c].is_free = 0]
      /\ holds' = [holds EXCEPT ![u].ptr = Payload(c)]
  BY DEF Claim, At, MayRun, Return, GoTo, TypeOK
<1>2. /\ c \in List /\ node[c].is_free = 1
      /\ node[c].size >= size[u] /\ holds[u].bytes <= size[u]
      /\ holds[u].ptr = NULL
  BY <1>1 DEF Inside, Owned
<1>3. List = DOMAIN node /\ List' = DOMAIN node
  BY <1>1 DEF List
<1>4. \A a \in DOMAIN node : node[a] \in Headers /\ a \in Nat
  BY StartAssumption, BytesAssumption DEF TypeOK, HeapEnd
<1>5. /\ c \in Nat /\ Payload(c) \in Nat /\ Payload(c) # NULL
      /\ Payload(c) - HeaderBytes = c
      /\ size[u] \in Nat /\ holds[u].bytes \in Nat
  BY <1>2, <1>3, <1>4, BytesAssumption DEF Payload, NULL, TypeOK
<1>6. \A a \in List : /\ node'[a].size = node[a].size
                      /\ node'[a].next = node[a].next
                      /\ node'[a].is_free = IF a = c THEN 0 ELSE node[a].is_free
  BY <1>1, <1>2, <1>3, <1>4 DEF Headers
<1>7. TypeOK'
  <2>1. node' \in [DOMAIN node' -> Headers] /\ DOMAIN node' = DOMAIN node
    <3>1. DOMAIN node' = DOMAIN node /\ node' = [a \in DOMAIN node' |-> node'[a]]
      BY <1>1
    <3>2. ASSUME NEW a \in DOMAIN node
          PROVE  node'[a] \in Headers
      <4>1. CASE a = c
        BY <1>1, <1>4, <4>1 DEF Headers
      <4>2. CASE a # c
        BY <1>1, <1>4, <4>2
      <4> QED
        BY <4>1, <4>2
    <3> QED
      BY <3>1, <3>2
  <2>2. holds' \in [Callers -> [ptr : Nat, bytes : Nat]]
    BY <1>1, <1>5 DEF TypeOK
  <2>3. /\ size' \in [Callers -> Nat] /\ current' \in [Callers -> Nat]
        /\ pc' \in [Callers -> {"out", "fit", "split", "link", "claim", "merge"}]
    BY <1>1 DEF TypeOK, NULL
  <2> QED
    BY <2>1, <2>2, <2>3 DEF TypeOK
<1>8. OneInside'
  BY <1>1 DEF OneInside
<1>9. Tiled'
  BY <1>3, <1>6 DEF Tiled, EndOf, Payload
<1>10. /\ holds'[u] = [ptr |-> Payload(c), bytes |-> holds[u].bytes]
       /\ \A v \in Callers \ {u} : holds'[v] = holds[v]
  BY <1>1 DEF TypeOK
<1>11. Holders' = Holders \cup {u} /\ u \notin Holders
  BY <1>2, <1>5, <1>10 DEF Holders
<1>12. Owned'
  <2>1. \A v \in Holders : holds[v].ptr - HeaderBytes # c
    BY <1>2 DEF Owned
  <2>2. \A v \in Holders' :
          /\ holds'[v].ptr - HeaderBytes \in List'
          /\ node'[holds'[v].ptr - HeaderBytes].is_free = 0
          /\ holds'[v].bytes <= node'[holds'[v].ptr - HeaderBytes].size
    <3> SUFFICES ASSUME NEW v \in Holders'
                 PROVE  /\ holds'[v].ptr - HeaderBytes \in List'
                        /\ node'[holds'[v].ptr - HeaderBytes].is_free = 0
                        /\ holds'[v].bytes
                               <= node'[holds'[v].ptr - HeaderBytes].size
      OBVIOUS
    <3>1. CASE v = u
      <4>1. node[c].size \in Nat
        BY <1>2, <1>3, <1>4 DEF Headers
      <4> QED
        BY <3>1, <4>1, <1>2, <1>3, <1>5, <1>6, <1>10
    <3>2. CASE v \in Holders
      BY <3>2, <2>1, <1>3, <1>6, <1>10, <1>11 DEF Owned, Holders
    <3> QED
      BY <3>1, <3>2, <1>11
  <2>3. \A v \in Callers :
            pc'[v] \in {"out", "merge"} /\ holds'[v].ptr = NULL
                => holds'[v] = Nothing
    BY <1>1, <1>5, <1>10 DEF Owned
  <2>4. \A v, w \in Holders' : v # w => holds'[v].ptr # holds'[w].ptr
    BY <1>5, <1>10, <1>11, <2>1 DEF Owned, Holders
  <2> QED
    BY <1>1, <2>2, <2>3, <2>4 DEF Owned
<1>13. \A v \in Callers : Inside(v)'
  BY <1>1 DEF Inside
<1>14. Gapless'
  BY <1>3, <1>6 DEF Gapless, EndOf, Payload
<1>15. AllHeld'
  <2> SUFFICES ASSUME NEW a \in List, node'[a].is_free = 0
               PROVE  \E v \in Holders' : holds'[v].ptr = Payload(a)
    BY <1>3 DEF AllHeld, Payload
  <2>1. CASE a = c
    BY <1>10, <1>11, <2>1
  <2>2. CASE a # c
    <3>1. PICK v \in Holders : holds[v].ptr = Payload(a)
      BY <1>6, <2>2 DEF AllHeld
    <3> QED
      BY <1>10, <1>11, <3>1 DEF Holders
  <2> QED
    BY <2>1, <2>2
<1>16. Merged'
  <2> SUFFICES ASSUME NEW a \in List, FreePair(a)'
               PROVE  FALSE
    BY <1>3 DEF Merged
  <2>1. a # c /\ FreePair(a)
    BY <1>6 DEF FreePair, Tiled
  <2> QED
    BY <1>1, <2>1 DEF Merged
<1>17. Searched'
  BY <1>1 DEF Searched
<1> QED
  BY <1>7, <1>8, <1>9, <1>12, <1>13, <1>14, <1>15, <1>16, <1>17

----------------------------------------------------------------------------
(* kfree                                                                   *)

\* Entering kfree: the node of the payload is free, its holder has nothing.
LEMMA KFreeInv ==
    ASSUME HeapInv, QuietHeap, NEW u \in Callers, KFree(u)
    PROVE  HeapInv'
<1> USE DEF HeapInv
<1> DEFINE c == holds[u].ptr - HeaderBytes
<1>1. /\ \A v \in Callers : pc[v] = "out"
      /\ holds[u] # Nothing
      /\ pc' = [pc EXCEPT ![u] = "merge"] /\ pc'[u] = "merge"
      /\ \A v \in Callers \ {u} : pc'[v] = "out"
      /\ size' = size
      /\ current' = [current EXCEPT ![u] = HeapStart]
      /\ node' = [node EXCEPT ![c].is_free = 1]
      /\ holds' = [holds EXCEPT ![u] = Nothing]
      /\ holds'[u] = Nothing /\ current'[u] = HeapStart
      /\ \A v \in Callers \ {u} : holds'[v] = holds[v]
  BY DEF KFree, At, MayRun, GoTo, TypeOK
<1>2. List = DOMAIN node /\ List' = DOMAIN node
  <2>1. \A v \in Callers : pc'[v] # "link"
    BY <1>1
  <2> QED
    BY <2>1, <1>1 DEF List
<1>3. u \in Holders /\ c \in List
  BY <1>1 DEF Owned, Holders
<1>4. \A a \in List : /\ node[a] \in Headers
                      /\ node'[a].size = node[a].size
                      /\ node'[a].next = node[a].next
                      /\ a # c => node'[a] = node[a]
  BY <1>1, <1>2 DEF TypeOK, Headers
<1>5. TypeOK'
  <2>1. node' \in [DOMAIN node' -> Headers] /\ DOMAIN node' = DOMAIN node
    <3>1. DOMAIN node' = DOMAIN node /\ node' = [a \in DOMAIN node' |-> node'[a]]
      BY <1>1
    <3>2. ASSUME NEW a \in DOMAIN node
          PROVE  node'[a] \in Headers
      <4>1. node[a] \in Headers
        BY <1>2, <1>4
      <4> HIDE DEF c
      <4>2. CASE a = c
        BY <1>1, <4>1, <4>2 DEF Headers
      <4>3. CASE a # c
        BY <1>1, <4>1, <4>3
      <4> QED
        BY <4>2, <4>3
    <3> QED
      BY <3>1, <3>2
  <2>2. holds' \in [Callers -> [ptr : Nat, bytes : Nat]]
    BY <1>1 DEF TypeOK, Nothing, NULL
  <2>3. /\ size' \in [Callers -> Nat] /\ current' \in [Callers -> Nat]
        /\ pc' \in [Callers -> {"out", "fit", "split", "link", "claim", "merge"}]
    BY <1>1, StartAssumption DEF TypeOK
  <2> QED
    BY <2>1, <2>2, <2>3 DEF TypeOK
<1>6. OneInside'
  BY <1>1 DEF OneInside
<1>7. Tiled'
  <2>1. \A a \in List : EndOf(a)' = EndOf(a)
    BY <1>4 DEF EndOf, Payload
  <2> QED
    BY <2>1, <1>2, <1>4 DEF Tiled
<1>8. Holders' = Holders \ {u}
  BY <1>1 DEF Holders, Nothing
<1>9. Owned'
  <2>1. \A v \in Holders \ {u} : holds[v].ptr - HeaderBytes # c
    <3>1. \A v \in Holders : holds[v].ptr \in Nat
      BY DEF TypeOK, Holders
    <3> QED
      BY <1>3, <3>1, BytesAssumption DEF Owned
  <2>2. \A v \in Holders' :
          /\ holds'[v] = holds[v]
          /\ holds'[v].ptr - HeaderBytes \in List'
          /\ node'[holds'[v].ptr - HeaderBytes] = node[holds[v].ptr - HeaderBytes]
    BY <1>1, <1>2, <1>4, <1>8, <2>1 DEF Owned, Holders
  <2>3. /\ \A v \in Callers : pc'[v] # "out" => holds'[v].ptr = NULL
        /\ \A v \in Callers :
              pc'[v] \in {"out", "merge"} /\ holds'[v].ptr = NULL
                => holds'[v] = Nothing
    BY <1>1 DEF Owned, Nothing
  <2> QED
    BY <1>8, <2>2, <2>3 DEF Owned
<1>10. \A v \in Callers : Inside(v)'
  <2>1. Inside(u)'
    BY <1>1, <1>2 DEF Inside, Tiled
  <2>2. \A v \in Callers \ {u} : Inside(v)'
    BY <1>1 DEF Inside
  <2> QED
    BY <2>1, <2>2
<1>11. node'[c].is_free = 1
  BY <1>1, <1>2, <1>3 DEF TypeOK, Headers
<1>12. Gapless'
  <2>1. \A a \in List : EndOf(a)' = EndOf(a)
    BY <1>4 DEF EndOf, Payload
  <2> QED
    BY <2>1, <1>2, <1>4 DEF Gapless
<1>13. AllHeld'
  <2> SUFFICES ASSUME NEW a \in List, node'[a].is_free = 0
               PROVE  \E v \in Holders' : holds'[v].ptr = Payload(a)
    BY <1>2 DEF AllHeld, Payload
  <2>1. a # c
    BY <1>11
  <2>2. PICK v \in Holders : holds[v].ptr = Payload(a)
    BY <1>4, <2>1 DEF AllHeld
  <2>3. v # u
    BY <2>1, <2>2, NodeFacts, BytesAssumption DEF Payload
  <2> QED
    BY <1>1, <1>8, <2>2, <2>3 DEF Holders
<1>14. Merged'
  <2>1. \A a \in List : HeapStart <= a
    BY NodeFacts
  <2> QED
    BY <1>1, <1>2, <2>1 DEF Merged
<1>15. Searched'
  BY <1>1 DEF Searched
<1> QED
  BY <1>5, <1>6, <1>7, <1>9, <1>10, <1>12, <1>13, <1>14, <1>15

\* kfree's walk absorbs the next node, or goes on to it.
LEMMA MergeInv ==
    ASSUME HeapInv, QuietHeap, NEW u \in Callers, Merge(u)
    PROVE  HeapInv'
<1> USE DEF HeapInv
<1> DEFINE c == current[u]
           m == node[c].next
<1>1. /\ pc[u] = "merge" /\ c # NULL /\ m # NULL
      /\ \A v \in Callers \ {u} : pc[v] = "out"
      /\ pc' = pc /\ size' = size /\ holds' = holds
  BY DEF Merge, At, MayRun
<1>2. List = DOMAIN node /\ List' = DOMAIN node'
  <2>1. \A v \in Callers : pc[v] # "link" /\ pc'[v] # "link"
    BY <1>1
  <2> QED
    BY <2>1 DEF List
<1>3. c \in List
  BY <1>1 DEF Inside
<1>4. m \in List /\ m = EndOf(c)
  BY <1>1, <1>3 DEF Tiled
<1>5. CASE node[c].is_free = 1 /\ node[m].is_free = 1
  <2>1. /\ node' = Absorbed(u) /\ current' = current
    BY <1>5 DEF Merge
  <2>2. node' = [a \in DOMAIN node \ {m} |->
                    IF a = c
                    THEN [size |-> node[a].size + HeaderBytes + node[m].size,
                          is_free |-> node[a].is_free, next |-> node[m].next]
                    ELSE node[a]]
    BY <2>1, <1>1 DEF Absorbed
  <2>3. \A a \in List : node[a] \in Headers /\ a \in Nat
    BY <1>2, StartAssumption, BytesAssumption DEF TypeOK, HeapEnd
  <2>4. \A a \in List : /\ EndOf(a) \in Nat /\ a < EndOf(a)
                        /\ EndOf(a) = a + HeaderBytes + node[a].size
    BY <2>3, BytesAssumption DEF EndOf, Payload, Headers
  <2>5. c < m /\ c # m
    BY <1>3, <1>4, <2>3, <2>4
  <2>6. List' = List \ {m}
    BY <1>2, <2>2
  <2>7. /\ node'[c] = [size |-> node[c].size + HeaderBytes + node[m].size,
                       is_free |-> 1, next |-> node[m].next]
        /\ \A a \in List \ {m} : a # c => node'[a] = node[a]
    BY <1>2, <1>3, <1>5, <2>2, <2>5
  <2>8. /\ \A a \in List' : a = c => EndOf(a)' = EndOf(m)
        /\ \A a \in List' : a # c => EndOf(a)' = EndOf(a)
    <3>1. c + HeaderBytes + node'[c].size = EndOf(m)
      BY <1>3, <1>4, <2>3, <2>4, <2>7, BytesAssumption DEF Headers
    <3> HIDE DEF c, m
    <3> QED
      BY <3>1, <2>6, <2>7 DEF EndOf, Payload
  <2>9. TypeOK'
    <3>1. node'[c] \in Headers
      BY <1>3, <1>4, <2>3, <2>7, BytesAssumption DEF Headers
    <3>2. node' \in [DOMAIN node' -> Headers]
      BY <1>2, <2>2, <2>3, <2>7, <3>1
    <3>3. DOMAIN node' \in SUBSET (HeapStart .. HeapEnd - 1)
      BY <1>2, <2>2 DEF TypeOK
    <3> QED
      BY <1>1, <2>1, <3>2, <3>3 DEF TypeOK
  <2>10. OneInside'
    BY <1>1 DEF OneInside
  <2>11. Tiled'
    <3> HIDE DEF c, m
    <3>1. HeapStart \in List'
      <4>1. HeapStart <= c /\ HeapStart \in List
        BY <1>3 DEF Tiled
      <4> QED
        BY <4>1, <1>3, <1>4, <2>3, <2>5, <2>6
    <3>2. \A a \in List' : HeapStart <= a /\ EndOf(a)' <= HeapEnd
      BY <1>4, <2>6, <2>8 DEF Tiled
    <3>3. \A a \in List' : node'[a].next # NULL =>
              node'[a].next \in List' /\ node'[a].next = EndOf(a)'
      <4> SUFFICES ASSUME NEW a \in List', node'[a].next # NULL
                   PROVE  node'[a].next \in List' /\ node'[a].next = EndOf(a)'
        OBVIOUS
      <4>1. CASE a = c
        <5>1. node[m].next \in List /\ node[m].next = EndOf(m)
          BY <4>1, <1>4, <2>7 DEF Tiled
        <5>2. node[m].next # m
          BY <5>1, <1>4, <2>3, <2>4
        <5> QED
          BY <4>1, <5>1, <5>2, <2>6, <2>7, <2>8
      <4>2. CASE a # c
        <5>1. /\ a \in List /\ node'[a].next = node[a].next
              /\ EndOf(a)' = EndOf(a)
          BY <4>2, <2>6, <2>7, <2>8
        <5>2. node[a].next \in List /\ node[a].next = EndOf(a)
          BY <5>1 DEF Tiled
        <5>3. EndOf(a) # m
          <6>1. EndOf(a) <= c \/ EndOf(c) <= a
            BY <4>2, <5>1, <1>3, <2>3 DEF Tiled
          <6> QED
            BY <6>1, <5>1, <1>3, <1>4, <2>3, <2>4, <2>5
        <5> QED
          BY <5>1, <5>2, <5>3, <2>6
      <4> QED
        BY <4>1, <4>2
    <3>4. \A a, b \in List' : a < b => EndOf(a)' <= b
      <4> SUFFICES ASSUME NEW a \in List', NEW b \in List', a < b
                   PROVE  EndOf(a)' <= b
        OBVIOUS
      <4>1. CASE a = c
        <5>1. m <= b /\ b # m /\ b \in List
          BY <4>1, <1>3, <1>4, <2>6 DEF Tiled
        <5>2. EndOf(m) <= b
          BY <5>1, <1>4, <2>3 DEF Tiled
        <5> QED
          BY <4>1, <5>2, <2>8
      <4>2. CASE a # c
        BY <4>2, <2>6, <2>8 DEF Tiled
      <4> QED
        BY <4>1, <4>2
    <3> QED
      BY <3>1, <3>2, <3>3, <3>4 DEF Tiled
  <2>12. Owned'
    <3>1. Holders' = Holders
      BY <1>1 DEF Holders
    <3>2. \A v \in Holders :
            /\ holds'[v].ptr - HeaderBytes \in List'
            /\ node'[holds'[v].ptr - HeaderBytes]
                  = node[holds[v].ptr - HeaderBytes]
      BY <1>1, <1>5, <2>6, <2>7 DEF Owned
    <3> QED
      BY <1>1, <3>1, <3>2 DEF Owned
  <2>13. \A v \in Callers : Inside(v)'
    <3>1. Inside(u)'
      BY <1>1, <1>3, <2>1, <2>5, <2>6 DEF Inside
    <3>2. \A v \in Callers \ {u} : Inside(v)'
      BY <1>1 DEF Inside
    <3> QED
      BY <3>1, <3>2
  <2>14. Gapless'
    <3> SUFFICES ASSUME NEW a \in List', node'[a].next = NULL
                 PROVE  EndOf(a)' = HeapEnd
      BY DEF Gapless
    <3> HIDE DEF c, m
    <3>1. CASE a = c
      BY <1>4, <2>7, <2>8, <3>1 DEF Gapless
    <3>2. CASE a # c
      BY <2>6, <2>7, <2>8, <3>2 DEF Gapless
    <3> QED
      BY <3>1, <3>2
  <2>15. AllHeld'
    <3>1. \A a \in List' : node'[a].is_free = 0 =>
              a \in List /\ node'[a] = node[a]
      BY <2>6, <2>7
    <3> QED
      BY <1>1, <3>1 DEF AllHeld, Holders, Payload
  <2>16. Merged'
    <3> SUFFICES ASSUME NEW a \in List', FreePair(a)' PROVE c <= a
      BY <1>1, <2>1 DEF Merged
    <3> HIDE DEF c, m
    <3>1. CASE a = c
      BY <1>3, <2>3, <3>1
    <3>2. CASE a # c
      <4>1. /\ a \in List /\ node'[a] = node[a] /\ node[a].is_free = 1
            /\ node[a].next # NULL /\ node[a].next \in List'
            /\ node'[node[a].next].is_free = 1
        BY <2>6, <2>7, <2>11, <3>2 DEF FreePair, Tiled
      <4>2. node[node[a].next].is_free = 1
        BY <1>5, <2>6, <2>7, <4>1
      <4>3. FreePair(a)
        BY <4>1, <4>2 DEF FreePair
      <4> QED
        BY <1>1, <4>1, <4>3 DEF Merged, c
    <3> QED
      BY <3>1, <3>2
  <2>17. Searched'
    BY <1>1 DEF Searched
  <2> QED
    BY <2>9, <2>10, <2>11, <2>12, <2>13, <2>14, <2>15, <2>16, <2>17
<1>6. CASE ~(node[c].is_free = 1 /\ node[m].is_free = 1)
  <2>1. node' = node /\ current' = [current EXCEPT ![u] = m]
    BY <1>6 DEF Merge
  <2>2. m \in Nat
    BY <1>2, <1>3 DEF TypeOK, Headers
  <2>3. TypeOK'
    BY <1>1, <2>1, <2>2 DEF TypeOK
  <2>4. current'[u] \in List'
    BY <1>2, <1>4, <2>1 DEF TypeOK
  <2>5. Inside(u)'
    BY <1>1, <2>4 DEF Inside
  <2>6. pc' = [pc EXCEPT ![u] = "merge"]
    BY <1>1 DEF TypeOK
  <2>7. Merged'
    <3> SUFFICES ASSUME NEW a \in List, FreePair(a) PROVE m <= a
      BY <1>1, <1>2, <2>1 DEF Merged, FreePair, TypeOK
    <3>1. c <= a
      BY <1>1 DEF Merged
    <3>2. a # c
      BY <1>6 DEF FreePair
    <3> HIDE DEF c, m
    <3> QED
      BY <1>3, <1>4, <3>1, <3>2, NodeFacts, Ordered
  <2>8. Searched'
    BY <1>1 DEF Searched
  <2> QED
    BY <1>1, <2>1, <2>3, <2>5, <2>6, <2>7, <2>8, LocalStepInv
<1> QED
  BY <1>5, <1>6

\* The return of kfree, at the end of the list, keeps HeapInv.
LEMMA MergeDoneInv ==
    ASSUME HeapInv, QuietHeap, NEW u \in Callers, MergeDone(u)
    PROVE  HeapInv'
<1> USE DEF HeapInv
<1>1. /\ pc[u] = "merge"
      /\ \A v \in Callers : pc'[v] = "out"
      /\ \A v \in Callers \ {u} : pc[v] = "out"
      /\ node' = node /\ holds' = holds
  BY DEF MergeDone, At, MayRun, Return, GoTo, TypeOK
<1>2. TypeOK'
  BY <1>1 DEF MergeDone, Return, GoTo, TypeOK, NULL
<1>3. List = DOMAIN node /\ List' = DOMAIN node
  BY <1>1 DEF List
<1>4. OneInside'
  BY <1>1 DEF OneInside
<1>5. Tiled'
  BY <1>1, <1>3 DEF Tiled, EndOf, Payload
<1>6. Holders' = Holders
  BY <1>1 DEF Holders
<1>7. holds[u] = Nothing
  BY <1>1 DEF Owned
<1>8. Owned'
  BY <1>1, <1>3, <1>6, <1>7 DEF Owned
<1>9. \A v \in Callers : Inside(v)'
  BY <1>1 DEF Inside
<1>10. Gapless' /\ AllHeld'
  BY <1>1, <1>3, <1>6 DEF Gapless, AllHeld, EndOf, Payload
<1>11. Merged'
  <2> SUFFICES ASSUME NEW a \in List, FreePair(a) PROVE FALSE
    BY <1>1, <1>3 DEF Merged, FreePair
  <2>1. /\ current[u] <= a /\ current[u] \in List
        /\ current[u] \in Nat /\ current[u] # NULL
    <3>1. current[u] <= a
      BY <1>1 DEF Merged
    <3>2. current[u] \in List
      BY <1>1 DEF Inside
    <3>3. current[u] \in Nat /\ HeapStart <= current[u]
      BY <3>2, NodeFacts
    <3> QED
      BY <3>1, <3>2, <3>3, StartAssumption DEF NULL
  <2>2. node[current[u]].next = NULL /\ a # current[u]
    BY <2>1 DEF MergeDone, FreePair
  <2>3. EndOf(current[u]) <= a
    BY <2>1, <2>2, NodeFacts DEF Tiled
  <2>4. EndOf(current[u]) = HeapEnd
    BY <2>1, <2>2 DEF Gapless
  <2> QED
    BY <2>3, <2>4, NodeFacts
<1>12. Searched'
  BY <1>1 DEF Searched
<1> QED
  BY <1>2, <1>4, <1>5, <1>8, <1>9, <1>10, <1>11, <1>12

----------------------------------------------------------------------------
\* Every step of every call keeps the invariant.
LEMMA StepInv ==
    ASSUME HeapInv, QuietHeap, [Next]_vars
    PROVE  HeapInv'
<1>1. CASE UNCHANGED vars
  BY <1>1 DEF vars, HeapInv, TypeOK, OneInside, Tiled, Owned, Inside, List,
              Holders, EndOf, Payload, NewNode, Gapless, AllHeld, Merged,
              FreePair, Searched
<1>2. ASSUME NEW u \in Callers, Call(u) PROVE HeapInv'
  BY <1>2, KMallocInv, KFreeInv DEF Call
<1>3. ASSUME NEW u \in Callers, Step(u) PROVE HeapInv'
  BY <1>3, FitInv, NoFitInv, SplitNewInv, SplitLinkInv, ClaimInv,
     MergeInv, MergeDoneInv DEF Step
<1> QED
  BY <1>1, <1>2, <1>3 DEF Next

\* The nodes of the heap always tile what they cover and belong to at most one
\* holder each.
THEOREM HeapInvariant == ASSUME QuietHeap PROVE Spec => []HeapInv
<1>1. Init => HeapInv
  BY InitInv
<1>2. HeapInv /\ [Next]_vars => HeapInv'
  BY StepInv
<1> QED
  BY <1>1, <1>2, PTL DEF Spec

\* Headers stay inside the region of heap_init, and every local and payload
\* keeps its type.
THEOREM TypeCorrect == ASSUME QuietHeap PROVE Spec => []TypeOK
<1>1. HeapInv => TypeOK
  BY DEF HeapInv
<1> QED
  BY <1>1, HeapInvariant, PTL

\* A payload reaches from behind its header to at most the end of its node.
LEMMA PayloadInNode ==
    ASSUME HeapInv, NEW u \in Holders
    PROVE  LET a == holds[u].ptr - HeaderBytes
           IN  /\ a \in List /\ a \in Nat /\ EndOf(a) \in Nat
               /\ holds[u].ptr \in Nat /\ holds[u].bytes \in Nat
               /\ holds[u].ptr + holds[u].bytes <= EndOf(a)
<1> USE DEF HeapInv
<1> DEFINE a == holds[u].ptr - HeaderBytes
<1>1. /\ a \in List /\ holds[u].bytes <= node[a].size
  BY DEF Owned
<1>2. /\ a \in Nat /\ node[a].size \in Nat
  BY <1>1, StartAssumption, BytesAssumption
     DEF TypeOK, List, Headers, HeapEnd
<1>3. holds[u].ptr \in Nat /\ holds[u].bytes \in Nat
  BY DEF Holders, TypeOK
<1>4. EndOf(a) = holds[u].ptr + node[a].size
  BY <1>2, <1>3, BytesAssumption DEF EndOf, Payload
<1> QED
  BY <1>1, <1>2, <1>3, <1>4, BytesAssumption

\* kmalloc hands out every byte at most once, wholly inside the heap.
THEOREM EveryByteHandedOutOnce ==
    ASSUME QuietHeap PROVE Spec => []HandedOutOnce
<1>1. ASSUME HeapInv PROVE HandedOutOnce
  <2> USE <1>1 DEF HeapInv
  <2>1. ASSUME NEW u \in Holders
        PROVE  /\ HeapStart + HeaderBytes <= holds[u].ptr
               /\ holds[u].ptr + holds[u].bytes <= HeapEnd
    <3> DEFINE a == holds[u].ptr - HeaderBytes
    <3>1. HeapStart <= a /\ EndOf(a) <= HeapEnd
      BY PayloadInNode DEF Tiled
    <3> QED
      BY <3>1, PayloadInNode, StartAssumption, BytesAssumption DEF HeapEnd
  <2>2. ASSUME NEW u \in Holders, NEW v \in Holders,
               holds[u].ptr < holds[v].ptr
        PROVE  holds[u].ptr + holds[u].bytes <= holds[v].ptr
    <3> DEFINE a == holds[u].ptr - HeaderBytes
               b == holds[v].ptr - HeaderBytes
    <3>1. a < b
      BY <2>2, PayloadInNode, BytesAssumption
    <3>2. EndOf(a) <= b
      BY <3>1, PayloadInNode DEF Tiled
    <3> QED
      BY <3>2, PayloadInNode, BytesAssumption
  <2>3. ASSUME NEW u \in Holders, NEW v \in Holders, u # v
        PROVE  \/ holds[u].ptr + holds[u].bytes <= holds[v].ptr
               \/ holds[v].ptr + holds[v].bytes <= holds[u].ptr
    <3>1. holds[u].ptr < holds[v].ptr \/ holds[v].ptr < holds[u].ptr
      BY <2>3, PayloadInNode DEF Owned
    <3> QED
      BY <3>1, <2>2
  <2> QED
    BY <2>1, <2>3 DEF HandedOutOnce
<1> QED
  BY <1>1, HeapInvariant, PTL
----------------------------------------------------------------------------
(* The list                                                                *)

\* Every nonempty bounded set of numbers has a largest one.
LEMMA Largest ==
    ASSUME NEW S \in SUBSET Nat, S # {}, NEW n \in Nat, \A k \in S : k <= n
    PROVE  \E m \in S : \A k \in S : k <= m
<1> DEFINE T == {n - k : k \in S}
<1>1. \A k \in S : k \in Nat /\ n - k \in Nat
  OBVIOUS
<1>2. T \in SUBSET Nat /\ T # {}
  BY <1>1
<1>3. PICK d \in T : \A e \in T : d <= e
  BY <1>2, FirstOfNumbers
<1>4. PICK m \in S : d = n - m
  OBVIOUS
<1>5. \A k \in S : n - m <= n - k
  BY <1>3, <1>4
<1>6. \A k \in S : k <= m
  <2> TAKE k \in S
  <2>1. n - m <= n - k
    BY <1>5
  <2>2. m \in Nat /\ k \in Nat
    BY <1>1
  <2> HIDE DEF T
  <2> QED
    BY <2>1, <2>2
<1> QED
  BY <1>6

\* The walk from heap_start misses no header: a set that has with every header
\* the next one reaches every node, because the nodes follow without a gap.
LEMMA WalkReachesAll ==
    ASSUME HeapInv, List = DOMAIN node,
           NEW S \in SUBSET DOMAIN node, HeapStart \in S, Closed(S),
           NEW a \in DOMAIN node
    PROVE  a \in S
<1> USE DEF HeapInv
<1> SUFFICES ASSUME a \notin S PROVE FALSE
  OBVIOUS
<1> DEFINE B == {b \in S : b <= a}
<1>1. B \in SUBSET Nat /\ a \in Nat
  BY NodeFacts
<1>2. HeapStart \in B
  BY NodeFacts
<1>3. PICK b \in B : \A k \in B : k <= b
  BY <1>1, <1>2, Largest
<1>4. b \in S /\ b \in List /\ b # a /\ EndOf(b) <= a
  BY <1>1, <1>3 DEF Tiled
<1>5. node[b].next # NULL
  BY <1>4, NodeFacts DEF Gapless
<1>6. node[b].next \in S /\ node[b].next = EndOf(b)
  BY <1>4, <1>5 DEF Closed, Tiled
<1>7. EndOf(b) <= b
  BY <1>3, <1>4, <1>6
<1> QED
  BY <1>4, <1>7, NodeFacts

\* So the list is every header, as long as no split is half done.
LEMMA NodesAreAll ==
    ASSUME HeapInv, List = DOMAIN node
    PROVE  Nodes = List
<1>1. \A a \in DOMAIN node : a \in Nodes
  BY WalkReachesAll DEF Nodes
<1> QED
  BY <1>1 DEF Nodes

\* Between calls the nodes cover the heap without a gap, and those in use are
\* the ones held.
THEOREM NoByteIsLost == ASSUME QuietHeap PROVE Spec => []NothingLost
<1>1. ASSUME HeapInv PROVE NothingLost
  <2> USE <1>1 DEF HeapInv
  <2> SUFFICES ASSUME AtRest
               PROVE  /\ \A a \in Nodes :
                            \/ node[a].next = EndOf(a) /\ EndOf(a) # HeapEnd
                            \/ node[a].next = NULL /\ EndOf(a) = HeapEnd
                      /\ {Payload(a) : a \in {n \in Nodes : node[n].is_free = 0}}
                              = {holds[u].ptr : u \in Holders}
    BY DEF NothingLost
  <2>1. List = DOMAIN node
    BY AllListed DEF AtRest
  <2>2. Nodes = List
    BY <2>1, NodesAreAll
  <2>3. \A a \in List : \/ node[a].next = EndOf(a) /\ EndOf(a) # HeapEnd
                        \/ node[a].next = NULL /\ EndOf(a) = HeapEnd
    <3> TAKE a \in List
    <3>1. CASE node[a].next = NULL
      BY <3>1 DEF Gapless
    <3>2. CASE node[a].next # NULL
      <4>1. node[a].next \in List /\ node[a].next = EndOf(a)
        BY <3>2 DEF Tiled
      <4>2. \A b \in List : b # HeapEnd
        BY NodeFacts
      <4> QED
        BY <4>1, <4>2
    <3> QED
      BY <3>1, <3>2
  <2>4. ASSUME NEW a \in List, node[a].is_free = 0
        PROVE  \E u \in Holders : holds[u].ptr = Payload(a)
    BY <2>4 DEF AllHeld
  <2>5. ASSUME NEW u \in Holders
        PROVE  \E a \in List : node[a].is_free = 0 /\ holds[u].ptr = Payload(a)
    <3>1. /\ holds[u].ptr - HeaderBytes \in List
          /\ node[holds[u].ptr - HeaderBytes].is_free = 0
      BY DEF Owned
    <3>2. holds[u].ptr = Payload(holds[u].ptr - HeaderBytes)
      BY PayloadInNode, BytesAssumption DEF Payload
    <3> QED
      BY <3>1, <3>2
  <2> QED
    BY <2>2, <2>3, <2>4, <2>5
<1> QED
  BY <1>1, HeapInvariant, PTL

\* Between calls no two free nodes are neighbours.
THEOREM FreeNodesAreMerged == ASSUME QuietHeap PROVE Spec => []Coalesced
<1>1. HeapInv => Coalesced
  <2> SUFFICES ASSUME HeapInv, AtRest PROVE \A a \in Nodes : ~FreePair(a)
    BY DEF Coalesced
  <2>1. List = DOMAIN node
    BY AllListed DEF AtRest
  <2>2. Nodes = List
    BY <2>1, NodesAreAll
  <2> QED
    BY <2>2, NoPairs DEF AtRest
<1> QED
  BY <1>1, HeapInvariant, PTL

\* kmalloc returns NULL only when no free node is large enough.
THEOREM NullOnlyIfFull == ASSUME QuietHeap PROVE Spec => GivesUpOnlyIfFull
<1> DEFINE Full == \A u \in Callers : pc[u] = "fit" /\ pc'[u] = "out" =>
                       \A a \in Nodes : node[a].is_free = 1 => node[a].size < size[u]
<1>1. ASSUME HeapInv, [Next]_vars PROVE [Full]_vars
  <2> SUFFICES ASSUME NEW u \in Callers, pc[u] = "fit", pc'[u] = "out"
               PROVE  \A a \in Nodes : node[a].is_free = 1 => node[a].size < size[u]
    OBVIOUS
  <2>1. \A v \in Callers \ {u} : pc[v] = "out"
    BY <1>1 DEF HeapInv, OneInside
  <2>2. PICK v \in Callers : Call(v) \/ Step(v)
    BY <1>1 DEF Next, vars
  <2>3. NoFit(u)
    <3>1. pc \in [Callers -> {"out", "fit", "split", "link", "claim", "merge"}]
      BY <1>1 DEF HeapInv, TypeOK
    <3>2. Call(v) => pc'[v] # "out"
      BY <3>1 DEF Call, KMalloc, KFree, GoTo
    <3>3. pc'[u] = pc[u] \/ v = u
      BY <2>2, <3>1 DEF Call, KMalloc, KFree, Step, Fit, NoFit, SplitNew, SplitLink,
                        Claim, Merge, MergeDone, Return, GoTo
    <3>4. Step(u)
      BY <2>2, <3>2, <3>3
    <3>5. ~Fit(u)
      BY <3>1 DEF Fit, GoTo
    <3> QED
      BY <3>4, <3>5 DEF Step, SplitNew, SplitLink, Claim, Merge, MergeDone, At
  <2>4. current[u] = NULL
    BY <2>3 DEF NoFit
  <2>5. Nodes \subseteq List
    BY <2>1 DEF Nodes, List
  <2> QED
    BY <1>1, <2>4, <2>5 DEF HeapInv, Searched
<1> QED
  BY <1>1, HeapInvariant, PTL DEF Spec, GivesUpOnlyIfFull
----------------------------------------------------------------------------
(* Calls return                                                            *)

\* How far the call of u is from its return: kmalloc has the list before it and
\* then at most four steps; kfree, with each node it goes past or absorbs, comes
\* closer to the end of the heap.
Distance(u) ==
    CASE pc[u] = "out"   -> 0
      [] pc[u] = "fit"   -> 4 + (IF current[u] = NULL THEN 0 ELSE HeapEnd - current[u])
      [] pc[u] = "split" -> 3
      [] pc[u] = "link"  -> 2
      [] pc[u] = "claim" -> 1
      [] pc[u] = "merge" -> 1 + (HeapEnd - current[u]) + (HeapEnd - EndOf(current[u]))

\* A call that is open has a distance, and no more than the region's size allows.
LEMMA DistanceIsBounded ==
    ASSUME HeapInv, NEW u \in Callers, pc[u] # "out"
    PROVE  Distance(u) \in 1 .. 2 * HeapBytes + 4
<1> USE DEF HeapInv
<1>1. pc[u] \in {"fit", "split", "link", "claim", "merge"} /\ HeapBytes \in Nat
  BY BytesAssumption DEF TypeOK
<1>2. CASE pc[u] = "fit" /\ current[u] = NULL
  BY <1>1, <1>2 DEF Distance
<1>3. CASE pc[u] = "fit" /\ current[u] # NULL
  <2>1. current[u] \in List
    BY <1>3 DEF Inside
  <2>2. HeapEnd - current[u] \in 0 .. HeapBytes
    BY <1>1, <2>1, NodeFacts DEF HeapEnd
  <2> QED
    BY <1>1, <1>3, <2>2 DEF Distance
<1>4. CASE pc[u] \in {"split", "link", "claim"}
  BY <1>1, <1>4 DEF Distance
<1>5. CASE pc[u] = "merge"
  <2>1. current[u] \in List
    BY <1>5 DEF Inside
  <2>2. /\ HeapEnd - current[u] \in 0 .. HeapBytes
        /\ HeapEnd - EndOf(current[u]) \in 0 .. HeapBytes
    BY <1>1, <2>1, NodeFacts DEF HeapEnd
  <2> QED
    BY <1>1, <1>5, <2>2 DEF Distance
<1> QED
  BY <1>1, <1>2, <1>3, <1>4, <1>5

\* kmalloc's look at a node brings it closer: the next node lies behind it.
LEMMA FitComesCloser ==
    ASSUME HeapInv, NEW u \in Callers, Fit(u)
    PROVE  Distance(u)' < Distance(u)
<1> USE DEF HeapInv
<1> DEFINE n == node[current[u]]
<1>1. /\ pc[u] = "fit" /\ current[u] # NULL
      /\ pc \in [Callers -> {"out", "fit", "split", "link", "claim", "merge"}]
      /\ current \in [Callers -> Nat]
  BY DEF Fit, At, TypeOK
<1>2. /\ current[u] \in List
      /\ n.next # NULL => n.next \in List /\ n.next = EndOf(current[u])
  BY <1>1 DEF Inside, Tiled
<1>3. /\ HeapEnd \in Nat /\ current[u] \in Nat
      /\ current[u] < HeapEnd
      /\ n.next # NULL => n.next \in Nat /\ current[u] < n.next /\ n.next < HeapEnd
  BY <1>2, NodeFacts
<1>4. Distance(u) = 4 + (HeapEnd - current[u])
  BY <1>1 DEF Distance
<1>5. CASE n.is_free = 1 /\ n.size >= size[u]
  <2>1. pc'[u] = "split" \/ pc'[u] = "claim"
    BY <1>1, <1>5 DEF Fit, GoTo
  <2>2. Distance(u)' = 3 \/ Distance(u)' = 1
    BY <2>1 DEF Distance
  <2> QED
    BY <1>3, <1>4, <2>2
<1>6. CASE ~(n.is_free = 1 /\ n.size >= size[u])
  <2>1. pc'[u] = "fit" /\ current'[u] = n.next
    BY <1>1, <1>6 DEF Fit
  <2>2. Distance(u)' = 4 + (IF n.next = NULL THEN 0 ELSE HeapEnd - n.next)
    BY <2>1 DEF Distance, HeapEnd
  <2> HIDE DEF n
  <2> QED
    BY <1>3, <1>4, <2>2
<1> QED
  BY <1>5, <1>6

\* kfree's look at a pair brings it closer: either the node it looks at has grown,
\* or it goes on to the next.
LEMMA MergeComesCloser ==
    ASSUME HeapInv, NEW u \in Callers, Merge(u)
    PROVE  Distance(u)' < Distance(u)
<1> USE DEF HeapInv
<1> DEFINE c == current[u]
           d == node[c].next
<1>1. /\ pc[u] = "merge" /\ d # NULL /\ pc' = pc
      /\ current \in [Callers -> Nat]
  BY DEF Merge, At, TypeOK
<1>2. c \in List /\ d \in List /\ d = EndOf(c)
  BY <1>1 DEF Inside, Tiled
<1>3. /\ HeapEnd \in Nat /\ c \in Nat /\ d \in Nat /\ EndOf(d) \in Nat
      /\ c < d /\ d < EndOf(d) /\ EndOf(d) <= HeapEnd
      /\ EndOf(c) = c + HeaderBytes + node[c].size
      /\ EndOf(d) = d + HeaderBytes + node[d].size
      /\ node[c].size \in Nat /\ node[d].size \in Nat
  BY <1>2, NodeFacts DEF Headers
<1>4. Distance(u) = 1 + (HeapEnd - c) + (HeapEnd - d)
  BY <1>1, <1>2 DEF Distance
<1>5. CASE node[c].is_free = 1 /\ node[d].is_free = 1
  <2>1. node' = Absorbed(u) /\ current' = current
    BY <1>5 DEF Merge
  <2>2. c \in DOMAIN node /\ c # d
    BY <1>2, <1>3 DEF List
  <2>3. node'[c].size = node[c].size + HeaderBytes + node[d].size
    BY <2>1, <2>2 DEF Absorbed
  <2>4. EndOf(c)' = EndOf(d)
    <3>1. EndOf(c)' = c + HeaderBytes + node'[c].size
      BY <2>1 DEF EndOf, Payload
    <3> HIDE DEF c, d
    <3> QED
      BY <1>2, <1>3, <2>3, <3>1, BytesAssumption
  <2>5. Distance(u)' = 1 + (HeapEnd - c) + (HeapEnd - EndOf(d))
    BY <1>1, <2>1, <2>4 DEF Distance, HeapEnd
  <2> HIDE DEF c, d
  <2> QED
    BY <1>3, <1>4, <2>5
<1>6. CASE ~(node[c].is_free = 1 /\ node[d].is_free = 1)
  <2>1. node' = node /\ current'[u] = d
    BY <1>1, <1>6 DEF Merge
  <2>2. EndOf(current[u])' = EndOf(d)
    BY <2>1 DEF EndOf, Payload
  <2>3. Distance(u)' = 1 + (HeapEnd - d) + (HeapEnd - EndOf(d))
    BY <1>1, <2>1, <2>2 DEF Distance, HeapEnd
  <2> HIDE DEF c, d
  <2> QED
    BY <1>3, <1>4, <2>3
<1> QED
  BY <1>5, <1>6

\* An open call comes closer to its return with every step that is made, so it
\* returns after a number of them that the size of the region bounds: no list that
\* kmalloc and kfree build makes a walk go round.
CallsComeCloser ==
    [][\A u \in Callers : pc[u] # "out" =>
           /\ Distance(u) \in 1 .. 2 * HeapBytes + 4
           /\ Distance(u)' < Distance(u)]_vars

\* kmalloc and kfree return after a bounded number of steps (the walks of heap.c
\* over the list), for every region, every history of calls and every size.
THEOREM CallsEnd == ASSUME QuietHeap PROVE Spec => CallsComeCloser
<1> DEFINE Closer == \A u \in Callers : pc[u] # "out" =>
                         /\ Distance(u) \in 1 .. 2 * HeapBytes + 4
                         /\ Distance(u)' < Distance(u)
<1>1. ASSUME HeapInv, [Next]_vars PROVE [Closer]_vars
  <2> SUFFICES ASSUME Next, NEW u \in Callers, pc[u] # "out"
               PROVE  /\ Distance(u) \in 1 .. 2 * HeapBytes + 4
                      /\ Distance(u)' < Distance(u)
    BY <1>1
  <2>1. Distance(u) \in 1 .. 2 * HeapBytes + 4
    BY <1>1, DistanceIsBounded
  <2>2. Step(u)
    <3>1. PICK v \in Callers : Call(v) \/ Step(v)
      BY DEF Next
    <3>2. pc[v] = "out" => \A w \in Callers : w # v => ~(pc[w] # "out" /\ Call(v))
      BY DEF Call, KMalloc, KFree, At, MayRun
    <3>3. Step(v) => pc[v] # "out"
      BY DEF Step, Fit, NoFit, SplitNew, SplitLink, Claim, Merge, MergeDone, At
    <3>4. Call(v) => pc[v] = "out"
      BY DEF Call, KMalloc, KFree, At
    <3> QED
      BY <1>1, <3>1, <3>2, <3>3, <3>4 DEF HeapInv, OneInside
  <2>3. Distance(u)' < Distance(u)
    <3>1. pc \in [Callers -> {"out", "fit", "split", "link", "claim", "merge"}]
      BY <1>1 DEF HeapInv, TypeOK
    <3>2. ASSUME NoFit(u) \/ Claim(u) \/ MergeDone(u)
          PROVE  Distance(u)' < Distance(u)
      <4>1. pc'[u] = "out"
        BY <3>1, <3>2 DEF NoFit, Claim, MergeDone, Return, GoTo
      <4>2. Distance(u)' = 0
        BY <4>1 DEF Distance
      <4> QED
        BY <2>1, <4>2, BytesAssumption
    <3>3. CASE SplitNew(u)
      <4>1. pc[u] = "split" /\ pc'[u] = "link"
        BY <3>1, <3>3 DEF SplitNew, At, GoTo
      <4> QED
        BY <4>1 DEF Distance
    <3>4. CASE SplitLink(u)
      <4>1. pc[u] = "link" /\ pc'[u] = "claim"
        BY <3>1, <3>4 DEF SplitLink, At, GoTo
      <4> QED
        BY <4>1 DEF Distance
    <3> QED
      BY <1>1, <2>2, <3>2, <3>3, <3>4, FitComesCloser, MergeComesCloser DEF Step
  <2> QED
    BY <2>1, <2>3
<1> QED
  BY <1>1, HeapInvariant, PTL DEF Spec, CallsComeCloser
=====================
