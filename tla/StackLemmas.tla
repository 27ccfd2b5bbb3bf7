---------------------------- MODULE StackLemmas ----------------------------
(***************************************************************************)
(* What the proofs of several modules use: the calls that are open on each *)
(* stack, as sequences of which the last element runs; cardinalities; and  *)
(* the first of a set of numbers.                                          *)
(***************************************************************************)
EXTENDS SequencesExt, Integers, TLAPS, FiniteSetTheorems, FunctionTheorems,
        SequenceTheorems

\* A stack has its elements at 1 up to its length.
LEMMA StackElements ==
    ASSUME NEW T, NEW q \in Seq(T)
    PROVE  /\ Len(q) \in Nat
           /\ DOMAIN q = 1 .. Len(q)
           /\ \A i \in 1 .. Len(q) : q[i] \in T
           /\ q # <<>> => Len(q) >= 1 /\ Len(q) \in DOMAIN q
           /\ Len(q) >= 1 => q # <<>>
  BY LenProperties, EmptySeq

\* Front drops the top of a stack and keeps the rest.
LEMMA FrontElements ==
    ASSUME NEW T, NEW q \in Seq(T), q # <<>>
    PROVE  /\ Front(q) \in Seq(T)
           /\ Len(Front(q)) = Len(q) - 1
           /\ \A i \in 1 .. Len(q) - 1 : Front(q)[i] = q[i]
<1> DEFINE n == Len(q) - 1
<1>1. n \in Nat /\ \A i \in 1 .. n : q[i] \in T
  BY StackElements
<1>2. /\ Front(q) \in Seq(T)
      /\ Len(Front(q)) = IF 1 <= n THEN n - 1 + 1 ELSE 0
      /\ \A i \in 1 .. n - 1 + 1 : Front(q)[i] = q[1 + i - 1]
  <2> HIDE DEF n
  <2>1. /\ SubSeq(q, 1, n) \in Seq(T)
        /\ Len(SubSeq(q, 1, n)) = IF 1 <= n THEN n - 1 + 1 ELSE 0
        /\ \A i \in 1 .. n - 1 + 1 : SubSeq(q, 1, n)[i] = q[1 + i - 1]
    BY <1>1, SubSeqProperties
  <2> QED
    BY <2>1 DEF Front, n
<1>3. Len(Front(q)) = n
  <2> HIDE DEF n
  <2> QED
    BY <1>1, <1>2
<1>4. \A i \in 1 .. n : i \in 1 .. n - 1 + 1 /\ 1 + i - 1 = i
  BY <1>1
<1>5. \A i \in 1 .. n : Front(q)[i] = q[i]
  BY <1>2, <1>4
<1> QED
  BY <1>2, <1>3, <1>5

\* A call pushes one record on the stack of calls and leaves the others.
LEMMA StackPush ==
    ASSUME NEW S, NEW T, NEW f \in [S -> Seq(T)], NEW s \in S, NEW c \in T,
           NEW g, g = [f EXCEPT ![s] = Append(@, c)]
    PROVE  /\ g \in [S -> Seq(T)]
           /\ \A t \in S \ {s} : g[t] = f[t]
           /\ Len(f[s]) \in Nat
           /\ Len(g[s]) = Len(f[s]) + 1
           /\ DOMAIN g[s] = 1 .. Len(f[s]) + 1 /\ DOMAIN f[s] = 1 .. Len(f[s])
           /\ g[s][Len(f[s]) + 1] = c
           /\ \A i \in DOMAIN f[s] : g[s][i] = f[s][i]
           /\ g[s] # <<>>
<1>1. f[s] \in Seq(T) /\ g[s] = Append(f[s], c)
  OBVIOUS
<1> QED
  BY <1>1, AppendProperties, LenProperties

\* It goes on, which changes its own record only.
LEMMA StackReplace ==
    ASSUME NEW T, NEW q \in Seq(T), NEW c \in T, q # <<>>
    PROVE  /\ Append(Front(q), c) \in Seq(T)
           /\ Len(q) \in Nat \ {0}
           /\ DOMAIN Append(Front(q), c) = DOMAIN q /\ DOMAIN q = 1 .. Len(q)
           /\ Append(Front(q), c)[Len(q)] = c
           /\ \A i \in DOMAIN q \ {Len(q)} : Append(Front(q), c)[i] = q[i]
<1> DEFINE r == Append(Front(q), c)
<1>1. /\ Front(q) \in Seq(T)
      /\ Len(Front(q)) = Len(q) - 1
      /\ \A i \in 1 .. Len(q) - 1 : Front(q)[i] = q[i]
  BY FrontElements
<1>2. Len(q) \in Nat \ {0} /\ DOMAIN q = 1 .. Len(q)
  BY StackElements
<1>3. /\ r \in Seq(T)
      /\ Len(r) = Len(q) - 1 + 1
      /\ \A i \in 1 .. Len(q) - 1 : r[i] = Front(q)[i]
      /\ r[Len(q) - 1 + 1] = c
  BY <1>1, AppendProperties
<1>4. Len(r) = Len(q) /\ r[Len(q)] = c
  <2>1. Len(q) - 1 + 1 = Len(q)
    BY <1>2
  <2> QED
    BY <1>3, <2>1
<1>5. DOMAIN r = 1 .. Len(r)
  BY <1>3, LenProperties
<1> HIDE DEF r
<1>6. r \in Seq(T) /\ DOMAIN r = DOMAIN q /\ \A i \in DOMAIN q \ {Len(q)} : r[i] = q[i]
  BY <1>1, <1>2, <1>3, <1>4, <1>5
<1> QED
  BY <1>2, <1>4, <1>6 DEF r

\* A return drops the last record of the stack of calls and leaves the others.
LEMMA StackPop ==
    ASSUME NEW T, NEW q \in Seq(T), q # <<>>
    PROVE  /\ Front(q) \in Seq(T)
           /\ Len(q) \in Nat \ {0}
           /\ Len(Front(q)) = Len(q) - 1
           /\ DOMAIN Front(q) = 1 .. Len(q) - 1 /\ DOMAIN q = 1 .. Len(q)
           /\ \A i \in DOMAIN Front(q) : Front(q)[i] = q[i]
<1>1. /\ Front(q) \in Seq(T)
      /\ Len(Front(q)) = Len(q) - 1
      /\ \A i \in 1 .. Len(q) - 1 : Front(q)[i] = q[i]
  BY FrontElements
<1>2. Len(q) \in Nat \ {0} /\ DOMAIN q = 1 .. Len(q)
  BY StackElements
<1>3. DOMAIN Front(q) = 1 .. Len(q) - 1
  BY <1>1, LenProperties
<1> QED
  BY <1>1, <1>2, <1>3

----------------------------------------------------------------------------
\* Any set of positions on a stack is finite and no larger than the stack.
LEMMA PositionsAreFinite ==
    ASSUME NEW n \in Nat, NEW P \in SUBSET (1 .. n)
    PROVE  IsFiniteSet(P) /\ Cardinality(P) \in Nat /\ Cardinality(P) <= n
<1>1. IsFiniteSet(1 .. n) /\ Cardinality(1 .. n) = n
  BY FS_Interval
<1> QED
  BY <1>1, FS_Subset, FS_CardinalityType

\* A function that tells its arguments apart has as many values as arguments.
LEMMA ImageCardinality ==
    ASSUME NEW S, IsFiniteSet(S), NEW T, NEW f \in [S -> T],
           \A y \in T : \E x \in S : f[x] = y,
           \A x, y \in S : f[x] = f[y] => x = y
    PROVE  IsFiniteSet(T) /\ Cardinality(T) = Cardinality(S)
<1>1. f \in Surjection(S, T) /\ f \in Injection(S, T)
  BY Fun_IsSurj, Fun_IsInj
<1> QED
  BY <1>1, FS_Surjection

\* Two finite sets with nothing in common have together as many elements as both.
LEMMA DisjointUnion ==
    ASSUME NEW S, NEW T, IsFiniteSet(S), IsFiniteSet(T), S \cap T = {}
    PROVE  /\ IsFiniteSet(S \cup T)
           /\ Cardinality(S \cup T) = Cardinality(S) + Cardinality(T)
<1>1. /\ IsFiniteSet(S \cup T)
      /\ Cardinality(S \cup T) = Cardinality(S) + Cardinality(T) - Cardinality(S \cap T)
  BY FS_Union
<1>2. Cardinality(S) \in Nat /\ Cardinality(T) \in Nat /\ Cardinality(S \cap T) = 0
  BY FS_CardinalityType, FS_EmptySet
<1> QED
  BY <1>1, <1>2

\* Two finite sets that agree except perhaps on one element have cardinalities that
\* differ by that element.
LEMMA DifferInOne ==
    ASSUME NEW S, NEW T, NEW x, IsFiniteSet(S), IsFiniteSet(T), S \ {x} = T \ {x}
    PROVE  /\ Cardinality(S) \in Nat /\ Cardinality(T) \in Nat
           /\ Cardinality(T) = Cardinality(S) + (IF x \in T THEN 1 ELSE 0)
                                              - (IF x \in S THEN 1 ELSE 0)
<1>1. Cardinality(S) \in Nat /\ Cardinality(T) \in Nat
  BY FS_CardinalityType
<1>2. CASE (x \in S) <=> (x \in T)
  <2>1. S = T
    BY <1>2
  <2> QED
    BY <1>1, <2>1
<1>3. CASE x \in S /\ x \notin T
  <2>1. S = T \cup {x}
    BY <1>3
  <2> QED
    BY <1>1, <1>3, <2>1, FS_AddElement
<1>4. CASE x \notin S /\ x \in T
  <2>1. T = S \cup {x}
    BY <1>4
  <2> QED
    BY <1>1, <1>4, <2>1, FS_AddElement
<1> QED
  BY <1>2, <1>3, <1>4

\* A set of numbers that is not empty has a first one.
LEMMA FirstOfNumbers ==
    ASSUME NEW S \in SUBSET Nat, S # {}
    PROVE  \E x \in S : \A y \in S : x <= y
<1> DEFINE R == {ss \in Nat \X Nat : ss[1] < ss[2]}
<1>1. IsWellFoundedOn(R, Nat)
  BY NatLessThanWellFounded DEF OpToRel
<1>2. \E x \in S : \A y \in S : ~ (<<y, x>> \in R)
  <2> HIDE DEF R
  <2> QED
    BY <1>1, WFMin
<1>3. PICK x \in S : \A y \in S : ~ (<<y, x>> \in R)
  BY <1>2
<1>4. ASSUME NEW y \in S
      PROVE  ~(y < x)
  <2>1. <<y, x>> \in Nat \X Nat /\ <<y, x>>[1] = y /\ <<y, x>>[2] = x
    OBVIOUS
  <2>2. ~ (<<y, x>>[1] < <<y, x>>[2])
    BY <1>3, <2>1
  <2> QED
    BY <2>1, <2>2
<1> QED
  BY <1>3, <1>4

\* The community modules' Min is that first one: it is in the set, and nothing is below
\* it.
LEMMA MinOfNumbers ==
    ASSUME NEW S \in SUBSET Nat, S # {}
    PROVE  Min(S) \in S /\ \A y \in S : Min(S) <= y
  BY FirstOfNumbers DEF Min

\* What holds of 0, and of a number if it does of the one before, holds of every number.
LEMMA NumbersOneByOne ==
    ASSUME NEW S \in SUBSET Nat, 0 \in S, \A n \in Nat \ {0} : n - 1 \in S => n \in S
    PROVE  S = Nat
<1>1. ASSUME Nat \ S # {}
      PROVE  FALSE
  <2>1. PICK n \in Nat \ S : \A j \in Nat \ S : n <= j
    BY <1>1, FirstOfNumbers
  <2>2. n \in Nat \ {0} /\ n - 1 \in Nat /\ ~ n <= n - 1
    OBVIOUS
  <2>3. n - 1 \in S
    BY <2>1, <2>2
  <2> QED
    BY <2>1, <2>2, <2>3
<1> QED
  BY <1>1

\* What holds of 0, and of a number if it does of its tenth, holds of every number.
LEMMA NumbersByDigits ==
    ASSUME NEW S \in SUBSET Nat, 0 \in S, \A n \in Nat \ {0} : n \div 10 \in S => n \in S
    PROVE  S = Nat
<1>1. ASSUME Nat \ S # {}
      PROVE  FALSE
  <2>1. PICK n \in Nat \ S : \A j \in Nat \ S : n <= j
    BY <1>1, FirstOfNumbers
  <2>2. n \in Nat \ {0}
    OBVIOUS
  <2>3. n \div 10 \in Nat /\ ~ n <= n \div 10
    BY <2>2
  <2>4. n \div 10 \in S
    BY <2>1, <2>3
  <2> QED
    BY <2>1, <2>2, <2>4
<1> QED
  BY <1>1
=============================================================================
