------------------------------- MODULE Counting -------------------------------
(***************************************************************************)
(* Counting threads and what they have done, for the proofs about the      *)
(* benchmarks.  A counter that each thread increments once is the number   *)
(* of threads behind the increment; a total of loop counters is the number *)
(* of pairs of a thread and a turn of its loop.  So no sum is needed, and  *)
(* no induction over the threads.                                          *)
(***************************************************************************)
EXTENDS Integers, FiniteSets, FiniteSetTheorems, TLAPS

(* A pair for each of the first f[t] turns of each thread t; no thread     *)
(* makes more than n.                                                      *)
Turns(S, n, f) == {x \in S \X (1 .. n) : x[2] <= f[x[1]]}

-----------------------------------------------------------------------------

LEMMA PartSize ==
  ASSUME NEW F, IsFiniteSet(F), NEW S \in SUBSET F
  PROVE  /\ IsFiniteSet(S)
         /\ Cardinality(F) \in Nat
         /\ Cardinality(S) \in 0 .. Cardinality(F)
         /\ Cardinality(S) = Cardinality(F) => S = F
BY FS_Subset, FS_CardinalityType

LEMMA Gain ==
  ASSUME NEW F, IsFiniteSet(F), NEW S \in SUBSET F, NEW x \in F, x \notin S
  PROVE  Cardinality(S) \in Nat /\ Cardinality(S \cup {x}) = Cardinality(S) + 1
BY FS_Subset, FS_AddElement, FS_CardinalityType

LEMMA Lose ==
  ASSUME NEW F, IsFiniteSet(F), NEW S \in SUBSET F, NEW x \in S
  PROVE  /\ Cardinality(S) \in Nat \ {0}
         /\ Cardinality(S \ {x}) = Cardinality(S) - 1
<1>1. IsFiniteSet(S) /\ Cardinality(S) \in Nat
  BY FS_Subset, FS_CardinalityType
<1>2. Cardinality(S) # 0
  BY <1>1, FS_EmptySet
<1>3. QED
  BY <1>1, <1>2, FS_RemoveElement

LEMMA AllTurns ==
  ASSUME NEW S, IsFiniteSet(S), NEW n \in Nat
  PROVE  /\ IsFiniteSet(S \X (1 .. n))
         /\ Cardinality(S) \in Nat
         /\ Cardinality(S \X (1 .. n)) = Cardinality(S) * n
<1>1. IsFiniteSet(1 .. n) /\ Cardinality(1 .. n) = n
  BY FS_Interval
<1>2. /\ IsFiniteSet(S \X (1 .. n))
      /\ Cardinality(S \X (1 .. n)) = Cardinality(S) * Cardinality(1 .. n)
  BY <1>1, FS_Product
<1>3. QED
  BY <1>1, <1>2, FS_CardinalityType

LEMMA TurnsBound ==
  ASSUME NEW S, IsFiniteSet(S), NEW n \in Nat, NEW f
  PROVE  Cardinality(Turns(S, n, f)) \in 0 .. Cardinality(S) * n
<1>1. Turns(S, n, f) \in SUBSET (S \X (1 .. n))
  BY DEF Turns
<1>2. IsFiniteSet(S \X (1 .. n)) /\ Cardinality(S \X (1 .. n)) = Cardinality(S) * n
  BY AllTurns
<1>3. QED
  BY <1>1, <1>2, PartSize

LEMMA NoTurns ==
  ASSUME NEW S, NEW n \in Nat, NEW f, \A t \in S : f[t] = 0
  PROVE  Cardinality(Turns(S, n, f)) = 0
<1>1. ASSUME NEW x \in S \X (1 .. n) PROVE ~ (x[2] <= f[x[1]])
  <2>1. x[1] \in S /\ x[2] \in 1 .. n
    OBVIOUS
  <2>2. QED
    BY <2>1
<1>2. Turns(S, n, f) = {}
  BY <1>1 DEF Turns
<1>3. QED
  BY <1>2, FS_EmptySet

LEMMA EveryTurn ==
  ASSUME NEW S, IsFiniteSet(S), NEW n \in Nat, NEW f, \A t \in S : f[t] = n
  PROVE  Cardinality(Turns(S, n, f)) = Cardinality(S) * n
<1>1. ASSUME NEW x \in S \X (1 .. n) PROVE x[2] <= f[x[1]]
  <2>1. x[1] \in S /\ x[2] \in 1 .. n
    OBVIOUS
  <2>2. QED
    BY <2>1
<1>2. Turns(S, n, f) = S \X (1 .. n)
  BY <1>1 DEF Turns
<1>3. QED
  BY <1>2, AllTurns

(* Where no thread has made more than m turns, m will do as the bound.     *)
LEMMA SmallerBound ==
  ASSUME NEW S, NEW n \in Nat, NEW m \in Nat, NEW f,
         \A t \in S : f[t] \in 0 .. m /\ f[t] \in 0 .. n
  PROVE  Turns(S, n, f) = Turns(S, m, f)
<1>1. ASSUME NEW x PROVE x \in Turns(S, n, f) <=> x \in Turns(S, m, f)
  BY DEF Turns
<1>2. QED
  BY <1>1

LEMMA UnionOfTurns ==
  ASSUME NEW S, NEW n \in Nat, NEW f, \A t \in S : f[t] \in 0 .. n
  PROVE  UNION {{t} \X (1 .. f[t]) : t \in S} = Turns(S, n, f)
<1> DEFINE U == UNION {{t} \X (1 .. f[t]) : t \in S}
<1>1. ASSUME NEW x \in U PROVE x \in Turns(S, n, f)
  <2>1. PICK t \in S : x \in {t} \X (1 .. f[t])
    OBVIOUS
  <2>2. QED
    BY <2>1 DEF Turns
<1>2. ASSUME NEW x \in Turns(S, n, f) PROVE x \in U
  <2>1. x[1] \in S /\ x[2] \in 1 .. n /\ x[2] <= f[x[1]] /\ x = <<x[1], x[2]>>
    BY DEF Turns
  <2>2. x \in {x[1]} \X (1 .. f[x[1]])
    BY <2>1
  <2>3. QED
    BY <2>1, <2>2
<1>3. QED
  BY <1>1, <1>2

(* One thread makes one more turn.                                         *)
LEMMA OneTurnMore ==
  ASSUME NEW S, IsFiniteSet(S), NEW n \in Nat, NEW f, NEW g, NEW t \in S,
         f[t] \in Nat, f[t] < n, g[t] = f[t] + 1,
         \A u \in S : u # t => g[u] = f[u]
  PROVE  Cardinality(Turns(S, n, g)) = Cardinality(Turns(S, n, f)) + 1
<1>1. <<t, f[t] + 1>> \in S \X (1 .. n) /\ <<t, f[t] + 1>> \notin Turns(S, n, f)
  BY DEF Turns
<1>2. ASSUME NEW x \in S \X (1 .. n)
      PROVE  x[2] <= g[x[1]] <=> x[2] <= f[x[1]] \/ x = <<t, f[t] + 1>>
  <2>1. x = <<x[1], x[2]>> /\ x[1] \in S /\ x[2] \in Nat
    OBVIOUS
  <2>2. CASE x[1] = t
    BY <2>1, <2>2
  <2>3. CASE x[1] # t
    BY <2>1, <2>3
  <2>4. QED
    BY <2>2, <2>3
<1>3. Turns(S, n, g) = Turns(S, n, f) \cup {<<t, f[t] + 1>>}
  BY <1>1, <1>2 DEF Turns
<1>4. Turns(S, n, f) \in SUBSET (S \X (1 .. n)) /\ IsFiniteSet(S \X (1 .. n))
  BY AllTurns DEF Turns
<1>5. QED
  BY <1>1, <1>3, <1>4, Gain
=============================================================================
