---------------------------- MODULE SumTheorems ----------------------------
(***************************************************************************)
(* Facts about SumFunctionOnSet of the community modules: a sum over a      *)
(* finite set may be taken in any order, one element at a time.            *)
(*                                                                          *)
(* The fold behind it recurses over the subsets of the set.  Each fact is   *)
(* proved by looking at a smallest counterexample.                         *)
(***************************************************************************)
EXTENDS Functions, FiniteSetTheorems, TLAPS

\* A set of numbers that is not empty has a least element.
LEMMA LeastNumber ==
  ASSUME NEW T \in SUBSET Nat, T # {}
  PROVE  \E k \in T : \A m \in T : k <= m
<1>1. PICK k \in T : \A m \in T : ~ (<<m, k>> \in OpToRel(<, Nat))
  BY WFMin, NatLessThanWellFounded, Zenon
<1>2. \A m \in T : ~(m < k)
  BY <1>1, Zenon DEF OpToRel
<1> QED BY <1>2

\* Of a class of finite sets, given by the sets it has of each size, one is
\* smallest.
LEMMA SmallestSize ==
  ASSUME NEW S, IsFiniteSet(S), NEW C \in SUBSET SUBSET S, C # {}
  PROVE  \E s \in C : \A t \in C : Cardinality(s) <= Cardinality(t)
<1> DEFINE T == {Cardinality(s) : s \in C}
<1>1. \A s \in C : Cardinality(s) \in Nat
  BY FS_Subset, FS_CardinalityType
<1>2. T \in SUBSET Nat /\ T # {}
  BY <1>1
<1>3. PICK k \in T : \A m \in T : k <= m
  <2> HIDE DEF T
  <2> QED BY <1>2, LeastNumber
<1> QED BY <1>3

-----------------------------------------------------------------------------
(* The recursion behind the sum                                             *)

Pick(s) == CHOOSE x \in s : TRUE

\* g computes the sum of f over every subset of S.
Sums(f, S, g) ==
  g = [s \in SUBSET S |-> IF s = {} THEN 0 ELSE f[Pick(s)] + g[s \ {Pick(s)}]]

LEMMA SumIs ==
  ASSUME NEW f, NEW S
  PROVE  SumFunctionOnSet(f, S) = (CHOOSE g : Sums(f, S, g))[S]
BY Zenon DEF SumFunctionOnSet, FoldFunctionOnSet, MapThenFoldSet, Sums, Pick

LEMMA PickIn ==
  ASSUME NEW s, s # {}
  PROVE  Pick(s) \in s
BY DEF Pick

LEMMA SumsAt ==
  ASSUME NEW f, NEW S, NEW g, Sums(f, S, g), NEW s \in SUBSET S
  PROVE  /\ s = {} => g[s] = 0
         /\ s # {} => g[s] = f[Pick(s)] + g[s \ {Pick(s)}]
BY Zenon DEF Sums

\* Two such functions agree where both are defined.
LEMMA SumsAgree ==
  ASSUME NEW f, NEW S, NEW T, IsFiniteSet(S), NEW g, NEW h, Sums(f, S, g), Sums(f, T, h)
  PROVE  \A s \in SUBSET S : s \in SUBSET T => g[s] = h[s]
<1> DEFINE C == {s \in SUBSET S : s \in SUBSET T /\ g[s] # h[s]}
<1>1. SUFFICES ASSUME C # {}
               PROVE  FALSE
  OBVIOUS
<1>2. PICK s \in C : \A t \in C : Cardinality(s) <= Cardinality(t)
  <2>1. C \in SUBSET SUBSET S
    OBVIOUS
  <2> HIDE DEF C
  <2> QED BY <1>1, <2>1, SmallestSize
<1>3. s \in SUBSET S /\ s \in SUBSET T /\ g[s] # h[s]
  OBVIOUS
<1>4. s # {}
  BY <1>3, SumsAt
<1> DEFINE r == s \ {Pick(s)}
<1>5. r \in SUBSET S /\ r \in SUBSET T /\ Cardinality(r) = Cardinality(s) - 1
      /\ Cardinality(s) \in Nat
  BY <1>3, <1>4, PickIn, FS_Subset, FS_RemoveElement, FS_CardinalityType
<1>6. g[r] = h[r]
  BY <1>2, <1>5
<1>7. g[s] = f[Pick(s)] + g[r] /\ h[s] = f[Pick(s)] + h[r]
  BY <1>3, <1>4, SumsAt
<1> QED BY <1>3, <1>6, <1>7

\* There is such a function: one that is right for sets of up to k elements can
\* be made right for one element more.
LEMMA SumsExist ==
  ASSUME NEW f, NEW S, IsFiniteSet(S)
  PROVE  \E g : Sums(f, S, g)
<1> DEFINE Body(g, s) == IF s = {} THEN 0 ELSE f[Pick(s)] + g[s \ {Pick(s)}]
           Right(k) == \E g : /\ g = [s \in SUBSET S |-> g[s]]
                              /\ \A s \in SUBSET S : Cardinality(s) <= k => g[s] = Body(g, s)
           T == {k \in Nat : ~Right(k)}
<1>1. \A s \in SUBSET S : IsFiniteSet(s) /\ Cardinality(s) \in Nat
                          /\ Cardinality(s) <= Cardinality(S)
  BY FS_Subset, FS_CardinalityType
<1>2. Right(0)
  <2> DEFINE g == [s \in SUBSET S |-> 0]
  <2>1. g = [s \in SUBSET S |-> g[s]]
    OBVIOUS
  <2>2. \A s \in SUBSET S : Cardinality(s) <= 0 => s = {}
    BY <1>1, FS_EmptySet
  <2>3. \A s \in SUBSET S : Cardinality(s) <= 0 => g[s] = Body(g, s)
    BY <2>2
  <2> HIDE DEF g
  <2> QED BY <2>1, <2>3
<1>3. ASSUME NEW k \in Nat, Right(k)
      PROVE  Right(k + 1)
  <2>1. PICK g : /\ g = [s \in SUBSET S |-> g[s]]
                 /\ \A s \in SUBSET S : Cardinality(s) <= k => g[s] = Body(g, s)
    BY <1>3
  <2> DEFINE h == [s \in SUBSET S |-> IF Cardinality(s) <= k THEN g[s] ELSE Body(g, s)]
  <2>2. h = [s \in SUBSET S |-> h[s]]
    OBVIOUS
  <2>3. \A s \in SUBSET S : h[s] = Body(g, s)
    BY <2>1
  <2>4. ASSUME NEW s \in SUBSET S, Cardinality(s) <= k + 1
        PROVE  h[s] = Body(h, s)
    <3>1. CASE s = {}
      BY <2>3, <3>1
    <3>2. CASE s # {}
      <4> DEFINE r == s \ {Pick(s)}
      <4>1. r \in SUBSET S /\ Cardinality(r) = Cardinality(s) - 1
        BY <1>1, <3>2, PickIn, FS_RemoveElement
      <4>2. Cardinality(r) <= k
        BY <1>1, <2>4, <4>1
      <4>3. h[r] = g[r]
        BY <4>1, <4>2
      <4> HIDE DEF h
      <4> QED BY <2>3, <3>2, <4>3
    <3> QED BY <3>1, <3>2
  <2> HIDE DEF h
  <2> QED BY <2>2, <2>4
<1> HIDE DEF Right
<1>4. T = {}
  <2>1. SUFFICES ASSUME T # {}
                 PROVE  FALSE
    OBVIOUS
  <2>2. PICK k \in T : \A m \in T : k <= m
    <3>1. T \in SUBSET Nat
      OBVIOUS
    <3> HIDE DEF T
    <3> QED BY <2>1, <3>1, LeastNumber
  <2>3. k # 0 /\ k \in Nat /\ ~Right(k)
    BY <1>2
  <2>4. k - 1 \in Nat /\ k - 1 \notin T
    BY <2>2, <2>3
  <2>5. Right(k - 1)
    BY <2>4
  <2>6. Right((k - 1) + 1)
    BY <1>3, <2>4, <2>5
  <2>7. (k - 1) + 1 = k
    BY <2>3
  <2> QED BY <2>3, <2>6, <2>7
<1>5. Right(Cardinality(S))
  BY <1>4, FS_CardinalityType
<1>6. PICK g : /\ g = [s \in SUBSET S |-> g[s]]
               /\ \A s \in SUBSET S : Cardinality(s) <= Cardinality(S) => g[s] = Body(g, s)
  BY <1>5 DEF Right
<1>7. \A s \in SUBSET S : g[s] = Body(g, s)
  BY <1>1, <1>6
<1>8. [s \in SUBSET S |-> g[s]] = [s \in SUBSET S |-> Body(g, s)]
  BY <1>7, Zenon
<1>9. g = [s \in SUBSET S |-> Body(g, s)]
  BY <1>6, <1>8
<1> QED BY <1>9 DEF Sums

\* What the sum is, in the order of the fold.
LEMMA SumOneByOne ==
  ASSUME NEW f, NEW S, IsFiniteSet(S)
  PROVE  /\ S = {} => SumFunctionOnSet(f, S) = 0
         /\ S # {} => SumFunctionOnSet(f, S)
                        = f[Pick(S)] + SumFunctionOnSet(f, S \ {Pick(S)})
<1> DEFINE g == CHOOSE g : Sums(f, S, g)
           r == S \ {Pick(S)}
           h == CHOOSE h : Sums(f, r, h)
<1>1. Sums(f, S, g)
  BY SumsExist
<1>2. IsFiniteSet(r) /\ r \in SUBSET S /\ r \in SUBSET r
  BY FS_RemoveElement
<1>3. Sums(f, r, h)
  <2> HIDE DEF r
  <2> QED BY <1>2, SumsExist
<1>4. SumFunctionOnSet(f, S) = g[S] /\ SumFunctionOnSet(f, r) = h[r]
  <2> HIDE DEF r
  <2> QED BY SumIs
<1> HIDE DEF g, h
<1>5. g[r] = h[r]
  BY <1>1, <1>2, <1>3, SumsAgree
<1>6. /\ S = {} => g[S] = 0
      /\ S # {} => g[S] = f[Pick(S)] + g[r]
  BY <1>1, SumsAt
<1> QED BY <1>4, <1>5, <1>6

-----------------------------------------------------------------------------
(* Sums of natural numbers, in any order                                    *)

\* The sum of no numbers.
THEOREM SumEmpty ==
  ASSUME NEW f
  PROVE  SumFunctionOnSet(f, {}) = 0
BY FS_EmptySet, SumOneByOne

\* A sum of natural numbers is one.
THEOREM SumNat ==
  ASSUME NEW f, NEW S, IsFiniteSet(S), \A x \in S : f[x] \in Nat
  PROVE  SumFunctionOnSet(f, S) \in Nat
<1> DEFINE C == {s \in SUBSET S : SumFunctionOnSet(f, s) \notin Nat}
<1>1. SUFFICES ASSUME C # {}
               PROVE  FALSE
  OBVIOUS
<1>2. PICK s \in C : \A t \in C : Cardinality(s) <= Cardinality(t)
  <2>1. C \in SUBSET SUBSET S
    OBVIOUS
  <2> HIDE DEF C
  <2> QED BY <1>1, <2>1, SmallestSize
<1>3. s \in SUBSET S /\ IsFiniteSet(s) /\ SumFunctionOnSet(f, s) \notin Nat
  BY FS_Subset
<1>4. s # {}
  <2>1. SumFunctionOnSet(f, {}) = 0
    BY SumEmpty
  <2> QED BY <1>3, <2>1
<1> DEFINE r == s \ {Pick(s)}
<1>5. r \in SUBSET S /\ Cardinality(r) = Cardinality(s) - 1 /\ Cardinality(s) \in Nat
      /\ Pick(s) \in S
  BY <1>3, <1>4, PickIn, FS_RemoveElement, FS_CardinalityType
<1>6. SumFunctionOnSet(f, r) \in Nat
  BY <1>2, <1>5
<1>7. SumFunctionOnSet(f, s) = f[Pick(s)] + SumFunctionOnSet(f, r)
  BY <1>3, <1>4, SumOneByOne
<1> QED BY <1>3, <1>5, <1>6, <1>7

\* Functions that agree on a set have the same sum over it.
THEOREM SumSame ==
  ASSUME NEW f, NEW g, NEW S, IsFiniteSet(S), \A x \in S : f[x] = g[x]
  PROVE  SumFunctionOnSet(f, S) = SumFunctionOnSet(g, S)
<1> DEFINE C == {s \in SUBSET S : SumFunctionOnSet(f, s) # SumFunctionOnSet(g, s)}
<1>1. SUFFICES ASSUME C # {}
               PROVE  FALSE
  OBVIOUS
<1>2. PICK s \in C : \A t \in C : Cardinality(s) <= Cardinality(t)
  <2>1. C \in SUBSET SUBSET S
    OBVIOUS
  <2> HIDE DEF C
  <2> QED BY <1>1, <2>1, SmallestSize
<1>3. s \in SUBSET S /\ IsFiniteSet(s) /\ SumFunctionOnSet(f, s) # SumFunctionOnSet(g, s)
  BY FS_Subset
<1>4. s # {}
  BY <1>3, SumOneByOne
<1> DEFINE r == s \ {Pick(s)}
<1>5. r \in SUBSET S /\ Cardinality(r) = Cardinality(s) - 1 /\ Cardinality(s) \in Nat
      /\ Pick(s) \in S
  BY <1>3, <1>4, PickIn, FS_RemoveElement, FS_CardinalityType
<1>6. SumFunctionOnSet(f, r) = SumFunctionOnSet(g, r)
  BY <1>2, <1>5
<1>7. /\ SumFunctionOnSet(f, s) = f[Pick(s)] + SumFunctionOnSet(f, r)
      /\ SumFunctionOnSet(g, s) = g[Pick(s)] + SumFunctionOnSet(g, r)
  BY <1>3, <1>4, SumOneByOne
<1> QED BY <1>3, <1>5, <1>6, <1>7

\* Any element may be taken first.
THEOREM SumRemove ==
  ASSUME NEW f, NEW S, IsFiniteSet(S), \A x \in S : f[x] \in Nat, NEW x \in S
  PROVE  SumFunctionOnSet(f, S) = f[x] + SumFunctionOnSet(f, S \ {x})
<1> DEFINE Splits(s) == \A y \in s : SumFunctionOnSet(f, s) = f[y] + SumFunctionOnSet(f, s \ {y})
           C == {s \in SUBSET S : ~Splits(s)}
<1>1. SUFFICES ASSUME C # {}
               PROVE  FALSE
  BY FS_Subset
<1>2. PICK s \in C : \A t \in C : Cardinality(s) <= Cardinality(t)
  <2>1. C \in SUBSET SUBSET S
    OBVIOUS
  <2> HIDE DEF C
  <2> QED BY <1>1, <2>1, SmallestSize
<1>3. s \in SUBSET S /\ IsFiniteSet(s)
  BY FS_Subset
<1>4. PICK y \in s : SumFunctionOnSet(f, s) # f[y] + SumFunctionOnSet(f, s \ {y})
  OBVIOUS
<1> DEFINE p == Pick(s)
<1>5. p \in s /\ SumFunctionOnSet(f, s) = f[p] + SumFunctionOnSet(f, s \ {p})
  BY <1>3, PickIn, SumOneByOne
<1>6. p # y
  BY <1>4, <1>5
<1> HIDE DEF p
<1>7. /\ s \ {p} \in SUBSET S /\ s \ {y} \in SUBSET S
      /\ Cardinality(s \ {p}) = Cardinality(s) - 1
      /\ Cardinality(s \ {y}) = Cardinality(s) - 1
      /\ Cardinality(s) \in Nat
      /\ IsFiniteSet((s \ {p}) \ {y})
  BY <1>3, <1>5, FS_RemoveElement, FS_CardinalityType
<1>8. s \ {p} \notin C /\ s \ {y} \notin C
  <2> HIDE DEF C
  <2> QED BY <1>2, <1>7
<1>9. Splits(s \ {p}) /\ Splits(s \ {y})
  BY <1>7, <1>8
<1>10. y \in s \ {p} /\ p \in s \ {y} /\ (s \ {p}) \ {y} = (s \ {y}) \ {p}
  BY <1>5, <1>6
<1>11. /\ SumFunctionOnSet(f, s \ {p}) = f[y] + SumFunctionOnSet(f, (s \ {p}) \ {y})
       /\ SumFunctionOnSet(f, s \ {y}) = f[p] + SumFunctionOnSet(f, (s \ {p}) \ {y})
  BY <1>9, <1>10
<1>12. SumFunctionOnSet(f, (s \ {p}) \ {y}) \in Nat /\ f[p] \in Nat /\ f[y] \in Nat
  <2>1. \A z \in (s \ {p}) \ {y} : f[z] \in Nat
    BY <1>3
  <2> QED BY <1>3, <1>5, <1>7, <2>1, SumNat
<1> QED BY <1>4, <1>5, <1>11, <1>12

\* The sum over an interval from 0, its last element taken first.
THEOREM SumLast ==
  ASSUME NEW f, NEW k \in Nat, \A j \in 0 .. k : f[j] \in Nat
  PROVE  SumFunctionOnSet(f, 0 .. k) = f[k] + SumFunctionOnSet(f, 0 .. k - 1)
<1> DEFINE S == 0 .. k
<1>1. IsFiniteSet(S) /\ k \in S /\ S \ {k} = 0 .. k - 1 /\ \A j \in S : f[j] \in Nat
  <2>1. IsFiniteSet(0 .. k)
    BY FS_Interval
  <2> QED BY <2>1
<1> HIDE DEF S
<1>2. SumFunctionOnSet(f, S) = f[k] + SumFunctionOnSet(f, S \ {k})
  BY <1>1, SumRemove
<1> QED BY <1>1, <1>2 DEF S
=============================================================================
