---------------------------- MODULE Sums_proofs ----------------------------
(***************************************************************************)
(* What a sum over a finite set is, does and is bounded by.  Induction on   *)
(* the size of a set is done by taking a smallest counterexample.           *)
(***************************************************************************)
EXTENDS Sums, FiniteSets, FiniteSetTheorems, WellFoundedInduction, TLAPS

\* A set of numbers that is not empty has a least one.
LEMMA LeastNumber ==
  ASSUME NEW T, T \subseteq Nat, T # {}
  PROVE  \E m \in T : \A n \in T : m <= n
<1>1. PICK m \in T : \A n \in T : ~ (<<n, m>> \in OpToRel(<, Nat))
  BY NatLessThanWellFounded, WFMin
<1>2. \A n \in T : m <= n
  <2>1. TAKE n \in T
  <2>2. CASE n < m
    <3>1. <<n, m>> \in OpToRel(<, Nat)
      BY <2>2 DEF OpToRel
    <3>2. QED BY <3>1, <1>1
  <2>3. QED BY <2>2
<1>3. QED BY <1>2

\* The sets a property fails for, by their sizes: if there is one, there is a
\* smallest one.
LEMMA SmallestSet ==
  ASSUME NEW D, \A S \in D : IsFiniteSet(S), D # {}
  PROVE  \E S \in D : \A R \in D : Cardinality(S) <= Cardinality(R)
<1>1. {Cardinality(S) : S \in D} \subseteq Nat /\ {Cardinality(S) : S \in D} # {}
  BY FS_CardinalityType
<1>2. PICK m \in {Cardinality(S) : S \in D} : \A n \in {Cardinality(S) : S \in D} : m <= n
  BY <1>1, LeastNumber
<1>3. QED BY <1>2

----------------------------------------------------------------------------
\* The function the sum is computed with.

Pick(s) == CHOOSE x \in s : TRUE

Iterates(f, D, g) ==
  g = [s \in D |-> IF s = {} THEN 0 ELSE f[Pick(s)] + g[s \ {Pick(s)}]]

LEMMA TotalDef ==
  ASSUME NEW f, NEW S
  PROVE  Total(f, S) = (CHOOSE g : Iterates(f, SUBSET S, g))[S]
BY DEF Total, MapThenSumSet, MapThenFoldSet, Iterates, Pick

LEMMA PickFrom ==
  ASSUME NEW s, s # {}
  PROVE  Pick(s) \in s
BY DEF Pick

Below(S, n) == {s \in SUBSET S : Cardinality(s) <= n}

LEMMA IteratesBelow ==
  ASSUME NEW f, NEW S, IsFiniteSet(S)
  PROVE  \A n \in Nat : \E g : Iterates(f, Below(S, n), g)
<1> DEFINE Bad == {n \in Nat : ~ \E g : Iterates(f, Below(S, n), g)}
<1>1. SUFFICES ASSUME Bad # {} PROVE FALSE
  OBVIOUS
<1>2. PICK m \in Bad : \A n \in Bad : m <= n
  BY <1>1, LeastNumber
<1>3. CASE m = 0
  <2>1. \A s \in Below(S, 0) : s = {}
    BY FS_Subset, FS_EmptySet, FS_CardinalityType DEF Below
  <2>2. Iterates(f, Below(S, 0), [s \in Below(S, 0) |-> 0])
    BY <2>1 DEF Iterates
  <2>3. QED BY <2>2, <1>2, <1>3
<1>4. CASE m # 0
  <2>1. m - 1 \in Nat /\ m - 1 \notin Bad
    BY <1>2, <1>4
  <2>2. PICK h : Iterates(f, Below(S, m - 1), h)
    BY <2>1
  <2> DEFINE g == [s \in Below(S, m) |->
                     IF s = {} THEN 0 ELSE f[Pick(s)] + h[s \ {Pick(s)}]]
  <2>3. \A s \in Below(S, m - 1) : s \in Below(S, m) /\ g[s] = h[s]
    <3>1. TAKE s \in Below(S, m - 1)
    <3>2. Cardinality(s) \in Nat
      BY FS_Subset, FS_CardinalityType DEF Below
    <3>3. s \in Below(S, m)
      BY <3>2, <2>1 DEF Below
    <3>4. h[s] = IF s = {} THEN 0 ELSE f[Pick(s)] + h[s \ {Pick(s)}]
      BY <2>2 DEF Iterates
    <3>5. QED BY <3>3, <3>4
  <2>4. ASSUME NEW s \in Below(S, m), s # {}
        PROVE  g[s \ {Pick(s)}] = h[s \ {Pick(s)}]
    <3>1. Pick(s) \in s /\ IsFiniteSet(s) /\ s \in SUBSET S
      BY <2>4, PickFrom, FS_Subset DEF Below
    <3>2. IsFiniteSet(s \ {Pick(s)})
          /\ Cardinality(s \ {Pick(s)}) = Cardinality(s) - 1
      BY <3>1, FS_RemoveElement
    <3>3. Cardinality(s) \in Nat /\ Cardinality(s) <= m
      BY <3>1, FS_CardinalityType DEF Below
    <3>4. s \ {Pick(s)} \in Below(S, m - 1)
      BY <3>1, <3>2, <3>3, <2>1 DEF Below
    <3>5. QED BY <3>4, <2>3
  <2>5. Iterates(f, Below(S, m), g)
    BY <2>4 DEF Iterates
  <2>6. QED BY <2>5, <1>2
<1>5. QED BY <1>3, <1>4

LEMMA IteratesAll ==
  ASSUME NEW f, NEW S, IsFiniteSet(S)
  PROVE  Iterates(f, SUBSET S, CHOOSE g : Iterates(f, SUBSET S, g))
<1>1. Cardinality(S) \in Nat
  BY FS_CardinalityType
<1>2. Below(S, Cardinality(S)) = SUBSET S
  BY FS_Subset DEF Below
<1>3. \E g : Iterates(f, SUBSET S, g)
  <2>1. \A n \in Nat : \E g : Iterates(f, Below(S, n), g)
    BY IteratesBelow
  <2>2. \E g : Iterates(f, Below(S, Cardinality(S)), g)
    BY <2>1, <1>1
  <2>3. QED BY <2>2, <1>2
<1>4. QED BY <1>3

LEMMA IteratesOnce ==
  ASSUME NEW f, NEW S, IsFiniteSet(S), NEW T \in SUBSET S, NEW g, NEW h,
         Iterates(f, SUBSET S, g), Iterates(f, SUBSET T, h)
  PROVE  g[T] = h[T]
<1> DEFINE Bad == {U \in SUBSET T : g[U] # h[U]}
<1>1. SUFFICES ASSUME Bad # {} PROVE FALSE
  OBVIOUS
<1>2. \A U \in Bad : IsFiniteSet(U)
  BY FS_Subset
<1>3. PICK U \in Bad : \A R \in Bad : Cardinality(U) <= Cardinality(R)
  BY <1>1, <1>2, SmallestSet
<1>4. /\ g[U] = IF U = {} THEN 0 ELSE f[Pick(U)] + g[U \ {Pick(U)}]
      /\ h[U] = IF U = {} THEN 0 ELSE f[Pick(U)] + h[U \ {Pick(U)}]
  BY <1>3 DEF Iterates
<1>5. U # {} /\ U \ {Pick(U)} \in Bad
  BY <1>3, <1>4
<1>6. Cardinality(U \ {Pick(U)}) = Cardinality(U) - 1 /\ Cardinality(U) \in Nat
  BY <1>2, <1>3, <1>5, PickFrom, FS_RemoveElement, FS_CardinalityType
<1>7. QED BY <1>3, <1>5, <1>6

----------------------------------------------------------------------------
LEMMA TotalEmpty ==
  ASSUME NEW f
  PROVE  Total(f, {}) = 0
BY TotalDef, IteratesAll, FS_EmptySet DEF Iterates

LEMMA TotalPick ==
  ASSUME NEW f, NEW S, IsFiniteSet(S), S # {}
  PROVE  Total(f, S) = f[Pick(S)] + Total(f, S \ {Pick(S)})
<1> DEFINE g == CHOOSE g : Iterates(f, SUBSET S, g)
           h == CHOOSE h : Iterates(f, SUBSET (S \ {Pick(S)}), h)
<1>1. IsFiniteSet(S \ {Pick(S)}) /\ S \ {Pick(S)} \in SUBSET S
  BY FS_RemoveElement
<1>2. Iterates(f, SUBSET S, g) /\ Iterates(f, SUBSET (S \ {Pick(S)}), h)
  BY <1>1, IteratesAll
<1> HIDE DEF g, h
<1>3. g[S \ {Pick(S)}] = h[S \ {Pick(S)}]
  BY <1>1, <1>2, IteratesOnce
<1>4. g[S] = f[Pick(S)] + g[S \ {Pick(S)}]
  BY <1>2 DEF Iterates
<1>5. Total(f, S) = g[S] /\ Total(f, S \ {Pick(S)}) = h[S \ {Pick(S)}]
  BY TotalDef DEF g, h
<1>6. QED BY <1>3, <1>4, <1>5

\* The sum of numbers is a number.
LEMMA TotalNat ==
  ASSUME NEW f, NEW S, IsFiniteSet(S), \A x \in S : f[x] \in Nat
  PROVE  Total(f, S) \in Nat
<1> DEFINE Bad == {U \in SUBSET S : Total(f, U) \notin Nat}
<1>1. SUFFICES ASSUME Bad # {} PROVE FALSE
  OBVIOUS
<1>2. \A U \in Bad : IsFiniteSet(U)
  BY FS_Subset
<1>3. PICK U \in Bad : \A R \in Bad : Cardinality(U) <= Cardinality(R)
  BY <1>1, <1>2, SmallestSet
<1>4. U # {}
  BY <1>3, TotalEmpty
<1>5. Cardinality(U \ {Pick(U)}) = Cardinality(U) - 1 /\ Cardinality(U) \in Nat
  BY <1>2, <1>3, <1>4, PickFrom, FS_RemoveElement, FS_CardinalityType
<1>6. U \ {Pick(U)} \notin Bad
  BY <1>3, <1>5
<1>7. Total(f, U) = f[Pick(U)] + Total(f, U \ {Pick(U)}) /\ f[Pick(U)] \in Nat
  BY <1>2, <1>3, <1>4, TotalPick, PickFrom
<1>8. QED BY <1>3, <1>6, <1>7

\* One element can be taken out of a sum, whichever it is.
LEMMA TotalStep ==
  ASSUME NEW f, NEW S, IsFiniteSet(S), \A x \in S : f[x] \in Nat, NEW x \in S
  PROVE  Total(f, S) = f[x] + Total(f, S \ {x})
<1> DEFINE Bad == {U \in SUBSET S : \E y \in U : Total(f, U) # f[y] + Total(f, U \ {y})}
<1>1. SUFFICES ASSUME Bad # {} PROVE FALSE
  OBVIOUS
<1>2. \A U \in SUBSET S : IsFiniteSet(U) /\ Total(f, U) \in Nat
  BY FS_Subset, TotalNat
<1>3. PICK U \in Bad : \A R \in Bad : Cardinality(U) <= Cardinality(R)
  BY <1>1, <1>2, SmallestSet
<1>4. PICK y \in U : Total(f, U) # f[y] + Total(f, U \ {y})
  BY <1>3
<1> DEFINE p == Pick(U)
<1>5. p \in U /\ p \in S /\ y \in S /\ f[p] \in Nat /\ f[y] \in Nat
  BY <1>3, <1>4, PickFrom
<1>6. Total(f, U) = f[p] + Total(f, U \ {p})
  BY <1>2, <1>3, <1>5, TotalPick
<1> HIDE DEF p
<1>7. p # y
  BY <1>4, <1>6
<1>8. \A z \in U : U \ {z} \notin Bad
  <2>1. TAKE z \in U
  <2>2. IsFiniteSet(U)
    BY <1>2, <1>3
  <2>3. Cardinality(U \ {z}) = Cardinality(U) - 1 /\ Cardinality(U) \in Nat
    BY <2>1, <2>2, FS_RemoveElement, FS_CardinalityType
  <2>4. QED BY <2>3, <1>3
<1>9. U \ {p} \notin Bad /\ U \ {y} \notin Bad
  BY <1>4, <1>5, <1>8
<1>10. /\ Total(f, U \ {p}) = f[y] + Total(f, (U \ {p}) \ {y})
       /\ Total(f, U \ {y}) = f[p] + Total(f, (U \ {y}) \ {p})
  BY <1>3, <1>4, <1>5, <1>7, <1>9
<1>11. (U \ {p}) \ {y} = (U \ {y}) \ {p}
  OBVIOUS
<1>12. Total(f, (U \ {p}) \ {y}) \in Nat
  BY <1>2, <1>3
<1>13. QED BY <1>4, <1>5, <1>6, <1>10, <1>11, <1>12

\* A smaller function has a smaller sum.
LEMMA TotalMonotone ==
  ASSUME NEW f, NEW g, NEW S, IsFiniteSet(S),
         \A x \in S : f[x] \in Nat /\ g[x] \in Nat /\ f[x] <= g[x]
  PROVE  Total(f, S) <= Total(g, S)
<1> DEFINE Bad == {U \in SUBSET S : ~ (Total(f, U) <= Total(g, U))}
<1>1. SUFFICES ASSUME Bad # {} PROVE FALSE
  OBVIOUS
<1>2. \A U \in SUBSET S : IsFiniteSet(U) /\ Total(f, U) \in Nat /\ Total(g, U) \in Nat
  BY FS_Subset, TotalNat
<1>3. PICK U \in Bad : \A R \in Bad : Cardinality(U) <= Cardinality(R)
  BY <1>1, <1>2, SmallestSet
<1>4. U # {} /\ IsFiniteSet(U) /\ U \in SUBSET S
  BY <1>2, <1>3, TotalEmpty
<1>5. PICK x \in U : TRUE
  BY <1>4
<1>6. Cardinality(U \ {x}) = Cardinality(U) - 1 /\ Cardinality(U) \in Nat
  BY <1>4, <1>5, FS_RemoveElement, FS_CardinalityType
<1>7. U \ {x} \notin Bad
  BY <1>3, <1>6
<1>8. Total(f, U \ {x}) <= Total(g, U \ {x})
  BY <1>3, <1>7
<1>9. Total(f, U) = f[x] + Total(f, U \ {x})
  BY <1>4, <1>5, TotalStep
<1>10. Total(g, U) = g[x] + Total(g, U \ {x})
  BY <1>4, <1>5, TotalStep
<1>11. Total(f, U \ {x}) \in Nat /\ Total(g, U \ {x}) \in Nat
  BY <1>2, <1>4
<1>12. f[x] \in Nat /\ g[x] \in Nat /\ f[x] <= g[x]
  BY <1>4, <1>5
<1>13. Total(f, U) <= Total(g, U)
  BY <1>8, <1>9, <1>10, <1>11, <1>12
<1>14. QED BY <1>3, <1>13

\* A sum depends on the values on its set only.
LEMMA TotalSame ==
  ASSUME NEW f, NEW g, NEW S, IsFiniteSet(S), \A x \in S : f[x] \in Nat /\ f[x] = g[x]
  PROVE  Total(f, S) = Total(g, S)
<1>1. Total(f, S) <= Total(g, S) /\ Total(g, S) <= Total(f, S)
  BY TotalMonotone
<1>2. Total(f, S) \in Nat /\ Total(g, S) \in Nat
  BY TotalNat
<1>3. QED BY <1>1, <1>2

\* A smaller set has a smaller sum.
LEMMA TotalSubset ==
  ASSUME NEW f, NEW S, IsFiniteSet(S), \A x \in S : f[x] \in Nat, NEW T \in SUBSET S
  PROVE  Total(f, T) <= Total(f, S)
<1> DEFINE Bad == {U \in SUBSET S : T \subseteq U /\ ~ (Total(f, T) <= Total(f, U))}
<1>1. SUFFICES ASSUME Bad # {} PROVE FALSE
  OBVIOUS
<1>2. \A U \in SUBSET S : IsFiniteSet(U) /\ Total(f, U) \in Nat
  BY FS_Subset, TotalNat
<1>3. PICK U \in Bad : \A R \in Bad : Cardinality(U) <= Cardinality(R)
  BY <1>1, <1>2, SmallestSet
<1>4. U # T /\ T \subseteq U /\ IsFiniteSet(U) /\ U \in SUBSET S
  BY <1>2, <1>3
<1>5. PICK x \in U : x \notin T
  BY <1>4
<1>6. Cardinality(U \ {x}) = Cardinality(U) - 1 /\ Cardinality(U) \in Nat
  BY <1>4, <1>5, FS_RemoveElement, FS_CardinalityType
<1>7. U \ {x} \notin Bad
  BY <1>3, <1>6
<1>8. Total(f, T) <= Total(f, U \ {x})
  BY <1>4, <1>5, <1>7
<1>9. Total(f, U) = f[x] + Total(f, U \ {x})
  BY <1>4, <1>5, TotalStep
<1>10. f[x] \in Nat /\ Total(f, T) \in Nat /\ Total(f, U \ {x}) \in Nat
  BY <1>2, <1>4, <1>5
<1>11. Total(f, T) <= Total(f, U)
  BY <1>8, <1>9, <1>10
<1>12. QED BY <1>3, <1>11

\* No value is larger than the sum.
LEMMA TotalAtLeast ==
  ASSUME NEW f, NEW S, IsFiniteSet(S), \A x \in S : f[x] \in Nat, NEW x \in S
  PROVE  f[x] <= Total(f, S)
<1>1. IsFiniteSet(S \ {x})
  BY FS_RemoveElement
<1>2. Total(f, S \ {x}) \in Nat
  BY <1>1, TotalNat
<1>3. Total(f, S) = f[x] + Total(f, S \ {x})
  BY TotalStep
<1>4. QED BY <1>2, <1>3

\* A sum is zero when every value is.
LEMMA TotalZero ==
  ASSUME NEW f, NEW S, IsFiniteSet(S), \A x \in S : f[x] = 0
  PROVE  Total(f, S) = 0
<1> DEFINE Bad == {U \in SUBSET S : Total(f, U) # 0}
<1>1. SUFFICES ASSUME Bad # {} PROVE FALSE
  OBVIOUS
<1>2. \A U \in SUBSET S : IsFiniteSet(U)
  BY FS_Subset
<1>3. PICK U \in Bad : \A R \in Bad : Cardinality(U) <= Cardinality(R)
  BY <1>1, <1>2, SmallestSet
<1>4. U # {} /\ IsFiniteSet(U) /\ U \in SUBSET S
  BY <1>2, <1>3, TotalEmpty
<1>5. PICK x \in U : TRUE
  BY <1>4
<1>6. Cardinality(U \ {x}) = Cardinality(U) - 1 /\ Cardinality(U) \in Nat
  BY <1>4, <1>5, FS_RemoveElement, FS_CardinalityType
<1>7. U \ {x} \notin Bad
  BY <1>3, <1>6
<1>8. Total(f, U) = f[x] + Total(f, U \ {x})
  BY <1>4, <1>5, TotalStep
<1>9. f[x] = 0 /\ Total(f, U \ {x}) = 0
  BY <1>4, <1>5, <1>7
<1>10. QED BY <1>3, <1>8, <1>9

\* Where one value is smaller and none is larger, the sum is smaller.
LEMMA TotalStrict ==
  ASSUME NEW f, NEW g, NEW S, IsFiniteSet(S),
         \A x \in S : f[x] \in Nat /\ g[x] \in Nat /\ f[x] <= g[x],
         NEW x \in S, f[x] # g[x]
  PROVE  Total(f, S) < Total(g, S)
<1>1. IsFiniteSet(S \ {x})
  BY FS_RemoveElement
<1>2. Total(f, S \ {x}) \in Nat /\ Total(g, S \ {x}) \in Nat
  BY <1>1, TotalNat
<1>3. Total(f, S \ {x}) <= Total(g, S \ {x})
  BY <1>1, TotalMonotone
<1>4. Total(f, S) = f[x] + Total(f, S \ {x})
  BY TotalStep
<1>5. Total(g, S) = g[x] + Total(g, S \ {x})
  BY TotalStep
<1>6. QED BY <1>2, <1>3, <1>4, <1>5

\* A sum of equal values.
LEMMA TotalConstant ==
  ASSUME NEW f, NEW S, IsFiniteSet(S), NEW b \in Nat, \A x \in S : f[x] = b
  PROVE  Total(f, S) = b * Cardinality(S)
<1> DEFINE Bad == {U \in SUBSET S : Total(f, U) # b * Cardinality(U)}
<1>1. SUFFICES ASSUME Bad # {} PROVE FALSE
  OBVIOUS
<1>2. \A U \in SUBSET S : IsFiniteSet(U)
  BY FS_Subset
<1>3. PICK U \in Bad : \A R \in Bad : Cardinality(U) <= Cardinality(R)
  BY <1>1, <1>2, SmallestSet
<1>4. IsFiniteSet(U) /\ U \in SUBSET S
  BY <1>2, <1>3
<1>5. b * 0 = 0
  OBVIOUS
<1>6. U # {}
  BY <1>3, <1>5, TotalEmpty, FS_EmptySet
<1>7. PICK x \in U : TRUE
  BY <1>6
<1> DEFINE n == Cardinality(U \ {x})
<1>8. n + 1 = Cardinality(U) /\ n \in Nat /\ IsFiniteSet(U \ {x})
  <2>1. /\ IsFiniteSet(U \ {x})
        /\ Cardinality(U \ {x}) = Cardinality(U) - 1
    BY <1>4, <1>7, FS_RemoveElement
  <2>2. Cardinality(U) \in Nat /\ Cardinality(U \ {x}) \in Nat
    BY <1>4, <2>1, FS_CardinalityType
  <2>3. QED BY <2>1, <2>2
<1>9. Total(f, U \ {x}) = b * n
  BY <1>3, <1>4, <1>8
<1>10. Total(f, U) = b + Total(f, U \ {x})
  <2>1. \A y \in U : f[y] \in Nat
    BY <1>4
  <2>2. QED BY <1>4, <1>7, <2>1, TotalStep
<1> HIDE DEF n
<1>11. b + b * n = b * (n + 1)
  BY <1>8
<1>12. QED BY <1>3, <1>8, <1>9, <1>10, <1>11

\* A sum of values up to b, one of which is known.
LEMMA TotalAtMost ==
  ASSUME NEW f, NEW S, IsFiniteSet(S), NEW b \in Nat,
         \A x \in S : f[x] \in Nat /\ f[x] <= b
  PROVE  /\ Total(f, S) \in Nat
         /\ Total(f, S) <= b * Cardinality(S)
         /\ \A x \in S : Total(f, S) + b <= b * Cardinality(S) + f[x]
<1> DEFINE g == [x \in S |-> b]
<1>1. Total(f, S) \in Nat
  BY TotalNat
<1>2. \A x \in S : g[x] = b
  OBVIOUS
<1> HIDE DEF g
<1>3. Total(f, S) <= Total(g, S) /\ Total(g, S) = b * Cardinality(S)
  BY <1>2, TotalMonotone, TotalConstant
<1>4. ASSUME NEW x \in S
      PROVE  Total(f, S) + b <= b * Cardinality(S) + f[x]
  <2> DEFINE R == S \ {x}
  <2>1. IsFiniteSet(R)
    BY FS_RemoveElement
  <2>2. \A y \in R : f[y] \in Nat /\ g[y] \in Nat /\ f[y] <= g[y]
    BY <1>2
  <2>3. Total(f, S) = f[x] + Total(f, R)
    BY <1>4, TotalStep
  <2>4. Total(g, S) = g[x] + Total(g, R)
    BY <1>2, <1>4, TotalStep
  <2> HIDE DEF R
  <2>5. Total(f, R) <= Total(g, R) /\ Total(f, R) \in Nat /\ Total(g, R) \in Nat
    BY <2>1, <2>2, TotalMonotone, TotalNat
  <2>6. g[x] = b /\ f[x] \in Nat
    BY <1>2, <1>4
  <2>7. QED BY <1>3, <2>3, <2>4, <2>5, <2>6
<1>5. QED BY <1>1, <1>3, <1>4

\* Zeros may be left out of a sum.
LEMMA TotalWithoutZeros ==
  ASSUME NEW f, NEW S, IsFiniteSet(S), \A x \in S : f[x] \in Nat,
         NEW T \in SUBSET S, \A x \in S \ T : f[x] = 0
  PROVE  Total(f, S) = Total(f, T)
<1> DEFINE Bad == {U \in SUBSET S : T \subseteq U /\ Total(f, U) # Total(f, T)}
<1>1. SUFFICES ASSUME Bad # {} PROVE FALSE
  OBVIOUS
<1>2. \A U \in SUBSET S : IsFiniteSet(U) /\ Total(f, U) \in Nat
  BY FS_Subset, TotalNat
<1>3. PICK U \in Bad : \A R \in Bad : Cardinality(U) <= Cardinality(R)
  BY <1>1, <1>2, SmallestSet
<1>4. U # T /\ T \subseteq U /\ IsFiniteSet(U) /\ U \in SUBSET S
  BY <1>2, <1>3
<1>5. PICK x \in U : x \notin T
  BY <1>4
<1>6. Cardinality(U \ {x}) = Cardinality(U) - 1 /\ Cardinality(U) \in Nat
  BY <1>4, <1>5, FS_RemoveElement, FS_CardinalityType
<1>7. U \ {x} \notin Bad
  BY <1>3, <1>6
<1>8. Total(f, U \ {x}) = Total(f, T)
  BY <1>4, <1>5, <1>7
<1>9. Total(f, U) = f[x] + Total(f, U \ {x})
  BY <1>4, <1>5, TotalStep
<1>10. f[x] = 0 /\ Total(f, U \ {x}) \in Nat
  BY <1>2, <1>4, <1>5
<1>11. Total(f, U) = Total(f, T)
  BY <1>8, <1>9, <1>10
<1>12. QED BY <1>3, <1>11

\* When a sum of smaller values is not smaller, no value is.
LEMMA TotalEqual ==
  ASSUME NEW f, NEW g, NEW S, IsFiniteSet(S),
         \A x \in S : f[x] \in Nat /\ g[x] \in Nat /\ f[x] <= g[x],
         Total(g, S) <= Total(f, S)
  PROVE  \A x \in S : f[x] = g[x]
<1>1. SUFFICES ASSUME NEW x \in S, f[x] # g[x] PROVE FALSE
  OBVIOUS
<1>2. Total(f, S) < Total(g, S)
  BY <1>1, TotalStrict
<1>3. Total(f, S) \in Nat /\ Total(g, S) \in Nat
  BY TotalNat
<1>4. QED BY <1>2, <1>3

----------------------------------------------------------------------------
\* Sums over 0 .. n.

LEMMA FiniteUpTo ==
  ASSUME NEW n \in Int
  PROVE  IsFiniteSet(0 .. n)
BY FS_Interval

LEMMA TotalUpTo ==
  ASSUME NEW f, NEW n \in Nat, \A i \in 0 .. n : f[i] \in Nat
  PROVE  Total(f, 0 .. n) = f[n] + Total(f, 0 .. n - 1)
<1>1. (0 .. n) \ {n} = 0 .. n - 1 /\ n \in 0 .. n
  OBVIOUS
<1>2. Total(f, 0 .. n) = f[n] + Total(f, (0 .. n) \ {n})
  BY <1>1, FiniteUpTo, TotalStep
<1>3. QED BY <1>1, <1>2

\* When every value moves up by one place, the sum of the places it moves to is
\* the sum of those it comes from.
LEMMA TotalShift ==
  ASSUME NEW f, NEW g, NEW n \in Nat,
         g[0] = 0, \A i \in 1 .. n : g[i] = f[i - 1],
         \A i \in 0 .. n - 1 : f[i] \in Nat
  PROVE  Total(g, 0 .. n) = Total(f, 0 .. n - 1)
<1> DEFINE Bad == {m \in 0 .. n : Total(g, 0 .. m) # Total(f, 0 .. m - 1)}
<1>1. SUFFICES ASSUME Bad # {} PROVE FALSE
  OBVIOUS
<1>2. PICK m \in Bad : \A k \in Bad : m <= k
  <2>1. Bad \subseteq Nat
    OBVIOUS
  <2> HIDE DEF Bad
  <2>2. QED BY <1>1, <2>1, LeastNumber
<1>3. \A i \in 0 .. n : g[i] \in Nat
  OBVIOUS
<1>4. Total(g, 0 .. m) = g[m] + Total(g, 0 .. m - 1)
  <2>1. m \in Nat /\ \A i \in 0 .. m : g[i] \in Nat
    BY <1>3
  <2>2. QED BY <2>1, TotalUpTo
<1>5. CASE m = 0
  <2>1. 0 .. m - 1 = {}
    BY <1>5
  <2>2. QED BY <1>2, <1>4, <1>5, <2>1, TotalEmpty
<1>6. CASE m # 0
  <2>1. m - 1 \in 0 .. n /\ m - 1 \notin Bad
    BY <1>2, <1>6
  <2>2. Total(g, 0 .. m - 1) = Total(f, 0 .. (m - 1) - 1)
    BY <2>1
  <2>3. Total(f, 0 .. m - 1) = f[m - 1] + Total(f, 0 .. (m - 1) - 1)
    <3>1. m - 1 \in Nat /\ \A i \in 0 .. m - 1 : f[i] \in Nat
      BY <2>1, <1>2, <1>6
    <3>2. QED BY <3>1, TotalUpTo
  <2>4. g[m] = f[m - 1]
    BY <1>2, <1>6
  <2>5. QED BY <1>2, <1>4, <2>2, <2>3, <2>4
<1>7. QED BY <1>5, <1>6
=============================================================================
