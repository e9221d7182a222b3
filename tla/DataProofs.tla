---------------------------- MODULE DataProofs -----------------------------
(***************************************************************************)
(* Facts about the data of the models that several proofs use: what Total  *)
(* computes for every finite set, and how queues without a repeated        *)
(* element change.  A fold is a recursive function on the subsets of its   *)
(* argument; each lemma about it takes a minimal counterexample under      *)
(* strict inclusion.                                                       *)
(***************************************************************************)
EXTENDS Totals, Sequences, FiniteSetTheorems, FunctionTheorems, SequenceTheorems,
        WellFoundedInduction, TLAPS

Pick(s) == CHOOSE x \in s : TRUE

\* g is the function that the fold over S recurses on.
Totals(g, amount, S) ==
  g = [s \in SUBSET S |-> IF s = {} THEN 0 ELSE amount[Pick(s)] + g[s \ {Pick(s)}]]

\* Picking from a nonempty set gives one of its elements.
LEMMA PickIn == \A s : s # {} => Pick(s) \in s
  BY DEF Pick

\* A nonempty family of subsets of a finite set has a minimal member.
LEMMA MinimalSubset ==
  ASSUME NEW S, IsFiniteSet(S), NEW C \in SUBSET SUBSET S, C # {}
  PROVE  \E T \in C : \A U \in C : ~(U \subseteq T /\ U # T)
<1>1. IsWellFoundedOn(StrictSubsetOrdering(S), SUBSET S)
  BY FS_StrictSubsetOrderingWellFounded, FS_FiniteSubsetsOfFinite
<1>2. PICK T \in C : \A U \in C : ~(<<U, T>> \in StrictSubsetOrdering(S))
  BY <1>1, WFMin
<1>3. QED
  BY <1>2 DEF StrictSubsetOrdering

\* Two such functions agree wherever both are defined.
LEMMA TotalsUnique ==
  ASSUME NEW A, IsFiniteSet(A), NEW B, NEW amount, NEW g, NEW h,
         Totals(g, amount, A), Totals(h, amount, B),
         NEW T, T \subseteq A, T \subseteq B
  PROVE  g[T] = h[T]
<1> DEFINE C == {U \in SUBSET A : U \subseteq B /\ g[U] # h[U]}
<1>1. SUFFICES ASSUME C # {} PROVE FALSE
  OBVIOUS
<1>6. \E U \in C : \A V \in C : ~(V \subseteq U /\ V # U)
  <2>1. C \in SUBSET SUBSET A
    OBVIOUS
  <2> HIDE DEF C
  <2>2. QED
    BY <1>1, <2>1, MinimalSubset
<1>2. PICK U \in C : \A V \in C : ~(V \subseteq U /\ V # U)
  BY <1>6
<1>3. CASE U = {}
  BY <1>2, <1>3 DEF Totals
<1>4. CASE U # {}
  <2> DEFINE x == Pick(U)
  <2>1. x \in U
    BY <1>4, PickIn
  <2>2. g[U \ {x}] = h[U \ {x}]
    BY <1>2, <2>1
  <2>3. g[U] = amount[x] + g[U \ {x}] /\ h[U] = amount[x] + h[U \ {x}]
    BY <1>2, <1>4 DEF Totals
  <2>4. QED
    BY <1>2, <2>2, <2>3
<1>5. QED
  BY <1>3, <1>4

\* The recursion has a solution on every finite set.
LEMMA TotalsExists ==
  ASSUME NEW S, IsFiniteSet(S), NEW amount
  PROVE  \E g : Totals(g, amount, S)
<1> DEFINE C == {T \in SUBSET S : ~ \E g : Totals(g, amount, T)}
<1>1. SUFFICES ASSUME C # {} PROVE FALSE
  OBVIOUS
<1>0. \E T \in C : \A U \in C : ~(U \subseteq T /\ U # T)
  <2>1. C \in SUBSET SUBSET S
    OBVIOUS
  <2> HIDE DEF C
  <2>2. QED
    BY <1>1, <2>1, MinimalSubset
<1>2. PICK T \in C : \A U \in C : ~(U \subseteq T /\ U # T)
  BY <1>0
<1> DEFINE G(U) == CHOOSE g : Totals(g, amount, U)
           h == [s \in SUBSET T |-> IF s = {} THEN 0
                                    ELSE amount[Pick(s)] + G(s \ {Pick(s)})[s \ {Pick(s)}]]
<1>3. \A U : U \subseteq T /\ U # T => Totals(G(U), amount, U)
  BY <1>2
<1>4. ASSUME NEW s \in SUBSET T, s # {}
      PROVE  h[s \ {Pick(s)}] = G(s \ {Pick(s)})[s \ {Pick(s)}]
  <2> DEFINE u == s \ {Pick(s)}
  <2>1. u \subseteq T /\ u # T /\ IsFiniteSet(u)
    BY <1>2, <1>4, PickIn, FS_Subset
  <2>2. Totals(G(u), amount, u)
    BY <1>3, <2>1
  <2>3. CASE u = {}
    BY <2>1, <2>2, <2>3 DEF Totals
  <2>4. CASE u # {}
    <3> DEFINE v == u \ {Pick(u)}
    <3>1. Pick(u) \in u
      BY <2>4, PickIn
    <3>2. v \subseteq T /\ v # T
      BY <2>1
    <3>3. Totals(G(v), amount, v)
      BY <1>3, <3>2
    <3>4. G(u)[v] = G(v)[v]
      BY <2>1, <2>2, <3>3, TotalsUnique
    <3>5. G(u)[u] = amount[Pick(u)] + G(u)[v]
      BY <2>2, <2>4 DEF Totals
    <3>6. h[u] = amount[Pick(u)] + G(v)[v]
      BY <2>1, <2>4
    <3>7. QED
      BY <3>4, <3>5, <3>6
  <2>5. QED
    BY <2>3, <2>4
<1>5. h = [s \in SUBSET T |-> IF s = {} THEN 0 ELSE amount[Pick(s)] + h[s \ {Pick(s)}]]
  <2>1. \A s \in SUBSET T : s # {} => h[s] = amount[Pick(s)] + h[s \ {Pick(s)}]
    BY <1>4
  <2>2. h[{}] = 0
    OBVIOUS
  <2>3. h = [s \in SUBSET T |-> h[s]]
    OBVIOUS
  <2> HIDE DEF h
  <2>4. \A s \in SUBSET T : h[s] = IF s = {} THEN 0 ELSE amount[Pick(s)] + h[s \ {Pick(s)}]
    BY <2>1, <2>2
  <2>5. QED
    BY <2>3, <2>4
<1>6. Totals(h, amount, T)
  BY <1>5 DEF Totals
<1>7. QED
  BY <1>2, <1>6

\* Total is the value of that function on the whole set.
LEMMA TotalIsTotals ==
  ASSUME NEW S, IsFiniteSet(S), NEW amount
  PROVE  \E g : Totals(g, amount, S) /\ Total(amount, S) = g[S]
<1> DEFINE g == CHOOSE f : Totals(f, amount, S)
<1>1. Totals(g, amount, S)
  BY TotalsExists
<1>2. Total(amount, S) = g[S]
  BY DEF Total, MapThenSumSet, MapThenFoldSet, Totals, Pick
<1>3. QED
  BY <1>1, <1>2

\* The total over no item is zero.
LEMMA TotalEmpty == \A amount : Total(amount, {}) = 0
<1> SUFFICES ASSUME NEW amount PROVE Total(amount, {}) = 0
  OBVIOUS
<1>1. PICK g : Totals(g, amount, {}) /\ Total(amount, {}) = g[{}]
  BY TotalIsTotals, FS_EmptySet
<1>2. QED
  BY <1>1 DEF Totals

\* A total loses what the item picked first contributes.
LEMMA TotalPick ==
  ASSUME NEW S, IsFiniteSet(S), NEW amount, S # {}
  PROVE  Total(amount, S) = amount[Pick(S)] + Total(amount, S \ {Pick(S)})
<1> DEFINE R == S \ {Pick(S)}
<1>1. PICK g : Totals(g, amount, S) /\ Total(amount, S) = g[S]
  BY TotalIsTotals
<1>2. IsFiniteSet(R) /\ R \subseteq S
  BY FS_Subset
<1>3. PICK h : Totals(h, amount, R) /\ Total(amount, R) = h[R]
  BY <1>2, TotalIsTotals
<1>4. g[R] = h[R]
  BY <1>1, <1>2, <1>3, TotalsUnique
<1>5. g[S] = amount[Pick(S)] + g[R]
  BY <1>1 DEF Totals
<1>6. QED
  BY <1>1, <1>3, <1>4, <1>5

\* Totals of natural quantities are natural.
LEMMA TotalNat ==
  ASSUME NEW S, IsFiniteSet(S), NEW amount, \A x \in S : amount[x] \in Nat
  PROVE  Total(amount, S) \in Nat
<1> DEFINE C == {T \in SUBSET S : Total(amount, T) \notin Nat}
<1>1. SUFFICES ASSUME C # {} PROVE FALSE
  OBVIOUS
<1>2. \E T \in C : \A U \in C : ~(U \subseteq T /\ U # T)
  <2>1. C \in SUBSET SUBSET S
    OBVIOUS
  <2> HIDE DEF C
  <2>2. QED
    BY <1>1, <2>1, MinimalSubset
<1>3. PICK T \in C : \A U \in C : ~(U \subseteq T /\ U # T)
  BY <1>2
<1>4. T # {} /\ IsFiniteSet(T)
  <2>1. Total(amount, {}) \in Nat
    BY TotalEmpty
  <2>2. QED
    BY <2>1, FS_Subset
<1>5. Pick(T) \in T
  BY <1>4, PickIn
<1>6. Total(amount, T \ {Pick(T)}) \in Nat
  BY <1>3, <1>5
<1>7. Total(amount, T) = amount[Pick(T)] + Total(amount, T \ {Pick(T)})
  BY <1>4, TotalPick
<1>8. QED
  BY <1>3, <1>5, <1>6, <1>7

\* The order of summation does not matter: any item can be taken out first.
LEMMA TotalRemove ==
  ASSUME NEW S, IsFiniteSet(S), NEW amount, \A x \in S : amount[x] \in Nat, NEW x \in S
  PROVE  Total(amount, S) = amount[x] + Total(amount, S \ {x})
<1> DEFINE C == {T \in SUBSET S : \E y \in T : Total(amount, T) # amount[y] + Total(amount, T \ {y})}
<1>1. SUFFICES ASSUME C # {} PROVE FALSE
  OBVIOUS
<1>2. \E T \in C : \A U \in C : ~(U \subseteq T /\ U # T)
  <2>1. C \in SUBSET SUBSET S
    OBVIOUS
  <2> HIDE DEF C
  <2>2. QED
    BY <1>1, <2>1, MinimalSubset
<1>3. PICK T \in C : \A U \in C : ~(U \subseteq T /\ U # T)
  BY <1>2
<1>4. PICK y \in T : Total(amount, T) # amount[y] + Total(amount, T \ {y})
  BY <1>3
<1> DEFINE p == Pick(T)
<1>5. p \in T /\ IsFiniteSet(T)
  BY <1>3, <1>4, PickIn, FS_Subset
<1>6. Total(amount, T) = amount[p] + Total(amount, T \ {p})
  BY <1>4, <1>5, TotalPick
<1>7. p # y
  BY <1>4, <1>6
<1>8. T \ {p} \notin C /\ T \ {y} \notin C
  BY <1>3, <1>4, <1>5
<1>9. Total(amount, T \ {p}) = amount[y] + Total(amount, (T \ {p}) \ {y})
  BY <1>3, <1>4, <1>5, <1>7, <1>8
<1>10. Total(amount, T \ {y}) = amount[p] + Total(amount, (T \ {y}) \ {p})
  BY <1>3, <1>4, <1>5, <1>7, <1>8
<1>11. (T \ {p}) \ {y} = (T \ {y}) \ {p} /\ IsFiniteSet((T \ {p}) \ {y})
  BY <1>5, FS_Subset
<1>12. Total(amount, (T \ {p}) \ {y}) \in Nat /\ amount[p] \in Nat /\ amount[y] \in Nat
  BY <1>3, <1>4, <1>5, <1>11, TotalNat
<1>13. QED
  BY <1>4, <1>6, <1>9, <1>10, <1>11, <1>12

\* Adding an item adds what it contributes.
LEMMA TotalAdd ==
  ASSUME NEW S, IsFiniteSet(S), NEW amount, NEW x, x \notin S,
         \A y \in S \union {x} : amount[y] \in Nat
  PROVE  Total(amount, S \union {x}) = Total(amount, S) + amount[x]
<1>1. IsFiniteSet(S \union {x}) /\ (S \union {x}) \ {x} = S
  BY FS_AddElement
<1>2. Total(amount, S \union {x}) = amount[x] + Total(amount, S)
  BY <1>1, TotalRemove
<1>3. QED
  BY <1>1, <1>2, TotalNat

\* No item contributes more than the total.
LEMMA TotalBounds ==
  ASSUME NEW S, IsFiniteSet(S), NEW amount, \A x \in S : amount[x] \in Nat, NEW x \in S
  PROVE  amount[x] <= Total(amount, S)
<1>1. IsFiniteSet(S \ {x})
  BY FS_Subset
<1>2. Total(amount, S \ {x}) \in Nat /\ amount[x] \in Nat
  BY <1>1, TotalNat
<1>3. QED
  BY <1>2, TotalRemove

\* A total depends only on what the items contribute.
LEMMA TotalSame ==
  ASSUME NEW S, IsFiniteSet(S), NEW a, NEW b, \A x \in S : a[x] = b[x]
  PROVE  Total(a, S) = Total(b, S)
<1> DEFINE C == {T \in SUBSET S : Total(a, T) # Total(b, T)}
<1>1. SUFFICES ASSUME C # {} PROVE FALSE
  OBVIOUS
<1>2. \E T \in C : \A U \in C : ~(U \subseteq T /\ U # T)
  <2>1. C \in SUBSET SUBSET S
    OBVIOUS
  <2> HIDE DEF C
  <2>2. QED
    BY <1>1, <2>1, MinimalSubset
<1>3. PICK T \in C : \A U \in C : ~(U \subseteq T /\ U # T)
  BY <1>2
<1>4. T # {} /\ IsFiniteSet(T)
  <2>1. Total(a, {}) = Total(b, {})
    BY TotalEmpty
  <2>2. QED
    BY <2>1, FS_Subset
<1>5. Pick(T) \in T
  BY <1>4, PickIn
<1>6. Total(a, T \ {Pick(T)}) = Total(b, T \ {Pick(T)})
  BY <1>3, <1>5
<1>7. Total(a, T) = a[Pick(T)] + Total(a, T \ {Pick(T)})
  BY <1>4, TotalPick
<1>8. Total(b, T) = b[Pick(T)] + Total(b, T \ {Pick(T)})
  BY <1>4, TotalPick
<1>9. QED
  BY <1>3, <1>5, <1>6, <1>7, <1>8

\* Where nothing contributes, the total is zero.
LEMMA TotalZero ==
  ASSUME NEW S, IsFiniteSet(S), NEW amount, \A x \in S : amount[x] = 0
  PROVE  Total(amount, S) = 0
<1> DEFINE C == {T \in SUBSET S : Total(amount, T) # 0}
<1>1. SUFFICES ASSUME C # {} PROVE FALSE
  OBVIOUS
<1>2. \E T \in C : \A U \in C : ~(U \subseteq T /\ U # T)
  <2>1. C \in SUBSET SUBSET S
    OBVIOUS
  <2> HIDE DEF C
  <2>2. QED
    BY <1>1, <2>1, MinimalSubset
<1>3. PICK T \in C : \A U \in C : ~(U \subseteq T /\ U # T)
  BY <1>2
<1>4. T # {} /\ IsFiniteSet(T)
  <2>1. Total(amount, {}) = 0
    BY TotalEmpty
  <2>2. QED
    BY <2>1, FS_Subset
<1>5. Pick(T) \in T
  BY <1>4, PickIn
<1>6. Total(amount, T \ {Pick(T)}) = 0
  BY <1>3, <1>5
<1>7. Total(amount, T) = amount[Pick(T)] + Total(amount, T \ {Pick(T)})
  BY <1>4, TotalPick
<1>8. QED
  BY <1>3, <1>5, <1>6, <1>7

\* Where no item contributes less, the total is no less.
LEMMA TotalGrows ==
  ASSUME NEW S, IsFiniteSet(S), NEW a, NEW b, \A x \in S : a[x] \in Nat /\ b[x] \in Nat /\ a[x] <= b[x]
  PROVE  Total(a, S) <= Total(b, S)
<1> DEFINE C == {T \in SUBSET S : ~(Total(a, T) <= Total(b, T))}
<1>1. SUFFICES ASSUME C # {} PROVE FALSE
  OBVIOUS
<1>2. \E T \in C : \A U \in C : ~(U \subseteq T /\ U # T)
  <2>1. C \in SUBSET SUBSET S
    OBVIOUS
  <2> HIDE DEF C
  <2>2. QED
    BY <1>1, <2>1, MinimalSubset
<1>3. PICK T \in C : \A U \in C : ~(U \subseteq T /\ U # T)
  BY <1>2
<1>4. T # {} /\ IsFiniteSet(T)
  <2>1. Total(a, {}) = 0 /\ Total(b, {}) = 0
    BY TotalEmpty
  <2>2. Total(a, {}) <= Total(b, {})
    BY <2>1
  <2>3. ~(Total(a, T) <= Total(b, T)) /\ T \subseteq S
    BY <1>3
  <2>4. IsFiniteSet(T)
    BY <2>3, FS_Subset
  <2>5. QED
    BY <2>2, <2>3, <2>4
<1>5. PICK x : x \in T
  BY <1>4
<1>6. T \ {x} \notin C /\ T \ {x} \subseteq S /\ T \subseteq S /\ IsFiniteSet(T \ {x})
  BY <1>3, <1>4, <1>5, FS_Subset
<1>7. Total(a, T \ {x}) <= Total(b, T \ {x})
  BY <1>6
<1>8. Total(a, T) = a[x] + Total(a, T \ {x}) /\ Total(b, T) = b[x] + Total(b, T \ {x})
  BY <1>4, <1>5, <1>6, TotalRemove
<1>9. Total(a, T \ {x}) \in Nat /\ Total(b, T \ {x}) \in Nat
  BY <1>6, TotalNat
<1>10. ~(Total(a, T) <= Total(b, T)) /\ a[x] \in Nat /\ b[x] \in Nat /\ a[x] <= b[x]
  BY <1>3, <1>5, <1>6
<1> HIDE DEF C
<1>11. QED
  BY <1>7, <1>8, <1>9, <1>10

\* When one item contributes another amount, the total changes by the difference.
LEMMA TotalChange ==
  ASSUME NEW S, IsFiniteSet(S), NEW a, NEW b, NEW x \in S,
         \A y \in S : a[y] \in Nat /\ b[y] \in Nat, \A y \in S \ {x} : a[y] = b[y]
  PROVE  Total(b, S) + a[x] = Total(a, S) + b[x]
<1>1. IsFiniteSet(S \ {x})
  BY FS_Subset
<1>2. Total(a, S \ {x}) = Total(b, S \ {x}) /\ Total(a, S \ {x}) \in Nat
  BY <1>1, TotalSame, TotalNat
<1>3. Total(a, S) = a[x] + Total(a, S \ {x})
  BY TotalRemove
<1>4. Total(b, S) = b[x] + Total(b, S \ {x})
  BY TotalRemove
<1>5. QED
  BY <1>2, <1>3, <1>4

\* A total splits over a part and the rest.
LEMMA TotalSplit ==
  ASSUME NEW S, IsFiniteSet(S), NEW amount, \A x \in S : amount[x] \in Nat, NEW P \in SUBSET S
  PROVE  Total(amount, S) = Total(amount, P) + Total(amount, S \ P)
<1> DEFINE C == {T \in SUBSET S : T \subseteq P /\ Total(amount, S) # Total(amount, T) + Total(amount, S \ T)}
<1>1. SUFFICES ASSUME C # {} PROVE FALSE
  OBVIOUS
<1>2. \E T \in C : \A U \in C : ~(U \subseteq T /\ U # T)
  <2>1. C \in SUBSET SUBSET S
    OBVIOUS
  <2> HIDE DEF C
  <2>2. QED
    BY <1>1, <2>1, MinimalSubset
<1>3. PICK T \in C : \A U \in C : ~(U \subseteq T /\ U # T)
  BY <1>2
<1>4. T # {}
  <2>1. Total(amount, {}) = 0 /\ S \ {} = S
    BY TotalEmpty
  <2>2. Total(amount, S) \in Nat
    BY TotalNat
  <2>3. Total(amount, S) = Total(amount, {}) + Total(amount, S \ {})
    BY <2>1, <2>2
  <2>4. Total(amount, S) # Total(amount, T) + Total(amount, S \ T)
    BY <1>3
  <2>5. QED
    BY <2>3, <2>4
<1>5. PICK x : x \in T
  BY <1>4
<1> DEFINE U == T \ {x}
<1>6. Total(amount, S) = Total(amount, U) + Total(amount, S \ U)
  BY <1>3, <1>5
<1>7. IsFiniteSet(T) /\ IsFiniteSet(U) /\ IsFiniteSet(S \ U) /\ IsFiniteSet(S \ T)
  BY <1>3, FS_Subset
<1>8. Total(amount, T) = amount[x] + Total(amount, U)
  BY <1>3, <1>5, <1>7, TotalRemove
<1>9. x \in S \ U /\ (S \ U) \ {x} = S \ T
  BY <1>3, <1>5
<1>10. Total(amount, S \ U) = amount[x] + Total(amount, S \ T)
  BY <1>7, <1>9, TotalRemove
<1>11. Total(amount, U) \in Nat /\ Total(amount, S \ T) \in Nat /\ amount[x] \in Nat
  BY <1>3, <1>5, <1>7, TotalNat
<1>12. Total(amount, S) # Total(amount, T) + Total(amount, S \ T)
  BY <1>3
<1> HIDE DEF U, C
<1>13. QED
  BY <1>6, <1>8, <1>10, <1>11, <1>12

\* A nonempty finite set of integers has a greatest element.
LEMMA Greatest ==
  ASSUME NEW S, IsFiniteSet(S), S # {}, \A x \in S : x \in Int
  PROVE  \E x \in S : \A y \in S : x >= y
<1> DEFINE Above(x) == {y \in S : y >= x}
           C == {Above(x) : x \in S}
<1>1. C \in SUBSET SUBSET S
  OBVIOUS
<1>6. C # {}
  OBVIOUS
<1>2. PICK T \in C : \A U \in C : ~(U \subseteq T /\ U # T)
  <2> HIDE DEF C
  <2>1. \E T \in C : \A U \in C : ~(U \subseteq T /\ U # T)
    BY <1>1, <1>6, MinimalSubset
  <2>2. QED
    BY <2>1
<1>3. PICK x \in S : T = Above(x)
  BY <1>2
<1>4. \A y \in S : x >= y
  <2> SUFFICES ASSUME NEW y \in S, ~(x >= y) PROVE FALSE
    OBVIOUS
  <2>1. Above(y) \in C
    OBVIOUS
  <2> HIDE DEF C
  <2>2. x \in Int /\ y \in Int /\ x >= x
    OBVIOUS
  <2>3. x \in T /\ x \notin Above(y)
    BY <1>3, <2>2
  <2>4. \A z \in S : z >= y => z >= x
    BY <2>2
  <2>5. Above(y) \subseteq T
    BY <1>3, <2>4
  <2>6. QED
    BY <1>2, <2>1, <2>3, <2>5
<1>5. QED
  BY <1>4

\* A nonempty finite set of integers has a least element.
LEMMA Least ==
  ASSUME NEW S, IsFiniteSet(S), S # {}, \A x \in S : x \in Int
  PROVE  \E x \in S : \A y \in S : x <= y
<1> DEFINE Below(x) == {y \in S : y <= x}
           C == {Below(x) : x \in S}
<1>1. C \in SUBSET SUBSET S
  OBVIOUS
<1>6. C # {}
  OBVIOUS
<1>2. PICK T \in C : \A U \in C : ~(U \subseteq T /\ U # T)
  <2> HIDE DEF C
  <2>1. \E T \in C : \A U \in C : ~(U \subseteq T /\ U # T)
    BY <1>1, <1>6, MinimalSubset
  <2>2. QED
    BY <2>1
<1>3. PICK x \in S : T = Below(x)
  BY <1>2
<1>4. \A y \in S : x <= y
  <2> SUFFICES ASSUME NEW y \in S, ~(x <= y) PROVE FALSE
    OBVIOUS
  <2>1. Below(y) \in C
    OBVIOUS
  <2> HIDE DEF C
  <2>2. x \in Int /\ y \in Int /\ x >= x
    OBVIOUS
  <2>3. x \in T /\ x \notin Below(y)
    BY <1>3, <2>2
  <2>4. \A z \in S : z <= y => z <= x
    BY <2>2
  <2>5. Below(y) \subseteq T
    BY <1>3, <2>4
  <2>6. QED
    BY <1>2, <2>1, <2>3, <2>5
<1>5. QED
  BY <1>4

-----------------------------------------------------------------------------
(* Queues that hold nothing twice. *)

\* The sequence q without its position i.
Leaving(q, i) == SubSeq(q, 1, i - 1) \o SubSeq(q, i + 1, Len(q))

\* Leaving takes one element out of a queue that holds it once.
LEMMA LeavingRemoves ==
  ASSUME NEW T, NEW q \in Seq(T), IsInjective(q), NEW i \in DOMAIN q
  PROVE  /\ Leaving(q, i) \in Seq(T)
         /\ Range(Leaving(q, i)) = Range(q) \ {q[i]}
         /\ IsInjective(Leaving(q, i))
<1> DEFINE n == Len(q)
           r == Leaving(q, i)
<1>1. n \in Nat /\ DOMAIN q = 1..n /\ i \in 1..n /\ \A k \in 1..n : q[k] \in T
  BY LenProperties, ElementOfSeq
<1>2. /\ SubSeq(q, 1, i - 1) \in Seq(T) /\ Len(SubSeq(q, 1, i - 1)) = i - 1
      /\ \A k \in 1..(i - 1) : SubSeq(q, 1, i - 1)[k] = q[k]
  BY <1>1, SubSeqProperties
<1>3. /\ SubSeq(q, i + 1, n) \in Seq(T) /\ Len(SubSeq(q, i + 1, n)) = n - i
      /\ \A k \in 1..(n - i) : SubSeq(q, i + 1, n)[k] = q[k + i]
  <2>1. \A k \in (i + 1)..n : q[k] \in T
    BY <1>1
  <2>2. /\ SubSeq(q, i + 1, n) \in Seq(T)
        /\ Len(SubSeq(q, i + 1, n)) = IF i + 1 <= n THEN n - (i + 1) + 1 ELSE 0
        /\ \A k \in 1..(n - (i + 1) + 1) : SubSeq(q, i + 1, n)[k] = q[i + 1 + k - 1]
    BY <1>1, <2>1, SubSeqProperties
  <2>3. n - (i + 1) + 1 = n - i /\ (~(i + 1 <= n) => n - i = 0)
        /\ \A k \in 1..(n - i) : i + 1 + k - 1 = k + i
    BY <1>1
  <2>4. QED
    BY <2>2, <2>3
<1>4. /\ r \in Seq(T) /\ Len(r) = n - 1 /\ DOMAIN r = 1..(n - 1)
      /\ \A k \in 1..(n - 1) : r[k] = IF k < i THEN q[k] ELSE q[k + 1]
  <2>1. /\ r \in Seq(T) /\ Len(r) = (i - 1) + (n - i)
        /\ \A k \in 1..((i - 1) + (n - i)) : r[k] = IF k <= i - 1 THEN SubSeq(q, 1, i - 1)[k]
                                                    ELSE SubSeq(q, i + 1, n)[k - (i - 1)]
    <3> DEFINE left == SubSeq(q, 1, i - 1)
               right == SubSeq(q, i + 1, n)
    <3>1. r = left \o right
      BY DEF Leaving
    <3> HIDE DEF left, right, r
    <3>2. left \in Seq(T) /\ right \in Seq(T) /\ Len(left) = i - 1 /\ Len(right) = n - i
      BY <1>2, <1>3 DEF left, right
    <3>3. /\ left \o right \in Seq(T) /\ Len(left \o right) = Len(left) + Len(right)
          /\ \A k \in 1..(Len(left) + Len(right)) :
               (left \o right)[k] = IF k <= Len(left) THEN left[k] ELSE right[k - Len(left)]
      BY <3>2, ConcatProperties
    <3>4. QED
      BY <3>1, <3>2, <3>3 DEF left, right
  <2>2. (i - 1) + (n - i) = n - 1
    BY <1>1
  <2>3. \A k \in 1..(n - 1) : r[k] = IF k < i THEN q[k] ELSE q[k + 1]
    <3> SUFFICES ASSUME NEW k \in 1..(n - 1) PROVE r[k] = IF k < i THEN q[k] ELSE q[k + 1]
      OBVIOUS
    <3>1. CASE k < i
      <4>1. k <= i - 1 /\ k \in 1..(i - 1)
        BY <1>1, <3>1
      <4>2. QED
        BY <1>2, <2>1, <2>2, <3>1, <4>1
    <3>2. CASE ~(k < i)
      <4>1. ~(k <= i - 1) /\ k - (i - 1) \in 1..(n - i) /\ (k - (i - 1)) + i = k + 1
        BY <1>1, <3>2
      <4>2. QED
        BY <1>3, <2>1, <2>2, <3>2, <4>1
    <3>3. QED
      BY <3>1, <3>2
  <2>4. QED
    BY <2>1, <2>2, <2>3, LenProperties
<1>5. \A a, b \in 1..n : q[a] = q[b] => a = b
  BY <1>1 DEF IsInjective
<1>6. Range(r) = Range(q) \ {q[i]}
  <2>1. ASSUME NEW k \in 1..(n - 1)
        PROVE  r[k] \in Range(q) \ {q[i]}
    <3>1. k \in 1..n /\ k + 1 \in 1..n /\ (k < i => k # i) /\ (~(k < i) => k + 1 # i)
      BY <1>1
    <3>2. QED
      BY <1>1, <1>4, <1>5, <3>1 DEF Range
  <2>2. ASSUME NEW k \in 1..n, k # i
        PROVE  q[k] \in Range(r)
    <3>1. CASE k < i
      <4>1. k \in 1..(n - 1)
        BY <1>1, <3>1
      <4>2. QED
        BY <1>4, <3>1, <4>1 DEF Range
    <3>2. CASE ~(k < i)
      <4>1. k - 1 \in 1..(n - 1) /\ ~(k - 1 < i) /\ (k - 1) + 1 = k
        BY <1>1, <2>2, <3>2
      <4>2. r[k - 1] = q[k]
        BY <1>4, <4>1
      <4>3. QED
        BY <1>4, <4>1, <4>2 DEF Range
    <3>3. QED
      BY <3>1, <3>2
  <2>3. QED
    BY <1>1, <1>4, <1>5, <2>1, <2>2 DEF Range
<1>7. IsInjective(r)
  <2> SUFFICES ASSUME NEW a \in 1..(n - 1), NEW b \in 1..(n - 1), r[a] = r[b]
               PROVE  a = b
    BY <1>4 DEF IsInjective
  <2> DEFINE at(k) == IF k < i THEN k ELSE k + 1
  <2>1. at(a) \in 1..n /\ at(b) \in 1..n
    BY <1>1
  <2>2. q[at(a)] = q[at(b)]
    BY <1>4
  <2>3. at(a) = at(b)
    BY <1>5, <2>1, <2>2
  <2>4. QED
    BY <1>1, <2>3
<1>8. QED
  BY <1>4, <1>6, <1>7

\* Two queues without a common element can be joined.
LEMMA JoinAdds ==
  ASSUME NEW T, NEW p \in Seq(T), NEW q \in Seq(T), IsInjective(p), IsInjective(q),
         Range(p) \cap Range(q) = {}
  PROVE  /\ p \o q \in Seq(T)
         /\ Range(p \o q) = Range(p) \union Range(q)
         /\ IsInjective(p \o q)
<1> DEFINE m == Len(p)
           n == Len(q)
           r == p \o q
<1>1. m \in Nat /\ n \in Nat /\ DOMAIN p = 1..m /\ DOMAIN q = 1..n
  BY LenProperties
<1>2. /\ r \in Seq(T) /\ Len(r) = m + n
      /\ \A k \in 1..(m + n) : r[k] = IF k <= m THEN p[k] ELSE q[k - m]
  BY ConcatProperties
<1>3. DOMAIN r = 1..(m + n)
  BY <1>2, LenProperties
<1>4. IsInjective(r)
  <2> SUFFICES ASSUME NEW a \in 1..(m + n), NEW b \in 1..(m + n), r[a] = r[b]
               PROVE  a = b
    BY <1>3 DEF IsInjective
  <2>1. (a <= m => a \in 1..m) /\ (~(a <= m) => a - m \in 1..n)
        /\ (b <= m => b \in 1..m) /\ (~(b <= m) => b - m \in 1..n)
    BY <1>1
  <2>2. (a <= m <=> b <= m)
    BY <1>1, <1>2, <2>1 DEF Range
  <2>3. CASE a <= m
    BY <1>1, <1>2, <2>1, <2>2, <2>3 DEF IsInjective
  <2>4. CASE ~(a <= m)
    <3>1. a - m = b - m
      BY <1>1, <1>2, <2>1, <2>2, <2>4 DEF IsInjective
    <3>2. QED
      BY <1>1, <3>1
  <2>5. QED
    BY <2>3, <2>4
<1>5. QED
  BY <1>2, <1>4, RangeConcatenation

\* A new element goes to the end.
LEMMA AppendAdds ==
  ASSUME NEW T, NEW q \in Seq(T), IsInjective(q), NEW e \in T, e \notin Range(q)
  PROVE  /\ Append(q, e) \in Seq(T)
         /\ Range(Append(q, e)) = Range(q) \union {e}
         /\ IsInjective(Append(q, e))
<1> DEFINE one == <<e>>
<1>1. one \in Seq(T) /\ DOMAIN one = {1} /\ one[1] = e
  OBVIOUS
<1>2. Append(q, e) = q \o one
  BY AppendIsConcat
<1> HIDE DEF one
<1>3. Range(one) = {e} /\ IsInjective(one)
  BY <1>1 DEF Range, IsInjective
<1>4. Range(q) \cap Range(one) = {}
  BY <1>3
<1>5. q \o one \in Seq(T) /\ IsInjective(q \o one)
  BY <1>1, <1>3, <1>4, JoinAdds
<1>6. Range(q \o one) = Range(q) \union Range(one)
  BY <1>1, RangeConcatenation
<1>7. QED
  BY <1>2, <1>3, <1>5, <1>6

\* The tail is what is left without the head.
LEMMA TailLoses ==
  ASSUME NEW T, NEW q \in Seq(T), IsInjective(q), q # <<>>
  PROVE  /\ Head(q) \in Range(q) /\ Tail(q) \in Seq(T)
         /\ Range(Tail(q)) = Range(q) \ {Head(q)}
         /\ IsInjective(Tail(q))
<1> DEFINE n == Len(q)
           r == Tail(q)
<1>1. n \in Nat /\ n # 0 /\ DOMAIN q = 1..n /\ Head(q) = q[1]
  BY LenProperties, EmptySeq
<1>2. r \in Seq(T) /\ Len(r) = n - 1 /\ \A i \in 1..(n - 1) : r[i] = q[i + 1]
  BY HeadTailProperties
<1>3. DOMAIN r = 1..(n - 1)
  BY <1>2, LenProperties
<1>4. Range(r) = Range(q) \ {q[1]}
  <2>1. ASSUME NEW k \in 1..(n - 1)
        PROVE  r[k] \in Range(q) \ {q[1]}
    <3>1. k + 1 \in 1..n /\ k + 1 # 1 /\ 1 \in 1..n
      BY <1>1
    <3>2. QED
      BY <1>1, <1>2, <3>1 DEF Range, IsInjective
  <2>2. ASSUME NEW k \in 1..n, q[k] # q[1]
        PROVE  q[k] \in Range(r)
    <3>1. k - 1 \in 1..(n - 1) /\ (k - 1) + 1 = k
      BY <1>1, <2>2
    <3>2. QED
      BY <1>2, <1>3, <3>1 DEF Range
  <2>3. QED
    BY <1>1, <1>3, <2>1, <2>2 DEF Range
<1>5. IsInjective(r)
  <2> SUFFICES ASSUME NEW a \in 1..(n - 1), NEW b \in 1..(n - 1), r[a] = r[b]
               PROVE  a = b
    BY <1>3 DEF IsInjective
  <2>1. a + 1 \in 1..n /\ b + 1 \in 1..n /\ q[a + 1] = q[b + 1]
    BY <1>1, <1>2
  <2>2. a + 1 = b + 1
    BY <1>1, <2>1 DEF IsInjective
  <2>3. QED
    BY <1>1, <2>2
<1>6. q[1] \in Range(q)
  BY <1>1 DEF Range
<1>7. QED
  BY <1>1, <1>2, <1>4, <1>5, <1>6
=============================================================================
