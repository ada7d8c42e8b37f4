---------------------------- MODULE TotalsProofs ----------------------------
(* Lemmas about Totals: a sum over the rows of a finite table. *)
EXTENDS Totals, FiniteSetTheorems, TLAPS

\* The units of rows with natural amounts are a finite set.
LEMMA UnitsFinite ==
    ASSUME NEW S, IsFiniteSet(S), NEW f, \A x \in S : f[x] \in Nat
    PROVE  IsFiniteSet(Units(S, f))
<1> DEFINE family == {{x} \X (1 .. f[x]) : x \in S}
           g == [x \in S |-> {x} \X (1 .. f[x])]
<1>1. g \in Surjection(S, family)
  BY DEF Surjection
<1>2. IsFiniteSet(family)
  BY <1>1, FS_Surjection
<1>3. ASSUME NEW T \in family PROVE IsFiniteSet(T)
  <2>1. PICK x \in S : T = {x} \X (1 .. f[x])
    OBVIOUS
  <2>2. IsFiniteSet({x}) /\ IsFiniteSet(1 .. f[x])
    <3>1. 1 \in Int /\ f[x] \in Int
      OBVIOUS
    <3>2. IsFiniteSet(1 .. f[x])
      BY <3>1, FS_Interval
    <3>3. QED
      BY <3>2, FS_Singleton
  <2>3. QED
    BY <2>1, <2>2, FS_Product
<1>4. QED
  BY <1>2, <1>3, FS_UNION DEF Units

LEMMA TotalType ==
    ASSUME NEW S, IsFiniteSet(S), NEW f, \A x \in S : f[x] \in Nat
    PROVE  Total(S, f) \in Nat
BY UnitsFinite, FS_CardinalityType DEF Total

LEMMA TotalEmpty ==
    ASSUME NEW f
    PROVE  Total({}, f) = 0
<1>1. Units({}, f) = {}
  BY DEF Units
<1>2. QED
  BY <1>1, FS_EmptySet DEF Total

\* Only the amounts of the rows summed matter.
LEMMA TotalSame ==
    ASSUME NEW S, NEW f, NEW g, \A x \in S : f[x] = g[x]
    PROVE  Total(S, f) = Total(S, g)
<1>1. Units(S, f) = Units(S, g)
  BY DEF Units
<1>2. QED
  BY <1>1 DEF Total

LEMMA TotalSingleton ==
    ASSUME NEW x, NEW f, f[x] \in Nat
    PROVE  Total({x}, f) = f[x]
<1>1. Units({x}, f) = {x} \X (1 .. f[x])
  BY DEF Units
<1>2. IsFiniteSet({x}) /\ Cardinality({x}) = 1
  BY FS_Singleton
<1>3. IsFiniteSet(1 .. f[x]) /\ Cardinality(1 .. f[x]) = f[x]
  <2>1. 1 \in Int /\ f[x] \in Int
    OBVIOUS
  <2>2. /\ IsFiniteSet(1 .. f[x])
        /\ Cardinality(1 .. f[x]) = IF 1 > f[x] THEN 0 ELSE f[x] - 1 + 1
    BY <2>1, FS_Interval
  <2>3. QED
    BY <2>2
<1>4. Cardinality({x} \X (1 .. f[x])) = Cardinality({x}) * Cardinality(1 .. f[x])
  BY <1>2, <1>3, FS_Product
<1>5. 1 * f[x] = f[x]
  OBVIOUS
<1>6. QED
  BY <1>1, <1>2, <1>3, <1>4, <1>5 DEF Total

\* The sum over two disjoint sets of rows is the sum of the sums.
LEMMA TotalDisjoint ==
    ASSUME NEW S, NEW T, IsFiniteSet(S), IsFiniteSet(T), S \cap T = {},
           NEW f, \A x \in S \cup T : f[x] \in Nat
    PROVE  Total(S \cup T, f) = Total(S, f) + Total(T, f)
<1>1. Units(S \cup T, f) = Units(S, f) \cup Units(T, f)
  BY DEF Units
<1>2. Units(S, f) \cap Units(T, f) = {}
  <2> SUFFICES ASSUME NEW u \in Units(S, f), u \in Units(T, f) PROVE FALSE
    OBVIOUS
  <2>1. PICK x \in S : u \in {x} \X (1 .. f[x])
    BY DEF Units
  <2>2. PICK y \in T : u \in {y} \X (1 .. f[y])
    BY DEF Units
  <2>3. u[1] = x /\ u[1] = y
    BY <2>1, <2>2
  <2>4. QED
    BY <2>3
<1>3. IsFiniteSet(Units(S, f)) /\ IsFiniteSet(Units(T, f))
  BY UnitsFinite
<1>4. /\ Cardinality(Units(S, f)) \in Nat
      /\ Cardinality(Units(T, f)) \in Nat
      /\ Cardinality(Units(S, f) \cap Units(T, f)) = 0
  BY <1>2, <1>3, FS_CardinalityType, FS_EmptySet
<1>5. Cardinality(Units(S, f) \cup Units(T, f))
        = Cardinality(Units(S, f)) + Cardinality(Units(T, f))
          - Cardinality(Units(S, f) \cap Units(T, f))
  BY <1>3, FS_Union
<1>6. Cardinality(Units(S, f) \cup Units(T, f))
        = Cardinality(Units(S, f)) + Cardinality(Units(T, f))
  BY <1>4, <1>5
<1>7. QED
  BY <1>1, <1>6 DEF Total

\* Adding a row adds its amount.
LEMMA TotalAdd ==
    ASSUME NEW S, IsFiniteSet(S), NEW x, x \notin S,
           NEW f, \A y \in S \cup {x} : f[y] \in Nat
    PROVE  Total(S \cup {x}, f) = Total(S, f) + f[x]
<1>1. IsFiniteSet({x}) /\ S \cap {x} = {}
  BY FS_Singleton
<1>2. Total(S \cup {x}, f) = Total(S, f) + Total({x}, f)
  BY <1>1, TotalDisjoint
<1>3. QED
  BY <1>2, TotalSingleton

\* Removing a row removes its amount, which the sum contains.
LEMMA TotalRemove ==
    ASSUME NEW S, IsFiniteSet(S), NEW x \in S, NEW f, \A y \in S : f[y] \in Nat
    PROVE  /\ Total(S \ {x}, f) = Total(S, f) - f[x]
           /\ f[x] <= Total(S, f)
<1>1. IsFiniteSet(S \ {x}) /\ x \notin S \ {x} /\ (S \ {x}) \cup {x} = S
  <2>1. IsFiniteSet(S \ {x})
    BY FS_RemoveElement
  <2>2. x \notin S \ {x} /\ (S \ {x}) \cup {x} = S
    OBVIOUS
  <2>3. QED
    BY <2>1, <2>2
<1>2. Total((S \ {x}) \cup {x}, f) = Total(S \ {x}, f) + f[x]
  BY <1>1, TotalAdd
<1>3. Total(S \ {x}, f) \in Nat
  BY <1>1, TotalType
<1>4. Total(S, f) = Total(S \ {x}, f) + f[x]
  BY <1>1, <1>2
<1>5. f[x] \in Nat
  OBVIOUS
<1>6. QED
  BY <1>3, <1>4, <1>5

\* Changing the amount of one row changes the sum by the difference.
LEMMA TotalChange ==
    ASSUME NEW S, IsFiniteSet(S), NEW x \in S, NEW f, NEW g,
           \A y \in S : f[y] \in Nat /\ g[y] \in Nat,
           \A y \in S \ {x} : f[y] = g[y]
    PROVE  Total(S, g) = Total(S, f) - f[x] + g[x]
<1>1. Total(S \ {x}, f) = Total(S \ {x}, g)
  BY TotalSame
<1>2. Total(S \ {x}, f) = Total(S, f) - f[x] /\ Total(S \ {x}, g) = Total(S, g) - g[x]
  BY TotalRemove
<1>3. Total(S, f) \in Nat /\ Total(S, g) \in Nat
  BY TotalType
<1>4. QED
  BY <1>1, <1>2, <1>3

\* A new row adds its amount, whatever it was called before.
LEMMA TotalExtend ==
    ASSUME NEW S, IsFiniteSet(S), NEW x, x \notin S, NEW f, NEW g,
           \A y \in S : f[y] = g[y], \A y \in S \cup {x} : g[y] \in Nat
    PROVE  Total(S \cup {x}, g) = Total(S, f) + g[x]
<1>1. Total(S \cup {x}, g) = Total(S, g) + g[x]
  BY TotalAdd
<1>2. Total(S, g) = Total(S, f)
  BY TotalSame
<1>3. QED
  BY <1>1, <1>2

\* Smaller amounts have a smaller sum.
LEMMA TotalMonotone ==
    ASSUME NEW S, IsFiniteSet(S), NEW f, NEW g,
           \A y \in S : f[y] \in Nat /\ g[y] \in Nat /\ f[y] <= g[y]
    PROVE  Total(S, f) <= Total(S, g)
<1>1. Units(S, f) \subseteq Units(S, g)
  <2> SUFFICES ASSUME NEW u \in Units(S, f) PROVE u \in Units(S, g)
    OBVIOUS
  <2>1. PICK x \in S : u \in {x} \X (1 .. f[x])
    BY DEF Units
  <2>2. 1 .. f[x] \subseteq 1 .. g[x]
    OBVIOUS
  <2>3. u \in {x} \X (1 .. g[x])
    BY <2>1, <2>2
  <2>4. QED
    BY <2>3 DEF Units
<1>2. IsFiniteSet(Units(S, g))
  BY UnitsFinite
<1>3. QED
  BY <1>1, <1>2, FS_Subset DEF Total
============================================================================
