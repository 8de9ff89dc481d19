------------------------------ MODULE Counting ------------------------------
(***************************************************************************)
(* Facts the proofs need about counting: the least-number principle and    *)
(* the inductions it stands in for, sums over finite sets, and the places  *)
(* of what is put in order.                                                *)
(***************************************************************************)
EXTENDS Integers, TLAPS, FiniteSets, Functions, FiniteSetTheorems

(* A non-empty set of naturals has a least element.                        *)
LEMMA NatHasLeast ==
    ASSUME NEW S, S \subseteq Nat, S # {}
    PROVE  \E x \in S : \A y \in S : x <= y
<1> DEFINE R == OpToRel(<, Nat)
<1>1. IsWellFoundedOn(R, Nat)
  BY NatLessThanWellFounded, Zenon
<1>2. \A x, y \in Nat : x < y => <<x, y>> \in R
  BY DEF OpToRel
<1> HIDE DEF R
<1>3. PICK x \in S : \A y \in S : ~ (<<y, x>> \in R)
  BY <1>1, WFMin, Zenon
<1>4. ASSUME NEW y \in S PROVE x <= y
  <2>1. x \in Nat /\ y \in Nat
    OBVIOUS
  <2>2. ~ (y < x)
    BY <1>2, <1>3, <2>1
  <2> QED  BY <2>1, <2>2
<1> QED  BY <1>4

(* A set that has 0, and with each number the next, has them all.          *)
LEMMA ByNumber ==
    ASSUME NEW C, 0 \in C, \A n \in Nat : n \in C => n + 1 \in C
    PROVE  Nat \subseteq C
<1> SUFFICES ASSUME Nat \ C # {} PROVE FALSE
  OBVIOUS
<1>1. PICK n \in Nat \ C : \A m \in Nat \ C : n <= m
  BY NatHasLeast
<1>2. n - 1 \in Nat /\ n - 1 \in C
  BY <1>1
<1>3. n \in C
  BY <1>2
<1> QED  BY <1>1, <1>3

LEMMA OneLess ==
    ASSUME NEW S, IsFiniteSet(S), NEW x \in S
    PROVE  /\ IsFiniteSet(S \ {x}) /\ Cardinality(S) \in Nat /\ Cardinality(S \ {x}) \in Nat
           /\ Cardinality(S) = Cardinality(S \ {x}) + 1
<1>1. IsFiniteSet(S \ {x}) /\ Cardinality(S \ {x}) = Cardinality(S) - 1
  BY FS_RemoveElement
<1>2. Cardinality(S) \in Nat /\ Cardinality(S \ {x}) \in Nat
  BY <1>1, FS_CardinalityType
<1> QED  BY <1>1, <1>2

(* What a function makes of a finite set is finite.                        *)
LEMMA ImageIsFinite ==
    ASSUME NEW S, IsFiniteSet(S), NEW f, NEW T, T = {f[x] : x \in S}
    PROVE  IsFiniteSet(T) /\ Cardinality(T) <= Cardinality(S)
<1> DEFINE g == [x \in S |-> f[x]]
<1>1. g \in Surjection(S, T)
  BY DEF Surjection
<1> HIDE DEF g
<1> QED  BY <1>1, FS_Surjection

(* A collection that has each set of which it has every set of one element *)
(* less, has every finite set.                                             *)
LEMMA ByRemoval ==
    ASSUME NEW S, IsFiniteSet(S), NEW C,
           \A T \in SUBSET S : (\A x \in T : T \ {x} \in C) => T \in C
    PROVE  S \in C
<1> DEFINE D == {n \in Nat : \A T \in SUBSET S : Cardinality(T) = n => T \in C}
<1>1. \A T \in SUBSET S : IsFiniteSet(T) /\ Cardinality(T) \in Nat
  BY FS_Subset, FS_CardinalityType
<1>2. \A T \in SUBSET S : \A x \in T :
         T \ {x} \in SUBSET S /\ Cardinality(T \ {x}) \in Nat /\ Cardinality(T) = Cardinality(T \ {x}) + 1
  BY <1>1, OneLess
<1>3. 0 \in D
  <2>1. SUFFICES ASSUME NEW T \in SUBSET S, Cardinality(T) = 0 PROVE T \in C
    OBVIOUS
  <2>2. ASSUME NEW x \in T PROVE T \ {x} \in C
    <3>1. Cardinality(T \ {x}) \in Nat /\ Cardinality(T) = Cardinality(T \ {x}) + 1
      BY <1>2
    <3> QED  BY <2>1, <3>1
  <2> QED  BY <2>2
<1>4. ASSUME NEW n \in Nat, n \in D PROVE n + 1 \in D
  <2>1. SUFFICES ASSUME NEW T \in SUBSET S, Cardinality(T) = n + 1 PROVE T \in C
    OBVIOUS
  <2>2. ASSUME NEW x \in T PROVE T \ {x} \in C
    <3>1. T \ {x} \in SUBSET S /\ Cardinality(T \ {x}) = n
      BY <1>2, <2>1
    <3> QED  BY <1>4, <3>1
  <2> QED  BY <2>2
<1> HIDE DEF D
<1>5. Cardinality(S) \in D
  BY <1>1, <1>3, <1>4, ByNumber
<1> QED  BY <1>5 DEF D

(* A collection that has the empty set, and with each set the set and one  *)
(* element more, has every finite set.                                     *)
LEMMA ByElement ==
    ASSUME NEW S, IsFiniteSet(S), NEW C, {} \in C,
           \A T \in SUBSET S : \A x \in S \ T : T \in C => T \cup {x} \in C
    PROVE  S \in C
<1>1. ASSUME NEW T \in SUBSET S, \A x \in T : T \ {x} \in C PROVE T \in C
  <2>1. CASE T = {}
    BY <2>1
  <2>2. CASE T # {}
    <3>1. PICK x : x \in T
      BY <2>2
    <3>2. T \ {x} \in SUBSET S /\ x \in S \ (T \ {x}) /\ T \ {x} \in C
      BY <1>1, <3>1
    <3>3. (T \ {x}) \cup {x} \in C /\ (T \ {x}) \cup {x} = T
      BY <3>1, <3>2
    <3> QED  BY <3>3
  <2> QED  BY <2>1, <2>2
<1> QED  BY <1>1, ByRemoval

-----------------------------------------------------------------------------
(* Sums.  A fold takes one element after the other out of the set.         *)
Picked(s) == CHOOSE x \in s : TRUE
FoldStep(f, it, s) == IF s = {} THEN 0 ELSE f[Picked(s)] + it[s \ {Picked(s)}]
Folds(it, f, S) == it = [s \in SUBSET S |-> FoldStep(f, it, s)]
Sum(f, S) == SumFunctionOnSet(f, S)

LEMMA FoldExists ==
    ASSUME NEW f, NEW S, IsFiniteSet(S)
    PROVE  \E it : Folds(it, f, S)
<1> DEFINE Upto(it, n) == \A s \in SUBSET S : Cardinality(s) <= n => it[s] = FoldStep(f, it, s)
           D == {n \in Nat : \E it : Upto(it, n)}
<1>1. \A s \in SUBSET S : IsFiniteSet(s) /\ Cardinality(s) \in Nat /\ (Cardinality(s) = 0 <=> s = {})
  BY FS_Subset, FS_CardinalityType, FS_EmptySet
<1>2. \A s \in SUBSET S : s # {} => /\ s \ {Picked(s)} \in SUBSET S
                                    /\ Cardinality(s \ {Picked(s)}) = Cardinality(s) - 1
  <2>1. SUFFICES ASSUME NEW s \in SUBSET S, s # {}
                 PROVE  Cardinality(s \ {Picked(s)}) = Cardinality(s) - 1
    OBVIOUS
  <2>2. Picked(s) \in s
    BY <2>1 DEF Picked
  <2> QED  BY <1>1, <2>2, FS_RemoveElement
<1>3. 0 \in D
  <2> DEFINE it == [s \in SUBSET S |-> 0]
  <2>1. \A s \in SUBSET S : Cardinality(s) <= 0 => it[s] = FoldStep(f, it, s)
    BY <1>1 DEF FoldStep
  <2> HIDE DEF it
  <2> QED  BY <2>1
<1>4. ASSUME NEW n \in Nat, n \in D PROVE n + 1 \in D
  <2>1. PICK it : Upto(it, n)
    BY <1>4
  <2> DEFINE jt == [s \in SUBSET S |-> IF Cardinality(s) <= n THEN it[s] ELSE FoldStep(f, it, s)]
  <2>2. \A s \in SUBSET S : jt[s] = IF Cardinality(s) <= n THEN it[s] ELSE FoldStep(f, it, s)
    OBVIOUS
  <2> HIDE DEF jt
  <2>3. ASSUME NEW s \in SUBSET S, Cardinality(s) <= n + 1 PROVE jt[s] = FoldStep(f, jt, s)
    <3>1. jt[s] = FoldStep(f, it, s)
      BY <2>1, <2>2
    <3>2. CASE s = {}
      BY <3>1, <3>2 DEF FoldStep
    <3>3. CASE s # {}
      <4> DEFINE t == s \ {Picked(s)}
      <4>1. t \in SUBSET S /\ Cardinality(t) <= n
        BY <1>1, <1>2, <2>3, <3>3
      <4>2. jt[t] = it[t]
        BY <2>2, <4>1
      <4> QED  BY <3>1, <3>3, <4>2 DEF FoldStep
    <3> QED  BY <3>2, <3>3
  <2> QED  BY <2>3
<1>5. PICK it : Upto(it, Cardinality(S))
  <2>1. \A n \in Nat : n \in D => n + 1 \in D
    BY <1>4
  <2> HIDE DEF D
  <2>2. Cardinality(S) \in D
    BY <1>1, <1>3, <2>1, ByNumber
  <2> QED  BY <2>2 DEF D
<1> DEFINE jt == [s \in SUBSET S |-> it[s]]
<1>6. ASSUME NEW s \in SUBSET S PROVE jt[s] = FoldStep(f, jt, s)
  <2>1. jt[s] = FoldStep(f, it, s)
    BY <1>1, <1>5, FS_Subset
  <2>2. s # {} => jt[s \ {Picked(s)}] = it[s \ {Picked(s)}]
    BY <1>2
  <2> QED  BY <2>1, <2>2 DEF FoldStep
<1>7. jt = [s \in SUBSET S |-> jt[s]]
  OBVIOUS
<1> HIDE DEF jt
<1>8. jt = [s \in SUBSET S |-> FoldStep(f, jt, s)]
  BY <1>6, <1>7
<1> QED  BY <1>8 DEF Folds

LEMMA FoldsAgree ==
    ASSUME NEW S, NEW T, NEW f, NEW g, NEW it, NEW jt, Folds(it, f, S), Folds(jt, g, T),
           NEW U, IsFiniteSet(U), U \subseteq S, U \subseteq T, \A x \in U : f[x] = g[x]
    PROVE  it[U] = jt[U]
<1> DEFINE C == {s \in SUBSET U : it[s] = jt[s]}
<1>1. \A s \in SUBSET U : it[s] = FoldStep(f, it, s) /\ jt[s] = FoldStep(g, jt, s)
  BY DEF Folds
<1>2. ASSUME NEW s \in SUBSET U, \A x \in s : s \ {x} \in C PROVE s \in C
  <2>1. CASE s = {}
    BY <1>1, <2>1 DEF FoldStep
  <2>2. CASE s # {}
    <3>1. PICK p \in s : p = Picked(s)
      BY <2>2 DEF Picked
    <3>2. it[s \ {p}] = jt[s \ {p}] /\ f[p] = g[p]
      BY <1>2, <3>1
    <3> QED  BY <1>1, <2>2, <3>1, <3>2 DEF FoldStep
  <2> QED  BY <2>1, <2>2
<1> HIDE DEF C
<1>3. U \in C
  BY <1>2, ByRemoval
<1> QED  BY <1>3 DEF C

(* What a sum is: a fold, of which there is one.                           *)
LEMMA SumFolds ==
    ASSUME NEW f, NEW S, IsFiniteSet(S)
    PROVE  \E it : Folds(it, f, S) /\ Sum(f, S) = it[S]
<1> DEFINE Iter == CHOOSE it : it = [s \in SUBSET S |->
                      IF s = {} THEN 0 ELSE f[CHOOSE x \in s : TRUE] + it[s \ {CHOOSE x \in s : TRUE}]]
<1>1. Sum(f, S) = Iter[S]
  BY DEF Sum, SumFunctionOnSet, FoldFunctionOnSet, MapThenFoldSet
<1>2. PICK it : it = [s \in SUBSET S |->
                      IF s = {} THEN 0 ELSE f[CHOOSE x \in s : TRUE] + it[s \ {CHOOSE x \in s : TRUE}]]
  <2>1. \E it : Folds(it, f, S)
    BY FoldExists
  <2> QED  BY <2>1 DEF Folds, FoldStep, Picked
<1>3. Iter = [s \in SUBSET S |->
                      IF s = {} THEN 0 ELSE f[CHOOSE x \in s : TRUE] + Iter[s \ {CHOOSE x \in s : TRUE}]]
  BY <1>2
<1>4. Folds(Iter, f, S)
  BY <1>3 DEF Folds, FoldStep, Picked
<1> QED  BY <1>1, <1>4

LEMMA SumAgrees ==
    ASSUME NEW f, NEW g, NEW S, IsFiniteSet(S), \A x \in S : f[x] = g[x]
    PROVE  Sum(f, S) = Sum(g, S)
BY SumFolds, FoldsAgree

LEMMA SumEmpty == ASSUME NEW f PROVE Sum(f, {}) = 0
<1>1. PICK it : Folds(it, f, {}) /\ Sum(f, {}) = it[{}]
  BY SumFolds, FS_EmptySet
<1> QED  BY <1>1 DEF Folds, FoldStep

LEMMA SumPicks ==
    ASSUME NEW f, NEW S, IsFiniteSet(S), S # {}
    PROVE  \E p \in S : Sum(f, S) = f[p] + Sum(f, S \ {p})
<1>1. PICK p : p = Picked(S)
  OBVIOUS
<1>2. p \in S
  BY <1>1 DEF Picked
<1>3. IsFiniteSet(S \ {p})
  BY FS_RemoveElement
<1>4. PICK it : Folds(it, f, S) /\ Sum(f, S) = it[S]
  BY SumFolds
<1>5. PICK jt : Folds(jt, f, S \ {p}) /\ Sum(f, S \ {p}) = jt[S \ {p}]
  BY <1>3, SumFolds
<1>6. it[S] = f[p] + it[S \ {p}]
  BY <1>1, <1>4 DEF Folds, FoldStep
<1>7. it[S \ {p}] = jt[S \ {p}]
  BY <1>3, <1>4, <1>5, FoldsAgree
<1> QED  BY <1>2, <1>4, <1>5, <1>6, <1>7

LEMMA SumType ==
    ASSUME NEW f, NEW S, IsFiniteSet(S), \A x \in S : f[x] \in Int
    PROVE  Sum(f, S) \in Int
<1> DEFINE C == {T \in SUBSET S : Sum(f, T) \in Int}
<1>1. ASSUME NEW T \in SUBSET S, \A x \in T : T \ {x} \in C PROVE T \in C
  <2>1. CASE T = {}
    BY <2>1, SumEmpty
  <2>2. CASE T # {}
    <3>1. IsFiniteSet(T)
      BY FS_Subset
    <3>2. PICK p \in T : Sum(f, T) = f[p] + Sum(f, T \ {p})
      BY <2>2, <3>1, SumPicks
    <3>3. Sum(f, T \ {p}) \in Int /\ f[p] \in Int
      BY <1>1, <3>2
    <3> QED  BY <3>2, <3>3
  <2> QED  BY <2>1, <2>2
<1> HIDE DEF C
<1>2. S \in C
  BY <1>1, ByRemoval
<1> QED  BY <1>2 DEF C

(* Any element may be taken first.                                         *)
LEMMA SumTakes ==
    ASSUME NEW f, NEW S, IsFiniteSet(S), \A x \in S : f[x] \in Int, NEW e \in S
    PROVE  Sum(f, S) = f[e] + Sum(f, S \ {e})
<1> DEFINE C == {T \in SUBSET S : \A x \in T : Sum(f, T) = f[x] + Sum(f, T \ {x})}
<1>1. \A T \in SUBSET S : IsFiniteSet(T) /\ Sum(f, T) \in Int
  BY FS_Subset, SumType
<1>2. ASSUME NEW T \in SUBSET S, \A x \in T : T \ {x} \in C, NEW x \in T
      PROVE  Sum(f, T) = f[x] + Sum(f, T \ {x})
  <2>1. PICK p \in T : Sum(f, T) = f[p] + Sum(f, T \ {p})
    BY <1>1, SumPicks
  <2>2. CASE p = x
    BY <2>1, <2>2
  <2>3. CASE p # x
    <3>1. x \in T \ {p} /\ T \ {p} \in C /\ p \in T \ {x} /\ T \ {x} \in C
      BY <1>2, <2>3
    <3>2. Sum(f, T \ {p}) = f[x] + Sum(f, (T \ {p}) \ {x})
      BY <3>1
    <3>3. Sum(f, T \ {x}) = f[p] + Sum(f, (T \ {x}) \ {p})
      BY <3>1
    <3>4. (T \ {p}) \ {x} = (T \ {x}) \ {p} /\ (T \ {x}) \ {p} \in SUBSET S
      OBVIOUS
    <3>5. f[x] \in Int /\ f[p] \in Int
      OBVIOUS
    <3>6. PICK r \in Int : r = Sum(f, (T \ {x}) \ {p})
      BY <1>1, <3>4
    <3>7. Sum(f, T \ {p}) = f[x] + r /\ Sum(f, T \ {x}) = f[p] + r
      BY <3>2, <3>3, <3>4, <3>6
    <3> QED  BY <2>1, <3>5, <3>7
  <2> QED  BY <2>2, <2>3
<1>3. ASSUME NEW T \in SUBSET S, \A x \in T : T \ {x} \in C PROVE T \in C
  BY <1>2, <1>3
<1> HIDE DEF C
<1>4. S \in C
  BY <1>3, ByRemoval
<1> QED  BY <1>4 DEF C

LEMMA SumAdds ==
    ASSUME NEW f, NEW S, IsFiniteSet(S), NEW e, e \notin S, \A x \in S \cup {e} : f[x] \in Int
    PROVE  Sum(f, S \cup {e}) = f[e] + Sum(f, S)
<1>1. IsFiniteSet(S \cup {e}) /\ (S \cup {e}) \ {e} = S
  BY FS_AddElement
<1>2. Sum(f, S \cup {e}) = f[e] + Sum(f, (S \cup {e}) \ {e})
  BY <1>1, SumTakes
<1> QED  BY <1>1, <1>2

LEMMA SumOfOne == ASSUME NEW f, NEW e, f[e] \in Int PROVE Sum(f, {e}) = f[e]
<1>1. IsFiniteSet({}) /\ {} \cup {e} = {e} /\ Sum(f, {}) = 0
  BY FS_EmptySet, SumEmpty
<1>2. Sum(f, {} \cup {e}) = f[e] + Sum(f, {})
  BY <1>1, SumAdds
<1> QED  BY <1>1, <1>2

(* A set in two parts.                                                     *)
LEMMA SumParts ==
    ASSUME NEW f, NEW S, NEW T, IsFiniteSet(S), IsFiniteSet(T), S \cap T = {},
           \A x \in S \cup T : f[x] \in Int
    PROVE  Sum(f, S \cup T) = Sum(f, S) + Sum(f, T)
<1> DEFINE C == {U \in SUBSET T : Sum(f, S \cup U) = Sum(f, S) + Sum(f, U)}
<1>1. Sum(f, S) \in Int /\ \A U \in SUBSET T : IsFiniteSet(U) /\ Sum(f, U) \in Int
  BY FS_Subset, SumType
<1>2. {} \in C
  BY <1>1, SumEmpty
<1>3. ASSUME NEW U \in SUBSET T, NEW x \in T \ U, U \in C PROVE U \cup {x} \in C
  <2>1. Sum(f, U \cup {x}) = f[x] + Sum(f, U)
    BY <1>1, SumAdds
  <2>2. Sum(f, (S \cup U) \cup {x}) = f[x] + Sum(f, S \cup U)
    <3>1. IsFiniteSet(S \cup U) /\ x \notin S \cup U
      BY <1>1, FS_Union
    <3> QED  BY <3>1, SumAdds
  <2>3. (S \cup U) \cup {x} = S \cup (U \cup {x}) /\ Sum(f, S \cup U) = Sum(f, S) + Sum(f, U)
    BY <1>3
  <2>4. PICK a \in Int, b \in Int : a = Sum(f, S) /\ b = Sum(f, U)
    BY <1>1
  <2>5. Sum(f, S \cup (U \cup {x})) = f[x] + (a + b) /\ Sum(f, U \cup {x}) = f[x] + b /\ f[x] \in Int
    BY <2>1, <2>2, <2>3, <2>4
  <2>6. Sum(f, S \cup (U \cup {x})) = a + (f[x] + b)
    BY <2>4, <2>5
  <2> QED  BY <2>4, <2>5, <2>6
<1> HIDE DEF C
<1>4. T \in C
  BY <1>2, <1>3, ByElement
<1> QED  BY <1>4 DEF C

(* Sums of naturals.                                                       *)
LEMMA SumNat ==
    ASSUME NEW f, NEW S, IsFiniteSet(S), \A x \in S : f[x] \in Nat
    PROVE  Sum(f, S) \in Nat
<1> DEFINE C == {T \in SUBSET S : Sum(f, T) \in Nat}
<1>1. {} \in C
  BY SumEmpty
<1>2. ASSUME NEW T \in SUBSET S, NEW x \in S \ T, T \in C PROVE T \cup {x} \in C
  <2>1. IsFiniteSet(T)
    BY FS_Subset
  <2>2. Sum(f, T \cup {x}) = f[x] + Sum(f, T)
    BY <2>1, SumAdds
  <2>3. f[x] \in Nat /\ Sum(f, T) \in Nat
    BY <1>2
  <2>4. f[x] + Sum(f, T) \in Nat
    BY <2>3
  <2> QED  BY <2>2, <2>4
<1> HIDE DEF C
<1>3. S \in C
  BY <1>1, <1>2, ByElement
<1> QED  BY <1>3 DEF C

LEMMA SumOfPart ==
    ASSUME NEW f, NEW S, IsFiniteSet(S), \A x \in S : f[x] \in Nat, NEW T \in SUBSET S
    PROVE  Sum(f, T) \in Nat /\ Sum(f, S) \in Nat /\ Sum(f, T) <= Sum(f, S)
<1>1. IsFiniteSet(T) /\ IsFiniteSet(S \ T) /\ T \cap (S \ T) = {} /\ T \cup (S \ T) = S
  BY FS_Subset
<1>2. Sum(f, T \cup (S \ T)) = Sum(f, T) + Sum(f, S \ T)
  BY <1>1, SumParts
<1>3. PICK a \in Nat, b \in Nat : a = Sum(f, T) /\ b = Sum(f, S \ T)
  BY <1>1, SumNat
<1>4. Sum(f, S) = a + b
  BY <1>1, <1>2, <1>3
<1> QED  BY <1>3, <1>4

(* A set by groups: h says which group an element is of.                   *)
LEMMA SumGroups ==
    ASSUME NEW f, NEW h, NEW S, NEW K, IsFiniteSet(S), IsFiniteSet(K),
           \A x \in S : f[x] \in Int /\ h[x] \in K
    PROVE  Sum(f, S) = Sum([k \in K |-> Sum(f, {x \in S : h[x] = k})], K)
<1> DEFINE Own(T, k) == {x \in T : h[x] = k}
           G(T) == [k \in K |-> Sum(f, Own(T, k))]
           C == {T \in SUBSET S : Sum(f, T) = Sum(G(T), K)}
<1>1. \A T \in SUBSET S : /\ IsFiniteSet(T) /\ Sum(f, T) \in Int
                          /\ \A k \in K : IsFiniteSet(Own(T, k)) /\ Sum(f, Own(T, k)) \in Int
  <2>1. \A T \in SUBSET S : IsFiniteSet(T) /\ Sum(f, T) \in Int
    BY FS_Subset, SumType
  <2>2. \A T \in SUBSET S : \A k \in K : Own(T, k) \in SUBSET S
    OBVIOUS
  <2> HIDE DEF Own
  <2> QED  BY <2>1, <2>2
<1>2. {} \in C
  <2>1. \A k \in K : Own({}, k) = {}
    OBVIOUS
  <2>2. \A k \in K : G({})[k] = 0
    BY <2>1, SumEmpty
  <2> DEFINE Z == {U \in SUBSET K : Sum(G({}), U) = 0}
  <2>3. {} \in Z
    BY SumEmpty
  <2>4. ASSUME NEW U \in SUBSET K, NEW k \in K \ U, U \in Z PROVE U \cup {k} \in Z
    <3>1. Sum(G({}), U \cup {k}) = G({})[k] + Sum(G({}), U)
      <4>1. IsFiniteSet(U) /\ \A x \in U \cup {k} : G({})[x] \in Int
        BY <2>2, FS_Subset
      <4> HIDE DEF G
      <4> QED  BY <4>1, SumAdds
    <3> QED  BY <2>2, <2>4, <3>1
  <2> HIDE DEF Z
  <2>5. K \in Z
    BY <2>3, <2>4, ByElement
  <2>6. Sum(G({}), K) = 0 /\ Sum(f, {}) = 0
    BY <2>5, SumEmpty DEF Z
  <2> HIDE DEF G
  <2> QED  BY <2>6
<1>3. ASSUME NEW T \in SUBSET S, NEW e \in S \ T, T \in C PROVE T \cup {e} \in C
  <2> DEFINE V == T \cup {e}
             j == h[e]
             g == G(T)
             u == G(V)
  <2>1. j \in K /\ f[e] \in Int /\ V \in SUBSET S
    OBVIOUS
  <2>2. Sum(f, V) = f[e] + Sum(f, T)
    BY <1>1, SumAdds
  <2>3. \A k \in K \ {j} : Own(V, k) = Own(T, k)
    OBVIOUS
  <2>4. Own(V, j) = Own(T, j) \cup {e} /\ e \notin Own(T, j)
    OBVIOUS
  <2>5. Sum(f, Own(V, j)) = f[e] + Sum(f, Own(T, j))
    <3>1. \A x \in Own(T, j) \cup {e} : f[x] \in Int
      OBVIOUS
    <3>2. IsFiniteSet(Own(T, j))
      BY <1>1, <2>1
    <3> HIDE DEF Own, j
    <3> QED  BY <2>4, <3>1, <3>2, SumAdds
  <2>6. /\ \A k \in K : g[k] \in Int /\ u[k] \in Int
        /\ \A k \in K \ {j} : u[k] = g[k]
        /\ u[j] = f[e] + g[j]
    BY <1>1, <2>1, <2>3, <2>5
  <2> HIDE DEF g, u, V, j
  <2>7. Sum(g, K) = g[j] + Sum(g, K \ {j}) /\ Sum(u, K) = u[j] + Sum(u, K \ {j})
    BY <2>1, <2>6, SumTakes
  <2>8. IsFiniteSet(K \ {j})
    BY FS_Subset
  <2>9. Sum(u, K \ {j}) = Sum(g, K \ {j}) /\ Sum(g, K \ {j}) \in Int
    BY <2>6, <2>8, SumAgrees, SumType
  <2>10. PICK a \in Int, b \in Int : a = g[j] /\ b = Sum(g, K \ {j})
    BY <2>1, <2>6, <2>9
  <2>11. Sum(f, T) = a + b
    BY <1>3, <2>7, <2>10 DEF g
  <2>12. Sum(f, V) = f[e] + (a + b) /\ Sum(u, K) = (f[e] + a) + b
    BY <2>2, <2>6, <2>7, <2>9, <2>10, <2>11
  <2>13. Sum(f, V) = Sum(u, K)
    BY <2>1, <2>12
  <2> QED  BY <2>1, <2>13 DEF u, V
<1> HIDE DEF C
<1>4. S \in C
  BY <1>2, <1>3, ByElement
<1> QED  BY <1>4 DEF C

(* A set by another name: h names each of its elements once.               *)
LEMMA SumRenamed ==
    ASSUME NEW f, NEW h, NEW S, NEW T, IsFiniteSet(S), T = {h[x] : x \in S},
           \A x, y \in S : h[x] = h[y] => x = y, \A t \in T : f[t] \in Int
    PROVE  Sum(f, T) = Sum([x \in S |-> f[h[x]]], S)
<1> DEFINE g == [x \in S |-> f[h[x]]]
           Img(U) == {h[x] : x \in U}
           C == {U \in SUBSET S : IsFiniteSet(Img(U)) /\ Sum(f, Img(U)) = Sum(g, U)}
<1>1. \A x \in S : g[x] = f[h[x]] /\ g[x] \in Int
  OBVIOUS
<1> HIDE DEF g
<1>2. {} \in C
  <2>1. Img({}) = {}
    OBVIOUS
  <2> QED  BY <2>1, SumEmpty, FS_EmptySet
<1>3. ASSUME NEW U \in SUBSET S, NEW x \in S \ U, U \in C PROVE U \cup {x} \in C
  <2>1. Img(U \cup {x}) = Img(U) \cup {h[x]} /\ h[x] \notin Img(U)
    OBVIOUS
  <2>2. \A t \in Img(U) \cup {h[x]} : f[t] \in Int
    OBVIOUS
  <2>3. IsFiniteSet(Img(U)) /\ Sum(f, Img(U)) = Sum(g, U)
    BY <1>3
  <2> HIDE DEF Img
  <2>4. IsFiniteSet(Img(U \cup {x}))
    <3>1. IsFiniteSet(Img(U) \cup {h[x]})
      BY <2>3, FS_AddElement
    <3> QED  BY <2>1, <3>1
  <2>5. Sum(f, Img(U \cup {x})) = f[h[x]] + Sum(f, Img(U))
    BY <2>1, <2>2, <2>3, SumAdds
  <2>6. Sum(g, U \cup {x}) = g[x] + Sum(g, U)
    <3>1. IsFiniteSet(U) /\ \A y \in U \cup {x} : g[y] \in Int
      BY <1>1, FS_Subset
    <3> QED  BY <3>1, SumAdds
  <2>7. Sum(f, Img(U \cup {x})) = Sum(g, U \cup {x})
    BY <1>1, <2>3, <2>5, <2>6
  <2> QED  BY <2>4, <2>7
<1> HIDE DEF C
<1>4. S \in C
  BY <1>2, <1>3, ByElement
<1>5. Img(S) = T
  OBVIOUS
<1> QED  BY <1>4, <1>5 DEF C, g

(* A sum of ones counts them.                                              *)
LEMMA SumOfOnes ==
    ASSUME NEW f, NEW S, IsFiniteSet(S), \A x \in S : f[x] \in {0, 1}
    PROVE  Sum(f, S) = Cardinality({x \in S : f[x] = 1})
<1> DEFINE N(T) == {x \in T : f[x] = 1}
           C == {T \in SUBSET S : Sum(f, T) = Cardinality(N(T))}
<1>1. {} \in C
  <2>1. N({}) = {}
    OBVIOUS
  <2> QED  BY <2>1, SumEmpty, FS_EmptySet
<1>2. ASSUME NEW T \in SUBSET S, NEW x \in S \ T, T \in C PROVE T \cup {x} \in C
  <2>1. IsFiniteSet(T) /\ IsFiniteSet(N(T))
    BY FS_Subset
  <2>2. Sum(f, T \cup {x}) = f[x] + Sum(f, T) /\ Sum(f, T) = Cardinality(N(T))
    BY <1>2, <2>1, SumAdds
  <2>3. PICK n \in Nat : n = Cardinality(N(T))
    BY <2>1, FS_CardinalityType
  <2>4. CASE f[x] = 1
    <3>1. N(T \cup {x}) = N(T) \cup {x} /\ x \notin N(T)
      BY <2>4
    <3> HIDE DEF N
    <3>2. Cardinality(N(T) \cup {x}) = n + 1
      BY <2>1, <2>3, <3>1, FS_AddElement
    <3>3. Sum(f, T \cup {x}) = 1 + n
      BY <2>2, <2>3, <2>4
    <3>4. Sum(f, T \cup {x}) = Cardinality(N(T \cup {x}))
      BY <3>1, <3>2, <3>3
    <3> QED  BY <3>4
  <2>5. CASE f[x] = 0
    <3>1. N(T \cup {x}) = N(T)
      BY <2>5
    <3> HIDE DEF N
    <3> QED  BY <2>2, <2>3, <2>5, <3>1
  <2> QED  BY <2>4, <2>5
<1> HIDE DEF C
<1>3. S \in C
  BY <1>1, <1>2, ByElement
<1> QED  BY <1>3 DEF C

-----------------------------------------------------------------------------
(* Order.  R puts the elements of S one before the other; the place of one *)
(* is how many come before.                                                *)
Orders(R, S) ==
    /\ \A x \in S : <<x, x>> \notin R
    /\ \A x, y \in S : x = y \/ <<x, y>> \in R \/ <<y, x>> \in R
    /\ \A x, y, z \in S : <<x, y>> \in R /\ <<y, z>> \in R => <<x, z>> \in R
Ahead(S, R, x) == {y \in S : <<y, x>> \in R}
Place(S, R, x) == Cardinality(Ahead(S, R, x))

LEMMA PlacesDiffer ==
    ASSUME NEW S, NEW R, IsFiniteSet(S), Orders(R, S), NEW x \in S, NEW y \in S, <<x, y>> \in R
    PROVE  Place(S, R, x) < Place(S, R, y)
<1>1. /\ Ahead(S, R, x) \subseteq Ahead(S, R, y) /\ x \in Ahead(S, R, y) /\ x \notin Ahead(S, R, x)
      /\ Ahead(S, R, y) \in SUBSET S
  BY DEF Orders, Ahead
<1>2. IsFiniteSet(Ahead(S, R, y)) /\ IsFiniteSet(Ahead(S, R, x))
  BY <1>1, FS_Subset
<1>3. Place(S, R, x) <= Place(S, R, y) /\ Place(S, R, x) # Place(S, R, y)
  BY <1>1, <1>2, FS_Subset DEF Place
<1>4. Place(S, R, x) \in Nat /\ Place(S, R, y) \in Nat
  BY <1>2, FS_CardinalityType DEF Place
<1> QED  BY <1>3, <1>4

(* The places are the numbers below the size of S, each taken once.        *)
LEMMA PlacesAreAll ==
    ASSUME NEW S, NEW R, IsFiniteSet(S), Orders(R, S)
    PROVE  /\ \A x \in S : Place(S, R, x) \in 0 .. (Cardinality(S) - 1)
           /\ \A x, y \in S : <<x, y>> \in R <=> Place(S, R, x) < Place(S, R, y)
           /\ \A x, y \in S : Place(S, R, x) = Place(S, R, y) => x = y
           /\ \A i \in 0 .. (Cardinality(S) - 1) : \E x \in S : Place(S, R, x) = i
<1> DEFINE n == Cardinality(S)
<1>1. n \in Nat
  BY FS_CardinalityType
<1>2. ASSUME NEW x \in S PROVE Place(S, R, x) \in 0 .. (n - 1)
  <2>1. Ahead(S, R, x) \in SUBSET S /\ Ahead(S, R, x) # S
    BY DEF Ahead, Orders
  <2>2. Cardinality(Ahead(S, R, x)) <= n /\ n # Cardinality(Ahead(S, R, x))
    BY <2>1, FS_Subset
  <2>3. Cardinality(Ahead(S, R, x)) \in Nat
    BY <2>1, FS_Subset, FS_CardinalityType
  <2> QED  BY <1>1, <2>2, <2>3 DEF Place
<1>3. ASSUME NEW x \in S, NEW y \in S PROVE <<x, y>> \in R <=> Place(S, R, x) < Place(S, R, y)
  <2>1. Place(S, R, x) \in Nat /\ Place(S, R, y) \in Nat
    BY <1>1, <1>2
  <2>2. CASE <<x, y>> \in R
    BY <2>2, PlacesDiffer
  <2>3. CASE <<y, x>> \in R
    <3>1. Place(S, R, y) < Place(S, R, x) /\ ~(<<x, y>> \in R)
      BY <2>3, PlacesDiffer DEF Orders
    <3> QED  BY <2>1, <3>1
  <2>4. CASE x = y
    BY <2>1, <2>4 DEF Orders
  <2> QED  BY <2>2, <2>3, <2>4 DEF Orders
<1>4. ASSUME NEW x \in S, NEW y \in S, Place(S, R, x) = Place(S, R, y) PROVE x = y
  <2>1. Place(S, R, x) \in Nat /\ Place(S, R, y) \in Nat
    BY <1>1, <1>2
  <2> QED  BY <1>3, <1>4, <2>1 DEF Orders
<1>5. ASSUME NEW i \in 0 .. (n - 1) PROVE \E x \in S : Place(S, R, x) = i
  <2> DEFINE f == [x \in S |-> Place(S, R, x)]
             T == 0 .. (n - 1)
  <2>1. f \in Injection(S, T)
    <3>1. f \in [S -> T]
      BY <1>2
    <3> QED  BY <1>4, <3>1 DEF Injection, IsInjective
  <2>2. IsFiniteSet(T) /\ Cardinality(T) = n
    BY <1>1, FS_Interval
  <2>3. f \in Surjection(S, T)
    BY <2>1, <2>2, FS_Injection
  <2> QED  BY <2>3 DEF Surjection
<1> QED  BY <1>2, <1>3, <1>4, <1>5

(* As many as k have a place below k.                                      *)
LEMMA PlacesBelow ==
    ASSUME NEW S, NEW R, IsFiniteSet(S), Orders(R, S), NEW k \in 0 .. Cardinality(S)
    PROVE  Cardinality({x \in S : Place(S, R, x) < k}) = k
<1> DEFINE U == {x \in S : Place(S, R, x) < k}
           T == 0 .. (k - 1)
           f == [x \in U |-> Place(S, R, x)]
<1>1. Cardinality(S) \in Nat /\ k \in Nat
  BY FS_CardinalityType
<1>2. IsFiniteSet(U) /\ IsFiniteSet(T) /\ Cardinality(T) = k
  <2>1. IsFiniteSet(U)
    BY FS_Subset
  <2>2. PICK m \in Int : m = k - 1
    BY <1>1
  <2>3. IsFiniteSet(0 .. m) /\ Cardinality(0 .. m) = IF 0 > m THEN 0 ELSE m - 0 + 1
    BY FS_Interval
  <2>4. Cardinality(0 .. m) = k
    BY <1>1, <2>2, <2>3
  <2> QED  BY <2>1, <2>2, <2>3, <2>4
<1>3. f \in [U -> T]
  BY <1>1, PlacesAreAll
<1>4. f \in Injection(U, T)
  BY <1>3, PlacesAreAll DEF Injection, IsInjective
<1>5. f \in Surjection(U, T)
  <2>1. ASSUME NEW i \in T PROVE \E x \in U : f[x] = i
    <3>1. i \in 0 .. (Cardinality(S) - 1) /\ i < k
      BY <1>1
    <3>2. PICK x \in S : Place(S, R, x) = i
      BY <3>1, PlacesAreAll
    <3> QED  BY <3>1, <3>2
  <2> QED  BY <1>3, <2>1 DEF Surjection
<1> HIDE DEF f, T, U
<1>6. Cardinality(U) = Cardinality(T)
  BY <1>2, <1>4, <1>5, FS_Injection
<1> QED  BY <1>2, <1>6 DEF U
=============================================================================
