----------------------------- MODULE SumTheorems -----------------------------
(***************************************************************************)
(* The sum of a function over a finite set, SumFunction of the community   *)
(* modules: that it is a number, and how it changes with one value.        *)
(*                                                                         *)
(* SumFunction iterates a recursive function over the subsets of the       *)
(* domain.  That this function exists, and that the order does not matter, *)
(* is shown by taking a smallest set for which it fails: the well-founded  *)
(* order gives a least element of a set of numbers, so no induction        *)
(* theorem with an operator parameter is needed.                           *)
(***************************************************************************)
EXTENDS Naturals, FiniteSets, Functions, FiniteSetTheorems, WellFoundedInduction, TLAPS

\* A set of numbers that is not empty has a least element.
LEMMA LeastNumber ==
    ASSUME NEW T \in SUBSET Nat, T # {}
    PROVE  \E n \in T : \A m \in T : n <= m
<1> DEFINE Less == {ss \in Nat \X Nat : ss[1] < ss[2]}
<1>1. OpToRel(<, Nat) = Less
  BY Zenon DEF OpToRel
<1>2. IsWellFoundedOn(Less, Nat)
  BY <1>1, NatLessThanWellFounded, Zenon
<1>4. ASSUME NEW m \in Nat, NEW n \in Nat, m < n PROVE <<m, n>> \in Less
  <2>1. <<m, n>> \in Nat \X Nat /\ <<m, n>>[1] < <<m, n>>[2]
    BY <1>4
  <2> QED BY <2>1, Zenon
<1> HIDE DEF Less
<1>3. PICK n \in T : \A m \in T : ~(<<m, n>> \in Less)
  BY <1>2, WFMin, Zenon
<1>5. ASSUME NEW m \in T PROVE n <= m
  <2>1. m \in Nat /\ n \in Nat /\ ~(<<m, n>> \in Less)
    BY <1>3
  <2>2. ~(m < n)
    BY <1>4, <2>1, Zenon
  <2> QED BY <2>1, <2>2
<1> QED BY <1>5

\* Of finite sets of which there is one, one has the fewest elements.
LEMMA SmallestSet ==
    ASSUME NEW Bad, Bad # {}, \A s \in Bad : IsFiniteSet(s)
    PROVE  \E s \in Bad : \A t \in Bad : Cardinality(s) <= Cardinality(t)
<1> DEFINE Sizes == {Cardinality(s) : s \in Bad}
<1>1. Sizes \in SUBSET Nat /\ Sizes # {}
  BY FS_CardinalityType
<1>2. PICK n \in Sizes : \A m \in Sizes : n <= m
  BY <1>1, LeastNumber
<1> QED BY <1>2

-----------------------------------------------------------------------------
(* The recursive function behind SumFunctionOnSet.                         *)

Chosen(s) == CHOOSE x \in s : TRUE

\* iter sums f over the sets of D, which a set leaves only for smaller ones.
SumsOver(iter, f, D) ==
    iter = [s \in D |-> IF s = {} THEN 0 ELSE f[Chosen(s)] + iter[s \ {Chosen(s)}]]

\* Such a function exists for the subsets of a finite set.
LEMMA SumsExist ==
    ASSUME NEW f, NEW S, IsFiniteSet(S)
    PROVE  \E iter : SumsOver(iter, f, SUBSET S)
<1> DEFINE D(n) == {s \in SUBSET S : Cardinality(s) <= n}
           Bad == {n \in Nat : ~ \E iter : SumsOver(iter, f, D(n))}
<1>0. \A s \in SUBSET S : IsFiniteSet(s) /\ Cardinality(s) \in Nat
  BY FS_Subset, FS_CardinalityType
<1>1. ASSUME Bad # {} PROVE FALSE
  <2>1. PICK n \in Bad : \A m \in Bad : n <= m
    BY <1>1, LeastNumber
  <2>2. CASE n = 0
    <3>1. D(0) = {{}}
      <4>1. \A s \in SUBSET S : Cardinality(s) <= 0 <=> s = {}
        BY <1>0, FS_EmptySet
      <4> QED BY <4>1
    <3>2. SumsOver([s \in D(0) |-> 0], f, D(0))
      BY <3>1 DEF SumsOver
    <3> QED BY <2>1, <2>2, <3>2
  <2>3. CASE n # 0
    <3>1. n \in Nat /\ n - 1 \in Nat /\ n - 1 \notin Bad
      <4>1. n \in Nat
        BY <2>1
      <4>2. n - 1 \in Nat /\ ~(n <= n - 1)
        BY <2>3, <4>1
      <4> HIDE DEF Bad
      <4> QED BY <2>1, <4>1, <4>2
    <3>2. PICK g : SumsOver(g, f, D(n - 1))
      BY <3>1
    <3> DEFINE h == [s \in D(n) |-> IF s = {} THEN 0 ELSE f[Chosen(s)] + g[s \ {Chosen(s)}]]
    <3>3. ASSUME NEW s \in D(n), s # {}
          PROVE  /\ s \ {Chosen(s)} \in D(n - 1) /\ s \ {Chosen(s)} \in D(n)
      <4>1. Chosen(s) \in s
        BY <3>3 DEF Chosen
      <4>2. Cardinality(s \ {Chosen(s)}) = Cardinality(s) - 1
        BY <1>0, <4>1, FS_RemoveElement
      <4> QED BY <1>0, <3>1, <4>2
    <3>4. \A s \in D(n - 1) : g[s] = h[s]
      <4>1. D(n - 1) \subseteq D(n)
        BY <1>0, <3>1
      <4>2. \A s \in D(n - 1) : g[s] = IF s = {} THEN 0 ELSE f[Chosen(s)] + g[s \ {Chosen(s)}]
        BY <3>2, Zenon DEF SumsOver
      <4> HIDE DEF D
      <4> QED BY <4>1, <4>2
    <3>5. SumsOver(h, f, D(n))
      <4>1. \A s \in D(n) : s # {} => g[s \ {Chosen(s)}] = h[s \ {Chosen(s)}]
        BY <3>3, <3>4
      <4> HIDE DEF D
      <4> QED BY <4>1 DEF SumsOver
    <3> QED BY <2>1, <3>5
  <2> QED BY <2>2, <2>3
<1>2. Cardinality(S) \in Nat /\ Cardinality(S) \notin Bad
  BY <1>0, <1>1
<1>3. D(Cardinality(S)) = SUBSET S
  BY <1>0, FS_Subset
<1> QED BY <1>2, <1>3

\* What SumFunctionOnSet computes: a sum over the subsets of a set.
LEMMA SumIsSums ==
    ASSUME NEW f, NEW S, IsFiniteSet(S)
    PROVE  \E iter : SumsOver(iter, f, SUBSET S) /\ SumFunctionOnSet(f, S) = iter[S]
<1> DEFINE g == CHOOSE iter : SumsOver(iter, f, SUBSET S)
<1>1. SumsOver(g, f, SUBSET S)
  BY SumsExist
<1>2. SumFunctionOnSet(f, S) = g[S]
  BY DEF SumFunctionOnSet, FoldFunctionOnSet, MapThenFoldSet, SumsOver, Chosen
<1> QED BY <1>1, <1>2

\* Two functions have the same values on a set.
Agree(f, g, S) == \A x \in S : f[x] = g[x]

\* The sum over a set depends on the values on it only.
LEMMA SumsAgree ==
    ASSUME NEW f, NEW g, NEW S, NEW T, NEW i, NEW j,
           IsFiniteSet(S), S \subseteq T, Agree(f, g, S),
           SumsOver(i, f, SUBSET S), SumsOver(j, g, SUBSET T)
    PROVE  \A s \in SUBSET S : i[s] = j[s]
<1> DEFINE Bad == {s \in SUBSET S : i[s] # j[s]}
<1>1. \A s \in SUBSET S : IsFiniteSet(s) /\ Cardinality(s) \in Nat
  BY FS_Subset, FS_CardinalityType
<1>2. ASSUME Bad # {} PROVE FALSE
  <2>1. PICK s \in Bad : \A t \in Bad : Cardinality(s) <= Cardinality(t)
    BY <1>1, <1>2, SmallestSet
  <2>2. /\ s \in SUBSET S /\ s \in SUBSET T
        /\ i[s] = IF s = {} THEN 0 ELSE f[Chosen(s)] + i[s \ {Chosen(s)}]
        /\ j[s] = IF s = {} THEN 0 ELSE g[Chosen(s)] + j[s \ {Chosen(s)}]
    BY DEF SumsOver
  <2>3. s # {}
    BY <2>1, <2>2
  <2>4. Chosen(s) \in s
    BY <2>3 DEF Chosen
  <2>5. Cardinality(s \ {Chosen(s)}) = Cardinality(s) - 1
    BY <1>1, <2>4, FS_RemoveElement
  <2>6. s \ {Chosen(s)} \in SUBSET S /\ s \ {Chosen(s)} \notin Bad
    BY <1>1, <2>1, <2>2, <2>5
  <2> QED BY <2>2, <2>3, <2>4, <2>6 DEF Agree
<1> QED BY <1>2

\* In particular, the sum over a part is the same in both.
LEMMA SumsOfPart ==
    ASSUME NEW f, NEW S, NEW T, NEW i, NEW j, IsFiniteSet(T), S \subseteq T,
           SumsOver(i, f, SUBSET T), SumsOver(j, f, SUBSET S)
    PROVE  i[S] = j[S]
<1>1. Agree(f, f, S) /\ IsFiniteSet(S)
  BY FS_Subset DEF Agree
<1>2. \A s \in SUBSET S : j[s] = i[s]
  BY <1>1, SumsAgree
<1> QED BY <1>2

\* The sum of natural numbers is one.
LEMMA SumsNat ==
    ASSUME NEW f, NEW S, IsFiniteSet(S), \A x \in S : f[x] \in Nat,
           NEW i, SumsOver(i, f, SUBSET S)
    PROVE  \A s \in SUBSET S : i[s] \in Nat
<1> DEFINE Bad == {s \in SUBSET S : i[s] \notin Nat}
<1>1. \A s \in SUBSET S : IsFiniteSet(s) /\ Cardinality(s) \in Nat
  BY FS_Subset, FS_CardinalityType
<1>2. ASSUME Bad # {} PROVE FALSE
  <2>1. PICK s \in Bad : \A t \in Bad : Cardinality(s) <= Cardinality(t)
    BY <1>1, <1>2, SmallestSet
  <2>2. /\ s \in SUBSET S
        /\ i[s] = IF s = {} THEN 0 ELSE f[Chosen(s)] + i[s \ {Chosen(s)}]
    BY DEF SumsOver
  <2>3. s # {}
    BY <2>1, <2>2
  <2>4. Chosen(s) \in s
    BY <2>3 DEF Chosen
  <2>5. Cardinality(s \ {Chosen(s)}) = Cardinality(s) - 1
    BY <1>1, <2>4, FS_RemoveElement
  <2>6. s \ {Chosen(s)} \in SUBSET S /\ s \ {Chosen(s)} \notin Bad
    BY <1>1, <2>1, <2>2, <2>5
  <2> QED BY <2>1, <2>2, <2>3, <2>4, <2>6
<1> QED BY <1>2

\* Any element may be taken out of the sum, not only the one chosen.
LEMMA SumsAnyElement ==
    ASSUME NEW f, NEW S, IsFiniteSet(S), \A x \in S : f[x] \in Nat,
           NEW i, SumsOver(i, f, SUBSET S)
    PROVE  \A s \in SUBSET S : \A x \in s : i[s] = f[x] + i[s \ {x}]
<1> DEFINE Bad == {s \in SUBSET S : \E x \in s : i[s] # f[x] + i[s \ {x}]}
<1>1. \A s \in SUBSET S : IsFiniteSet(s) /\ Cardinality(s) \in Nat
  BY FS_Subset, FS_CardinalityType
<1>2. ASSUME Bad # {} PROVE FALSE
  <2>1. PICK s \in Bad : \A t \in Bad : Cardinality(s) <= Cardinality(t)
    BY <1>1, <1>2, SmallestSet
  <2>2. PICK x \in s : i[s] # f[x] + i[s \ {x}]
    BY <2>1
  <2> DEFINE c == Chosen(s)
  <2>3. c \in s /\ s \in SUBSET S /\ i[s] = f[c] + i[s \ {c}]
    BY <2>1, <2>2 DEF SumsOver, Chosen
  <2> HIDE DEF c
  <2>4. c # x
    BY <2>2, <2>3
  <2>5. ASSUME NEW y \in s
        PROVE  s \ {y} \in SUBSET S /\ s \ {y} \notin Bad
    <3>1. Cardinality(s \ {y}) = Cardinality(s) - 1
      BY <1>1, <2>3, FS_RemoveElement
    <3> QED BY <1>1, <2>1, <2>3, <3>1
  <2>6. i[s \ {c}] = f[x] + i[(s \ {c}) \ {x}]
    BY <2>2, <2>3, <2>4, <2>5
  <2>7. (s \ {x}) \ {c} = (s \ {c}) \ {x}
    OBVIOUS
  <2>8. i[s \ {x}] = f[c] + i[(s \ {c}) \ {x}]
    BY <2>2, <2>3, <2>4, <2>5, <2>7
  <2>9. f[x] \in Nat /\ f[c] \in Nat /\ i[(s \ {c}) \ {x}] \in Nat
    BY <2>2, <2>3, SumsNat
  <2>10. f[c] + (f[x] + i[(s \ {c}) \ {x}]) = f[x] + (f[c] + i[(s \ {c}) \ {x}])
    BY <2>9
  <2> QED BY <2>2, <2>3, <2>6, <2>8, <2>10
<1> QED BY <1>2

-----------------------------------------------------------------------------
(* What other modules use.                                                 *)

\* The sum of natural numbers is a natural number; of none, zero.
LEMMA SumType ==
    ASSUME NEW S, IsFiniteSet(S), NEW f, \A x \in S : f[x] \in Nat
    PROVE  SumFunctionOnSet(f, S) \in Nat
<1>1. PICK i : SumsOver(i, f, SUBSET S) /\ SumFunctionOnSet(f, S) = i[S]
  BY SumIsSums
<1> QED BY <1>1, SumsNat

\* Two functions that agree on a set have the same sum on it.
LEMMA SumSame ==
    ASSUME NEW S, IsFiniteSet(S), NEW f, NEW g, \A x \in S : f[x] = g[x]
    PROVE  SumFunctionOnSet(f, S) = SumFunctionOnSet(g, S)
<1>1. PICK i : SumsOver(i, f, SUBSET S) /\ SumFunctionOnSet(f, S) = i[S]
  BY SumIsSums
<1>2. PICK j : SumsOver(j, g, SUBSET S) /\ SumFunctionOnSet(g, S) = j[S]
  BY SumIsSums
<1>3. \A s \in SUBSET S : i[s] = j[s]
  <2>1. S \subseteq S /\ Agree(f, g, S) /\ SumsOver(i, f, SUBSET S) /\ SumsOver(j, g, SUBSET S)
    BY <1>1, <1>2 DEF Agree
  <2> QED BY <2>1, SumsAgree
<1> QED BY <1>1, <1>2, <1>3

\* The sums over the subsets of a set are those of SumFunctionOnSet.
LEMMA SumOfPart ==
    ASSUME NEW f, NEW S, NEW R, NEW i, IsFiniteSet(S), R \subseteq S, SumsOver(i, f, SUBSET S)
    PROVE  SumFunctionOnSet(f, R) = i[R]
<1>1. IsFiniteSet(R)
  BY FS_Subset
<1>2. PICK j : SumsOver(j, f, SUBSET R) /\ SumFunctionOnSet(f, R) = j[R]
  BY <1>1, SumIsSums
<1> QED BY <1>2, SumsOfPart

\* One element's value adds to the sum of the others.
LEMMA SumRemove ==
    ASSUME NEW S, NEW f, NEW x \in S, IsFiniteSet(S), \A y \in S : f[y] \in Nat
    PROVE  SumFunctionOnSet(f, S) = f[x] + SumFunctionOnSet(f, S \ {x})
<1>1. PICK i : SumsOver(i, f, SUBSET S)
  BY SumIsSums
<1>2. SumFunctionOnSet(f, S) = i[S] /\ SumFunctionOnSet(f, S \ {x}) = i[S \ {x}]
  BY <1>1, SumOfPart
<1>3. i[S] = f[x] + i[S \ {x}]
  BY <1>1, SumsAnyElement
<1> QED BY <1>2, <1>3

\* Changing the value of one element changes the sum by as much.
LEMMA SumChange ==
    ASSUME NEW S, IsFiniteSet(S), NEW x \in S,
           NEW f, \A y \in S : f[y] \in Nat, NEW g, \A y \in S : g[y] \in Nat,
           \A y \in S \ {x} : f[y] = g[y]
    PROVE  SumFunctionOnSet(g, S) + f[x] = SumFunctionOnSet(f, S) + g[x]
<1>1. IsFiniteSet(S \ {x})
  BY FS_Subset
<1>2. SumFunctionOnSet(f, S \ {x}) = SumFunctionOnSet(g, S \ {x})
  BY <1>1, SumSame
<1>3. /\ SumFunctionOnSet(f, S) = f[x] + SumFunctionOnSet(f, S \ {x})
      /\ SumFunctionOnSet(g, S) = g[x] + SumFunctionOnSet(g, S \ {x})
  BY SumRemove
<1>4. SumFunctionOnSet(f, S \ {x}) \in Nat /\ f[x] \in Nat /\ g[x] \in Nat
  BY <1>1, SumType
<1> QED BY <1>2, <1>3, <1>4

\* Zeros add up to zero.
LEMMA SumOfZeros ==
    ASSUME NEW f, NEW S, IsFiniteSet(S), \A x \in S : f[x] = 0, NEW i, SumsOver(i, f, SUBSET S)
    PROVE  \A s \in SUBSET S : i[s] = 0
<1> DEFINE Bad == {s \in SUBSET S : i[s] # 0}
<1>1. \A s \in SUBSET S : IsFiniteSet(s) /\ Cardinality(s) \in Nat
  BY FS_Subset, FS_CardinalityType
<1>2. ASSUME Bad # {} PROVE FALSE
  <2>1. PICK s \in Bad : \A t \in Bad : Cardinality(s) <= Cardinality(t)
    BY <1>1, <1>2, SmallestSet
  <2>2. /\ s \in SUBSET S
        /\ i[s] = IF s = {} THEN 0 ELSE f[Chosen(s)] + i[s \ {Chosen(s)}]
    BY DEF SumsOver
  <2>3. s # {}
    BY <2>1, <2>2
  <2>4. Chosen(s) \in s
    BY <2>3 DEF Chosen
  <2>5. Cardinality(s \ {Chosen(s)}) = Cardinality(s) - 1
    BY <1>1, <2>4, FS_RemoveElement
  <2>6. s \ {Chosen(s)} \in SUBSET S /\ s \ {Chosen(s)} \notin Bad
    BY <1>1, <2>1, <2>2, <2>5
  <2> QED BY <2>1, <2>2, <2>3, <2>4, <2>6
<1> QED BY <1>2

LEMMA SumOfNothing ==
    ASSUME NEW f, IsFiniteSet(DOMAIN f), \A x \in DOMAIN f : f[x] = 0
    PROVE  SumFunction(f) = 0
<1>1. PICK i : SumsOver(i, f, SUBSET (DOMAIN f)) /\ SumFunctionOnSet(f, DOMAIN f) = i[DOMAIN f]
  BY SumIsSums
<1> QED BY <1>1, SumOfZeros DEF SumFunction

=============================================================================
