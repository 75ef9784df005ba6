----------------------------- MODULE SumLemmas ------------------------------
(***************************************************************************)
(* Least elements, and sums of naturals over finite sets                   *)
(* (SumFunctionOnSet), of any number of summands.                          *)
(*                                                                         *)
(* An induction is an argument about the smallest exception: the set of    *)
(* exceptions is a set, and WFMin gives its minimum.                       *)
(***************************************************************************)
EXTENDS Integers, FiniteSets, Folds, Functions, FiniteSetTheorems, TLAPS

(* A set of naturals has a least element.                                  *)
LEMMA LeastNatural ==
  ASSUME NEW T, T \subseteq Nat, T # {}
  PROVE  \E n \in T : \A m \in T : n <= m
<1> DEFINE R == {ss \in Nat \X Nat : ss[1] < ss[2]}
<1>1. IsWellFoundedOn(R, Nat)
  BY NatLessThanWellFounded DEF OpToRel
<1>2. \A m, n \in Nat : m < n => <<m, n>> \in R
  OBVIOUS
<1> HIDE DEF R
<1>3. PICK n \in T : \A m \in T : ~(<<m, n>> \in R)
  BY <1>1, WFMin
<1>4. \A m \in T : n <= m
  <2> SUFFICES ASSUME NEW m \in T PROVE ~(m < n)
    OBVIOUS
  <2> QED BY <1>2, <1>3
<1> QED BY <1>4

(* A set of subsets of a finite set has a smallest one.                    *)
LEMMA SmallestSubset ==
  ASSUME NEW S, IsFiniteSet(S), NEW B, B \subseteq SUBSET S, B # {}
  PROVE  \E s \in B : \A t \in B : t \subseteq s => t = s
<1>1. IsWellFoundedOn(StrictSubsetOrdering(S), SUBSET S)
  BY FS_StrictSubsetOrderingWellFounded, FS_FiniteSubsetsOfFinite
<1>2. PICK s \in B : \A t \in B : ~(<<t, s>> \in StrictSubsetOrdering(S))
  BY <1>1, WFMin
<1>3. \A t \in B : t \subseteq s => t = s
  BY <1>2 DEF StrictSubsetOrdering
<1> QED BY <1>3

-----------------------------------------------------------------------------
(* The element a sum takes first, and its recursion.                       *)
First(s) == CHOOSE x \in s : TRUE

Summed(f, g, s) == IF s = {} THEN 0 ELSE f[First(s)] + g[s \ {First(s)}]

Sums(f, g, S) == g = [s \in SUBSET S |-> Summed(f, g, s)]

(* The element a sum removes first is one of the set.                      *)
LEMMA FirstIsIn ==
  \A s : s # {} => First(s) \in s
BY DEF First

(* A sum is defined: there is a function that fits the recursion.          *)
LEMMA SumIsDefined ==
  ASSUME NEW f, NEW S, IsFiniteSet(S)
  PROVE  \E g : Sums(f, g, S)
<1> DEFINE Upto(n) == {s \in SUBSET S : Cardinality(s) <= n}
           Fits(g, n) == g = [s \in Upto(n) |-> Summed(f, g, s)]
           T == {n \in Nat : ~ \E g : Fits(g, n)}
<1>1. \A s \in SUBSET S : IsFiniteSet(s) /\ Cardinality(s) \in Nat
  BY FS_Subset, FS_CardinalityType
<1>2. T = {}
  <2> SUFFICES ASSUME T # {} PROVE FALSE
    OBVIOUS
  <2>1. PICK n \in T : \A m \in T : n <= m
    <3> HIDE DEF Fits
    <3> QED BY LeastNatural
  <2>2. n # 0
    <3> SUFFICES ASSUME n = 0 PROVE FALSE
      OBVIOUS
    <3> DEFINE g == [s \in Upto(0) |-> 0]
    <3>1. \A s \in Upto(0) : s = {}
      BY <1>1, FS_EmptySet
    <3>2. Fits(g, 0)
      BY <3>1 DEF Summed
    <3> HIDE DEF Fits, g
    <3> QED BY <3>2
  <2>3. PICK g : Fits(g, n - 1)
    <3> HIDE DEF Fits
    <3> QED BY <2>1, <2>2
  <2> DEFINE h == [s \in Upto(n) |-> Summed(f, g, s)]
  <2>4. \A s \in Upto(n) : s # {} => s \ {First(s)} \in Upto(n - 1)
    BY <1>1, <2>2, FirstIsIn, FS_RemoveElement
  <2>5. \A s \in Upto(n - 1) : s \in Upto(n) /\ g[s] = Summed(f, g, s)
    <3>1. \A s \in Upto(n - 1) : s \in Upto(n)
      BY <1>1, <2>2
    <3>2. g = [s \in Upto(n - 1) |-> Summed(f, g, s)]
      BY <2>3
    <3> HIDE DEF Upto
    <3> QED BY <3>1, <3>2
  <2>6. \A s \in Upto(n - 1) : h[s] = g[s]
    <3> HIDE DEF Upto
    <3> QED BY <2>5
  <2>7. \A s \in Upto(n) : Summed(f, g, s) = Summed(f, h, s)
    <3> HIDE DEF Upto, h
    <3> QED BY <2>4, <2>6 DEF Summed
  <2>8. Fits(h, n)
    <3> HIDE DEF Upto
    <3> QED BY <2>7
  <2> HIDE DEF Fits, h
  <2> QED BY <2>1, <2>8
<1>3. Cardinality(S) \in Nat /\ Upto(Cardinality(S)) = SUBSET S
  BY <1>1, FS_Subset, FS_CardinalityType
<1>4. PICK g : Fits(g, Cardinality(S))
  <2> HIDE DEF Fits
  <2> QED BY <1>2, <1>3
<1>5. g = [s \in SUBSET S |-> Summed(f, g, s)]
  <2> HIDE DEF Upto
  <2> QED BY <1>3, <1>4
<1> QED BY <1>5 DEF Sums

(* The recursion determines the value at every set.                        *)
LEMMA SumIsUnique ==
  ASSUME NEW f, NEW S, IsFiniteSet(S), NEW U, S \subseteq U,
         NEW g, Sums(f, g, S),
         NEW h, Sums(f, h, U)
  PROVE  \A s \in SUBSET S : g[s] = h[s]
<1> DEFINE B == {s \in SUBSET S : g[s] # h[s]}
<1> SUFFICES ASSUME B # {} PROVE FALSE
  OBVIOUS
<1>1. PICK s \in B : \A t \in B : t \subseteq s => t = s
  <2>1. B \subseteq SUBSET S
    OBVIOUS
  <2> HIDE DEF B
  <2> QED BY <2>1, SmallestSubset
<1>2. g[s] = Summed(f, g, s) /\ h[s] = Summed(f, h, s) /\ g[s] # h[s]
  BY DEF Sums
<1>3. s # {}
  BY <1>2 DEF Summed
<1>4. s \ {First(s)} \in SUBSET S /\ s \ {First(s)} \notin B
  BY <1>1, <1>3, FirstIsIn
<1>5. g[s \ {First(s)}] = h[s \ {First(s)}]
  BY <1>4
<1> QED BY <1>2, <1>3, <1>5 DEF Summed

(* The sum over a set is the value of a function that fits the recursion.  *)
LEMMA SumIsAValue ==
  ASSUME NEW f, NEW S, IsFiniteSet(S)
  PROVE  \E g : Sums(f, g, S) /\ SumFunctionOnSet(f, S) = g[S]
<1> DEFINE g == CHOOSE g : Sums(f, g, S)
<1>1. Sums(f, g, S)
  BY SumIsDefined
<1>2. SumFunctionOnSet(f, S) = g[S]
  BY DEF SumFunctionOnSet, FoldFunctionOnSet, MapThenFoldSet, Sums, Summed, First
<1> HIDE DEF g
<1> QED BY <1>1, <1>2

(* The sum over no element.                                                *)
LEMMA SumEmpty ==
  ASSUME NEW f
  PROVE  SumFunctionOnSet(f, {}) = 0
<1>1. PICK g : Sums(f, g, {}) /\ SumFunctionOnSet(f, {}) = g[{}]
  BY SumIsAValue, FS_EmptySet
<1>2. g[{}] = Summed(f, g, {})
  BY <1>1 DEF Sums
<1> QED BY <1>1, <1>2 DEF Summed

(* The sum without the element taken first.                                *)
LEMMA SumFirst ==
  ASSUME NEW f, NEW S, IsFiniteSet(S), S # {}
  PROVE  SumFunctionOnSet(f, S) = f[First(S)] + SumFunctionOnSet(f, S \ {First(S)})
<1> DEFINE Rest == S \ {First(S)}
<1>1. IsFiniteSet(Rest)
  BY FS_RemoveElement
<1>2. PICK h : Sums(f, h, S) /\ SumFunctionOnSet(f, S) = h[S]
  BY SumIsAValue
<1>3. PICK g : Sums(f, g, Rest) /\ SumFunctionOnSet(f, Rest) = g[Rest]
  <2> HIDE DEF Rest
  <2> QED BY <1>1, SumIsAValue
<1>4. g[Rest] = h[Rest]
  <2>1. Rest \subseteq S
    OBVIOUS
  <2> HIDE DEF Rest
  <2>2. \A s \in SUBSET Rest : g[s] = h[s]
    BY <1>1, <1>2, <1>3, <2>1, SumIsUnique
  <2> QED BY <2>2
<1>5. h[S] = Summed(f, h, S)
  BY <1>2 DEF Sums
<1> QED BY <1>2, <1>3, <1>4, <1>5 DEF Summed

(* A sum of naturals is a natural.                                         *)
LEMMA SumType ==
  ASSUME NEW f, NEW S, IsFiniteSet(S), \A x \in S : f[x] \in Nat
  PROVE  SumFunctionOnSet(f, S) \in Nat
<1> DEFINE B == {s \in SUBSET S : SumFunctionOnSet(f, s) \notin Nat}
<1> SUFFICES ASSUME B # {} PROVE FALSE
  OBVIOUS
<1>1. PICK s \in B : \A t \in B : t \subseteq s => t = s
  <2>1. B \subseteq SUBSET S
    OBVIOUS
  <2> HIDE DEF B
  <2> QED BY <2>1, SmallestSubset
<1>2. s \in SUBSET S /\ IsFiniteSet(s) /\ SumFunctionOnSet(f, s) \notin Nat
  BY FS_Subset
<1>3. s # {}
  BY <1>2, SumEmpty
<1>4. First(s) \in s /\ SumFunctionOnSet(f, s) = f[First(s)] + SumFunctionOnSet(f, s \ {First(s)})
  BY <1>2, <1>3, FirstIsIn, SumFirst
<1>5. SumFunctionOnSet(f, s \ {First(s)}) \in Nat
  BY <1>1, <1>2, <1>4
<1> QED BY <1>2, <1>4, <1>5

(* Any summand may be taken out.                                           *)
LEMMA SumRemove ==
  ASSUME NEW f, NEW S, IsFiniteSet(S), \A x \in S : f[x] \in Nat, NEW y \in S
  PROVE  SumFunctionOnSet(f, S) = f[y] + SumFunctionOnSet(f, S \ {y})
<1> DEFINE Removes(s) ==
      \A x \in s : SumFunctionOnSet(f, s) = f[x] + SumFunctionOnSet(f, s \ {x})
           B == {s \in SUBSET S : ~Removes(s)}
<1> SUFFICES ASSUME B # {} PROVE FALSE
  OBVIOUS
<1>1. PICK s \in B : \A t \in B : t \subseteq s => t = s
  <2>1. B \subseteq SUBSET S
    OBVIOUS
  <2> HIDE DEF B
  <2> QED BY <2>1, SmallestSubset
<1>2. PICK x \in s : SumFunctionOnSet(f, s) # f[x] + SumFunctionOnSet(f, s \ {x})
  OBVIOUS
<1> DEFINE z == First(s)
<1>3. s \in SUBSET S /\ IsFiniteSet(s) /\ z \in s
  BY <1>2, FS_Subset, FirstIsIn
<1>4. SumFunctionOnSet(f, s) = f[z] + SumFunctionOnSet(f, s \ {z})
  BY <1>3, SumFirst
<1>5. x # z
  BY <1>2, <1>4
<1>6. Removes(s \ {z}) /\ Removes(s \ {x})
  <2>1. s \ {z} \notin B /\ s \ {x} \notin B
    <3> HIDE DEF B
    <3> QED BY <1>1, <1>2, <1>3
  <2>2. s \ {z} \in SUBSET S /\ s \ {x} \in SUBSET S
    BY <1>3
  <2> HIDE DEF Removes
  <2> QED BY <2>1, <2>2
<1> DEFINE rest == (s \ {z}) \ {x}
<1>7. rest = (s \ {x}) \ {z}
  OBVIOUS
<1>8. /\ SumFunctionOnSet(f, s \ {z}) = f[x] + SumFunctionOnSet(f, rest)
      /\ SumFunctionOnSet(f, s \ {x}) = f[z] + SumFunctionOnSet(f, rest)
  <2>1. x \in s \ {z} /\ z \in s \ {x}
    BY <1>3, <1>5
  <2> HIDE DEF z
  <2> QED BY <1>6, <1>7, <2>1
<1>9. f[x] \in Nat /\ f[z] \in Nat /\ SumFunctionOnSet(f, rest) \in Nat
  BY <1>2, <1>3, FS_Subset, SumType
<1> HIDE DEF z, rest
<1> QED BY <1>2, <1>4, <1>8, <1>9

(* The sum over a set and one more element.                                *)
LEMMA SumAdd ==
  ASSUME NEW f, NEW S, IsFiniteSet(S), NEW y, y \notin S,
         f[y] \in Nat, \A x \in S : f[x] \in Nat
  PROVE  SumFunctionOnSet(f, S \cup {y}) = SumFunctionOnSet(f, S) + f[y]
<1>1. IsFiniteSet(S \cup {y}) /\ (S \cup {y}) \ {y} = S
  BY FS_AddElement
<1>2. SumFunctionOnSet(f, S) \in Nat
  BY SumType
<1>3. SumFunctionOnSet(f, S \cup {y}) = f[y] + SumFunctionOnSet(f, S)
  <2>1. \A x \in S \cup {y} : f[x] \in Nat
    OBVIOUS
  <2> QED BY <1>1, <2>1, SumRemove
<1> QED BY <1>2, <1>3

(* A sum of multiples.                                                     *)
LEMMA SumScaled ==
  ASSUME NEW f, NEW g, NEW c \in Nat, NEW S, IsFiniteSet(S),
         \A x \in S : f[x] \in Nat /\ g[x] = c * f[x]
  PROVE  SumFunctionOnSet(g, S) = c * SumFunctionOnSet(f, S)
<1> DEFINE B == {s \in SUBSET S : SumFunctionOnSet(g, s) # c * SumFunctionOnSet(f, s)}
<1> SUFFICES ASSUME B # {} PROVE FALSE
  OBVIOUS
<1>1. PICK s \in B : \A t \in B : t \subseteq s => t = s
  <2>1. B \subseteq SUBSET S
    OBVIOUS
  <2> HIDE DEF B
  <2> QED BY <2>1, SmallestSubset
<1>2. /\ s \in SUBSET S /\ IsFiniteSet(s)
      /\ SumFunctionOnSet(g, s) # c * SumFunctionOnSet(f, s)
  BY FS_Subset
<1>3. s # {}
  <2>1. c * 0 = 0
    OBVIOUS
  <2>2. SumFunctionOnSet(f, {}) = 0 /\ SumFunctionOnSet(g, {}) = 0
    BY SumEmpty
  <2> QED BY <1>2, <2>1, <2>2
<1>4. PICK x \in s : TRUE
  BY <1>3
<1> DEFINE rest == s \ {x}
<1>5. SumFunctionOnSet(g, rest) = c * SumFunctionOnSet(f, rest)
  <2>1. rest \notin B
    BY <1>1, <1>4
  <2>2. rest \in SUBSET S
    BY <1>2
  <2> QED BY <2>1, <2>2
<1>6. f[x] \in Nat /\ g[x] = c * f[x] /\ \A y \in s : f[y] \in Nat /\ g[y] \in Nat
  <2>1. \A m \in Nat : c * m \in Nat
    OBVIOUS
  <2> QED BY <1>2, <1>4, <2>1
<1>7. /\ SumFunctionOnSet(f, s) = f[x] + SumFunctionOnSet(f, rest)
      /\ SumFunctionOnSet(g, s) = g[x] + SumFunctionOnSet(g, rest)
  BY <1>2, <1>4, <1>6, SumRemove
<1>8. SumFunctionOnSet(f, rest) \in Nat
  <2>1. IsFiniteSet(rest) /\ \A y \in rest : f[y] \in Nat
    BY <1>2, <1>6, FS_Subset
  <2> HIDE DEF rest
  <2> QED BY <2>1, SumType
<1>9. \A a, b \in Nat : c * (a + b) = c * a + c * b
  BY SMTT(30)
<1> HIDE DEF rest
<1> QED BY <1>2, <1>5, <1>6, <1>7, <1>8, <1>9

(* A sum does not depend on how its summands are numbered: h numbers those *)
(* of g, each once.                                                        *)
LEMMA SumReindexed ==
  ASSUME NEW f, NEW g, NEW h, NEW S, IsFiniteSet(S),
         \A x \in S : f[x] \in Nat /\ f[x] = g[h[x]],
         \A x, y \in S : h[x] = h[y] => x = y
  PROVE  /\ IsFiniteSet({h[x] : x \in S})
         /\ SumFunctionOnSet(f, S) = SumFunctionOnSet(g, {h[x] : x \in S})
<1> DEFINE Image(s) == {h[x] : x \in s}
           Fits(s) == /\ IsFiniteSet(Image(s))
                      /\ SumFunctionOnSet(f, s) = SumFunctionOnSet(g, Image(s))
           B == {s \in SUBSET S : ~Fits(s)}
<1> SUFFICES ASSUME B # {} PROVE FALSE
  OBVIOUS
<1>1. PICK s \in B : \A t \in B : t \subseteq s => t = s
  <2>1. B \subseteq SUBSET S
    OBVIOUS
  <2> HIDE DEF B
  <2> QED BY <2>1, SmallestSubset
<1>2. s \in SUBSET S /\ IsFiniteSet(s) /\ ~Fits(s)
  BY FS_Subset
<1>3. s # {}
  <2>1. Image({}) = {}
    OBVIOUS
  <2> QED BY <1>2, <2>1, SumEmpty, FS_EmptySet
<1>4. PICK x \in s : TRUE
  BY <1>3
<1> DEFINE rest == s \ {x}
<1>5. Fits(rest)
  <2>1. rest \notin B
    BY <1>1, <1>4
  <2>2. rest \in SUBSET S
    BY <1>2
  <2> QED BY <2>1, <2>2
<1>6. SumFunctionOnSet(f, s) = f[x] + SumFunctionOnSet(f, rest)
  BY <1>2, <1>4, SumRemove
<1>7. /\ IsFiniteSet(Image(s))
      /\ SumFunctionOnSet(g, Image(s)) = SumFunctionOnSet(g, Image(rest)) + g[h[x]]
  <2>1. Image(s) = Image(rest) \cup {h[x]} /\ h[x] \notin Image(rest)
    BY <1>2, <1>4
  <2>2. IsFiniteSet(Image(rest))
    BY <1>5
  <2>3. g[h[x]] \in Nat /\ \A y \in Image(rest) : g[y] \in Nat
    BY <1>2, <1>4
  <2> HIDE DEF Image, rest
  <2> QED BY <2>1, <2>2, <2>3, SumAdd, FS_AddElement
<1>8. f[x] = g[h[x]] /\ f[x] \in Nat /\ SumFunctionOnSet(f, rest) \in Nat
  <2>1. IsFiniteSet(rest) /\ \A y \in rest : f[y] \in Nat
    BY <1>2, FS_Subset
  <2> HIDE DEF rest
  <2> QED BY <1>2, <1>4, <2>1, SumType
<1> HIDE DEF Image, rest
<1> QED BY <1>2, <1>5, <1>6, <1>7, <1>8 DEF Fits

(* Of two functions, the one with the larger summands has the larger sum.  *)
LEMMA SumMonotone ==
  ASSUME NEW f, NEW g, NEW S, IsFiniteSet(S),
         \A x \in S : f[x] \in Nat /\ g[x] \in Nat /\ f[x] <= g[x]
  PROVE  SumFunctionOnSet(f, S) <= SumFunctionOnSet(g, S)
<1> DEFINE B == {s \in SUBSET S : ~(SumFunctionOnSet(f, s) <= SumFunctionOnSet(g, s))}
<1> SUFFICES ASSUME B # {} PROVE FALSE
  OBVIOUS
<1>1. PICK s \in B : \A t \in B : t \subseteq s => t = s
  <2>1. B \subseteq SUBSET S
    OBVIOUS
  <2> HIDE DEF B
  <2> QED BY <2>1, SmallestSubset
<1>2. /\ s \in SUBSET S /\ IsFiniteSet(s)
      /\ ~(SumFunctionOnSet(f, s) <= SumFunctionOnSet(g, s))
  BY FS_Subset
<1>3. s # {}
  BY <1>2, SumEmpty
<1> DEFINE z == First(s)
<1>4. /\ z \in s
      /\ SumFunctionOnSet(f, s) = f[z] + SumFunctionOnSet(f, s \ {z})
      /\ SumFunctionOnSet(g, s) = g[z] + SumFunctionOnSet(g, s \ {z})
  BY <1>2, <1>3, FirstIsIn, SumFirst
<1>5. SumFunctionOnSet(f, s \ {z}) <= SumFunctionOnSet(g, s \ {z})
  BY <1>1, <1>2, <1>4
<1>6. /\ f[z] \in Nat /\ g[z] \in Nat /\ f[z] <= g[z]
      /\ SumFunctionOnSet(f, s \ {z}) \in Nat /\ SumFunctionOnSet(g, s \ {z}) \in Nat
  BY <1>2, <1>4, FS_Subset, SumType
<1> HIDE DEF z
<1> QED BY <1>2, <1>4, <1>5, <1>6

(* The sum depends on the values at the elements of the set only.          *)
LEMMA SumEqual ==
  ASSUME NEW f, NEW g, NEW S, IsFiniteSet(S),
         \A x \in S : f[x] \in Nat /\ f[x] = g[x]
  PROVE  SumFunctionOnSet(f, S) = SumFunctionOnSet(g, S)
<1>1. SumFunctionOnSet(f, S) <= SumFunctionOnSet(g, S)
  BY SumMonotone
<1>2. SumFunctionOnSet(g, S) <= SumFunctionOnSet(f, S)
  BY SumMonotone
<1>3. SumFunctionOnSet(f, S) \in Nat /\ SumFunctionOnSet(g, S) \in Nat
  BY SumType
<1> QED BY <1>1, <1>2, <1>3
=============================================================================
