------------------------------ MODULE SumProofs ------------------------------
(***************************************************************************)
(* Sums over finite sets, and sequences.  SumFunction(f) of the community  *)
(* modules adds up the values of a function; these are the facts about it  *)
(* that proofs about amounts of coins need, for functions from any finite  *)
(* set, and those that proofs about tables numbered from 1 need.           *)
(*                                                                         *)
(* Induction is stated of sets, of naturals or of subsets, in place of     *)
(* predicates: a theorem that takes an operator cannot be instantiated by  *)
(* the provers in use here.                                                *)
(***************************************************************************)
EXTENDS Functions, FiniteSetTheorems, SequenceTheorems, WellFoundedInduction, TLAPS

-----------------------------------------------------------------------------
(* Induction. *)

\* Every set of naturals with an element has a least one.
LEMMA LeastNatural ==
  ASSUME NEW T \in SUBSET Nat, T # {}
  PROVE  \E x \in T : \A y \in T : x <= y
<1> DEFINE Less == { pair \in Nat \X Nat : pair[1] < pair[2] }
<1>1. IsWellFoundedOn(Less, Nat)
  BY NatLessThanWellFounded DEF OpToRel
<1>2. \E x \in T : \A y \in T : ~(<<y, x>> \in Less)
  <2> HIDE DEF Less
  <2> QED BY <1>1, WFMin
<1>3. ASSUME NEW x \in T, NEW y \in T, ~(<<y, x>> \in Less) PROVE x <= y
  BY <1>3
<1> QED
  BY <1>2, <1>3

LEMMA NaturalsFromZero ==
  ASSUME NEW T \in SUBSET Nat, 0 \in T, \A n \in T : n + 1 \in T
  PROVE  T = Nat
<1> SUFFICES ASSUME Nat \ T # {} PROVE FALSE
  OBVIOUS
<1>1. PICK x \in Nat \ T : \A y \in Nat \ T : x <= y
  BY LeastNatural
<1>2. x # 0 /\ x - 1 \in Nat
  BY <1>1
<1>3. x - 1 \in T
  BY <1>1, <1>2
<1> QED
  BY <1>1, <1>3

LEMMA OneLess ==
  ASSUME NEW S, IsFiniteSet(S), NEW n \in Nat, Cardinality(S) = n + 1, NEW x \in S
  PROVE  S # {} /\ Cardinality(S \ {x}) = n
<1>1. Cardinality(S \ {x}) = Cardinality(S) - 1
  BY FS_RemoveElement
<1> QED
  BY <1>1

LEMMA SomeLess ==
  ASSUME NEW S, NEW n \in Nat, Cardinality(S) = n + 1
  PROVE  S # {}
BY FS_EmptySet

\* A family of subsets that has the empty one, and with every one those with an element more,
\* has the whole.
LEMMA FamilyHasWhole ==
  ASSUME NEW S, IsFiniteSet(S), NEW F, {} \in F,
         \A T \in F : T \subseteq S => \A x \in S \ T : T \cup {x} \in F
  PROVE  S \in F
<1> DEFINE Sizes == { n \in Nat : \A T \in SUBSET S : Cardinality(T) = n => T \in F }
<1>1. 0 \in Sizes
  BY FS_Subset, FS_EmptySet
<1>2. ASSUME NEW n \in Sizes PROVE n + 1 \in Sizes
  <2>0. n \in Nat
    OBVIOUS
  <2> SUFFICES ASSUME NEW T \in SUBSET S, Cardinality(T) = n + 1 PROVE T \in F
    BY <1>2, <2>0
  <2>1. IsFiniteSet(T) /\ T # {}
    BY FS_Subset, FS_EmptySet
  <2>2. PICK x \in T : TRUE
    BY <2>1
  <2>3. Cardinality(T \ {x}) = n
    BY <2>1, <2>2, OneLess, <2>0
  <2>4. T \ {x} \in F
    BY <2>3
  <2> QED
    BY <2>2, <2>4
<1>3. Sizes = Nat
  <2> HIDE DEF Sizes
  <2>1. Sizes \subseteq Nat
    BY DEF Sizes
  <2> QED
    BY <1>1, <1>2, <2>1, NaturalsFromZero
<1> QED
  BY <1>3, FS_CardinalityType

-----------------------------------------------------------------------------
(* The fold a sum is made of is defined. *)

First(S) == CHOOSE x \in S : TRUE

\* g is the sum of f over every subset of S.
Adds(g, f, S) ==
  g = [s \in SUBSET S |-> IF s = {} THEN 0 ELSE f[First(s)] + g[s \ {First(s)}]]

LEMMA FirstIn ==
  ASSUME NEW S, S # {} PROVE First(S) \in S
BY DEF First

LEMMA AddsExists ==
  ASSUME NEW S, IsFiniteSet(S), NEW f
  PROVE  \E g : Adds(g, f, S)
<1> DEFINE Upto(n) == { s \in SUBSET S : Cardinality(s) <= n }
           Next(g, n) == [s \in Upto(n) |-> IF s = {} THEN 0 ELSE f[First(s)] + g[s \ {First(s)}]]
           Sizes == { n \in Nat : \E g : g = Next(g, n) }
<1>0. ASSUME NEW n \in Nat, NEW s \in Upto(n + 1), s # {}
      PROVE  s \ {First(s)} \in Upto(n)
  BY <1>0, FirstIn, FS_Subset, FS_RemoveElement, FS_CardinalityType
<1>1. 0 \in Sizes
  <2>1. Upto(0) = {{}}
    BY FS_Subset, FS_EmptySet, FS_CardinalityType
  <2>2. LET g == [s \in Upto(0) |-> 0] IN g = Next(g, 0)
    BY <2>1
  <2> QED
    BY <2>2
<1>2. ASSUME NEW n \in Sizes PROVE n + 1 \in Sizes
  <2>0. n \in Nat
    OBVIOUS
  <2>1. PICK g : g = Next(g, n)
    OBVIOUS
  <2> DEFINE h == Next(g, n + 1)
  <2>2. ASSUME NEW s \in Upto(n) PROVE s \in Upto(n + 1) /\ h[s] = g[s]
    <3>1. s \in Upto(n + 1)
      BY FS_Subset, FS_CardinalityType
    <3> QED
      BY <2>1, <3>1
  <2>3. ASSUME NEW s \in Upto(n + 1), s # {} PROVE h[s \ {First(s)}] = g[s \ {First(s)}]
    BY <1>0, <2>2, <2>3
  <2>4. h = Next(h, n + 1)
    BY <2>3
  <2>5. \E x : x = Next(x, n + 1)
    <3> HIDE DEF h, Next
    <3> QED
      BY <2>4
  <2> HIDE DEF h, Next, Upto
  <2> QED
    BY <2>0, <2>5
<1>3. Sizes = Nat
  <2> HIDE DEF Sizes
  <2>1. Sizes \subseteq Nat
    BY DEF Sizes
  <2> QED
    BY <1>1, <1>2, <2>1, NaturalsFromZero
<1>4. Cardinality(S) \in Nat /\ Upto(Cardinality(S)) = SUBSET S
  BY FS_Subset, FS_CardinalityType
<1>5. PICK g : g = Next(g, Cardinality(S))
  BY <1>3, <1>4
<1> QED
  BY <1>4, <1>5 DEF Adds

LEMMA SumIsAdded ==
  ASSUME NEW f, NEW S, IsFiniteSet(S)
  PROVE  \E g : Adds(g, f, S) /\ SumFunctionOnSet(f, S) = g[S]
<1>1. SumFunctionOnSet(f, S) = (CHOOSE g : Adds(g, f, S))[S]
  BY DEF SumFunctionOnSet, FoldFunctionOnSet, MapThenFoldSet, Adds, First
<1> QED
  BY <1>1, AddsExists

\* Sums of subsets are the values of one function, whichever set it was made for.
LEMMA AddsUnique ==
  ASSUME NEW f, NEW S, NEW T \in SUBSET S, IsFiniteSet(S), NEW g, NEW h, Adds(g, f, S), Adds(h, f, T)
  PROVE  g[T] = h[T]
<1> DEFINE Sizes == { n \in Nat : \A s \in SUBSET T : Cardinality(s) = n => g[s] = h[s] }
<1>0. \A s \in SUBSET T : s \in SUBSET S /\ IsFiniteSet(s)
  BY FS_Subset
<1>1. 0 \in Sizes
  BY <1>0, FS_EmptySet DEF Adds
<1>2. ASSUME NEW n \in Sizes PROVE n + 1 \in Sizes
  <2>0. n \in Nat
    OBVIOUS
  <2> SUFFICES ASSUME NEW s \in SUBSET T, Cardinality(s) = n + 1 PROVE g[s] = h[s]
    BY <1>2, <2>0
  <2>1. s # {}
    BY FS_EmptySet
  <2>2. Cardinality(s \ {First(s)}) = n
    BY <1>0, <2>1, FirstIn, OneLess, <2>0
  <2>3. g[s \ {First(s)}] = h[s \ {First(s)}]
    BY <2>2
  <2>4. /\ g[s] = f[First(s)] + g[s \ {First(s)}]
        /\ h[s] = f[First(s)] + h[s \ {First(s)}]
    <3> HIDE DEF Sizes
    <3> QED
      BY <1>0, <2>1 DEF Adds
  <2> QED
    BY <2>3, <2>4
<1>3. Sizes = Nat
  <2> HIDE DEF Sizes
  <2>1. Sizes \subseteq Nat
    BY DEF Sizes
  <2> QED
    BY <1>1, <1>2, <2>1, NaturalsFromZero
<1> QED
  BY <1>0, <1>3, FS_CardinalityType

-----------------------------------------------------------------------------
(* Sums. *)

LEMMA SumEmpty ==
  ASSUME NEW f PROVE SumFunctionOnSet(f, {}) = 0
<1>1. PICK g : Adds(g, f, {}) /\ SumFunctionOnSet(f, {}) = g[{}]
  BY SumIsAdded, FS_EmptySet
<1> QED
  BY <1>1 DEF Adds

LEMMA SumFirst ==
  ASSUME NEW f, NEW S, IsFiniteSet(S), S # {}
  PROVE  SumFunctionOnSet(f, S) = f[First(S)] + SumFunctionOnSet(f, S \ {First(S)})
<1> DEFINE T == S \ {First(S)}
<1>1. IsFiniteSet(T) /\ T \in SUBSET S
  BY FS_Subset
<1>2. PICK g : Adds(g, f, S) /\ SumFunctionOnSet(f, S) = g[S]
  BY SumIsAdded
<1>3. PICK h : Adds(h, f, T) /\ SumFunctionOnSet(f, T) = h[T]
  BY <1>1, SumIsAdded
<1>4. g[T] = h[T]
  BY <1>1, <1>2, <1>3, AddsUnique
<1>5. g[S] = f[First(S)] + g[T]
  BY <1>2 DEF Adds
<1> QED
  BY <1>2, <1>3, <1>4, <1>5

\* Only the values on the set count.
LEMMA SumSameValues ==
  ASSUME NEW f, NEW g, NEW S, IsFiniteSet(S), \A x \in S : f[x] = g[x]
  PROVE  SumFunctionOnSet(f, S) = SumFunctionOnSet(g, S)
<1> DEFINE Sizes == { n \in Nat : \A T \in SUBSET S : Cardinality(T) = n => SumFunctionOnSet(f, T) = SumFunctionOnSet(g, T) }
<1>0. \A T \in SUBSET S : IsFiniteSet(T)
  BY FS_Subset
<1>1. 0 \in Sizes
  BY <1>0, FS_EmptySet, SumEmpty
<1>2. ASSUME NEW n \in Sizes PROVE n + 1 \in Sizes
  <2>0. n \in Nat
    OBVIOUS
  <2> SUFFICES ASSUME NEW T \in SUBSET S, Cardinality(T) = n + 1
               PROVE  SumFunctionOnSet(f, T) = SumFunctionOnSet(g, T)
    BY <1>2, <2>0
  <2>1. T # {} /\ First(T) \in T
    BY <2>0, SomeLess, FirstIn
  <2>2. Cardinality(T \ {First(T)}) = n
    BY <1>0, <2>1, OneLess, <2>0
  <2>3. SumFunctionOnSet(f, T \ {First(T)}) = SumFunctionOnSet(g, T \ {First(T)})
    BY <2>2
  <2> QED
    BY <1>0, <2>1, <2>3, SumFirst
<1>3. Sizes = Nat
  <2> HIDE DEF Sizes
  <2>1. Sizes \subseteq Nat
    BY DEF Sizes
  <2> QED
    BY <1>1, <1>2, <2>1, NaturalsFromZero
<1> QED
  BY <1>0, <1>3, FS_CardinalityType

LEMMA SumIsInt ==
  ASSUME NEW f, NEW S, IsFiniteSet(S), \A x \in S : f[x] \in Int
  PROVE  SumFunctionOnSet(f, S) \in Int
<1> DEFINE Sizes == { n \in Nat : \A T \in SUBSET S : Cardinality(T) = n => SumFunctionOnSet(f, T) \in Int }
<1>0. \A T \in SUBSET S : IsFiniteSet(T)
  BY FS_Subset
<1>1. 0 \in Sizes
  BY <1>0, FS_EmptySet, SumEmpty
<1>2. ASSUME NEW n \in Sizes PROVE n + 1 \in Sizes
  <2>0. n \in Nat
    OBVIOUS
  <2> SUFFICES ASSUME NEW T \in SUBSET S, Cardinality(T) = n + 1
               PROVE  SumFunctionOnSet(f, T) \in Int
    BY <1>2, <2>0
  <2>1. T # {} /\ First(T) \in T
    BY <2>0, SomeLess, FirstIn
  <2>2. Cardinality(T \ {First(T)}) = n
    BY <1>0, <2>1, OneLess, <2>0
  <2>3. SumFunctionOnSet(f, T \ {First(T)}) \in Int /\ f[First(T)] \in Int
    BY <2>1, <2>2
  <2> QED
    BY <1>0, <2>1, <2>3, SumFirst
<1>3. Sizes = Nat
  <2> HIDE DEF Sizes
  <2>1. Sizes \subseteq Nat
    BY DEF Sizes
  <2> QED
    BY <1>1, <1>2, <2>1, NaturalsFromZero
<1> QED
  BY <1>0, <1>3, FS_CardinalityType

\* Any element may be the first.
LEMMA SumElement ==
  ASSUME NEW f, NEW S, IsFiniteSet(S), \A x \in S : f[x] \in Int, NEW e \in S
  PROVE  SumFunctionOnSet(f, S) = f[e] + SumFunctionOnSet(f, S \ {e})
<1> DEFINE Splits(T) == \A x \in T : SumFunctionOnSet(f, T) = f[x] + SumFunctionOnSet(f, T \ {x})
           Sizes == { n \in Nat : \A T \in SUBSET S : Cardinality(T) = n => Splits(T) }
<1>0. \A T \in SUBSET S : IsFiniteSet(T) /\ SumFunctionOnSet(f, T) \in Int
  BY FS_Subset, SumIsInt
<1>1. 0 \in Sizes
  BY <1>0, FS_EmptySet
<1>2. ASSUME NEW n \in Sizes PROVE n + 1 \in Sizes
  <2>0. n \in Nat
    OBVIOUS
  <2> SUFFICES ASSUME NEW T \in SUBSET S, Cardinality(T) = n + 1, NEW x \in T
               PROVE  SumFunctionOnSet(f, T) = f[x] + SumFunctionOnSet(f, T \ {x})
    BY <1>2, <2>0
  <2> DEFINE c == First(T)
  <2>1. T # {} /\ c \in T
    BY FirstIn
  <2> HIDE DEF c
  <2>2. SumFunctionOnSet(f, T) = f[c] + SumFunctionOnSet(f, T \ {c})
    BY <1>0, <2>1, SumFirst DEF c
  <2>3. CASE c = x
    BY <2>2, <2>3
  <2>4. CASE c # x
    <3>1. Cardinality(T \ {c}) = n /\ Cardinality(T \ {x}) = n
      BY <1>0, <2>1, OneLess, <2>0
    <3>2. Splits(T \ {c}) /\ Splits(T \ {x})
      BY <3>1
    <3>3. SumFunctionOnSet(f, T \ {c}) = f[x] + SumFunctionOnSet(f, (T \ {c}) \ {x})
      BY <2>4, <3>2
    <3>4. SumFunctionOnSet(f, T \ {x}) = f[c] + SumFunctionOnSet(f, (T \ {x}) \ {c})
      BY <2>1, <2>4, <3>2
    <3>5. (T \ {c}) \ {x} = (T \ {x}) \ {c}
      OBVIOUS
    <3>6. /\ f[c] \in Int /\ f[x] \in Int
          /\ SumFunctionOnSet(f, (T \ {c}) \ {x}) \in Int
      BY <1>0, <2>1
    <3> HIDE DEF Splits, Sizes
    <3>7. SumFunctionOnSet(f, T \ {x}) = f[c] + SumFunctionOnSet(f, (T \ {c}) \ {x})
      BY <3>4, <3>5
    <3> QED
      BY <2>2, <3>3, <3>6, <3>7
  <2> QED
    BY <2>3, <2>4
<1>3. Sizes = Nat
  <2> HIDE DEF Sizes
  <2>1. Sizes \subseteq Nat
    BY DEF Sizes
  <2> QED
    BY <1>1, <1>2, <2>1, NaturalsFromZero
<1> QED
  BY <1>0, <1>3, FS_CardinalityType
LEMMA SumOneMore ==
  ASSUME NEW f, NEW S, IsFiniteSet(S), NEW e, e \notin S, \A x \in S \cup {e} : f[x] \in Int
  PROVE  SumFunctionOnSet(f, S \cup {e}) = f[e] + SumFunctionOnSet(f, S)
<1>1. IsFiniteSet(S \cup {e}) /\ (S \cup {e}) \ {e} = S
  BY FS_AddElement
<1> QED
  BY <1>1, SumElement

-----------------------------------------------------------------------------
(* What proofs about amounts use: sums of functions on a finite set S. *)

LEMMA SumType ==
  ASSUME NEW S, IsFiniteSet(S), NEW f \in [S -> Int]
  PROVE  SumFunction(f) \in Int
BY SumIsInt DEF SumFunction

LEMMA SumNothing ==
  ASSUME NEW f, DOMAIN f = {}
  PROVE  SumFunction(f) = 0
BY SumEmpty DEF SumFunction

LEMMA SumAdd ==
  ASSUME NEW S, IsFiniteSet(S), NEW f \in [S -> Int], NEW g \in [S -> Int], NEW h \in [S -> Int],
         \A x \in S : h[x] = f[x] + g[x]
  PROVE  SumFunction(h) = SumFunction(f) + SumFunction(g)
<1> DEFINE F == { T \in SUBSET S : SumFunctionOnSet(h, T) = SumFunctionOnSet(f, T) + SumFunctionOnSet(g, T) }
<1>1. {} \in F
  BY SumEmpty
<1>2. ASSUME NEW T \in F, NEW e \in S \ T PROVE T \cup {e} \in F
  <2>1. IsFiniteSet(T) /\ T \cup {e} \in SUBSET S
    BY FS_Subset
  <2>2. /\ SumFunctionOnSet(f, T) \in Int /\ SumFunctionOnSet(g, T) \in Int /\ SumFunctionOnSet(h, T) \in Int
        /\ f[e] \in Int /\ g[e] \in Int /\ h[e] = f[e] + g[e]
    BY <2>1, SumIsInt
  <2>3. /\ SumFunctionOnSet(f, T \cup {e}) = f[e] + SumFunctionOnSet(f, T)
        /\ SumFunctionOnSet(g, T \cup {e}) = g[e] + SumFunctionOnSet(g, T)
        /\ SumFunctionOnSet(h, T \cup {e}) = h[e] + SumFunctionOnSet(h, T)
    BY <2>1, SumOneMore
  <2> QED
    BY <2>1, <2>2, <2>3
<1> HIDE DEF F
<1>3. S \in F
  BY <1>1, <1>2, FamilyHasWhole
<1> QED
  BY <1>3 DEF F, SumFunction

\* The sum of what is left where f is taken from h.
LEMMA SumTake ==
  ASSUME NEW S, IsFiniteSet(S), NEW f \in [S -> Int], NEW g \in [S -> Int], NEW h \in [S -> Int],
         \A x \in S : h[x] = f[x] - g[x]
  PROVE  SumFunction(h) = SumFunction(f) - SumFunction(g)
<1>1. SumFunction(f) = SumFunction(h) + SumFunction(g)
  BY SumAdd
<1> QED
  BY <1>1, SumType

LEMMA SumOrder ==
  ASSUME NEW S, IsFiniteSet(S), NEW f \in [S -> Int], NEW g \in [S -> Int], \A x \in S : f[x] <= g[x]
  PROVE  SumFunction(f) <= SumFunction(g)
<1> DEFINE F == { T \in SUBSET S : SumFunctionOnSet(f, T) <= SumFunctionOnSet(g, T) }
<1>1. {} \in F
  BY SumEmpty
<1>2. ASSUME NEW T \in F, NEW e \in S \ T PROVE T \cup {e} \in F
  <2>1. IsFiniteSet(T) /\ T \cup {e} \in SUBSET S
    BY FS_Subset
  <2>2. /\ SumFunctionOnSet(f, T) \in Int /\ SumFunctionOnSet(g, T) \in Int
        /\ f[e] \in Int /\ g[e] \in Int /\ f[e] <= g[e]
    BY <2>1, SumIsInt
  <2>3. /\ SumFunctionOnSet(f, T \cup {e}) = f[e] + SumFunctionOnSet(f, T)
        /\ SumFunctionOnSet(g, T \cup {e}) = g[e] + SumFunctionOnSet(g, T)
    BY <2>1, SumOneMore
  <2> QED
    BY <2>1, <2>2, <2>3
<1> HIDE DEF F
<1>3. S \in F
  BY <1>1, <1>2, FamilyHasWhole
<1> QED
  BY <1>3 DEF F, SumFunction

\* The same amount c for everybody.
LEMMA SumSame ==
  ASSUME NEW S, IsFiniteSet(S), NEW c \in Int, NEW f, DOMAIN f = S, \A x \in S : f[x] = c
  PROVE  SumFunction(f) = c * Cardinality(S)
<1> DEFINE F == { T \in SUBSET S : SumFunctionOnSet(f, T) = c * Cardinality(T) }
<1>1. {} \in F
  BY SumEmpty, FS_EmptySet
<1>2. ASSUME NEW T \in F, NEW e \in S \ T PROVE T \cup {e} \in F
  <2>1. IsFiniteSet(T) /\ T \cup {e} \in SUBSET S
    BY FS_Subset
  <2>2. Cardinality(T) \in Nat /\ Cardinality(T \cup {e}) = Cardinality(T) + 1
    BY <2>1, FS_AddElement, FS_CardinalityType
  <2>3. SumFunctionOnSet(f, T \cup {e}) = c + SumFunctionOnSet(f, T)
    BY <2>1, SumOneMore
  <2>4. c * (Cardinality(T) + 1) = c + c * Cardinality(T)
    BY <2>2
  <2> QED
    BY <2>1, <2>2, <2>3, <2>4
<1> HIDE DEF F
<1>3. S \in F
  BY <1>1, <1>2, FamilyHasWhole
<1> QED
  BY <1>3 DEF F, SumFunction

LEMMA SumOfNothing ==
  ASSUME NEW S, IsFiniteSet(S), NEW f, DOMAIN f = S, \A x \in S : f[x] = 0
  PROVE  SumFunction(f) = 0
BY SumSame, FS_CardinalityType

LEMMA SumNat ==
  ASSUME NEW S, IsFiniteSet(S), NEW f \in [S -> Nat]
  PROVE  SumFunction(f) \in Nat
<1>1. SumFunction([x \in S |-> 0]) = 0
  BY SumOfNothing
<1>2. SumFunction([x \in S |-> 0]) <= SumFunction(f)
  BY SumOrder
<1> QED
  BY <1>1, <1>2, SumType

\* Sums over a part of S, as sums over S.
LEMMA SumPart ==
  ASSUME NEW S, IsFiniteSet(S), NEW T \in SUBSET S, NEW f \in [T -> Int], NEW g, DOMAIN g = S,
         \A x \in S : g[x] = IF x \in T THEN f[x] ELSE 0
  PROVE  SumFunction(g) = SumFunction(f)
<1> DEFINE F == { U \in SUBSET S : SumFunctionOnSet(g, U) = SumFunctionOnSet(f, U \cap T) }
<1>0. \A U \in SUBSET S : IsFiniteSet(U) /\ IsFiniteSet(U \cap T)
  BY FS_Subset
<1>1. {} \in F
  <2>1. {} \cap T = {}
    OBVIOUS
  <2> QED
    BY <2>1, SumEmpty
<1>2. ASSUME NEW U \in F, NEW e \in S \ U PROVE U \cup {e} \in F
  <2>1. SumFunctionOnSet(g, U \cup {e}) = g[e] + SumFunctionOnSet(g, U)
    <3>1. \A x \in S : g[x] \in Int
      OBVIOUS
    <3> QED
      BY <1>0, <3>1, SumOneMore
  <2>2. SumFunctionOnSet(g, U) = SumFunctionOnSet(f, U \cap T) /\ SumFunctionOnSet(f, U \cap T) \in Int
    BY <1>0, SumIsInt
  <2>3. CASE e \in T
    <3>1. (U \cup {e}) \cap T = (U \cap T) \cup {e} /\ e \notin U \cap T
      BY <2>3
    <3>2. SumFunctionOnSet(f, (U \cap T) \cup {e}) = f[e] + SumFunctionOnSet(f, U \cap T)
      BY <1>0, <2>3, <3>1, SumOneMore
    <3> QED
      BY <2>1, <2>2, <2>3, <3>1, <3>2
  <2>4. CASE e \notin T
    <3>1. (U \cup {e}) \cap T = U \cap T
      BY <2>4
    <3>2. SumFunctionOnSet(g, U \cup {e}) = SumFunctionOnSet(f, U \cap T)
      BY <2>1, <2>2, <2>4
    <3> QED
      BY <3>1, <3>2
  <2> QED
    BY <2>3, <2>4
<1>3. S \in F
  <2> HIDE DEF F
  <2>1. \A U \in F : U \subseteq S
    BY DEF F
  <2> QED
    BY <1>1, <1>2, FamilyHasWhole
<1>4. S \cap T = T
  OBVIOUS
<1> QED
  BY <1>3, <1>4 DEF SumFunction

\* One value changes.
LEMMA SumChange ==
  ASSUME NEW S, IsFiniteSet(S), NEW f \in [S -> Int], NEW g \in [S -> Int], NEW e \in S,
         \A x \in S \ {e} : g[x] = f[x]
  PROVE  SumFunction(g) = SumFunction(f) - f[e] + g[e]
<1>1. SumFunction(f) = f[e] + SumFunctionOnSet(f, S \ {e}) /\ SumFunction(g) = g[e] + SumFunctionOnSet(g, S \ {e})
  BY SumElement DEF SumFunction
<1>2. SumFunctionOnSet(f, S \ {e}) = SumFunctionOnSet(g, S \ {e}) /\ SumFunctionOnSet(f, S \ {e}) \in Int
  BY FS_Subset, SumSameValues, SumIsInt
<1> QED
  BY <1>1, <1>2

\* Changes of some values, summed.
LEMMA SumMoved ==
  ASSUME NEW S, IsFiniteSet(S), NEW T \in SUBSET S, NEW f \in [S -> Int], NEW g \in [S -> Int],
         NEW d \in [T -> Int], \A x \in S : g[x] = IF x \in T THEN f[x] + d[x] ELSE f[x]
  PROVE  SumFunction(g) = SumFunction(f) + SumFunction(d)
<1> DEFINE e == [x \in S |-> IF x \in T THEN d[x] ELSE 0]
<1>1. e \in [S -> Int] /\ DOMAIN e = S /\ \A x \in S : e[x] = IF x \in T THEN d[x] ELSE 0
  OBVIOUS
<1>2. \A x \in S : g[x] = f[x] + e[x]
  BY <1>1
<1> HIDE DEF e
<1>3. SumFunction(e) = SumFunction(d)
  BY <1>1, SumPart
<1>4. SumFunction(g) = SumFunction(f) + SumFunction(e)
  BY <1>1, <1>2, SumAdd
<1> QED
  BY <1>3, <1>4

\* Nobody has more than all.
LEMMA SumCovers ==
  ASSUME NEW S, IsFiniteSet(S), NEW f \in [S -> Nat], NEW e \in S
  PROVE  f[e] <= SumFunction(f)
<1> DEFINE g == [f EXCEPT ![e] = 0]
<1>1. g \in [S -> Nat] /\ g[e] = 0 /\ \A x \in S \ {e} : g[x] = f[x]
  OBVIOUS
<1> HIDE DEF g
<1>2. f \in [S -> Int] /\ g \in [S -> Int] /\ f[e] \in Nat
  BY <1>1
<1>3. SumFunction(g) = SumFunction(f) - f[e] + g[e]
  BY <1>1, <1>2, SumChange
<1>4. SumFunction(g) \in Nat /\ SumFunction(f) \in Nat
  BY <1>1, SumNat
<1> QED
  BY <1>1, <1>2, <1>3, <1>4

-----------------------------------------------------------------------------
(* Sequences that grow at their end and are amended in place.              *)

IsSequence(s) == s \in Seq({ s[i] : i \in DOMAIN s })

LEMMA SequenceDomain ==
  ASSUME NEW s, IsSequence(s)
  PROVE  Len(s) \in Nat /\ DOMAIN s = 1 .. Len(s) /\ IsFiniteSet(DOMAIN s)
BY LenProperties, FS_Interval DEF IsSequence

LEMMA SequenceOf ==
  ASSUME NEW S, NEW s \in Seq(S)
  PROVE  IsSequence(s)
<1>1. Len(s) \in Nat /\ s \in [1..Len(s) -> S] /\ DOMAIN s = 1 .. Len(s)
  BY LenProperties
<1> DEFINE R == { s[i] : i \in DOMAIN s }
<1>2. s \in [1..Len(s) -> R]
  BY <1>1
<1> HIDE DEF R
<1>3. s \in Seq(R)
  BY <1>1, <1>2, SeqDef
<1> QED
  BY <1>3 DEF IsSequence, R

LEMMA Appended ==
  ASSUME NEW s, NEW e, IsSequence(s)
  PROVE  LET t == Append(s, e) IN
         /\ IsSequence(t)
         /\ DOMAIN t = DOMAIN s \cup {Len(s) + 1} /\ Len(s) + 1 \notin DOMAIN s
         /\ t[Len(s) + 1] = e
         /\ \A i \in DOMAIN s : t[i] = s[i]
<1> DEFINE S == { s[i] : i \in DOMAIN s } \cup {e}
           t == Append(s, e)
<1>1. s \in Seq(S) /\ e \in S
  BY SeqMonotonic DEF IsSequence
<1>2. Len(s) \in Nat /\ DOMAIN s = 1 .. Len(s)
  BY SequenceDomain
<1> HIDE DEF S
<1>3. /\ t \in Seq(S) /\ Len(t) = Len(s) + 1
      /\ \A i \in 1 .. Len(s) : t[i] = s[i]
      /\ t[Len(s) + 1] = e
  BY <1>1, AppendProperties
<1>4. DOMAIN t = 1 .. Len(s) + 1
  BY <1>3, LenProperties
<1>5. IsSequence(t)
  BY <1>3, SequenceOf
<1> QED
  BY <1>2, <1>3, <1>4, <1>5

LEMMA Amended ==
  ASSUME NEW s, NEW e, NEW n \in DOMAIN s, IsSequence(s)
  PROVE  LET t == [s EXCEPT ![n] = e] IN
         /\ IsSequence(t) /\ DOMAIN t = DOMAIN s
         /\ t[n] = e
         /\ \A i \in DOMAIN s \ {n} : t[i] = s[i]
<1> DEFINE S == { s[i] : i \in DOMAIN s } \cup {e}
           t == [s EXCEPT ![n] = e]
<1>1. s \in Seq(S) /\ e \in S
  BY SeqMonotonic DEF IsSequence
<1>2. n \in 1 .. Len(s)
  BY SequenceDomain
<1> HIDE DEF S
<1>3. t \in Seq(S)
  BY <1>1, <1>2, ExceptSeq
<1>4. IsSequence(t)
  BY <1>3, SequenceOf
<1> QED
  BY <1>4

=============================================================================
