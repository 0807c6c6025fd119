------------------------------ MODULE PayProofs ------------------------------
(***************************************************************************)
(* The coins of the DAO realm, for every set of members and disputes and   *)
(* every value of the parameters: the realm has what it knows of, and that *)
(* covers what it owes in fees, rewards and deposits; and only a vote gets *)
(* at the rest.                                                            *)
(*                                                                         *)
(* What it owes in rewards is more than what members were credited: a      *)
(* ballot that was funded owes a share to every coherent voter that was    *)
(* not settled for it yet.  The invariant counts these shares in, and that *)
(* the shares of a ballot fit the coins the core sent for it.              *)
(***************************************************************************)
EXTENDS DaoProofs

-----------------------------------------------------------------------------
(* Products and quotients. *)

LEMMA ProductIsNat ==
  ASSUME NEW a \in Nat, NEW b \in Nat
  PROVE  a * b \in Nat
OBVIOUS

LEMMA ProductGrows ==
  ASSUME NEW a \in Nat, NEW b \in Nat, NEW c \in Nat, a <= b
  PROVE  a * c <= b * c /\ c * a <= c * b
<1> DEFINE d == b - a
<1>1. d \in Nat /\ b = a + d
  OBVIOUS
<1> HIDE DEF d
<1>2. d * c \in Nat /\ a * c \in Nat /\ c * d \in Nat /\ c * a \in Nat
  BY <1>1, ProductIsNat
<1>3. b * c = a * c + d * c /\ c * b = c * a + c * d
  BY <1>1
<1> QED
  BY <1>2, <1>3

LEMMA ProductCancels ==
  ASSUME NEW a \in Nat, NEW b \in Nat, NEW c \in Nat, c > 0, a * c <= b * c
  PROVE  a <= b
<1> SUFFICES ASSUME b + 1 <= a PROVE FALSE
  OBVIOUS
<1>1. b + 1 \in Nat
  OBVIOUS
<1>2. (b + 1) * c <= a * c
  BY <1>1, ProductGrows
<1>3. (b + 1) * c = b * c + c
  OBVIOUS
<1>4. b * c \in Nat /\ a * c \in Nat
  BY ProductIsNat
<1> QED
  BY <1>2, <1>3, <1>4

LEMMA WholePart ==
  ASSUME NEW a \in Nat, NEW n \in Nat, n > 0
  PROVE  a \div n \in Nat /\ (a \div n) * n <= a
<1> DEFINE q == a \div n
           r == a % n
<1>1. q \in Nat /\ r \in 0 .. n - 1 /\ a = n * q + r
  OBVIOUS
<1> HIDE DEF q, r
<1>2. n * q = q * n /\ q * n \in Nat
  BY <1>1
<1>3. q \in Nat /\ q * n <= a
  BY <1>1, <1>2
<1> QED
  BY <1>3 DEF q

LEMMA QuotientGrows ==
  ASSUME NEW a \in Nat, NEW b \in Nat, NEW n \in Nat, n > 0, a <= b
  PROVE  a \div n <= b \div n
<1>1. a \div n \in Int /\ b \div n \in Int /\ a = n * (a \div n) + (a % n) /\ b = n * (b \div n) + (b % n)
      /\ a % n \in 0 .. (n - 1) /\ b % n \in 0 .. (n - 1)
  OBVIOUS
<1> QED
  BY <1>1

-----------------------------------------------------------------------------
(* Shares of a pool. *)

\* A share takes of a pool no more than its weight's part.
LEMMA ShareOfPool ==
  ASSUME NEW pool \in Nat, NEW weight \in Nat, NEW coherent \in Nat
  PROVE  /\ RewardShare(pool, weight, coherent) \in Nat
         /\ RewardShare(pool, weight, coherent) * coherent <= pool * weight
<1> DEFINE s == RewardShare(pool, weight, coherent)
           w == IF weight > coherent THEN coherent ELSE weight
<1>1. s \in Nat
  <2>1. pool \in Int /\ weight \in Int /\ coherent \in Int
    OBVIOUS
  <2> QED
    BY <2>1, RewardShareIsNat
<1>2. pool * weight \in Nat
  BY ProductIsNat
<1>3. CASE coherent <= 0 \/ weight <= 0 \/ pool <= 0
  <2>1. s = 0
    BY <1>3 DEF RewardShare
  <2> HIDE DEF s
  <2>2. s * coherent = 0
    BY <2>1
  <2> QED
    BY <1>1, <1>2, <2>2 DEF s
<1>4. CASE ~(coherent <= 0 \/ weight <= 0 \/ pool <= 0)
  <2>1. s = (pool * w) \div coherent
    BY <1>4 DEF RewardShare, MulDiv
  <2>2. w \in Nat /\ w <= weight
    OBVIOUS
  <2> HIDE DEF s, w
  <2>3. pool * w \in Nat /\ pool * w <= pool * weight
    BY <2>2, ProductIsNat, ProductGrows
  <2> DEFINE p == pool * w
  <2>4. p \in Nat /\ p <= pool * weight /\ s = p \div coherent
    BY <2>1, <2>3
  <2> HIDE DEF p
  <2>5. (p \div coherent) * coherent <= p
    BY <1>4, <2>4, WholePart
  <2>6. s * coherent <= p
    BY <2>4, <2>5
  <2>7. s * coherent \in Nat
    BY <1>1, ProductIsNat DEF s
  <2> QED
    BY <1>1, <1>2, <2>4, <2>6, <2>7 DEF s
<1> QED
  BY <1>3, <1>4

\* Who revealed more gets no less.
LEMMA ShareGrows ==
  ASSUME NEW pool \in Nat, NEW v \in Int, NEW w \in Int, NEW coherent \in Int, v <= w
  PROVE  RewardShare(pool, v, coherent) <= RewardShare(pool, w, coherent)
<1>1. RewardShare(pool, v, coherent) \in Nat /\ RewardShare(pool, w, coherent) \in Nat
  <2>1. pool \in Int
    OBVIOUS
  <2> QED
    BY <2>1, RewardShareIsNat
<1>2. CASE coherent <= 0 \/ v <= 0 \/ pool <= 0
  <2>1. RewardShare(pool, v, coherent) = 0
    BY <1>2 DEF RewardShare
  <2> QED
    BY <1>1, <2>1
<1>3. CASE ~(coherent <= 0 \/ v <= 0 \/ pool <= 0)
  <2> DEFINE x == IF v > coherent THEN coherent ELSE v
             y == IF w > coherent THEN coherent ELSE w
  <2>1. RewardShare(pool, v, coherent) = (pool * x) \div coherent
    BY <1>3 DEF RewardShare, MulDiv
  <2>2. RewardShare(pool, w, coherent) = (pool * y) \div coherent
    BY <1>3 DEF RewardShare, MulDiv
  <2>3. x \in Nat /\ y \in Nat /\ x <= y /\ coherent \in Nat /\ coherent > 0
    BY <1>3
  <2> HIDE DEF x, y
  <2>4. pool * x \in Nat /\ pool * y \in Nat /\ pool * x <= pool * y
    BY <2>3, ProductIsNat, ProductGrows
  <2> DEFINE p == pool * x
             q == pool * y
  <2>5. p \in Nat /\ q \in Nat /\ p <= q
    BY <2>4
  <2> HIDE DEF p, q
  <2>6. p \div coherent <= q \div coherent
    BY <2>3, <2>5, QuotientGrows
  <2> QED
    BY <2>1, <2>2, <2>6 DEF p, q
<1> QED
  BY <1>2, <1>3

\* Shares on weights that add up to no more than the coherent weight fit the pool.
LEMMA RewardsFit ==
  ASSUME NEW S, IsFiniteSet(S), NEW pool \in Nat, NEW coherent \in Int, NEW w \in [S -> Nat],
         SumFunction(w) <= coherent
  PROVE  SumFunction([m \in S |-> RewardShare(pool, w[m], coherent)]) <= pool
<1> DEFINE s == [m \in S |-> RewardShare(pool, w[m], coherent)]
<1>1. SumFunction(w) \in Nat /\ coherent \in Nat
  <2>1. SumFunction(w) \in Nat
    BY SumNat
  <2> QED
    BY <2>1
<1>2. \A m \in S : s[m] \in Nat /\ s[m] * coherent <= pool * w[m]
  BY <1>1, ShareOfPool
<1>3. s \in [S -> Nat] /\ DOMAIN s = S /\ DOMAIN w = S
  BY <1>2
<1>4. CASE coherent = 0
  <2>1. \A m \in S : s[m] = 0
    BY <1>4 DEF RewardShare
  <2> HIDE DEF s
  <2>2. SumFunction(s) = 0
    BY <1>3, <2>1, SumOfNothing
  <2> QED
    BY <2>2 DEF s
<1>5. CASE coherent > 0
  <2> HIDE DEF s
  <2> DEFINE F == { T \in SUBSET S : SumFunctionOnSet(s, T) * coherent <= pool * SumFunctionOnSet(w, T) }
  <2>0. {} \in F
    <3>1. SumFunctionOnSet(s, {}) = 0 /\ SumFunctionOnSet(w, {}) = 0
      BY SumEmpty
    <3> QED
      BY <1>1, <3>1
  <2>1. ASSUME NEW T \in F, NEW e \in S \ T PROVE T \cup {e} \in F
    <3>1. IsFiniteSet(T) /\ T \cup {e} \in SUBSET S /\ e \notin T
      BY FS_Subset
    <3>2. /\ \A x \in T \cup {e} : s[x] \in Int /\ w[x] \in Int
          /\ s[e] \in Nat /\ w[e] \in Nat
      BY <1>3, <3>1
    <3>3. SumFunctionOnSet(s, T) \in Int /\ SumFunctionOnSet(w, T) \in Int
      BY <3>1, <3>2, SumIsInt
    <3>4. /\ SumFunctionOnSet(s, T \cup {e}) = s[e] + SumFunctionOnSet(s, T)
          /\ SumFunctionOnSet(w, T \cup {e}) = w[e] + SumFunctionOnSet(w, T)
      BY <3>1, <3>2, SumOneMore
    <3>5. SumFunctionOnSet(s, T) * coherent <= pool * SumFunctionOnSet(w, T)
      BY <2>1
    <3>6. s[e] * coherent <= pool * w[e]
      BY <1>2 DEF s
    <3> DEFINE a == s[e]
               b == SumFunctionOnSet(s, T)
               x == w[e]
               y == SumFunctionOnSet(w, T)
    <3>7. a \in Int /\ b \in Int /\ x \in Int /\ y \in Int /\ a * coherent <= pool * x /\ b * coherent <= pool * y
      BY <3>2, <3>3, <3>5, <3>6
    <3>8. SumFunctionOnSet(s, T \cup {e}) = a + b /\ SumFunctionOnSet(w, T \cup {e}) = x + y
      BY <3>4
    <3> HIDE DEF a, b, x, y
    <3>9. (a + b) * coherent <= pool * (x + y)
      <4>1. (a + b) * coherent = a * coherent + b * coherent /\ pool * (x + y) = pool * x + pool * y
        BY <1>1, <3>7
      <4>2. a * coherent \in Int /\ b * coherent \in Int /\ pool * x \in Int /\ pool * y \in Int
        BY <1>1, <3>7
      <4> QED
        BY <3>7, <4>1, <4>2
    <3> QED
      BY <3>1, <3>8, <3>9
  <2> HIDE DEF F
  <2>2. S \in F
    BY <2>0, <2>1, FamilyHasWhole
  <2>3. SumFunction(s) * coherent <= pool * SumFunction(w)
    BY <1>3, <2>2 DEF F, SumFunction
  <2>4. pool * SumFunction(w) <= pool * coherent /\ pool * SumFunction(w) \in Nat /\ pool * coherent \in Nat
    BY <1>1, ProductGrows, ProductIsNat
  <2>5. SumFunction(s) \in Nat
    BY <1>3, SumNat
  <2>6. SumFunction(s) * coherent <= pool * coherent
    <3>1. SumFunction(s) * coherent \in Nat
      BY <1>1, <2>5, ProductIsNat
    <3> QED
      BY <2>3, <2>4, <3>1
  <2>7. SumFunction(s) <= pool
    BY <1>1, <1>5, <2>5, <2>6, ProductCancels
  <2> QED
    BY <2>7 DEF s
<1> QED
  BY <1>1, <1>4, <1>5

-----------------------------------------------------------------------------
(* What a ballot owes. *)

\* What is in S of one kind, or of several, and its weight.
OfKind(S, w, key, c) == SumFunction([m \in { x \in S : key[x] = c } |-> w[m]])
OfKinds(S, w, key, K) == SumFunction([m \in { x \in S : key[x] \in K } |-> w[m]])

\* A sum by kinds is the sum over all of these kinds.
LEMMA SumByKind ==
  ASSUME NEW S, IsFiniteSet(S), NEW w \in [S -> Int], NEW key, NEW K, IsFiniteSet(K), NEW tally,
         \A c \in K : tally[c] = OfKind(S, w, key, c)
  PROVE  SumFunctionOnSet(tally, K) = OfKinds(S, w, key, K)
<1> DEFINE Of(C) == [x \in S |-> IF key[x] \in C THEN w[x] ELSE 0]
           F == { C \in SUBSET K : SumFunctionOnSet(tally, C) = SumFunction(Of(C)) }
<1>1. ASSUME NEW C PROVE SumFunction(Of(C)) = SumFunction([m \in { x \in S : key[x] \in C } |-> w[m]])
  <2> DEFINE T == { x \in S : key[x] \in C }
             f == [m \in T |-> w[m]]
             g == Of(C)
  <2>1. T \in SUBSET S /\ f \in [T -> Int] /\ DOMAIN g = S /\ \A x \in S : g[x] = IF x \in T THEN f[x] ELSE 0
    OBVIOUS
  <2> HIDE DEF T, f, g
  <2>2. SumFunction(g) = SumFunction(f)
    BY <2>1, SumPart
  <2> QED
    BY <2>2 DEF T, f, g
<1>2. ASSUME NEW C PROVE Of(C) \in [S -> Int] /\ SumFunction(Of(C)) \in Int
  <2>1. Of(C) \in [S -> Int]
    OBVIOUS
  <2> HIDE DEF Of
  <2> QED
    BY <2>1, SumType
<1>3. {} \in F
  <2>1. SumFunction(Of({})) = 0
    BY SumOfNothing
  <2> QED
    BY <2>1, SumEmpty
<1>4. ASSUME NEW C \in F, NEW c \in K \ C PROVE C \cup {c} \in F
  <2>1. SumFunction(Of(C \cup {c})) = SumFunction(Of(C)) + SumFunction(Of({c}))
    <3>1. \A x \in S : Of(C \cup {c})[x] = Of(C)[x] + Of({c})[x]
      OBVIOUS
    <3> DEFINE f == Of(C)
               g == Of({c})
               h == Of(C \cup {c})
    <3> HIDE DEF Of
    <3>2. f \in [S -> Int] /\ g \in [S -> Int] /\ h \in [S -> Int] /\ \A x \in S : h[x] = f[x] + g[x]
      BY <1>2, <3>1
    <3> HIDE DEF f, g, h
    <3>3. SumFunction(h) = SumFunction(f) + SumFunction(g)
      BY <3>2, SumAdd
    <3> QED
      BY <3>3 DEF f, g, h
  <2>2. SumFunction(Of({c})) = tally[c]
    <3>1. { x \in S : key[x] \in {c} } = { x \in S : key[x] = c }
      OBVIOUS
    <3> QED
      BY <1>1, <3>1 DEF OfKind
  <2> HIDE DEF Of
  <2>3. IsFiniteSet(C) /\ c \notin C /\ C \cup {c} \in SUBSET K
    BY FS_Subset
  <2>4. \A x \in C \cup {c} : tally[x] \in Int
    <3>1. ASSUME NEW x \in C \cup {c} PROVE tally[x] \in Int
      <4>1. SumFunction(Of({x})) = tally[x]
        <5>1. x \in K /\ { y \in S : key[y] \in {x} } = { y \in S : key[y] = x }
          BY <2>3
        <5> QED
          BY <1>1, <5>1 DEF OfKind
      <4> QED
        BY <1>2, <4>1
    <3> QED
      BY <3>1
  <2>5. SumFunctionOnSet(tally, C \cup {c}) = tally[c] + SumFunctionOnSet(tally, C)
    BY <2>3, <2>4, SumOneMore
  <2>6. SumFunctionOnSet(tally, C) = SumFunction(Of(C))
    OBVIOUS
  <2> QED
    BY <1>2, <2>1, <2>2, <2>3, <2>5, <2>6
<1> HIDE DEF F
<1>5. K \in F
  BY <1>3, <1>4, FamilyHasWhole
<1> QED
  BY <1>1, <1>5 DEF F, OfKinds

\* What a member will get in coins of a ballot, when it is settled.
Claim(b, m) ==
  IF m \in DOMAIN b.reveals /\ ClassOf(b, m) = "coherent"
  THEN RewardShare(b.bondShare, b.reveals[m].weight, b.coherentWeight)
  ELSE 0

\* The tally of a ballot is the sum of what was revealed, and its shares count the weight that
\* was coherent; it has no coins before it is final.
Counts(b) ==
  /\ DOMAIN b = BallotFields /\ DOMAIN b.reveals \subseteq Members /\ DOMAIN b.tally = BallotChoices
  /\ \A m \in DOMAIN b.reveals : b.reveals[m].choice \in BallotChoices /\ b.reveals[m].weight \in Nat
  /\ \A c \in BallotChoices : b.tally[c] = RevealedWeight(b, RevealedFor(b, c))
  /\ b.bondShare \in Nat /\ b.expectedPool \in Nat /\ b.coherentWeight \in Int
  /\ b.phase # "resolved" \/ ~b.final => b.bondShare = 0
  /\ b.phase = "resolved" /\ ~b.appealed => b.coherentWeight = CoherentWeight(b.tally, b.outcome)

CoherentVoters(b) == { x \in DOMAIN b.reveals : ClassOf(b, x) = "coherent" }

LEMMA ChoicesFinite ==
  ASSUME NEW S \in SUBSET BallotChoices
  PROVE  IsFiniteSet(S)
<1>1. IsFiniteSet({})
  BY FS_EmptySet
<1>2. IsFiniteSet({} \cup {"UPHOLD"})
  BY <1>1, FS_AddElement
<1>3. IsFiniteSet(({} \cup {"UPHOLD"}) \cup {"OVERTURN"})
  BY <1>2, FS_AddElement
<1>4. IsFiniteSet((({} \cup {"UPHOLD"}) \cup {"OVERTURN"}) \cup {"OVERTURN_MINOR"})
  BY <1>3, FS_AddElement
<1>5. IsFiniteSet(((({} \cup {"UPHOLD"}) \cup {"OVERTURN"}) \cup {"OVERTURN_MINOR"}) \cup {"VOID"})
  BY <1>4, FS_AddElement
<1>6. IsFiniteSet((((({} \cup {"UPHOLD"}) \cup {"OVERTURN"}) \cup {"OVERTURN_MINOR"}) \cup {"VOID"}) \cup {"ABSTAIN"})
  BY <1>5, FS_AddElement
<1>7. BallotChoices = (((({} \cup {"UPHOLD"}) \cup {"OVERTURN"}) \cup {"OVERTURN_MINOR"}) \cup {"VOID"}) \cup {"ABSTAIN"}
  BY DEF BallotChoices
<1> QED
  BY <1>6, <1>7, FS_Subset

LEMMA CoherentAre ==
  ASSUME NEW b, Counts(b)
  PROVE  CoherentVoters(b) = { x \in DOMAIN b.reveals : b.reveals[x].choice \in CoherentChoices(OutcomeToSettle(b)) }
<1>1. "ABSTAIN" \notin CoherentChoices(OutcomeToSettle(b))
  BY DEF CoherentChoices, Overturns
<1>2. ASSUME NEW x \in DOMAIN b.reveals
      PROVE  ClassOf(b, x) = "coherent" <=> b.reveals[x].choice \in CoherentChoices(OutcomeToSettle(b))
  <2>1. ClassOf(b, x) = Classify(TRUE, b.reveals[x].choice, OutcomeToSettle(b))
    BY DEF ClassOf
  <2> DEFINE choice == b.reveals[x].choice
             outcome == OutcomeToSettle(b)
  <2> HIDE DEF choice, outcome
  <2>2. ASSUME "ABSTAIN" \notin CoherentChoices(outcome)
        PROVE  Classify(TRUE, choice, outcome) = "coherent" <=> choice \in CoherentChoices(outcome)
    <3>1. CASE choice = "ABSTAIN"
      BY <2>2, <3>1 DEF Classify
    <3>2. CASE choice # "ABSTAIN" /\ choice \in CoherentChoices(outcome)
      <4>1. choice \notin IncoherentChoices(outcome)
        BY <3>2 DEF IncoherentChoices
      <4> QED
        BY <3>2, <4>1 DEF Classify
    <3>3. CASE choice # "ABSTAIN" /\ choice \notin CoherentChoices(outcome)
      BY <3>3 DEF Classify
    <3> QED
      BY <3>1, <3>2, <3>3
  <2> QED
    BY <1>1, <2>1, <2>2 DEF choice, outcome
<1> QED
  BY <1>2 DEF CoherentVoters

\* The coherent weight is the weight of the coherent voters.
LEMMA CoherentWeigh ==
  ASSUME NEW b, Counts(b), b.phase = "resolved"
  PROVE  SumFunction([m \in CoherentVoters(b) |-> b.reveals[m].weight]) <= b.coherentWeight \/ CoherentVoters(b) = {}
<1>1. CASE b.appealed
  <2>1. CoherentChoices(OutcomeToSettle(b)) = {}
    BY <1>1 DEF OutcomeToSettle, CoherentChoices
  <2> QED
    BY <2>1, CoherentAre
<1>2. CASE ~b.appealed
  <2> DEFINE K == CoherentChoices(b.outcome)
             S == DOMAIN b.reveals
             w == [m \in S |-> b.reveals[m].weight]
             key == [m \in S |-> b.reveals[m].choice]
  <2>1. K \in SUBSET BallotChoices
    BY DEF CoherentChoices, BallotChoices, Overturns
  <2>2. OutcomeToSettle(b) = b.outcome
    BY <1>2 DEF OutcomeToSettle
  <2>3. IsFiniteSet(S) /\ w \in [S -> Int]
    BY MembersAssumption, FS_Subset DEF Counts
  <2>4. ASSUME NEW c \in K
        PROVE  b.tally[c] = OfKind(S, w, key, c)
    <3>1. RevealedFor(b, c) = { x \in S : key[x] = c }
      BY DEF RevealedFor
    <3>2. [m \in RevealedFor(b, c) |-> b.reveals[m].weight] = [m \in { x \in S : key[x] = c } |-> w[m]]
      BY <3>1
    <3> QED
      BY <2>1, <3>2 DEF Counts, RevealedWeight, OfKind
  <2>5. SumFunctionOnSet(b.tally, K) = OfKinds(S, w, key, K)
    <3>1. IsFiniteSet(K)
      BY <2>1, ChoicesFinite
    <3> HIDE DEF K, S, w, key
    <3> QED
      BY <2>3, <2>4, <3>1, SumByKind
  <2>6. CoherentVoters(b) = { x \in S : key[x] \in K }
    BY <2>2, CoherentAre
  <2>7. OfKinds(S, w, key, K) = SumFunction([m \in CoherentVoters(b) |-> b.reveals[m].weight])
    <3>1. [m \in { x \in S : key[x] \in K } |-> w[m]] = [m \in CoherentVoters(b) |-> b.reveals[m].weight]
      BY <2>6
    <3> QED
      BY <3>1 DEF OfKinds
  <2>8. b.coherentWeight = SumFunctionOnSet(b.tally, K)
    BY <1>2 DEF Counts, CoherentWeight, WeightOf
  <2>9. b.coherentWeight \in Int
    BY DEF Counts
  <2> DEFINE got == SumFunction([m \in CoherentVoters(b) |-> b.reveals[m].weight])
  <2>10. got = b.coherentWeight
    BY <2>5, <2>7, <2>8
  <2> HIDE DEF got
  <2>11. got <= b.coherentWeight
    BY <2>9, <2>10
  <2> QED
    BY <2>11 DEF got
<1> QED
  BY <1>1, <1>2

\* The shares of the coherent voters fit whatever pool they are of.
LEMMA SharedFits ==
  ASSUME NEW b, Counts(b), b.phase = "resolved", NEW pool \in Nat
  PROVE  Shared(b, pool) <= pool
<1> DEFINE S == CoherentVoters(b)
           w == [m \in S |-> b.reveals[m].weight]
<1>1. Shared(b, pool) = SumFunction([m \in S |-> RewardShare(pool, b.reveals[m].weight, b.coherentWeight)])
  BY DEF Shared, CoherentVoters
<1>2. [m \in S |-> RewardShare(pool, b.reveals[m].weight, b.coherentWeight)]
        = [m \in S |-> RewardShare(pool, w[m], b.coherentWeight)]
  OBVIOUS
<1>3. IsFiniteSet(S) /\ w \in [S -> Nat]
  BY MembersAssumption, FS_Subset DEF Counts, CoherentVoters
<1>4. CASE S = {}
  <2>1. Shared(b, pool) = 0
    BY <1>1, <1>4, SumNothing
  <2> QED
    BY <2>1
<1>5. CASE SumFunction(w) <= b.coherentWeight
  <2>1. b.coherentWeight \in Int
    BY DEF Counts
  <2> HIDE DEF S, w
  <2> QED
    BY <1>1, <1>2, <1>3, <1>5, <2>1, RewardsFit
<1> QED
  BY <1>4, <1>5, CoherentWeigh

LEMMA ClaimIsNat ==
  ASSUME NEW b, Counts(b), NEW m
  PROVE  Claim(b, m) \in Nat
<1>1. CASE m \in DOMAIN b.reveals
  <2>1. b.bondShare \in Int /\ b.reveals[m].weight \in Int /\ b.coherentWeight \in Int
    BY <1>1 DEF Counts
  <2> QED
    BY <2>1, RewardShareIsNat DEF Claim
<1>2. CASE m \notin DOMAIN b.reveals
  BY <1>2 DEF Claim
<1> QED
  BY <1>1, <1>2

LEMMA NoClaim ==
  ASSUME NEW b, b.bondShare = 0, NEW m
  PROVE  Claim(b, m) = 0
BY DEF Claim, RewardShare

\* What a ballot owes all members is no more than the coins it was funded with.
LEMMA ClaimsFit ==
  ASSUME NEW b, Counts(b)
  PROVE  SumFunction([m \in Members |-> Claim(b, m)]) <= b.bondShare
<1>1. CASE b.phase # "resolved"
  <2>1. b.bondShare = 0
    BY <1>1 DEF Counts
  <2>2. \A m \in Members : Claim(b, m) = 0
    BY <2>1, NoClaim
  <2> DEFINE f == [m \in Members |-> Claim(b, m)]
  <2>3. DOMAIN f = Members /\ \A m \in Members : f[m] = 0
    BY <2>2
  <2> HIDE DEF f
  <2>4. SumFunction(f) = 0
    BY <2>3, MembersAssumption, SumOfNothing
  <2> QED
    BY <2>1, <2>4 DEF f
<1>2. CASE b.phase = "resolved"
  <2> DEFINE T == CoherentVoters(b)
             f == [m \in T |-> RewardShare(b.bondShare, b.reveals[m].weight, b.coherentWeight)]
             g == [m \in Members |-> Claim(b, m)]
  <2>1. T \in SUBSET Members /\ b.bondShare \in Nat
    BY DEF Counts, CoherentVoters
  <2>2. f \in [T -> Int]
    <3>1. ASSUME NEW m \in T PROVE f[m] \in Int
      <4>1. Claim(b, m) = f[m]
        BY DEF Claim, CoherentVoters
      <4> QED
        BY <4>1, ClaimIsNat
    <3> QED
      BY <3>1
  <2>3. DOMAIN g = Members /\ \A x \in Members : g[x] = IF x \in T THEN f[x] ELSE 0
    BY DEF Claim, CoherentVoters
  <2>4. SumFunction(f) <= b.bondShare
    BY <1>2, <2>1, SharedFits DEF Shared, CoherentVoters
  <2> HIDE DEF T, f, g
  <2>5. SumFunction(g) = SumFunction(f)
    BY <2>1, <2>2, <2>3, MembersAssumption, SumPart
  <2> QED
    BY <2>4, <2>5 DEF g
<1> QED
  BY <1>1, <1>2

-----------------------------------------------------------------------------
(* What is due to members. *)

\* What a member whose cursor is here will get in coins of ballots.
Unsettled(bs, m, cursor) ==
  SumFunction([seq \in DOMAIN bs |-> IF cursor < seq THEN Claim(bs[seq], m) ELSE 0])

Due(st, m) == st.members[m].pendingUgnot + Unsettled(st.ballots, m, st.members[m].cursor)

AllDue(st) == SumFunction([m \in Members |-> Due(st, m)])

AllCount(bs) == IsSequence(bs) /\ \A seq \in DOMAIN bs : Counts(bs[seq])

LEMMA BallotNumbers ==
  ASSUME NEW bs, IsSequence(bs)
  PROVE  IsFiniteSet(DOMAIN bs) /\ DOMAIN bs = 1 .. Len(bs) /\ Len(bs) \in Nat /\ \A seq \in DOMAIN bs : seq \in Nat
<1>1. DOMAIN bs = 1 .. Len(bs) /\ Len(bs) \in Nat
  BY SequenceDomain
<1>2. IsFiniteSet(1 .. Len(bs))
  BY <1>1, FS_Interval
<1> QED
  BY <1>1, <1>2

LEMMA UnsettledIsNat ==
  ASSUME NEW bs, AllCount(bs), NEW m, NEW cursor
  PROVE  Unsettled(bs, m, cursor) \in Nat
<1> DEFINE f == [seq \in DOMAIN bs |-> IF cursor < seq THEN Claim(bs[seq], m) ELSE 0]
<1>1. f \in [DOMAIN bs -> Nat]
  BY ClaimIsNat DEF AllCount
<1>2. IsFiniteSet(DOMAIN bs)
  BY BallotNumbers DEF AllCount
<1> HIDE DEF f
<1>3. SumFunction(f) \in Nat
  BY <1>1, <1>2, SumNat
<1> QED
  BY <1>3 DEF f, Unsettled

\* The further the cursor, the less is to come.
LEMMA UnsettledFalls ==
  ASSUME NEW bs, AllCount(bs), NEW m, NEW c \in Nat, NEW d \in Nat, c <= d
  PROVE  Unsettled(bs, m, d) <= Unsettled(bs, m, c)
<1> DEFINE f == [seq \in DOMAIN bs |-> IF d < seq THEN Claim(bs[seq], m) ELSE 0]
           g == [seq \in DOMAIN bs |-> IF c < seq THEN Claim(bs[seq], m) ELSE 0]
<1>1. \A seq \in DOMAIN bs : Claim(bs[seq], m) \in Nat /\ seq \in Nat
  BY ClaimIsNat, BallotNumbers DEF AllCount
<1>2. f \in [DOMAIN bs -> Int] /\ g \in [DOMAIN bs -> Int] /\ \A seq \in DOMAIN bs : f[seq] <= g[seq]
  BY <1>1
<1>3. IsFiniteSet(DOMAIN bs)
  BY BallotNumbers DEF AllCount
<1> HIDE DEF f, g
<1>4. SumFunction(f) <= SumFunction(g)
  BY <1>2, <1>3, SumOrder
<1> QED
  BY <1>4 DEF f, g, Unsettled

\* What a settlement passes by is due no more.
LEMMA UnsettledNext ==
  ASSUME NEW bs, AllCount(bs), NEW m, NEW c \in Nat, c + 1 \in DOMAIN bs
  PROVE  Unsettled(bs, m, c) = Claim(bs[c + 1], m) + Unsettled(bs, m, c + 1)
<1> DEFINE f == [seq \in DOMAIN bs |-> IF c + 1 < seq THEN Claim(bs[seq], m) ELSE 0]
           g == [seq \in DOMAIN bs |-> IF c < seq THEN Claim(bs[seq], m) ELSE 0]
           e == c + 1
<1>1. \A seq \in DOMAIN bs : Claim(bs[seq], m) \in Nat /\ seq \in Nat
  BY ClaimIsNat, BallotNumbers DEF AllCount
<1>2. f \in [DOMAIN bs -> Int] /\ g \in [DOMAIN bs -> Int] /\ \A seq \in DOMAIN bs \ {e} : g[seq] = f[seq]
  BY <1>1
<1>3. f[e] = 0 /\ g[e] = Claim(bs[e], m) /\ e \in DOMAIN bs
  BY <1>1
<1>4. IsFiniteSet(DOMAIN bs)
  BY BallotNumbers DEF AllCount
<1>5. Unsettled(bs, m, c) = SumFunction(g) /\ Unsettled(bs, m, c + 1) = SumFunction(f)
  BY DEF Unsettled
<1>6. Claim(bs[e], m) \in Nat
  BY <1>1, <1>3
<1> HIDE DEF f, g, e
<1>7. SumFunction(g) = SumFunction(f) - f[e] + g[e] /\ SumFunction(f) \in Int
  BY <1>2, <1>3, <1>4, SumChange, SumType
<1>8. SumFunction(g) = Claim(bs[e], m) + SumFunction(f)
  BY <1>3, <1>6, <1>7
<1> QED
  BY <1>5, <1>8 DEF e

-----------------------------------------------------------------------------
(* Amounts are numbers. *)

MemberPurse(mb) ==
  /\ DOMAIN mb = DOMAIN NoMember /\ DOMAIN mb.fee = DOMAIN NoPosition
  /\ mb.pendingUgnot \in Nat /\ mb.cursor \in Nat
  /\ mb.fee.shares \in Int /\ mb.fee.debt \in Int /\ mb.fee.pending \in Int

Purse(st) ==
  /\ DOMAIN st = StoreFields /\ DOMAIN st.members = Members
  /\ DOMAIN st.fees = DOMAIN NoFees /\ DOMAIN st.held = DOMAIN NothingHeld
  /\ st.ugnot \in Int /\ st.pyth \in Int /\ \A f \in DOMAIN NothingHeld : st.held[f] \in Int
  /\ st.fees.accPerShare \in Int /\ st.fees.carry \in Int /\ st.fees.totalShares \in Int
  /\ \A m \in Members : MemberPurse(st.members[m])

\* Coins that arrived and were not attributed yet.
Idle(st) == st.ugnot - st.held.knownUgnot

\* What members were credited in PYTH beyond what the realm could pay them.
Short(st) == st.held.pendingPyth - st.held.rewardPyth - TreasuryPyth(st)

LEMMA HeldAreInt ==
  ASSUME NEW st, Purse(st)
  PROVE  /\ st.held.knownUgnot \in Int /\ st.held.feeUgnot \in Int /\ st.held.rewardUgnot \in Int
         /\ st.held.depositUgnot \in Int /\ st.held.stakedPyth \in Int /\ st.held.unbondingPyth \in Int
         /\ st.held.rewardPyth \in Int /\ st.held.pendingPyth \in Int
         /\ Idle(st) \in Int /\ Short(st) \in Int /\ TreasuryUgnot(st) \in Int
<1>1. /\ st.held.knownUgnot \in Int /\ st.held.feeUgnot \in Int /\ st.held.rewardUgnot \in Int
      /\ st.held.depositUgnot \in Int /\ st.held.stakedPyth \in Int /\ st.held.unbondingPyth \in Int
      /\ st.held.rewardPyth \in Int /\ st.held.pendingPyth \in Int /\ st.ugnot \in Int /\ st.pyth \in Int
  BY DEF Purse, NothingHeld
<1>2. Idle(st) \in Int
  BY <1>1 DEF Idle
<1>3. Short(st) \in Int
  BY <1>1 DEF Short, TreasuryPyth
<1>4. TreasuryUgnot(st) \in Int
  BY <1>1 DEF TreasuryUgnot
<1> QED
  BY <1>1, <1>2, <1>3, <1>4

LEMMA DueIsNat ==
  ASSUME NEW st, Purse(st), AllCount(st.ballots)
  PROVE  (\A m \in Members : Due(st, m) \in Nat) /\ AllDue(st) \in Nat
<1>1. ASSUME NEW m \in Members PROVE Due(st, m) \in Nat
  <2>1. Unsettled(st.ballots, m, st.members[m].cursor) \in Nat
    BY UnsettledIsNat
  <2>2. st.members[m].pendingUgnot \in Nat
    BY DEF Purse, MemberPurse
  <2> QED
    BY <2>1, <2>2 DEF Due
<1> DEFINE f == [m \in Members |-> Due(st, m)]
<1>2. f \in [Members -> Nat]
  BY <1>1
<1> HIDE DEF f
<1>3. SumFunction(f) \in Nat
  BY <1>2, MembersAssumption, SumNat
<1> QED
  BY <1>1, <1>3 DEF f, AllDue

\* One member is due d more than before.
LEMMA MemberDue ==
  ASSUME NEW st, Purse(st), NEW t, Purse(t), AllCount(st.ballots), t.ballots = st.ballots,
         NEW m \in Members, NEW d \in Int, Due(t, m) <= Due(st, m) + d,
         \A x \in Members \ {m} : /\ t.members[x].pendingUgnot = st.members[x].pendingUgnot
                                  /\ t.members[x].cursor = st.members[x].cursor
  PROVE  AllDue(t) <= AllDue(st) + d
<1> DEFINE f == [x \in Members |-> Due(st, x)]
           g == [x \in Members |-> Due(t, x)]
<1>1. \A x \in Members \ {m} : g[x] = f[x]
  BY DEF Due
<1>2. f \in [Members -> Int] /\ g \in [Members -> Int]
  <2>1. \A x \in Members : Due(st, x) \in Nat
    BY DueIsNat
  <2>2. \A x \in Members : Due(t, x) \in Nat
    BY DueIsNat
  <2> QED
    BY <2>1, <2>2
<1>3. f[m] \in Int /\ g[m] \in Int /\ g[m] <= f[m] + d
  BY <1>2
<1>4. AllDue(t) = SumFunction(g) /\ AllDue(st) = SumFunction(f)
  BY DEF AllDue
<1> HIDE DEF f, g
<1>5. SumFunction(g) = SumFunction(f) - f[m] + g[m] /\ SumFunction(f) \in Int
  BY <1>1, <1>2, MembersAssumption, SumChange, SumType
<1> QED
  BY <1>3, <1>4, <1>5

LEMMA SameDue ==
  ASSUME NEW st, NEW t, t.ballots = st.ballots,
         \A x \in Members : /\ t.members[x].pendingUgnot = st.members[x].pendingUgnot
                            /\ t.members[x].cursor = st.members[x].cursor
  PROVE  AllDue(t) = AllDue(st)
<1>1. \A x \in Members : Due(t, x) = Due(st, x)
  BY DEF Due
<1> QED
  BY <1>1 DEF AllDue

-----------------------------------------------------------------------------
(* What calls of members do to coins. *)

\* t comes of st without a debt that nothing backs, and without a loss to the treasury.
Banks(t, st) ==
  /\ Purse(t)
  /\ t.ballots = st.ballots /\ t.proposals = st.proposals /\ t.held.depositUgnot = st.held.depositUgnot
  /\ Idle(st) >= 0 => Idle(t) >= 0
  /\ TreasuryUgnot(st) <= TreasuryUgnot(t)
  /\ AllDue(t) - t.held.rewardUgnot <= AllDue(st) - st.held.rewardUgnot

\* And nobody is settled for less than before; while nobody is for more, the realm is no shorter of PYTH.
Pays(t, st) ==
  /\ Banks(t, st)
  /\ \A m \in Members : st.members[m].cursor <= t.members[m].cursor
  /\ (\A m \in Members : st.members[m].cursor = t.members[m].cursor) => Short(t) = Short(st)

\* The coins of t are those of st.
SameCoins(t, st) ==
  /\ t.ugnot = st.ugnot /\ t.ballots = st.ballots /\ t.proposals = st.proposals
  /\ t.held.knownUgnot = st.held.knownUgnot /\ t.held.feeUgnot = st.held.feeUgnot
  /\ t.held.rewardUgnot = st.held.rewardUgnot /\ t.held.depositUgnot = st.held.depositUgnot
  /\ \A m \in Members : /\ t.members[m].pendingUgnot = st.members[m].pendingUgnot
                        /\ t.members[m].cursor = st.members[m].cursor

LEMMA BanksOn ==
  ASSUME NEW st, Purse(st), AllCount(st.ballots), NEW t, Banks(t, st), NEW u, Banks(u, t)
  PROVE  Banks(u, st)
<1>1. AllDue(st) \in Int /\ AllDue(t) \in Int /\ AllDue(u) \in Int
  BY DueIsNat DEF Banks
<1>2. /\ Purse(t) /\ t.ballots = st.ballots /\ t.proposals = st.proposals
      /\ t.held.depositUgnot = st.held.depositUgnot
      /\ Idle(st) >= 0 => Idle(t) >= 0
      /\ TreasuryUgnot(st) <= TreasuryUgnot(t)
      /\ AllDue(t) - t.held.rewardUgnot <= AllDue(st) - st.held.rewardUgnot
  BY DEF Banks
<1>3. /\ Purse(u) /\ u.ballots = t.ballots /\ u.proposals = t.proposals
      /\ u.held.depositUgnot = t.held.depositUgnot
      /\ Idle(t) >= 0 => Idle(u) >= 0
      /\ TreasuryUgnot(t) <= TreasuryUgnot(u)
      /\ AllDue(u) - u.held.rewardUgnot <= AllDue(t) - t.held.rewardUgnot
  BY DEF Banks
<1>4. /\ TreasuryUgnot(st) \in Int /\ TreasuryUgnot(t) \in Int /\ TreasuryUgnot(u) \in Int
      /\ st.held.rewardUgnot \in Int /\ t.held.rewardUgnot \in Int /\ u.held.rewardUgnot \in Int
  BY <1>2, <1>3, HeldAreInt
<1>5. TreasuryUgnot(st) <= TreasuryUgnot(u)
  BY <1>2, <1>3, <1>4
<1>6. AllDue(u) - u.held.rewardUgnot <= AllDue(st) - st.held.rewardUgnot
  BY <1>1, <1>2, <1>3, <1>4
<1> QED
  BY <1>2, <1>3, <1>5, <1>6 DEF Banks

LEMMA PaysOn ==
  ASSUME NEW st, Purse(st), AllCount(st.ballots), NEW t, Pays(t, st), NEW u, Pays(u, t)
  PROVE  Pays(u, st)
<1>1. Banks(u, st)
  BY BanksOn DEF Pays
<1>2. /\ \A m \in Members : st.members[m].cursor <= t.members[m].cursor
      /\ \A m \in Members : t.members[m].cursor <= u.members[m].cursor
      /\ \A m \in Members : st.members[m].cursor \in Nat /\ t.members[m].cursor \in Nat /\ u.members[m].cursor \in Nat
  BY DEF Pays, Banks, Purse, MemberPurse
<1>3. \A m \in Members : st.members[m].cursor <= u.members[m].cursor
  BY <1>2
<1>4. ASSUME \A m \in Members : st.members[m].cursor = u.members[m].cursor
      PROVE  Short(u) = Short(st)
  <2>1. ASSUME NEW m \in Members
        PROVE  st.members[m].cursor = t.members[m].cursor /\ t.members[m].cursor = u.members[m].cursor
    <3>1. st.members[m].cursor = u.members[m].cursor
      BY <1>4
    <3> QED
      BY <1>2, <3>1
  <2>2. Short(t) = Short(st) /\ Short(u) = Short(t)
    BY <2>1 DEF Pays
  <2> QED
    BY <2>2
<1> QED
  BY <1>1, <1>3, <1>4 DEF Pays

LEMMA SameCoinsBank ==
  ASSUME NEW st, Purse(st), AllCount(st.ballots), NEW t, Purse(t), SameCoins(t, st)
  PROVE  Banks(t, st)
<1>1. AllDue(t) = AllDue(st) /\ AllDue(st) \in Int
  BY SameDue, DueIsNat DEF SameCoins
<1>2. Idle(t) = Idle(st) /\ TreasuryUgnot(t) = TreasuryUgnot(st)
  BY DEF SameCoins, Idle, TreasuryUgnot
<1>3. TreasuryUgnot(st) \in Int /\ st.held.rewardUgnot \in Int /\ Idle(st) \in Int
  BY HeldAreInt
<1>4. TreasuryUgnot(st) <= TreasuryUgnot(t)
  BY <1>2, <1>3
<1>5. AllDue(t) - t.held.rewardUgnot <= AllDue(st) - st.held.rewardUgnot
  <2>1. t.held.rewardUgnot = st.held.rewardUgnot
    BY DEF SameCoins
  <2> QED
    BY <1>1, <1>3, <2>1
<1> QED
  BY <1>2, <1>4, <1>5 DEF Banks, SameCoins

LEMMA SameCoinsPay ==
  ASSUME NEW st, Purse(st), AllCount(st.ballots), NEW t, Purse(t), SameCoins(t, st), Short(t) = Short(st)
  PROVE  Pays(t, st)
<1>1. Banks(t, st)
  BY SameCoinsBank
<1>2. \A m \in Members : st.members[m].cursor \in Nat /\ t.members[m].cursor = st.members[m].cursor
  BY DEF SameCoins, Purse, MemberPurse
<1>3. \A m \in Members : st.members[m].cursor <= t.members[m].cursor
  BY <1>2
<1> QED
  BY <1>1, <1>3 DEF Pays

LEMMA PaysItself ==
  ASSUME NEW st, Purse(st), AllCount(st.ballots)
  PROVE  Pays(st, st)
BY SameCoinsPay DEF SameCoins

-----------------------------------------------------------------------------
(* Fees. *)

LEMMA RequirePays ==
  ASSUME NEW st, Purse(st), AllCount(st.ballots), NEW cond, NEW t, t = Require(st, cond)
  PROVE  Pays(t, st) /\ t.members = st.members /\ t.fees = st.fees /\ t.held = st.held /\ t.pyth = st.pyth
<1>1. /\ DOMAIN t = StoreFields /\ t.members = st.members /\ t.fees = st.fees /\ t.held = st.held
      /\ t.ugnot = st.ugnot /\ t.pyth = st.pyth /\ t.ballots = st.ballots /\ t.proposals = st.proposals
  BY DEF Require, Purse, StoreFields
<1>2. Purse(t)
  BY <1>1 DEF Purse
<1>3. SameCoins(t, st) /\ Short(t) = Short(st)
  BY <1>1 DEF SameCoins, Short, TreasuryPyth
<1> QED
  BY <1>1, <1>2, <1>3, SameCoinsPay

\* The accumulator stays a record of numbers.
LEMMA BumpIsInt ==
  ASSUME NEW a, DOMAIN a = DOMAIN NoFees, a.accPerShare \in Int, a.carry \in Int, a.totalShares \in Nat,
         NEW amount \in Int, NEW t, t = Bump(a, amount)
  PROVE  DOMAIN t = DOMAIN NoFees /\ t.accPerShare \in Int /\ t.carry \in Int /\ t.totalShares = a.totalShares
<1> DEFINE total == a.carry + amount
           scaled == total * Scale
           inc == scaled \div a.totalShares
           back == inc * a.totalShares
           got == [a EXCEPT !.received = @ + amount, !.carry = total]
           acc == a.accPerShare + inc
           carry == total - back \div Scale
           more == [got EXCEPT !.accPerShare = acc, !.carry = carry]
<1>1. t = got \/ (a.totalShares # 0 /\ t = more)
  <2>1. t = IF a.totalShares = 0 \/ total = 0 THEN got
            ELSE IF acc > MaxAccPerShare THEN got
            ELSE [got EXCEPT !.accPerShare = @ + inc, !.carry = carry]
    BY DEF Bump
  <2>2. [got EXCEPT !.accPerShare = @ + inc, !.carry = carry] = more
    <3>1. got.accPerShare = a.accPerShare
      OBVIOUS
    <3> HIDE DEF got, inc, carry
    <3> QED
      BY <3>1
  <2> HIDE DEF got, more, acc, inc, carry, total
  <2> QED
    BY <2>1, <2>2
<1>2. total \in Int /\ Scale \in Nat /\ Scale # 0
  BY LedgerAssumption
<1>3. DOMAIN got = DOMAIN NoFees /\ got.accPerShare \in Int /\ got.carry \in Int /\ got.totalShares = a.totalShares
  BY <1>2 DEF NoFees
<1>4. ASSUME a.totalShares # 0
      PROVE  acc \in Int /\ carry \in Int
  <2>1. scaled \in Int
    BY <1>2
  <2> HIDE DEF scaled
  <2>2. inc \in Int
    BY <1>4, <2>1
  <2> HIDE DEF inc
  <2>3. back \in Int
    BY <2>2
  <2> HIDE DEF back, total
  <2>4. back \div Scale \in Int
    BY <1>2, <2>3
  <2> QED
    BY <1>2, <2>2, <2>4
<1> HIDE DEF acc, carry, got
<1>5. a.totalShares # 0 => /\ DOMAIN more = DOMAIN NoFees /\ more.accPerShare \in Int /\ more.carry \in Int
                           /\ more.totalShares = a.totalShares
  BY <1>3, <1>4 DEF NoFees
<1> QED
  BY <1>1, <1>3, <1>5

LEMMA FeesSyncPays ==
  ASSUME NEW st, Purse(st), AllCount(st.ballots), st.fees.totalShares \in Nat, NEW t, t = FeesSync(st)
  PROVE  Pays(t, st) /\ t.members = st.members
<1> DEFINE delta == st.ugnot - st.held.knownUgnot
           product == delta * Param.stakerFeeShareBps
           share == product \div Bps
<1>1. delta \in Int
  BY HeldAreInt DEF Purse
<1>2. CASE delta <= 0
  <2>1. t = st
    BY <1>2 DEF FeesSync
  <2> QED
    BY <2>1, PaysItself
<1>3. CASE delta > 0
  <2>1. share \in Nat /\ share <= delta
    <3> DEFINE rate == Param.stakerFeeShareBps
    <3>1. rate \in Nat /\ rate <= Bps /\ delta \in Nat /\ Bps \in Nat /\ Bps > 0
      BY <1>1, <1>3, StakesAssumption DEF Bps
    <3>2. product = delta * rate
      OBVIOUS
    <3> HIDE DEF rate, delta, product
    <3>3. product \in Nat /\ product <= delta * Bps /\ delta * Bps \in Nat
      BY <3>1, <3>2, ProductIsNat, ProductGrows
    <3>4. share \in Nat /\ share * Bps <= product
      BY <3>1, <3>3, WholePart
    <3>5. share * Bps \in Nat
      BY <3>1, <3>4, ProductIsNat
    <3>6. share * Bps <= delta * Bps
      BY <3>3, <3>4, <3>5
    <3> HIDE DEF share
    <3> QED
      BY <3>1, <3>4, <3>6, ProductCancels
  <2>2. t = FeesBumped(st, delta, share)
    BY <1>1, <1>3 DEF FeesSync
  <2> HIDE DEF share, product
  <2> DEFINE fees1 == Bump(st.fees, share)
             known == st.held.knownUgnot + delta
             fee == st.held.feeUgnot + share
  <2>3. /\ DOMAIN fees1 = DOMAIN NoFees /\ fees1.accPerShare \in Int /\ fees1.carry \in Int
        /\ fees1.totalShares = st.fees.totalShares
    <3>1. /\ DOMAIN st.fees = DOMAIN NoFees /\ st.fees.accPerShare \in Int /\ st.fees.carry \in Int /\ share \in Int
      BY <2>1 DEF Purse
    <3> QED
      BY <3>1, BumpIsInt
  <2>4. t = [st EXCEPT !.fees = fees1, !.held.feeUgnot = @ + share, !.held.knownUgnot = @ + delta]
    BY <2>2 DEF FeesBumped
  <2> HIDE DEF fees1, delta
  <2>5. /\ DOMAIN t = StoreFields /\ t.members = st.members /\ t.fees = fees1 /\ t.ugnot = st.ugnot
        /\ t.pyth = st.pyth /\ t.ballots = st.ballots /\ t.proposals = st.proposals
        /\ t.held = [st.held EXCEPT !.feeUgnot = fee, !.knownUgnot = known]
    BY <2>4 DEF Purse, StoreFields, NothingHeld
  <2>6. known \in Int /\ fee \in Int
    BY <1>1, <2>1, HeldAreInt
  <2> HIDE DEF known, fee
  <2>7. /\ DOMAIN t.held = DOMAIN NothingHeld /\ t.held.knownUgnot = known /\ t.held.feeUgnot = fee
        /\ t.held.rewardUgnot = st.held.rewardUgnot /\ t.held.depositUgnot = st.held.depositUgnot
        /\ t.held.stakedPyth = st.held.stakedPyth /\ t.held.unbondingPyth = st.held.unbondingPyth
        /\ t.held.rewardPyth = st.held.rewardPyth /\ t.held.pendingPyth = st.held.pendingPyth
    BY <2>5 DEF Purse, NothingHeld
  <2>8. Purse(t)
    <3>1. \A f \in DOMAIN NothingHeld : t.held[f] \in Int
      BY <2>5, <2>6 DEF Purse
    <3> QED
      BY <2>3, <2>5, <2>7, <3>1 DEF Purse
  <2>9. Idle(t) = 0
    BY <1>1, <2>5, <2>7, HeldAreInt DEF Idle, known, delta, Purse
  <2>10. TreasuryUgnot(st) <= TreasuryUgnot(t)
    BY <1>1, <2>1, <2>7, HeldAreInt DEF TreasuryUgnot, known, fee
  <2>11. AllDue(t) = AllDue(st) /\ AllDue(st) \in Int
    BY <2>5, SameDue, DueIsNat
  <2>12. AllDue(t) - t.held.rewardUgnot <= AllDue(st) - st.held.rewardUgnot
    BY <2>7, <2>11, HeldAreInt
  <2>13. Banks(t, st)
    BY <2>5, <2>7, <2>8, <2>9, <2>10, <2>12 DEF Banks
  <2>14. Short(t) = Short(st)
    BY <2>5, <2>7 DEF Short, TreasuryPyth
  <2>15. \A m \in Members : st.members[m].cursor <= t.members[m].cursor
    BY <2>5 DEF Purse, MemberPurse
  <2> QED
    BY <2>5, <2>13, <2>14, <2>15 DEF Pays
<1> QED
  BY <1>1, <1>2, <1>3

LEMMA DebtIsInt ==
  ASSUME NEW a, a.accPerShare \in Int, NEW shares \in Int
  PROVE  Debt(a, shares) \in Int
<1> DEFINE p == shares * a.accPerShare
<1>1. p \in Int /\ Scale \in Nat /\ Scale # 0
  BY LedgerAssumption
<1> HIDE DEF p
<1>2. p \div Scale \in Int
  BY <1>1
<1> QED
  BY <1>2 DEF Debt, p

\* Positions stay records of numbers, and so do the amounts owed to them.
LEMMA PositionIsInt ==
  ASSUME NEW a, a.accPerShare \in Int, NEW p, DOMAIN p = DOMAIN NoPosition,
         p.shares \in Int, p.debt \in Int, p.pending \in Int, NEW shares \in Int
  PROVE  /\ Owed(a, p) \in Int
         /\ DOMAIN Holding(a, p, shares) = DOMAIN NoPosition /\ Holding(a, p, shares).shares = shares
         /\ Holding(a, p, shares).debt \in Int /\ Holding(a, p, shares).pending \in Int
         /\ DOMAIN Claimed(a, p) = DOMAIN NoPosition /\ Claimed(a, p).shares = p.shares
         /\ Claimed(a, p).debt \in Int /\ Claimed(a, p).pending \in Int
<1>1. Debt(a, p.shares) \in Int /\ Debt(a, shares) \in Int
  BY DebtIsInt
<1>2. Owed(a, p) \in Int
  BY <1>1 DEF Owed, Earned
<1> QED
  BY <1>1, <1>2 DEF Holding, SettledPosition, Claimed, NoPosition

\* A change of shares is none of coins.
LEMMA ResharedBanks ==
  ASSUME NEW st, Purse(st), AllCount(st.ballots), NEW m \in Members, NEW shares \in Int,
         NEW t, t = Reshared(st, m, shares)
  PROVE  /\ Purse(t) /\ SameCoins(t, st) /\ t.held = st.held /\ t.pyth = st.pyth
         /\ DOMAIN t = StoreFields /\ OtherMembers(t, st, m)
<1> DEFINE fee == Holding(st.fees, st.members[m].fee, shares)
           rebased == Rebased(st.fees, st.members[m].fee, shares)
<1>1. t = [st EXCEPT !.fees = rebased, !.members[m].fee = fee]
  BY DEF Reshared
<1>2. /\ DOMAIN fee = DOMAIN NoPosition /\ fee.shares \in Int /\ fee.debt \in Int /\ fee.pending \in Int
  <2>1. /\ st.fees.accPerShare \in Int /\ DOMAIN st.members[m].fee = DOMAIN NoPosition
        /\ st.members[m].fee.shares \in Int /\ st.members[m].fee.debt \in Int /\ st.members[m].fee.pending \in Int
    BY DEF Purse, MemberPurse
  <2> DEFINE a == st.fees
             p == st.members[m].fee
  <2>2. a.accPerShare \in Int /\ DOMAIN p = DOMAIN NoPosition /\ p.shares \in Int /\ p.debt \in Int /\ p.pending \in Int
    BY <2>1
  <2>3. fee = Holding(a, p, shares)
    OBVIOUS
  <2> HIDE DEF a, p, fee
  <2>4. /\ DOMAIN Holding(a, p, shares) = DOMAIN NoPosition /\ Holding(a, p, shares).shares = shares
        /\ Holding(a, p, shares).debt \in Int /\ Holding(a, p, shares).pending \in Int
    BY <2>2, PositionIsInt
  <2> QED
    BY <2>3, <2>4
<1>3. /\ DOMAIN rebased = DOMAIN NoFees /\ rebased.accPerShare \in Int /\ rebased.carry \in Int
      /\ rebased.totalShares \in Int
  <2>1. st.members[m].fee.shares \in Int
    BY DEF Purse, MemberPurse
  <2> QED
    BY <2>1 DEF Rebased, PaidTo, Purse, NoFees
<1> HIDE DEF fee, rebased
<1>4. /\ DOMAIN t = StoreFields /\ t.fees = rebased /\ t.members = [st.members EXCEPT ![m].fee = fee]
      /\ t.ballots = st.ballots /\ t.proposals = st.proposals /\ t.pyth = st.pyth /\ t.ugnot = st.ugnot
      /\ t.held = st.held
  BY <1>1 DEF Purse, StoreFields
<1>5. /\ DOMAIN t.members = Members /\ \A x \in Members \ {m} : t.members[x] = st.members[x]
      /\ t.members[m] = [st.members[m] EXCEPT !.fee = fee]
  BY <1>4 DEF Purse
<1>6. MemberPurse(st.members[m])
  BY DEF Purse
<1>7. /\ MemberPurse(t.members[m]) /\ t.members[m].pendingUgnot = st.members[m].pendingUgnot
      /\ t.members[m].cursor = st.members[m].cursor
  BY <1>2, <1>5, <1>6 DEF MemberPurse, NoMember
<1>8. \A x \in Members : MemberPurse(t.members[x])
  BY <1>5, <1>7 DEF Purse
<1>9. Purse(t)
  BY <1>3, <1>4, <1>5, <1>8 DEF Purse
<1>10. SameCoins(t, st)
  BY <1>4, <1>5, <1>7 DEF SameCoins
<1> QED
  BY <1>4, <1>5, <1>9, <1>10 DEF OtherMembers

-----------------------------------------------------------------------------
(* Stakes. *)

FeesOK(a) == DOMAIN a = DOMAIN NoFees /\ a.accPerShare \in Int /\ a.carry \in Int /\ a.totalShares \in Int

\* Only PYTH moved, and of one member.
PythMoved(t, st, m) ==
  /\ DOMAIN t = StoreFields /\ OtherMembers(t, st, m) /\ MemberPurse(t.members[m]) /\ FeesOK(t.fees)
  /\ t.members[m].pendingUgnot = st.members[m].pendingUgnot /\ t.members[m].cursor = st.members[m].cursor
  /\ DOMAIN t.held = DOMAIN NothingHeld
  /\ t.held.knownUgnot = st.held.knownUgnot /\ t.held.feeUgnot = st.held.feeUgnot
  /\ t.held.rewardUgnot = st.held.rewardUgnot /\ t.held.depositUgnot = st.held.depositUgnot
  /\ t.held.stakedPyth \in Int /\ t.held.unbondingPyth \in Int /\ t.held.rewardPyth \in Int
  /\ t.held.pendingPyth \in Int
  /\ t.pyth \in Int /\ t.ugnot = st.ugnot /\ t.ballots = st.ballots /\ t.proposals = st.proposals

LEMMA PythMovedBanks ==
  ASSUME NEW st, Purse(st), AllCount(st.ballots), NEW m \in Members, NEW t, PythMoved(t, st, m)
  PROVE  Banks(t, st) /\ (Short(t) = Short(st) => Pays(t, st))
<1>1. \A f \in DOMAIN NothingHeld : t.held[f] \in Int
  BY HeldAreInt DEF PythMoved, NothingHeld
<1>2. \A x \in Members : MemberPurse(t.members[x])
  BY DEF PythMoved, OtherMembers, Purse
<1>3. Purse(t)
  BY <1>1, <1>2 DEF PythMoved, OtherMembers, Purse, FeesOK
<1>4. SameCoins(t, st)
  BY DEF PythMoved, OtherMembers, SameCoins
<1> QED
  BY <1>3, <1>4, SameCoinsBank, SameCoinsPay

LEMMA PowerSetPays ==
  ASSUME NEW st, Purse(st), AllCount(st.ballots), NEW m, NEW t, t = PowerSet(st, m)
  PROVE  Pays(t, st)
<1>1. /\ DOMAIN t = StoreFields /\ t.members = st.members /\ t.fees = st.fees /\ t.ballots = st.ballots
      /\ t.proposals = st.proposals /\ t.held = st.held /\ t.ugnot = st.ugnot /\ t.pyth = st.pyth
  BY PowerSetIs DEF Purse
<1>2. Purse(t)
  BY <1>1 DEF Purse
<1>3. SameCoins(t, st) /\ Short(t) = Short(st)
  BY <1>1 DEF SameCoins, Short, TreasuryPyth
<1> QED
  BY <1>2, <1>3, SameCoinsPay

\* Who joins is due nothing of the ballots opened before.
LEMMA JoinedPays ==
  ASSUME NEW st, Purse(st), AllCount(st.ballots), NEW m \in Members, st.members[m].cursor <= Len(st.ballots),
         NEW t, t = Joined(st, m)
  PROVE  Pays(t, st)
<1>1. CASE st.members[m].known
  BY <1>1, PaysItself DEF Joined
<1>2. CASE ~st.members[m].known
  <2> DEFINE n == Len(st.ballots)
             mb == [NoMember EXCEPT !.known = TRUE, !.penaltyWindowAt = now, !.cursor = n]
  <2>1. t = [st EXCEPT !.members[m] = mb]
    BY <1>2 DEF Joined
  <2>2. n \in Nat
    BY BallotNumbers DEF AllCount
  <2>3. MemberPurse(mb) /\ mb.cursor = n /\ mb.pendingUgnot = 0
    BY <2>2 DEF MemberPurse, NoMember, NoPosition
  <2> HIDE DEF mb
  <2>4. /\ DOMAIN t = StoreFields /\ t.members = [st.members EXCEPT ![m] = mb] /\ t.fees = st.fees
        /\ t.ballots = st.ballots /\ t.proposals = st.proposals /\ t.held = st.held /\ t.ugnot = st.ugnot
        /\ t.pyth = st.pyth
    BY <2>1 DEF Purse, StoreFields
  <2>5. DOMAIN t.members = Members /\ t.members[m] = mb /\ \A x \in Members \ {m} : t.members[x] = st.members[x]
    BY <2>4 DEF Purse
  <2>6. \A x \in Members : MemberPurse(t.members[x])
    BY <2>3, <2>5 DEF Purse
  <2>7. Purse(t)
    BY <2>4, <2>5, <2>6 DEF Purse
  <2>8. st.members[m].cursor \in Nat /\ st.members[m].pendingUgnot \in Nat /\ st.members[m].cursor <= n
    BY DEF Purse, MemberPurse
  <2>9. Due(t, m) <= Due(st, m) + 0
    <3>1. Unsettled(st.ballots, m, n) <= Unsettled(st.ballots, m, st.members[m].cursor)
      BY <2>2, <2>8, UnsettledFalls
    <3>2. Unsettled(st.ballots, m, n) \in Nat /\ Unsettled(st.ballots, m, st.members[m].cursor) \in Nat
      BY UnsettledIsNat
    <3>3. Due(t, m) = 0 + Unsettled(st.ballots, m, n)
      BY <2>3, <2>4, <2>5 DEF Due
    <3> QED
      BY <2>8, <3>1, <3>2, <3>3 DEF Due
  <2>10. AllDue(t) <= AllDue(st) + 0
    <3>1. \A x \in Members \ {m} : /\ t.members[x].pendingUgnot = st.members[x].pendingUgnot
                                   /\ t.members[x].cursor = st.members[x].cursor
      BY <2>5
    <3> DEFINE none == 0
    <3>2. none \in Int /\ Due(t, m) <= Due(st, m) + none /\ t.ballots = st.ballots
      BY <2>4, <2>9
    <3> HIDE DEF none
    <3>3. AllDue(t) <= AllDue(st) + none
      BY <2>7, <3>1, <3>2, MemberDue
    <3> QED
      BY <3>3 DEF none
  <2>11. AllDue(t) \in Int /\ AllDue(st) \in Int
    BY <2>4, <2>7, DueIsNat
  <2>12. Banks(t, st)
    BY <2>4, <2>7, <2>10, <2>11, HeldAreInt DEF Banks, Idle, TreasuryUgnot
  <2>13. Short(t) = Short(st)
    BY <2>4 DEF Short, TreasuryPyth
  <2>14. \A x \in Members : st.members[x].cursor <= t.members[x].cursor
    <3>1. \A x \in Members : st.members[x].cursor \in Nat
      BY DEF Purse, MemberPurse
    <3> QED
      BY <2>3, <2>5, <2>8, <3>1
  <2> QED
    BY <2>12, <2>13, <2>14 DEF Pays
<1> QED
  BY <1>1, <1>2

LEMMA StakedAreNat ==
  ASSUME NEW st, Sound(st)
  PROVE  st.fees.totalShares \in Nat
<1>1. st.fees.totalShares = AllOf(st.members, "staked")
  BY DEF Sound, Booked
<1>2. [m \in Members |-> st.members[m]["staked"]] \in [Members -> Nat]
  BY DEF Sound, Shaped, MemberOK
<1>3. AllOf(st.members, "staked") \in Nat
  BY <1>2, MembersAssumption, SumNat DEF AllOf
<1> QED
  BY <1>1, <1>3

\* Other amounts in PYTH are held, and are in a member's record.
HeldMoved(h, g) ==
  /\ DOMAIN h = DOMAIN NothingHeld
  /\ h.knownUgnot = g.knownUgnot /\ h.feeUgnot = g.feeUgnot
  /\ h.rewardUgnot = g.rewardUgnot /\ h.depositUgnot = g.depositUgnot
  /\ h.stakedPyth \in Int /\ h.unbondingPyth \in Int /\ h.rewardPyth \in Int /\ h.pendingPyth \in Int

StakeMoved(mb, old) ==
  /\ DOMAIN mb = DOMAIN NoMember
  /\ mb.fee = old.fee /\ mb.pendingUgnot = old.pendingUgnot /\ mb.cursor = old.cursor

LEMMA StakeChangedMoves ==
  ASSUME NEW st, Purse(st), AllCount(st.ballots), NEW m \in Members, NEW r, Purse(r), SameCoins(r, st),
         OtherMembers(r, st, m), NEW t, DOMAIN t = StoreFields,
         t.fees = r.fees, t.ballots = r.ballots, t.proposals = r.proposals, t.ugnot = r.ugnot, t.pyth \in Int,
         OtherMembers(t, r, m), StakeMoved(t.members[m], r.members[m]), HeldMoved(t.held, r.held)
  PROVE  PythMoved(t, st, m)
<1>1. OtherMembers(t, st, m)
  BY DEF OtherMembers
<1>2. MemberPurse(t.members[m])
  <2>1. MemberPurse(r.members[m])
    BY DEF Purse
  <2> QED
    BY <2>1 DEF MemberPurse, StakeMoved
<1>3. FeesOK(t.fees)
  BY DEF FeesOK, Purse
<1> QED
  BY <1>1, <1>2, <1>3 DEF PythMoved, SameCoins, StakeMoved, HeldMoved

LEMMA MemberStakePays ==
  ASSUME NEW st, Sound(st), Purse(st), AllCount(st.ballots), NEW m \in Members, NEW amount \in Nat,
         NEW t, t = MemberStake(st, m, amount)
  PROVE  Pays(t, st)
<1> DEFINE f == FeesSync(st)
           j == Joined(f, m)
           w == PullPyth(j, m, amount)
           shares == w.members[m].fee.shares + amount
           r == Reshared(w, m, shares)
           s == Staked(w, m, amount)
<1>1. t = PowerSet(s, m)
  BY DEF MemberStake
<1>2. Pays(f, st) /\ f.members = st.members /\ Sound(f)
  <2>1. st.fees.totalShares \in Nat
    BY StakedAreNat
  <2> HIDE DEF f
  <2>2. f = FeesSync(st)
    BY DEF f
  <2> QED
    BY <2>1, <2>2, FeesSyncPays, FeesSyncFollows DEF Follows
<1> HIDE DEF f
<1>3. Purse(f) /\ AllCount(f.ballots) /\ f.members[m].cursor <= Len(f.ballots)
  <2>1. f.members[m].cursor \in 0 .. Len(f.ballots)
    BY <1>2 DEF Sound, Waited
  <2> QED
    BY <1>2, <2>1 DEF Pays, Banks
<1>4. Pays(j, f)
  BY <1>3, JoinedPays
<1>5. Pays(j, st) /\ Purse(j) /\ j.ballots = st.ballots
  BY <1>2, <1>4, PaysOn DEF Pays, Banks
<1> HIDE DEF j
<1>6. /\ DOMAIN w = StoreFields /\ w.members = j.members /\ w.fees = j.fees /\ w.ballots = j.ballots
      /\ w.proposals = j.proposals /\ w.held = j.held /\ w.ugnot = j.ugnot /\ w.pyth = j.pyth + amount
  BY <1>5 DEF PullPyth, Require, Purse, StoreFields
<1> HIDE DEF w
<1>7. Purse(w) /\ SameCoins(w, j) /\ shares \in Int
  <2>1. Purse(w)
    BY <1>5, <1>6 DEF Purse
  <2>2. MemberPurse(w.members[m])
    BY <2>1 DEF Purse
  <2> QED
    BY <1>6, <2>1, <2>2 DEF SameCoins, MemberPurse
<1> HIDE DEF shares
<1>8. Purse(r) /\ SameCoins(r, w) /\ r.held = w.held /\ r.pyth = w.pyth /\ DOMAIN r = StoreFields /\ OtherMembers(r, w, m)
  BY <1>5, <1>6, <1>7, ResharedBanks
<1>9. s = [r EXCEPT !.members[m].staked = @ + amount, !.held.stakedPyth = @ + amount]
  BY DEF Staked, r, shares
<1> HIDE DEF r, s
<1> DEFINE staked == j.held.stakedPyth + amount
<1>10. /\ DOMAIN s = StoreFields /\ s.fees = r.fees /\ s.ballots = r.ballots /\ s.proposals = r.proposals
       /\ s.ugnot = r.ugnot /\ s.pyth = j.pyth + amount
       /\ s.members = [r.members EXCEPT ![m].staked = @ + amount]
       /\ s.held = [r.held EXCEPT !.stakedPyth = staked]
  BY <1>6, <1>8, <1>9 DEF StoreFields, Purse, NothingHeld
<1>11. StakeMoved(s.members[m], r.members[m]) /\ OtherMembers(s, r, m)
  <2>1. MemberPurse(r.members[m]) /\ DOMAIN r.members = Members
    BY <1>8 DEF Purse
  <2> QED
    BY <1>10, <2>1 DEF MemberPurse, NoMember, StakeMoved, OtherMembers
<1>12. /\ j.held.stakedPyth \in Int /\ j.held.unbondingPyth \in Int /\ j.held.rewardPyth \in Int
       /\ j.held.pendingPyth \in Int /\ j.pyth \in Int
  BY <1>5, HeldAreInt DEF Purse
<1>13. /\ s.held.stakedPyth = staked /\ s.held.unbondingPyth = j.held.unbondingPyth
       /\ s.held.rewardPyth = j.held.rewardPyth /\ s.held.pendingPyth = j.held.pendingPyth
       /\ HeldMoved(s.held, r.held)
  BY <1>5, <1>6, <1>8, <1>10, <1>12 DEF Purse, NothingHeld, HeldMoved, staked
<1>14. SameCoins(r, j) /\ OtherMembers(r, j, m)
  BY <1>6, <1>7, <1>8 DEF SameCoins, OtherMembers
<1>15. staked \in Int /\ s.pyth \in Int
  BY <1>10, <1>12
<1> HIDE DEF staked
<1>16. PythMoved(s, j, m)
  BY <1>5, <1>8, <1>10, <1>11, <1>13, <1>14, <1>15, StakeChangedMoves
<1>17. Short(s) = Short(j)
  BY <1>10, <1>12, <1>13 DEF Short, TreasuryPyth, staked
<1>18. Pays(s, j)
  BY <1>5, <1>16, <1>17, PythMovedBanks
<1>19. Pays(s, st) /\ Purse(s) /\ AllCount(s.ballots)
  BY <1>5, <1>18, PaysOn DEF Pays, Banks
<1>20. Pays(t, s)
  BY <1>1, <1>19, PowerSetPays
<1> QED
  BY <1>19, <1>20, PaysOn

LEMMA SyncedPays ==
  ASSUME NEW st, Sound(st), Purse(st), AllCount(st.ballots), NEW t, t = FeesSync(st)
  PROVE  Pays(t, st) /\ Sound(t) /\ Purse(t) /\ AllCount(t.ballots)
<1>1. st.fees.totalShares \in Nat
  BY StakedAreNat
<1>2. Pays(t, st)
  BY <1>1, FeesSyncPays
<1>3. Sound(t)
  BY FeesSyncFollows DEF Follows
<1> QED
  BY <1>2, <1>3 DEF Pays, Banks

\* Other shares, or the same store.
LEMMA MaybeReshared ==
  ASSUME NEW st, Purse(st), AllCount(st.ballots), NEW m \in Members, NEW shares \in Int,
         NEW r, r = st \/ r = Reshared(st, m, shares)
  PROVE  /\ Purse(r) /\ SameCoins(r, st) /\ r.held = st.held /\ r.pyth = st.pyth /\ DOMAIN r = StoreFields
         /\ OtherMembers(r, st, m)
<1>1. CASE r = st
  BY <1>1 DEF SameCoins, OtherMembers, Purse
<1>2. CASE r = Reshared(st, m, shares)
  BY <1>2, ResharedBanks
<1> QED
  BY <1>1, <1>2

LEMMA UnstakedPays ==
  ASSUME NEW st, Purse(st), AllCount(st.ballots), NEW m \in Members, NEW amount \in Nat, NEW readyAt,
         NEW t, t = Unstaked(st, m, amount, readyAt)
  PROVE  Pays(t, st)
<1> DEFINE shares == st.members[m].fee.shares - amount
           r == Reshared(st, m, shares)
<1>1. shares \in Int
  <2>1. MemberPurse(st.members[m])
    BY DEF Purse
  <2> QED
    BY <2>1 DEF MemberPurse
<1> HIDE DEF shares
<1>2. Purse(r) /\ SameCoins(r, st) /\ r.held = st.held /\ r.pyth = st.pyth /\ DOMAIN r = StoreFields /\ OtherMembers(r, st, m)
  BY <1>1, ResharedBanks
<1>3. t = [r EXCEPT !.members[m].staked = @ - amount, !.members[m].unbondAmount = @ + amount,
                    !.members[m].unbondReadyAt = readyAt,
                    !.held.stakedPyth = @ - amount, !.held.unbondingPyth = @ + amount]
  BY DEF Unstaked, shares
<1> HIDE DEF r
<1>4. /\ DOMAIN t = StoreFields /\ t.fees = r.fees /\ t.ballots = r.ballots /\ t.proposals = r.proposals
      /\ t.ugnot = r.ugnot /\ t.pyth = r.pyth
      /\ t.members = [r.members EXCEPT ![m].staked = @ - amount, ![m].unbondAmount = @ + amount,
                                       ![m].unbondReadyAt = readyAt]
      /\ t.held = [r.held EXCEPT !.stakedPyth = @ - amount, !.unbondingPyth = @ + amount]
  <2>1. DOMAIN r = StoreFields
    BY <1>2
  <2>2. /\ DOMAIN t = StoreFields /\ t.fees = r.fees /\ t.ballots = r.ballots /\ t.proposals = r.proposals
        /\ t.ugnot = r.ugnot /\ t.pyth = r.pyth
    BY ONLY <2>1, <1>3, Zenon DEF StoreFields
  <2>3. t.members = [r.members EXCEPT ![m].staked = @ - amount, ![m].unbondAmount = @ + amount,
                                      ![m].unbondReadyAt = readyAt]
    BY ONLY <2>1, <1>3, Zenon DEF StoreFields
  <2>4. t.held = [r.held EXCEPT !.stakedPyth = @ - amount, !.unbondingPyth = @ + amount]
    BY ONLY <2>1, <1>3, Zenon DEF StoreFields
  <2> QED
    BY <2>2, <2>3, <2>4
<1>5. StakeMoved(t.members[m], r.members[m]) /\ OtherMembers(t, r, m)
  <2>1. MemberPurse(r.members[m]) /\ DOMAIN r.members = Members
    BY <1>2 DEF Purse
  <2> QED
    <3> DEFINE old == r.members[m]
               mb == t.members[m]
    <3>1. mb = [old EXCEPT !.staked = @ - amount, !.unbondAmount = @ + amount, !.unbondReadyAt = readyAt]
      BY ONLY <1>4, <2>1, m \in Members
    <3>2. OtherMembers(t, r, m)
      BY ONLY <1>4, <2>1 DEF OtherMembers
    <3>3. DOMAIN old = DOMAIN NoMember
      BY ONLY <2>1 DEF MemberPurse
    <3> HIDE DEF old, mb
    <3>4. StakeMoved(mb, old)
      BY ONLY <3>1, <3>3 DEF StakeMoved, NoMember
    <3> QED
      BY ONLY <3>2, <3>4 DEF old, mb
<1>6. /\ st.held.stakedPyth \in Int /\ st.held.unbondingPyth \in Int /\ st.held.rewardPyth \in Int
      /\ st.held.pendingPyth \in Int /\ st.pyth \in Int
  BY HeldAreInt DEF Purse
<1>7. /\ t.held.stakedPyth = st.held.stakedPyth - amount /\ t.held.unbondingPyth = st.held.unbondingPyth + amount
      /\ t.held.rewardPyth = st.held.rewardPyth /\ t.held.pendingPyth = st.held.pendingPyth
      /\ HeldMoved(t.held, r.held)
  BY <1>2, <1>4, <1>6 DEF Purse, NothingHeld, HeldMoved
<1>8. PythMoved(t, st, m)
  BY <1>2, <1>4, <1>5, <1>6, <1>7, StakeChangedMoves
<1>9. Short(t) = Short(st)
  BY <1>2, <1>4, <1>6, <1>7 DEF Short, TreasuryPyth
<1> QED
  BY <1>8, <1>9, PythMovedBanks

LEMMA MemberUnstakePays ==
  ASSUME NEW st, Sound(st), Purse(st), AllCount(st.ballots), NEW m \in Members, NEW amount \in Nat, NEW readyAt,
         NEW t, t = MemberUnstake(st, m, amount, readyAt)
  PROVE  Pays(t, st)
<1> DEFINE q == Require(st, amount <= st.members[m].staked /\ st.members[m].unbondAmount = 0)
           f == FeesSync(q)
           u == Unstaked(f, m, amount, readyAt)
<1>1. t = PowerSet(u, m)
  BY DEF MemberUnstake
<1>2. Pays(q, st) /\ Sound(q)
  BY RequirePays, RequireFollows DEF Follows
<1> HIDE DEF q
<1>3. Purse(q) /\ AllCount(q.ballots)
  BY <1>2 DEF Pays, Banks
<1>4. Pays(f, q)
  BY <1>2, <1>3, SyncedPays
<1> HIDE DEF f
<1>5. Pays(f, st)
  BY <1>2, <1>4, PaysOn
<1>6. Purse(f) /\ AllCount(f.ballots)
  BY <1>5 DEF Pays, Banks
<1>7. Pays(u, f)
  BY <1>6, UnstakedPays
<1> HIDE DEF u
<1>8. Pays(u, st)
  BY <1>5, <1>7, PaysOn
<1>9. Purse(u) /\ AllCount(u.ballots)
  BY <1>8 DEF Pays, Banks
<1>10. Pays(t, u)
  BY <1>1, <1>9, PowerSetPays
<1> QED
  BY <1>8, <1>10, PaysOn

LEMMA MemberPayUnbondedPays ==
  ASSUME NEW st, Sound(st), Purse(st), AllCount(st.ballots), NEW m \in Members,
         NEW t, t = MemberPayUnbonded(st, m)
  PROVE  Pays(t, st)
<1> DEFINE amount == st.members[m].unbondAmount
<1>1. amount \in Nat
  BY AmountsAre
<1>2. /\ DOMAIN t = StoreFields /\ t.fees = st.fees /\ t.ballots = st.ballots /\ t.proposals = st.proposals
      /\ t.ugnot = st.ugnot /\ t.pyth = st.pyth - amount /\ t.members = [st.members EXCEPT ![m].unbondAmount = 0]
      /\ t.held = [st.held EXCEPT !.unbondingPyth = @ - amount]
  BY DEF MemberPayUnbonded, SendPyth, Require, StoreFields, Purse, NothingHeld
<1>3. StakeMoved(t.members[m], st.members[m]) /\ OtherMembers(t, st, m)
  <2>1. MemberPurse(st.members[m]) /\ DOMAIN st.members = Members
    BY DEF Purse
  <2> QED
    BY <1>2, <2>1 DEF MemberPurse, NoMember, StakeMoved, OtherMembers
<1> HIDE DEF amount
<1>4. /\ st.held.stakedPyth \in Int /\ st.held.unbondingPyth \in Int /\ st.held.rewardPyth \in Int
      /\ st.held.pendingPyth \in Int /\ st.pyth \in Int
  BY HeldAreInt DEF Purse
<1>5. /\ t.held.stakedPyth = st.held.stakedPyth /\ t.held.unbondingPyth = st.held.unbondingPyth - amount
      /\ t.held.rewardPyth = st.held.rewardPyth /\ t.held.pendingPyth = st.held.pendingPyth
      /\ HeldMoved(t.held, st.held)
  BY <1>1, <1>2, <1>4 DEF Purse, NothingHeld, HeldMoved
<1>6. SameCoins(st, st) /\ OtherMembers(st, st, m) /\ t.pyth \in Int
  BY <1>1, <1>2, <1>4 DEF SameCoins, OtherMembers, Purse
<1>7. PythMoved(t, st, m)
  BY <1>2, <1>3, <1>5, <1>6, StakeChangedMoves
<1>8. Short(t) = Short(st)
  BY <1>1, <1>2, <1>4, <1>5 DEF Short, TreasuryPyth
<1> QED
  BY <1>7, <1>8, PythMovedBanks

-----------------------------------------------------------------------------
(* Penalties and rewards. *)

\* Banked, and with nobody settled further.
Rests(t, st) == Banks(t, st) /\ \A x \in Members : t.members[x].cursor = st.members[x].cursor

LEMMA TakenBanks ==
  ASSUME NEW st, Purse(st), AllCount(st.ballots), NEW m \in Members, NEW a \in Nat, NEW b \in Nat,
         NEW toTreasury, NEW t, t = Taken(st, m, a, b, toTreasury)
  PROVE  Rests(t, st)
<1> DEFINE shares == st.members[m].fee.shares - a
           r == IF a > 0 THEN Reshared(st, m, shares) ELSE st
           u == [r EXCEPT !.members[m].staked = @ - a, !.members[m].unbondAmount = @ - b,
                          !.held.stakedPyth = @ - a, !.held.unbondingPyth = @ - b,
                          !.held.rewardPyth = IF toTreasury THEN @ ELSE @ + a + b]
<1>1. shares \in Int
  <2>1. MemberPurse(st.members[m])
    BY DEF Purse
  <2> QED
    BY <2>1 DEF MemberPurse
<1>2. t = PowerSet(u, m)
  BY DEF Taken
<1> HIDE DEF shares
<1>3. Purse(r) /\ SameCoins(r, st) /\ r.held = st.held /\ r.pyth = st.pyth /\ DOMAIN r = StoreFields /\ OtherMembers(r, st, m)
  <2>1. r = st \/ r = Reshared(st, m, shares)
    OBVIOUS
  <2> HIDE DEF r
  <2> QED
    BY <1>1, <2>1, MaybeReshared
<1> HIDE DEF r
<1>4. /\ DOMAIN u = StoreFields /\ u.fees = r.fees /\ u.ballots = r.ballots /\ u.proposals = r.proposals
      /\ u.ugnot = r.ugnot /\ u.pyth = r.pyth
      /\ u.members = [r.members EXCEPT ![m].staked = @ - a, ![m].unbondAmount = @ - b]
      /\ u.held = [r.held EXCEPT !.stakedPyth = @ - a, !.unbondingPyth = @ - b,
                                 !.rewardPyth = IF toTreasury THEN @ ELSE @ + a + b]
  BY <1>3 DEF StoreFields
<1> HIDE DEF u
<1>5. StakeMoved(u.members[m], r.members[m]) /\ OtherMembers(u, r, m)
  <2>1. MemberPurse(r.members[m]) /\ DOMAIN r.members = Members
    BY <1>3 DEF Purse
  <2> QED
    BY <1>4, <2>1 DEF MemberPurse, NoMember, StakeMoved, OtherMembers
<1>6. /\ st.held.stakedPyth \in Int /\ st.held.unbondingPyth \in Int /\ st.held.rewardPyth \in Int
      /\ st.held.pendingPyth \in Int /\ st.pyth \in Int
  BY HeldAreInt DEF Purse
<1>7. HeldMoved(u.held, r.held)
  BY <1>3, <1>4, <1>6 DEF Purse, NothingHeld, HeldMoved
<1>8. u.pyth \in Int
  BY <1>3, <1>4, <1>6
<1>9. PythMoved(u, st, m)
  BY <1>3, <1>4, <1>5, <1>7, <1>8, StakeChangedMoves
<1>10. Banks(u, st)
  BY <1>9, PythMovedBanks
<1>11. Purse(u) /\ AllCount(u.ballots)
  BY <1>10 DEF Banks
<1>12. Pays(t, u)
  BY <1>2, <1>11, PowerSetPays
<1>13. Banks(t, st)
  BY <1>10, <1>12, BanksOn DEF Pays
<1>14. t.members = u.members
  BY <1>2, <1>4, PowerSetIs
<1> QED
  BY <1>9, <1>13, <1>14 DEF Rests, PythMoved, OtherMembers

LEMMA MemberPenaliseBanks ==
  ASSUME NEW st, Sound(st), Purse(st), AllCount(st.ballots), NEW m \in Members, NEW amount \in Int,
         NEW toTreasury, NEW t, t = MemberPenalise(st, m, amount, toTreasury)
  PROVE  Rests(t, st)
<1> DEFINE fromStake == Lesser(amount, st.members[m].staked)
           fromUnbond == Lesser(amount - fromStake, st.members[m].unbondAmount)
           f == FeesSync(st)
<1>1. st.members[m].staked \in Nat /\ st.members[m].unbondAmount \in Nat
  BY AmountsAre
<1>2. CASE amount <= 0
  <2>1. t = st
    BY <1>2 DEF MemberPenalise
  <2> QED
    BY <2>1, PaysItself DEF Pays, Rests
<1>3. Pays(f, st) /\ Purse(f) /\ AllCount(f.ballots) /\ f.members = st.members
  <2>1. st.fees.totalShares \in Nat
    BY StakedAreNat
  <2> HIDE DEF f
  <2>2. f = FeesSync(st)
    BY DEF f
  <2> QED
    BY <2>1, <2>2, FeesSyncPays, SyncedPays
<1>4. CASE amount > 0
  <2>1. fromStake \in Nat /\ fromUnbond \in Nat
    BY <1>1, <1>4 DEF Lesser
  <2>2. t = IF fromStake + fromUnbond = 0 THEN f ELSE Taken(f, m, fromStake, fromUnbond, toTreasury)
    BY <1>4 DEF MemberPenalise
  <2> HIDE DEF fromStake, fromUnbond, f
  <2>3. CASE t = f
    BY <1>3, <2>3 DEF Pays, Rests
  <2>4. CASE t = Taken(f, m, fromStake, fromUnbond, toTreasury)
    <3>1. Rests(t, f)
      BY <1>3, <2>1, <2>4, TakenBanks
    <3> QED
      BY <1>3, <3>1, BanksOn DEF Pays, Rests
  <2> QED
    BY <2>2, <2>3, <2>4
<1> QED
  BY <1>2, <1>4

LEMMA ChargedBanks ==
  ASSUME NEW st, Sound(st), Purse(st), AllCount(st.ballots), NEW m \in Members, st.members[m].known = TRUE,
         NEW b, NEW cap, cap.at \in Int, cap.inWindow \in Int, cap.penalty \in Int,
         NEW t, t = Charged(st, m, b, cap)
  PROVE  Rests(t, st)
<1> DEFINE u == WindowMoved(st, m, cap.at, cap.inWindow)
<1>1. t = MemberPenalise(u, m, cap.penalty, b.coherentWeight = 0)
  BY DEF Charged, WindowMoved
<1>2. Sound(u)
  <2> DEFINE at == cap.at
             inWindow == cap.inWindow
  <2>1. at \in Int /\ inWindow \in Int /\ u = WindowMoved(st, m, at, inWindow)
    OBVIOUS
  <2> HIDE DEF u, at, inWindow
  <2>2. Kept(u, st, m)
    BY <2>1, WindowMovedKeeps
  <2> QED
    BY <2>2 DEF Kept, Keeps, Follows
<1>3. /\ DOMAIN u = StoreFields /\ u.fees = st.fees /\ u.ballots = st.ballots /\ u.proposals = st.proposals
      /\ u.ugnot = st.ugnot /\ u.pyth = st.pyth /\ u.held = st.held
      /\ u.members = [st.members EXCEPT ![m].penaltyWindowAt = cap.at, ![m].penaltyInWindow = cap.inWindow]
  BY DEF WindowMoved, StoreFields, Purse
<1> HIDE DEF u
<1>4. StakeMoved(u.members[m], st.members[m]) /\ OtherMembers(u, st, m)
  <2>1. MemberPurse(st.members[m]) /\ DOMAIN st.members = Members
    BY DEF Purse
  <2> QED
    BY <1>3, <2>1 DEF MemberPurse, NoMember, StakeMoved, OtherMembers
<1>5. HeldMoved(u.held, st.held) /\ u.pyth \in Int
  BY <1>3, HeldAreInt DEF Purse, HeldMoved
<1>6. SameCoins(st, st) /\ OtherMembers(st, st, m)
  BY DEF SameCoins, OtherMembers, Purse
<1>7. PythMoved(u, st, m)
  BY <1>3, <1>4, <1>5, <1>6, StakeChangedMoves
<1>8. Banks(u, st)
  BY <1>7, PythMovedBanks
<1>9. Purse(u) /\ AllCount(u.ballots)
  BY <1>8 DEF Banks
<1>10. Rests(t, u)
  BY <1>1, <1>2, <1>9, MemberPenaliseBanks
<1>11. Banks(t, st)
  BY <1>8, <1>10, BanksOn DEF Rests
<1> QED
  BY <1>7, <1>10, <1>11 DEF Rests, PythMoved, OtherMembers

\* A member's cursor moves past a ballot.
PassedTo(u, m) == [u EXCEPT !.members[m].cursor = @ + 1]

LEMMA PassedIs ==
  ASSUME NEW u, Purse(u), NEW m \in Members, NEW t, t = PassedTo(u, m)
  PROVE  /\ Purse(t) /\ t.fees = u.fees /\ t.ballots = u.ballots /\ t.proposals = u.proposals
         /\ t.held = u.held /\ t.ugnot = u.ugnot /\ t.pyth = u.pyth /\ OtherMembers(t, u, m)
         /\ t.members[m].cursor = u.members[m].cursor + 1
         /\ t.members[m].pendingUgnot = u.members[m].pendingUgnot
<1>1. /\ DOMAIN t = StoreFields /\ t.fees = u.fees /\ t.ballots = u.ballots /\ t.proposals = u.proposals
      /\ t.ugnot = u.ugnot /\ t.pyth = u.pyth /\ t.held = u.held
      /\ t.members = [u.members EXCEPT ![m].cursor = @ + 1]
  BY DEF PassedTo, StoreFields, Purse
<1>2. MemberPurse(u.members[m]) /\ DOMAIN u.members = Members
  BY DEF Purse
<1>3. /\ OtherMembers(t, u, m) /\ MemberPurse(t.members[m])
      /\ t.members[m].cursor = u.members[m].cursor + 1
      /\ t.members[m].pendingUgnot = u.members[m].pendingUgnot
  BY <1>1, <1>2 DEF MemberPurse, NoMember, OtherMembers
<1>4. \A x \in Members : MemberPurse(t.members[x])
  BY <1>3 DEF OtherMembers, Purse
<1>5. Purse(t)
  BY <1>1, <1>3, <1>4 DEF Purse, OtherMembers
<1> QED
  BY <1>1, <1>3, <1>5

LEMMA CreditedIs ==
  ASSUME NEW st, Purse(st), NEW m \in Members, NEW inPyth \in Nat, NEW inUgnot \in Nat,
         NEW t, t = MemberCreditReward(st, m, inPyth, inUgnot)
  PROVE  /\ Purse(t) /\ t.fees = st.fees /\ t.ballots = st.ballots /\ t.proposals = st.proposals
         /\ t.ugnot = st.ugnot /\ t.pyth = st.pyth /\ OtherMembers(t, st, m)
         /\ HeldMoved(t.held, st.held)
         /\ t.members[m].cursor = st.members[m].cursor
         /\ t.members[m].pendingUgnot = st.members[m].pendingUgnot + inUgnot
<1>1. /\ DOMAIN t = StoreFields /\ t.fees = st.fees /\ t.ballots = st.ballots /\ t.proposals = st.proposals
      /\ t.ugnot = st.ugnot /\ t.pyth = st.pyth
      /\ t.held = [st.held EXCEPT !.pendingPyth = @ + inPyth]
      /\ t.members = [st.members EXCEPT ![m].pendingPyth = @ + inPyth, ![m].pendingUgnot = @ + inUgnot]
  BY DEF MemberCreditReward, StoreFields, Purse
<1>2. MemberPurse(st.members[m]) /\ DOMAIN st.members = Members
  BY DEF Purse
<1>3. /\ OtherMembers(t, st, m) /\ MemberPurse(t.members[m])
      /\ t.members[m].cursor = st.members[m].cursor
      /\ t.members[m].pendingUgnot = st.members[m].pendingUgnot + inUgnot
  BY <1>1, <1>2 DEF MemberPurse, NoMember, OtherMembers
<1>4. \A x \in Members : MemberPurse(t.members[x])
  BY <1>3 DEF OtherMembers, Purse
<1>5. HeldMoved(t.held, st.held)
  BY <1>1, HeldAreInt DEF HeldMoved, Purse, NothingHeld
<1>6. \A f \in DOMAIN NothingHeld : t.held[f] \in Int
  BY <1>5, HeldAreInt DEF HeldMoved, NothingHeld
<1>7. Purse(t)
  BY <1>1, <1>3, <1>4, <1>5, <1>6 DEF Purse, OtherMembers, HeldMoved
<1> QED
  BY <1>1, <1>3, <1>5, <1>7

\* Settled past a ballot, a member is due no more than before: what it was credited was due.
LEMMA PassingPays ==
  ASSUME NEW st, Purse(st), AllCount(st.ballots), NEW m \in Members, st.members[m].cursor + 1 \in DOMAIN st.ballots,
         NEW u, Purse(u), NEW t, t = PassedTo(u, m),
         u.ballots = st.ballots, u.proposals = st.proposals, u.held.depositUgnot = st.held.depositUgnot,
         Idle(st) >= 0 => Idle(u) >= 0, TreasuryUgnot(st) <= TreasuryUgnot(u),
         \A x \in Members : u.members[x].cursor = st.members[x].cursor,
         \/ AllDue(u) - u.held.rewardUgnot <= AllDue(st) - st.held.rewardUgnot
         \/ /\ u.held.rewardUgnot = st.held.rewardUgnot /\ OtherMembers(u, st, m)
            /\ u.members[m].pendingUgnot
                 <= st.members[m].pendingUgnot + Claim(st.ballots[st.members[m].cursor + 1], m)
  PROVE  Pays(t, st)
<1> DEFINE c == st.members[m].cursor
<1>1. /\ Purse(t) /\ t.ballots = u.ballots /\ t.proposals = u.proposals
      /\ t.held = u.held /\ t.ugnot = u.ugnot /\ t.pyth = u.pyth /\ OtherMembers(t, u, m)
      /\ t.members[m].cursor = u.members[m].cursor + 1
      /\ t.members[m].pendingUgnot = u.members[m].pendingUgnot
  BY PassedIs
<1>2. c \in Nat /\ u.members[m].cursor = c /\ st.members[m].pendingUgnot \in Nat /\ u.members[m].pendingUgnot \in Nat
  BY DEF Purse, MemberPurse
<1>3. /\ Unsettled(st.ballots, m, c) = Claim(st.ballots[c + 1], m) + Unsettled(st.ballots, m, c + 1)
      /\ Unsettled(st.ballots, m, c + 1) \in Nat /\ Unsettled(st.ballots, m, c) \in Nat
      /\ Claim(st.ballots[c + 1], m) \in Nat
  <2>1. Counts(st.ballots[c + 1])
    BY DEF AllCount
  <2> QED
    BY <1>2, <2>1, UnsettledNext, UnsettledIsNat, ClaimIsNat
<1>4. Due(t, m) = u.members[m].pendingUgnot + Unsettled(st.ballots, m, c + 1)
  BY <1>1, <1>2 DEF Due
<1> DEFINE none == 0
           d == Due(t, m)
<1>5. none \in Int
  OBVIOUS
<1>6. AllDue(t) - t.held.rewardUgnot <= AllDue(st) - st.held.rewardUgnot
  <2>1. CASE AllDue(u) - u.held.rewardUgnot <= AllDue(st) - st.held.rewardUgnot
    <3>1. Due(t, m) <= Due(u, m) + none
      <4>1. Due(u, m) = u.members[m].pendingUgnot + Unsettled(st.ballots, m, c)
        BY <1>2 DEF Due
      <4> HIDE DEF c
      <4> QED
        BY <1>2, <1>3, <1>4, <4>1
    <3>2. \A x \in Members \ {m} : /\ t.members[x].pendingUgnot = u.members[x].pendingUgnot
                                   /\ t.members[x].cursor = u.members[x].cursor
      BY <1>1 DEF OtherMembers
    <3> HIDE DEF none
    <3>3. AllDue(t) <= AllDue(u) + none
      BY <1>1, <1>5, <3>1, <3>2, MemberDue
    <3>4. AllDue(t) \in Int /\ AllDue(u) \in Int /\ AllDue(st) \in Int
      BY <1>1, DueIsNat
    <3> QED
      BY <1>1, <2>1, <3>3, <3>4, HeldAreInt DEF none
  <2>2. CASE /\ u.held.rewardUgnot = st.held.rewardUgnot /\ OtherMembers(u, st, m)
             /\ u.members[m].pendingUgnot <= st.members[m].pendingUgnot + Claim(st.ballots[c + 1], m)
    <3>1. Due(t, m) <= Due(st, m) + none
      <4>1. Due(st, m) = st.members[m].pendingUgnot + Unsettled(st.ballots, m, c)
        BY DEF Due
      <4> HIDE DEF c
      <4> QED
        BY <1>2, <1>3, <1>4, <2>2, <4>1
    <3>2. \A x \in Members \ {m} : /\ t.members[x].pendingUgnot = st.members[x].pendingUgnot
                                   /\ t.members[x].cursor = st.members[x].cursor
      BY <1>1, <2>2 DEF OtherMembers
    <3>3. t.ballots = st.ballots
      BY <1>1
    <3> HIDE DEF none
    <3>4. AllDue(t) <= AllDue(st) + none
      BY <1>1, <1>5, <3>1, <3>2, <3>3, MemberDue
    <3>5. AllDue(t) \in Int /\ AllDue(st) \in Int
      BY <1>1, DueIsNat
    <3> QED
      BY <1>1, <2>2, <3>4, <3>5, HeldAreInt DEF none
  <2> QED
    BY <2>1, <2>2
<1>7. Banks(t, st)
  BY <1>1, <1>6 DEF Banks, Idle, TreasuryUgnot
<1>8. \A x \in Members : st.members[x].cursor <= t.members[x].cursor
  <2>1. \A x \in Members : st.members[x].cursor \in Nat
    BY DEF Purse, MemberPurse
  <2> QED
    BY <1>1, <2>1 DEF OtherMembers
<1>9. st.members[m].cursor # t.members[m].cursor
  BY <1>1, <1>2
<1> QED
  BY <1>7, <1>8, <1>9 DEF Pays

LEMMA RewardedPasses ==
  ASSUME NEW st, Purse(st), AllCount(st.ballots), NEW m \in Members, st.members[m].cursor + 1 \in DOMAIN st.ballots,
         NEW b, b = st.ballots[st.members[m].cursor + 1], m \in DOMAIN b.reveals, ClassOf(b, m) = "coherent",
         NEW w \in Int, NEW u, u = Rewarded(st, m, b, w), NEW t, t = PassedTo(u, m)
  PROVE  Pays(t, st)
<1> DEFINE own == b.reveals[m].weight
           weight == Lesser(w, own)
           coherent == b.coherentWeight
           inPyth == RewardShare(b.expectedPool, weight, coherent)
           inUgnot == RewardShare(b.bondShare, weight, coherent)
<1>1. u = MemberCreditReward(st, m, inPyth, inUgnot)
  BY DEF Rewarded
<1>2. Counts(b)
  BY DEF AllCount
<1>3. own \in Int /\ coherent \in Int /\ b.expectedPool \in Nat /\ b.bondShare \in Nat
  <2>1. /\ \A x \in DOMAIN b.reveals : b.reveals[x].weight \in Nat
        /\ b.coherentWeight \in Int /\ b.expectedPool \in Nat /\ b.bondShare \in Nat
    BY ONLY <1>2 DEF Counts
  <2> QED
    BY ONLY <2>1, m \in DOMAIN b.reveals
<1>4. Claim(b, m) = RewardShare(b.bondShare, own, coherent)
  BY DEF Claim
<1> HIDE DEF own, coherent
<1>5. weight \in Int /\ weight <= own
  BY ONLY <1>3, w \in Int DEF Lesser
<1> HIDE DEF weight
<1>6. inPyth \in Nat /\ inUgnot \in Nat
  <2>1. b.expectedPool \in Int /\ b.bondShare \in Int
    BY ONLY <1>3
  <2> QED
    BY <1>3, <1>5, <2>1, RewardShareIsNat
<1>7. inUgnot <= Claim(b, m)
  BY <1>3, <1>4, <1>5, ShareGrows
<1> HIDE DEF inPyth, inUgnot
<1>8. /\ Purse(u) /\ u.ballots = st.ballots /\ u.proposals = st.proposals /\ u.ugnot = st.ugnot
      /\ OtherMembers(u, st, m) /\ HeldMoved(u.held, st.held)
      /\ u.members[m].cursor = st.members[m].cursor
      /\ u.members[m].pendingUgnot = st.members[m].pendingUgnot + inUgnot
  BY ONLY Purse(st), m \in Members, <1>1, <1>6, CreditedIs
<1>9. st.members[m].pendingUgnot \in Nat
  BY DEF Purse, MemberPurse
<1>10. u.members[m].pendingUgnot <= st.members[m].pendingUgnot + Claim(st.ballots[st.members[m].cursor + 1], m)
  <2>1. Claim(b, m) \in Nat
    BY <1>2, ClaimIsNat
  <2>2. u.members[m].pendingUgnot <= st.members[m].pendingUgnot + Claim(b, m)
    <3> DEFINE p == st.members[m].pendingUgnot
               q == u.members[m].pendingUgnot
               claim == Claim(b, m)
    <3>1. p \in Nat /\ q = p + inUgnot /\ claim \in Nat /\ inUgnot \in Nat /\ inUgnot <= claim
      BY <1>6, <1>7, <1>8, <1>9, <2>1
    <3> HIDE DEF p, q, claim
    <3>2. q <= p + claim
      BY ONLY <3>1
    <3> QED
      BY <3>2 DEF p, q, claim
  <2> QED
    BY <2>2
<1>11. \A x \in Members : u.members[x].cursor = st.members[x].cursor
  BY <1>8 DEF OtherMembers
<1>12. /\ Idle(u) = Idle(st) /\ TreasuryUgnot(u) = TreasuryUgnot(st) /\ TreasuryUgnot(st) \in Int
       /\ u.held.rewardUgnot = st.held.rewardUgnot /\ u.held.depositUgnot = st.held.depositUgnot
  BY <1>8, HeldAreInt DEF HeldMoved, Idle, TreasuryUgnot
<1>13. TreasuryUgnot(st) <= TreasuryUgnot(u)
  BY ONLY <1>12
<1> QED
  BY ONLY Purse(st), AllCount(st.ballots), m \in Members, st.members[m].cursor + 1 \in DOMAIN st.ballots,
          t = PassedTo(u, m), <1>8, <1>10, <1>11, <1>12, <1>13, PassingPays

LEMMA ChargedPasses ==
  ASSUME NEW st, Purse(st), AllCount(st.ballots), NEW m \in Members, st.members[m].cursor + 1 \in DOMAIN st.ballots,
         NEW u, Rests(u, st), NEW t, t = PassedTo(u, m)
  PROVE  Pays(t, st)
BY PassingPays DEF Banks, Rests

LEMMA SettleNextPays ==
  ASSUME NEW st, Sound(st), Purse(st), AllCount(st.ballots), NEW m \in Members, st.members[m].known = TRUE,
         NEW t, t = SettleNext(st, m)
  PROVE  Pays(t, st)
<1> DEFINE seq == st.members[m].cursor + 1
           b == st.ballots[seq]
           w == Lesser(PowerAt(st, m, b.sealed), Live(st.members[m]))
           class == ClassOf(b, m)
           u == SettledWith(st, m, b, w, class)
<1>1. CASE ~Settleable(st, seq)
  <2>1. t = st
    BY <1>1 DEF SettleNext
  <2> QED
    BY <2>1, PaysItself
<1>2. CASE Settleable(st, seq)
  <2>1. t = PassedTo(u, m)
    BY <1>2 DEF SettleNext, SettleOne, PassedTo
  <2>2. seq \in DOMAIN st.ballots
    BY <1>2 DEF Settleable
  <2>3. BallotOK(b) /\ epoch \in Nat
    BY <2>2 DEF Sound, Shaped, BallotsOK
  <2>4. w \in Int
    <3> DEFINE e == b.sealed
    <3>1. e \in Nat
      <4>1. b.sealed \in 1 .. epoch
        BY <2>3, Zenon DEF BallotOK
      <4> QED
        BY <2>3, <4>1
    <3> HIDE DEF e
    <3>2. PowerAt(st, m, e) \in Int
      BY <3>1, PowerIsInt
    <3> QED
      BY <3>2, AmountsAre DEF Lesser, Live, e
  <2> HIDE DEF w
  <2>5. CASE u = st
    BY <2>1, <2>2, <2>5, PaysItself, ChargedPasses DEF Pays, Rests
  <2>6. CASE w > 0 /\ class = "coherent"
    <3>1. u = Rewarded(st, m, b, w)
      BY <2>6 DEF SettledWith, Rates
    <3>2. m \in DOMAIN b.reveals
      BY <2>6 DEF ClassOf, Classify
    <3>3. b = st.ballots[st.members[m].cursor + 1] /\ ClassOf(b, m) = "coherent"
          /\ st.members[m].cursor + 1 \in DOMAIN st.ballots
      BY <2>2, <2>6
    <3> HIDE DEF b, u, class
    <3> QED
      BY <2>1, <2>4, <3>1, <3>2, <3>3, RewardedPasses
  <2>7. CASE w > 0 /\ class # "coherent" /\ class \in DOMAIN Rates
    <3> DEFINE penalty == Penalty(w, class, Rates)
               cap == CapPenalty(st, m, penalty, b.resolvedAt)
    <3>1. u = Charged(st, m, b, cap)
      BY <2>7 DEF SettledWith
    <3>2. penalty \in Int
      BY <2>4, <2>7, PenaltyIsInt
    <3> HIDE DEF penalty
    <3>3. cap.penalty \in Int /\ cap.at \in Int /\ cap.inWindow \in Int
      <4> DEFINE at == b.resolvedAt
      <4>1. at \in Int /\ cap = CapPenalty(st, m, penalty, at)
        BY <2>3 DEF BallotOK
      <4> HIDE DEF at, cap
      <4> QED
        BY <3>2, <4>1, CapPenaltyIsInt
    <3> HIDE DEF cap, u, b, class
    <3>4. Rests(u, st)
      BY ONLY Sound(st), Purse(st), AllCount(st.ballots), m \in Members, st.members[m].known = TRUE,
              <3>1, <3>3, ChargedBanks
    <3> QED
      BY <2>1, <2>2, <3>4, ChargedPasses
  <2>8. u = st \/ (w > 0 /\ class = "coherent") \/ (w > 0 /\ class # "coherent" /\ class \in DOMAIN Rates)
    <3>0. u = SettledWith(st, m, b, w, class)
      OBVIOUS
    <3> HIDE DEF u, b, class
    <3>1. CASE w <= 0
      BY <3>0, <3>1 DEF SettledWith
    <3>2. CASE w > 0 /\ class # "coherent" /\ class \notin DOMAIN Rates
      BY <3>0, <3>2 DEF SettledWith
    <3>3. w <= 0 \/ w > 0
      BY <2>4
    <3> QED
      BY <3>1, <3>2, <3>3
  <2> QED
    BY <2>5, <2>6, <2>7, <2>8
<1> QED
  BY <1>1, <1>2

\* What a call makes of a store in which a member settles, its coins included.
Paid(t, st, m) == Settled(t, st, m) /\ Pays(t, st)

LEMMA PaidOn ==
  ASSUME NEW st, Purse(st), AllCount(st.ballots), NEW m, NEW t, Paid(t, st, m), NEW u, Paid(u, t, m)
  PROVE  Paid(u, st, m)
BY PaysOn, SettledOn DEF Paid

LEMMA SettlePays ==
  ASSUME NEW st, Sound(st), Purse(st), AllCount(st.ballots), NEW m \in Members, st.members[m].known = TRUE,
         NEW maxN \in Nat, NEW t, t = Settle(st, m, maxN)
  PROVE  Paid(t, st, m)
<1> DEFINE f == CHOOSE g : Walks(g, st, m, maxN)
<1>1. t = f[maxN]
  BY DEF Settle, Walks
<1>2. Walks(f, st, m, maxN)
  BY WalksExist
<1> HIDE DEF f
<1>3. \A n \in 0 .. maxN : f[n] = IF n = 0 THEN st ELSE SettleNext(f[n - 1], m)
  BY <1>2 DEF Walks
<1> DEFINE T == { n \in Nat : n <= maxN => Paid(f[n], st, m) }
<1>4. 0 \in T
  <2>1. f[0] = st
    BY <1>3
  <2> QED
    BY <2>1, SettledItself, PaysItself DEF Paid
<1>5. ASSUME NEW n \in T
      PROVE  n + 1 \in T
  <2> SUFFICES ASSUME n + 1 <= maxN
               PROVE  Paid(f[n + 1], st, m)
    OBVIOUS
  <2>1. n \in Nat /\ n <= maxN /\ Paid(f[n], st, m)
    OBVIOUS
  <2> DEFINE u == f[n]
             v == f[n + 1]
  <2>2. v = SettleNext(u, m)
    <3>1. n + 1 \in 0 .. maxN /\ n + 1 # 0 /\ (n + 1) - 1 = n
      BY <2>1
    <3> QED
      BY <1>3, <3>1
  <2>3. /\ Sound(u) /\ u.members[m].known = TRUE /\ Paid(u, st, m)
        /\ Purse(u) /\ AllCount(u.ballots)
    BY <2>1 DEF Paid, Settled, Follows, Pays, Banks
  <2> HIDE DEF u, v
  <2>4. Paid(v, u, m)
    BY <2>2, <2>3, SettleNextSettles, SettleNextPays DEF Paid
  <2>5. Paid(v, st, m)
    BY <2>3, <2>4, PaidOn
  <2> QED
    BY <2>5 DEF v
<1>6. maxN \in T
  <2>1. T \in SUBSET Nat
    OBVIOUS
  <2> HIDE DEF T
  <2> QED
    BY <1>4, <1>5, <2>1, NaturalsFromZero
<1> QED
  BY <1>1, <1>6

LEMMA SettleStrictlyPays ==
  ASSUME NEW st, Sound(st), Purse(st), AllCount(st.ballots), NEW m \in Members, st.members[m].known = TRUE,
         NEW t, t = SettleStrictly(st, m)
  PROVE  Paid(t, st, m)
<1> DEFINE maxN == Param.settleMaxN
           u == Settle(st, m, maxN)
           cond == ~Settleable(u, u.members[m].cursor + 1)
<1>1. t = Require(u, cond)
  BY DEF SettleStrictly, NothingLeftToSettle
<1>2. Paid(u, st, m)
  <2>1. maxN \in Nat /\ u = Settle(st, m, maxN)
    BY StakesAssumption
  <2> HIDE DEF u, maxN
  <2> QED
    BY <2>1, SettlePays
<1> HIDE DEF u, cond
<1>3. Purse(u) /\ AllCount(u.ballots)
  BY <1>2 DEF Paid, Pays, Banks
<1>4. Pays(t, u)
  BY <1>1, <1>3, RequirePays
<1>5. Pays(t, st)
  BY <1>2, <1>4, PaysOn DEF Paid
<1> QED
  BY <1>5, SettleStrictlySettles DEF Paid

-----------------------------------------------------------------------------
(* Payments. *)

Sent(t, u, amount) ==
  /\ DOMAIN t = StoreFields /\ t.members = u.members /\ t.fees = u.fees /\ t.ballots = u.ballots
  /\ t.proposals = u.proposals /\ t.pyth = u.pyth /\ t.ugnot = u.ugnot - amount
  /\ t.held = [u.held EXCEPT !.knownUgnot = @ - amount]

LEMMA SendUgnotIs ==
  ASSUME NEW u, DOMAIN u = StoreFields, NEW amount, NEW t, t = SendUgnot(u, amount)
  PROVE  Sent(t, u, amount)
BY DEF SendUgnot, Require, StoreFields, Sent

\* What is sent is known of, and is one of the amounts owed.
CoinsHeld(h, g, known, fee, reward) ==
  /\ DOMAIN h = DOMAIN NothingHeld
  /\ h.knownUgnot = known /\ h.feeUgnot = fee /\ h.rewardUgnot = reward /\ h.depositUgnot = g.depositUgnot
  /\ h.stakedPyth = g.stakedPyth /\ h.unbondingPyth = g.unbondingPyth
  /\ h.rewardPyth = g.rewardPyth /\ h.pendingPyth = g.pendingPyth

LEMMA CoinsSentPay ==
  ASSUME NEW st, Purse(st), AllCount(st.ballots), NEW t, DOMAIN t = StoreFields, FeesOK(t.fees),
         DOMAIN t.members = Members, \A x \in Members : MemberPurse(t.members[x]),
         \A x \in Members : t.members[x].cursor = st.members[x].cursor,
         t.ballots = st.ballots, t.proposals = st.proposals, t.pyth = st.pyth,
         NEW fee \in Int, NEW reward \in Int, t.ugnot = st.ugnot - (fee + reward),
         CoinsHeld(t.held, st.held, st.held.knownUgnot - (fee + reward), st.held.feeUgnot - fee,
                   st.held.rewardUgnot - reward),
         AllDue(t) <= AllDue(st) - reward
  PROVE  Pays(t, st)
<1>1. /\ st.held.knownUgnot \in Int /\ st.held.feeUgnot \in Int /\ st.held.rewardUgnot \in Int
      /\ st.held.depositUgnot \in Int /\ st.held.stakedPyth \in Int /\ st.held.unbondingPyth \in Int
      /\ st.held.rewardPyth \in Int /\ st.held.pendingPyth \in Int /\ st.ugnot \in Int /\ st.pyth \in Int
  BY HeldAreInt DEF Purse
<1>2. \A f \in DOMAIN NothingHeld : t.held[f] \in Int
  BY <1>1 DEF CoinsHeld, NothingHeld
<1>3. Purse(t)
  BY <1>1, <1>2 DEF Purse, FeesOK, CoinsHeld
<1>4. Idle(t) = Idle(st) /\ TreasuryUgnot(t) = TreasuryUgnot(st) /\ Short(t) = Short(st)
  BY <1>1 DEF CoinsHeld, Idle, TreasuryUgnot, Short, TreasuryPyth
<1>5. AllDue(t) \in Int /\ AllDue(st) \in Int
  BY <1>3, DueIsNat
<1>6. AllDue(t) - t.held.rewardUgnot <= AllDue(st) - st.held.rewardUgnot
  BY <1>1, <1>5 DEF CoinsHeld
<1>7. TreasuryUgnot(st) <= TreasuryUgnot(t)
  BY <1>4, HeldAreInt
<1>8. Banks(t, st)
  BY <1>3, <1>4, <1>6, <1>7 DEF Banks, CoinsHeld
<1>9. \A x \in Members : st.members[x].cursor <= t.members[x].cursor
  BY DEF Purse, MemberPurse
<1> QED
  BY <1>4, <1>8, <1>9 DEF Pays

LEMMA MemberPayFeesPays ==
  ASSUME NEW st, Purse(st), AllCount(st.ballots), NEW m \in Members, NEW t, t = MemberPayFees(st, m)
  PROVE  Pays(t, st)
<1> DEFINE fee == Claimed(st.fees, st.members[m].fee)
           paid == PaidTo(st.fees, st.members[m].fee)
           claimed == [st EXCEPT !.fees = paid, !.members[m].fee = fee]
           amount == Owed(st.fees, st.members[m].fee)
           u == [claimed EXCEPT !.held.feeUgnot = @ - amount]
<1>1. t = IF amount = 0 THEN claimed ELSE SendUgnot(u, amount)
  BY DEF MemberPayFees, PaidFees
<1>2. amount \in Int /\ DOMAIN fee = DOMAIN NoPosition /\ fee.shares \in Int /\ fee.debt \in Int /\ fee.pending \in Int
  <2> DEFINE a == st.fees
             p == st.members[m].fee
             none == 0
  <2>1. MemberPurse(st.members[m])
    BY DEF Purse
  <2>2. a.accPerShare \in Int /\ DOMAIN p = DOMAIN NoPosition /\ p.shares \in Int /\ p.debt \in Int /\ p.pending \in Int
    BY <2>1 DEF Purse, MemberPurse
  <2>3. amount = Owed(a, p) /\ fee = Claimed(a, p) /\ none \in Int
    OBVIOUS
  <2> HIDE DEF a, p, fee, amount, none
  <2>4. /\ Owed(a, p) \in Int
        /\ DOMAIN Claimed(a, p) = DOMAIN NoPosition /\ Claimed(a, p).shares = p.shares
        /\ Claimed(a, p).debt \in Int /\ Claimed(a, p).pending \in Int
    BY <2>2, <2>3, PositionIsInt
  <2> QED
    BY <2>2, <2>3, <2>4
<1>3. FeesOK(paid)
  BY DEF PaidTo, Purse, NoFees, FeesOK
<1> HIDE DEF fee, paid, amount
<1>4. /\ DOMAIN claimed = StoreFields /\ claimed.fees = paid /\ claimed.ballots = st.ballots
      /\ claimed.proposals = st.proposals /\ claimed.pyth = st.pyth /\ claimed.ugnot = st.ugnot
      /\ claimed.held = st.held /\ claimed.members = [st.members EXCEPT ![m].fee = fee]
  BY DEF Purse, StoreFields
<1> HIDE DEF claimed
<1>5. /\ DOMAIN u = StoreFields /\ u.fees = paid /\ u.ballots = st.ballots /\ u.proposals = st.proposals
      /\ u.pyth = st.pyth /\ u.ugnot = st.ugnot /\ u.members = claimed.members
      /\ u.held = [st.held EXCEPT !.feeUgnot = @ - amount]
  BY <1>4 DEF StoreFields
<1> HIDE DEF u
<1>6. /\ DOMAIN t = StoreFields /\ t.fees = paid /\ t.ballots = st.ballots /\ t.proposals = st.proposals
      /\ t.pyth = st.pyth /\ t.ugnot = st.ugnot - amount /\ t.members = claimed.members
      /\ CoinsHeld(t.held, st.held, st.held.knownUgnot - amount, st.held.feeUgnot - amount, st.held.rewardUgnot)
  <2>1. /\ st.held.knownUgnot \in Int /\ st.held.feeUgnot \in Int /\ st.ugnot \in Int
        /\ DOMAIN st.held = DOMAIN NothingHeld
    BY HeldAreInt DEF Purse
  <2>2. CASE amount = 0
    <3>1. t = claimed
      BY <1>1, <2>2
    <3>2. CoinsHeld(t.held, st.held, st.held.knownUgnot - amount, st.held.feeUgnot - amount, st.held.rewardUgnot)
      BY <1>4, <2>1, <2>2, <3>1 DEF CoinsHeld
    <3> QED
      BY <1>4, <2>1, <2>2, <3>1, <3>2
  <2>3. CASE amount # 0
    <3>1. t = SendUgnot(u, amount)
      BY <1>1, <2>3
    <3>2. /\ DOMAIN t = StoreFields /\ t.members = u.members /\ t.fees = u.fees /\ t.ballots = u.ballots
          /\ t.proposals = u.proposals /\ t.pyth = u.pyth /\ t.ugnot = u.ugnot - amount
          /\ t.held = [u.held EXCEPT !.knownUgnot = @ - amount]
      <4>1. Sent(t, u, amount)
        BY <1>5, <3>1, SendUgnotIs
      <4> QED
        BY <4>1 DEF Sent
    <3>3. CoinsHeld(t.held, st.held, st.held.knownUgnot - amount, st.held.feeUgnot - amount, st.held.rewardUgnot)
      BY <1>5, <2>1, <3>2 DEF CoinsHeld, NothingHeld
    <3> QED
      BY <1>5, <3>2, <3>3
  <2> QED
    BY <2>2, <2>3
<1>7. /\ DOMAIN t.members = Members /\ \A x \in Members \ {m} : t.members[x] = st.members[x]
      /\ t.members[m] = [st.members[m] EXCEPT !.fee = fee]
  BY <1>4, <1>6 DEF Purse
<1>8. /\ MemberPurse(t.members[m]) /\ t.members[m].cursor = st.members[m].cursor
      /\ t.members[m].pendingUgnot = st.members[m].pendingUgnot
  <2>1. MemberPurse(st.members[m])
    BY DEF Purse
  <2> QED
    BY <1>2, <1>7, <2>1 DEF MemberPurse, NoMember
<1>9. \A x \in Members : MemberPurse(t.members[x])
  BY <1>7, <1>8 DEF Purse
<1>10. \A x \in Members : /\ t.members[x].pendingUgnot = st.members[x].pendingUgnot
                          /\ t.members[x].cursor = st.members[x].cursor
  BY <1>7, <1>8
<1> DEFINE none == 0
<1>11. AllDue(t) <= AllDue(st) - none
  <2>1. AllDue(t) = AllDue(st)
    BY <1>6, <1>10, SameDue
  <2>2. AllDue(st) \in Int
    BY DueIsNat
  <2> QED
    BY <2>1, <2>2
<1>12. /\ none \in Int /\ t.ugnot = st.ugnot - (amount + none)
       /\ CoinsHeld(t.held, st.held, st.held.knownUgnot - (amount + none), st.held.feeUgnot - amount,
                    st.held.rewardUgnot - none)
  <2>1. amount + none = amount /\ st.held.rewardUgnot - none = st.held.rewardUgnot
    BY <1>2, HeldAreInt
  <2> QED
    BY <1>6, <2>1
<1> HIDE DEF none
<1> QED
  BY <1>2, <1>3, <1>6, <1>7, <1>9, <1>10, <1>11, <1>12, CoinsSentPay

LEMMA PayUgnotPays ==
  ASSUME NEW st, Purse(st), AllCount(st.ballots), NEW m \in Members, NEW amount, amount = st.members[m].pendingUgnot,
         NEW t, t = PayUgnot(st, m, amount)
  PROVE  Pays(t, st)
<1>1. amount \in Nat /\ MemberPurse(st.members[m])
  BY DEF Purse, MemberPurse
<1>2. CASE amount = 0
  BY <1>2, PaysItself DEF PayUgnot
<1>3. CASE amount # 0
  <2> DEFINE u == UgnotTaken(st, m, amount)
             none == 0
  <2>1. t = SendUgnot(u, amount)
    BY <1>3 DEF PayUgnot, UgnotTaken
  <2>2. /\ DOMAIN u = StoreFields /\ u.fees = st.fees /\ u.ballots = st.ballots /\ u.proposals = st.proposals
        /\ u.pyth = st.pyth /\ u.ugnot = st.ugnot
        /\ u.members = [st.members EXCEPT ![m].pendingUgnot = 0]
        /\ u.held = [st.held EXCEPT !.rewardUgnot = @ - amount]
    BY DEF UgnotTaken, Purse, StoreFields
  <2> HIDE DEF u
  <2>3. /\ DOMAIN t = StoreFields /\ t.members = u.members /\ t.fees = u.fees /\ t.ballots = u.ballots
        /\ t.proposals = u.proposals /\ t.pyth = u.pyth /\ t.ugnot = u.ugnot - amount
        /\ t.held = [u.held EXCEPT !.knownUgnot = @ - amount]
    <3>1. Sent(t, u, amount)
      BY <2>1, <2>2, SendUgnotIs
    <3> QED
      BY <3>1 DEF Sent
  <2>4. /\ st.held.knownUgnot \in Int /\ st.held.feeUgnot \in Int /\ st.held.rewardUgnot \in Int
        /\ DOMAIN st.held = DOMAIN NothingHeld
    BY HeldAreInt DEF Purse
  <2>5. CoinsHeld(t.held, st.held, st.held.knownUgnot - (none + amount), st.held.feeUgnot - none,
                  st.held.rewardUgnot - amount)
    BY <1>1, <2>2, <2>3, <2>4 DEF CoinsHeld, NothingHeld
  <2>6. none \in Int /\ t.ugnot = st.ugnot - (none + amount) /\ FeesOK(t.fees)
    BY <1>1, <2>2, <2>3 DEF FeesOK, Purse
  <2> HIDE DEF none
  <2>7. /\ DOMAIN t.members = Members /\ \A x \in Members \ {m} : t.members[x] = st.members[x]
        /\ t.members[m] = [st.members[m] EXCEPT !.pendingUgnot = 0]
    BY <2>2, <2>3 DEF Purse
  <2>8. MemberPurse(t.members[m]) /\ t.members[m].cursor = st.members[m].cursor /\ t.members[m].pendingUgnot = 0
    BY <1>1, <2>7 DEF MemberPurse, NoMember
  <2>9. \A x \in Members : MemberPurse(t.members[x])
    BY <2>7, <2>8 DEF Purse
  <2>10. \A x \in Members : t.members[x].cursor = st.members[x].cursor
    BY <2>7, <2>8
  <2> DEFINE d == -amount
  <2>11. AllDue(t) <= AllDue(st) + d
    <3>1. Purse(t)
      <4>1. \A f \in DOMAIN NothingHeld : t.held[f] \in Int
        <5>1. /\ st.held.knownUgnot \in Int /\ st.held.feeUgnot \in Int /\ st.held.rewardUgnot \in Int
              /\ st.held.depositUgnot \in Int /\ st.held.stakedPyth \in Int /\ st.held.unbondingPyth \in Int
              /\ st.held.rewardPyth \in Int /\ st.held.pendingPyth \in Int
          BY HeldAreInt
        <5>2. none \in Int /\ none + amount \in Int /\ amount \in Int
          BY <1>1, <2>6
        <5> QED
          BY <2>5, <5>1, <5>2 DEF CoinsHeld, NothingHeld
      <4>2. st.ugnot \in Int /\ st.pyth \in Int /\ DOMAIN t.held = DOMAIN NothingHeld
        BY <2>2, <2>3 DEF Purse, CoinsHeld
      <4>3. t.ugnot \in Int /\ t.pyth \in Int
        BY <1>1, <2>2, <2>3, <4>2
      <4> QED
        BY <2>3, <2>6, <2>7, <2>9, <4>1, <4>2, <4>3 DEF Purse, FeesOK
    <3>2. Due(t, m) <= Due(st, m) + d
      <4> DEFINE c == st.members[m].cursor
      <4>1. Unsettled(st.ballots, m, c) \in Nat
        BY UnsettledIsNat
      <4>2. Due(t, m) = 0 + Unsettled(st.ballots, m, c) /\ Due(st, m) = amount + Unsettled(st.ballots, m, c)
        BY <2>2, <2>3, <2>8 DEF Due
      <4> HIDE DEF c
      <4> QED
        BY <1>1, <4>1, <4>2
    <3>3. \A x \in Members \ {m} : /\ t.members[x].pendingUgnot = st.members[x].pendingUgnot
                                   /\ t.members[x].cursor = st.members[x].cursor
      BY <2>7
    <3>4. d \in Int /\ t.ballots = st.ballots
      BY <1>1, <2>2, <2>3
    <3> HIDE DEF d
    <3> QED
      BY <3>1, <3>2, <3>3, <3>4, MemberDue
  <2>12. AllDue(t) <= AllDue(st) - amount
    <3>1. AllDue(st) \in Int
      BY DueIsNat
    <3>2. AllDue(st) + d = AllDue(st) - amount
      BY <1>1, <3>1
    <3> QED
      BY <2>11, <3>2
  <2>13. amount \in Int
    BY <1>1
  <2> QED
    BY <2>2, <2>3, <2>5, <2>6, <2>7, <2>9, <2>10, <2>12, <2>13, CoinsSentPay
<1> QED
  BY <1>2, <1>3

LEMMA PayPythPays ==
  ASSUME NEW st, Sound(st), Purse(st), AllCount(st.ballots), NEW m \in Members, NEW amount \in Int,
         NEW t, t = PayPyth(st, m, amount)
  PROVE  Pays(t, st) /\ t.members[m].pendingUgnot = st.members[m].pendingUgnot
<1> DEFINE pool == Lesser(amount, st.held.rewardPyth)
<1>1. /\ st.held.stakedPyth \in Int /\ st.held.unbondingPyth \in Int /\ st.held.rewardPyth \in Int
      /\ st.held.pendingPyth \in Int /\ st.pyth \in Int
  BY HeldAreInt DEF Purse
<1>2. pool \in Int
  BY <1>1 DEF Lesser
<1> HIDE DEF pool
<1>3. /\ DOMAIN t = StoreFields /\ t.fees = st.fees /\ t.ballots = st.ballots /\ t.proposals = st.proposals
      /\ t.ugnot = st.ugnot /\ t.pyth = st.pyth - amount
      /\ t.members = [st.members EXCEPT ![m].pendingPyth = @ - amount]
      /\ t.held = [st.held EXCEPT !.rewardPyth = @ - pool, !.pendingPyth = @ - amount]
  BY DEF PayPyth, SendPyth, Require, StoreFields, Purse, NothingHeld, pool
<1>4. StakeMoved(t.members[m], st.members[m]) /\ OtherMembers(t, st, m)
  <2>1. MemberPurse(st.members[m]) /\ DOMAIN st.members = Members
    BY DEF Purse
  <2> QED
    BY <1>3, <2>1 DEF MemberPurse, NoMember, StakeMoved, OtherMembers
<1>5. /\ t.held.stakedPyth = st.held.stakedPyth /\ t.held.unbondingPyth = st.held.unbondingPyth
      /\ t.held.rewardPyth = st.held.rewardPyth - pool /\ t.held.pendingPyth = st.held.pendingPyth - amount
      /\ HeldMoved(t.held, st.held)
  BY <1>1, <1>2, <1>3 DEF Purse, NothingHeld, HeldMoved
<1>6. SameCoins(st, st) /\ OtherMembers(st, st, m) /\ t.pyth \in Int
  BY <1>1, <1>3 DEF SameCoins, OtherMembers, Purse
<1>7. PythMoved(t, st, m)
  BY <1>3, <1>4, <1>5, <1>6, StakeChangedMoves
<1>8. Short(t) = Short(st)
  BY <1>1, <1>2, <1>3, <1>5 DEF Short, TreasuryPyth
<1> QED
  BY <1>4, <1>7, <1>8, PythMovedBanks DEF StakeMoved

LEMMA MemberPayRewardsPays ==
  ASSUME NEW st, Sound(st), Purse(st), AllCount(st.ballots), NEW m \in Members,
         NEW t, t = MemberPayRewards(st, m)
  PROVE  Pays(t, st)
<1> DEFINE amount == Lesser(st.members[m].pendingPyth, st.held.rewardPyth + TreasuryPyth(st))
           coins == st.members[m].pendingUgnot
           p == IF amount > 0 THEN PayPyth(st, m, amount) ELSE st
<1>1. t = PayUgnot(p, m, coins)
  BY DEF MemberPayRewards
<1>2. amount \in Int
  BY AmountsAre DEF Lesser
<1> HIDE DEF amount
<1>3. Pays(p, st) /\ p.members[m].pendingUgnot = st.members[m].pendingUgnot
  <2>1. CASE amount > 0
    <3>1. p = PayPyth(st, m, amount)
      BY <2>1
    <3> HIDE DEF p
    <3> QED
      BY <1>2, <3>1, PayPythPays
  <2>2. CASE ~(amount > 0)
    BY <2>2, PaysItself
  <2> QED
    BY <2>1, <2>2
<1> HIDE DEF p
<1>4. Purse(p) /\ AllCount(p.ballots) /\ coins = p.members[m].pendingUgnot
  BY <1>3 DEF Pays, Banks
<1> HIDE DEF coins
<1>5. Pays(t, p)
  BY <1>1, <1>4, PayUgnotPays
<1> QED
  BY <1>3, <1>5, PaysOn

-----------------------------------------------------------------------------
(* Calls of members. *)

\* A call that pays out of what the realm holds for it.
PaysNow == \E t : Pays(t, Store) /\ Commit(t)

LEMMA StakePays ==
  ASSUME Sound(Store), Purse(Store), AllCount(Store.ballots), NEW m \in Members, NEW amount \in Stakes,
         Stake(m, amount)
  PROVE  PaysNow
<1> DEFINE s == IF members[m].known THEN SettleStrictly(Store, m) ELSE Store
           cond == s.members[m].staked + amount >= Param.minStake
           q == Require(s, cond)
           t == MemberStake(q, m, amount)
<1>1. Commit(t)
  BY DEF Stake, StakeChecked
<1>2. amount \in Nat
  BY StakesAssumption
<1>3. Pays(s, Store) /\ Sound(s)
  <2>1. CASE members[m].known
    <3>1. Store.members[m].known = TRUE
      BY <2>1, KnownIs, StoreIs
    <3>2. Paid(SettleStrictly(Store, m), Store, m)
      BY <3>1, SettleStrictlyPays
    <3> QED
      BY <2>1, <3>2 DEF Paid, Settled, Follows
  <2>2. CASE ~members[m].known
    BY <2>2, PaysItself
  <2> QED
    BY <2>1, <2>2
<1> HIDE DEF s
<1>4. Purse(s) /\ AllCount(s.ballots)
  BY <1>3 DEF Pays, Banks
<1> HIDE DEF cond
<1>5. Pays(q, s) /\ Follows(q, s)
  BY <1>3, <1>4, RequirePays, RequireFollows
<1> HIDE DEF q
<1>6. Sound(q) /\ Purse(q) /\ AllCount(q.ballots)
  BY <1>4, <1>5 DEF Follows, Pays, Banks
<1>7. Pays(t, q)
  BY <1>2, <1>6, MemberStakePays
<1> HIDE DEF t
<1>8. Pays(q, Store)
  BY <1>3, <1>5, PaysOn
<1>9. Pays(t, Store)
  BY <1>7, <1>8, PaysOn
<1> QED
  BY <1>1, <1>9 DEF PaysNow

LEMMA RequestUnstakePays ==
  ASSUME Sound(Store), Purse(Store), AllCount(Store.ballots), NEW m \in Members, NEW amount \in Stakes,
         RequestUnstake(m, amount)
  PROVE  PaysNow
<1> DEFINE s == SettleStrictly(Store, m)
           rest == s.members[m].staked - amount
           allowed == rest >= 0 /\ (rest = 0 \/ rest >= Param.minStake)
                        /\ (now < s.members[m].vestedUntil => rest >= s.members[m].vestFloor)
           q == Require(s, allowed)
           readyAt == now + Param.unstakeCooldown
           t == MemberUnstake(q, m, amount, readyAt)
<1>1. Commit(t) /\ amount \in Nat
  BY StakesAssumption DEF RequestUnstake, UnstakeChecked
<1>2. Pays(s, Store) /\ Sound(s)
  <2>1. Store.members[m].known = TRUE
    BY KnownIs, StoreIs DEF RequestUnstake
  <2>2. Paid(s, Store, m)
    BY <2>1, SettleStrictlyPays
  <2> QED
    BY <2>2 DEF Paid, Settled, Follows
<1> HIDE DEF s
<1>3. Purse(s) /\ AllCount(s.ballots)
  BY <1>2 DEF Pays, Banks
<1> HIDE DEF allowed
<1>4. Pays(q, s) /\ Follows(q, s)
  BY <1>2, <1>3, RequirePays, RequireFollows
<1> HIDE DEF q, readyAt
<1>5. Sound(q) /\ Purse(q) /\ AllCount(q.ballots)
  BY <1>3, <1>4 DEF Follows, Pays, Banks
<1>6. Pays(t, q)
  BY <1>1, <1>5, MemberUnstakePays
<1> HIDE DEF t
<1>7. Pays(q, Store)
  BY <1>2, <1>4, PaysOn
<1>8. Pays(t, Store)
  BY <1>6, <1>7, PaysOn
<1> QED
  BY <1>1, <1>8 DEF PaysNow

LEMMA WithdrawPays ==
  ASSUME Sound(Store), Purse(Store), AllCount(Store.ballots), NEW m \in Members, Withdraw(m)
  PROVE  PaysNow
<1> DEFINE s == SettleStrictly(Store, m)
           cond == ~OpenObligation(s, m)
           q == Require(s, cond)
           t == MemberPayUnbonded(q, m)
<1>1. Commit(t)
  BY DEF Withdraw, PaidUnlessObliged
<1>2. Pays(s, Store) /\ Sound(s)
  <2>1. Store.members[m].known = TRUE
    BY KnownIs, StoreIs DEF Withdraw
  <2>2. Paid(s, Store, m)
    BY <2>1, SettleStrictlyPays
  <2> QED
    BY <2>2 DEF Paid, Settled, Follows
<1> HIDE DEF s
<1>3. Purse(s) /\ AllCount(s.ballots)
  BY <1>2 DEF Pays, Banks
<1> HIDE DEF cond
<1>4. Pays(q, s) /\ Follows(q, s)
  BY <1>2, <1>3, RequirePays, RequireFollows
<1> HIDE DEF q
<1>5. Sound(q) /\ Purse(q) /\ AllCount(q.ballots)
  BY <1>3, <1>4 DEF Follows, Pays, Banks
<1>6. Pays(t, q)
  BY <1>5, MemberPayUnbondedPays
<1> HIDE DEF t
<1>7. Pays(q, Store)
  BY <1>2, <1>4, PaysOn
<1>8. Pays(t, Store)
  BY <1>6, <1>7, PaysOn
<1> QED
  BY <1>1, <1>8 DEF PaysNow

LEMMA SettleMemberPays ==
  ASSUME Sound(Store), Purse(Store), AllCount(Store.ballots), NEW m \in Members, NEW maxN \in Nat,
         SettleMember(m, maxN)
  PROVE  PaysNow
<1> DEFINE t == Settle(Store, m, maxN)
<1>1. Commit(t)
  BY DEF SettleMember
<1>2. Store.members[m].known = TRUE
  BY KnownIs, StoreIs DEF SettleMember
<1>3. Paid(t, Store, m)
  BY <1>2, SettlePays
<1> HIDE DEF t
<1> QED
  BY <1>1, <1>3 DEF PaysNow, Paid

LEMMA ClaimFeesPays ==
  ASSUME Sound(Store), Purse(Store), AllCount(Store.ballots), NEW m \in Members, ClaimFees(m)
  PROVE  PaysNow
<1> DEFINE s == FeesSync(Store)
           t == MemberPayFees(s, m)
<1>1. Commit(t)
  BY DEF ClaimFees
<1>2. Pays(s, Store) /\ Purse(s) /\ AllCount(s.ballots)
  BY SyncedPays
<1> HIDE DEF s
<1>3. Pays(t, s)
  BY <1>2, MemberPayFeesPays
<1> HIDE DEF t
<1>4. Pays(t, Store)
  BY <1>2, <1>3, PaysOn
<1> QED
  BY <1>1, <1>4 DEF PaysNow

LEMMA ClaimRewardsPays ==
  ASSUME Sound(Store), Purse(Store), AllCount(Store.ballots), NEW m \in Members, ClaimRewards(m)
  PROVE  PaysNow
<1> DEFINE maxN == Param.settleMaxN
           s == Settle(Store, m, maxN)
           t == MemberPayRewards(s, m)
<1>1. Commit(t)
  BY DEF ClaimRewards
<1>2. Store.members[m].known = TRUE /\ maxN \in Nat
  BY KnownIs, StoreIs, StakesAssumption DEF ClaimRewards
<1> HIDE DEF maxN
<1>3. Pays(s, Store) /\ Sound(s)
  <2>1. Paid(s, Store, m)
    BY <1>2, SettlePays
  <2> QED
    BY <2>1 DEF Paid, Settled, Follows
<1> HIDE DEF s
<1>4. Purse(s) /\ AllCount(s.ballots)
  BY <1>3 DEF Pays, Banks
<1>5. Pays(t, s)
  BY <1>3, <1>4, MemberPayRewardsPays
<1> HIDE DEF t
<1>6. Pays(t, Store)
  BY <1>3, <1>5, PaysOn
<1> QED
  BY <1>1, <1>6 DEF PaysNow

\* Coins that come without a call are nobody's yet.
Arrived(st, amount) == [st EXCEPT !.ugnot = @ + amount]

LEMMA ArrivedPays ==
  ASSUME NEW st, Purse(st), AllCount(st.ballots), NEW amount \in Nat, NEW t, t = Arrived(st, amount)
  PROVE  Pays(t, st) /\ t.members = st.members /\ t.held = st.held /\ t.ugnot = st.ugnot + amount
<1>1. /\ DOMAIN t = StoreFields /\ t.members = st.members /\ t.fees = st.fees /\ t.held = st.held
      /\ t.ugnot = st.ugnot + amount /\ t.pyth = st.pyth /\ t.ballots = st.ballots /\ t.proposals = st.proposals
  BY DEF Arrived, Purse, StoreFields
<1>2. Purse(t)
  BY <1>1 DEF Purse
<1>3. AllDue(t) = AllDue(st) /\ AllDue(st) \in Int
  BY <1>1, SameDue, DueIsNat
<1>4. Idle(t) = Idle(st) + amount /\ TreasuryUgnot(t) = TreasuryUgnot(st) /\ Short(t) = Short(st)
  <2>1. st.ugnot \in Int /\ st.held.knownUgnot \in Int
    BY HeldAreInt DEF Purse
  <2> QED
    BY <1>1, <2>1 DEF Idle, TreasuryUgnot, Short, TreasuryPyth
<1>5. Idle(st) \in Int /\ TreasuryUgnot(st) \in Int /\ st.held.rewardUgnot \in Int
  BY HeldAreInt
<1>6. Idle(st) >= 0 => Idle(t) >= 0
  BY <1>4, <1>5
<1>7. TreasuryUgnot(st) <= TreasuryUgnot(t)
  BY <1>4, <1>5
<1>8. AllDue(t) - t.held.rewardUgnot <= AllDue(st) - st.held.rewardUgnot
  BY <1>1, <1>3, <1>5
<1>9. Banks(t, st)
  BY <1>1, <1>2, <1>6, <1>7, <1>8 DEF Banks
<1>10. \A x \in Members : st.members[x].cursor <= t.members[x].cursor
  BY <1>1 DEF Purse, MemberPurse
<1> QED
  BY <1>1, <1>4, <1>9, <1>10 DEF Pays

LEMMA MemberOpsPay ==
  ASSUME Sound(Store), Purse(Store), AllCount(Store.ballots), MemberOps
  PROVE  PaysNow
<1>1. ASSUME NEW m \in Members, NEW amount \in Stakes, Stake(m, amount) \/ RequestUnstake(m, amount)
      PROVE  PaysNow
  BY <1>1, StakePays, RequestUnstakePays
<1>2. ASSUME NEW m \in Members, Withdraw(m) \/ ClaimFees(m) \/ ClaimRewards(m)
      PROVE  PaysNow
  BY <1>2, WithdrawPays, ClaimFeesPays, ClaimRewardsPays
<1>3. ASSUME NEW m \in Members, NEW maxN \in 1 .. Param.settleMaxN, SettleMember(m, maxN)
      PROVE  PaysNow
  <2>1. maxN \in Nat
    BY StakesAssumption
  <2> QED
    BY <1>3, <2>1, SettleMemberPays
<1>4. ASSUME SyncFees
      PROVE  PaysNow
  BY <1>4, SyncedPays DEF SyncFees, PaysNow
<1>5. ASSUME NEW amount \in 1 .. MaxFees, CoinsArrive(amount)
      PROVE  PaysNow
  <2> DEFINE t == Arrived(Store, amount)
  <2>1. Commit(t)
    BY <1>5 DEF CoinsArrive, Arrived
  <2>2. amount \in Nat
    BY StakesAssumption
  <2>3. Pays(t, Store)
    BY <2>2, ArrivedPays
  <2> HIDE DEF t
  <2> QED
    BY <2>1, <2>3 DEF PaysNow
<1> QED
  BY <1>1, <1>2, <1>3, <1>4, <1>5 DEF MemberOps

-----------------------------------------------------------------------------
(* What ballots do to coins. *)

\* t comes of st by what becomes of ballots: as Banks, and no shorter of PYTH.
Tallies(t, st) ==
  /\ Purse(t) /\ AllCount(t.ballots)
  /\ t.members = st.members /\ t.proposals = st.proposals /\ t.held.depositUgnot = st.held.depositUgnot
  /\ Idle(st) >= 0 => Idle(t) >= 0
  /\ TreasuryUgnot(st) <= TreasuryUgnot(t)
  /\ AllDue(t) - t.held.rewardUgnot <= AllDue(st) - st.held.rewardUgnot
  /\ Short(t) = Short(st)

LEMMA TalliesOn ==
  ASSUME NEW st, Purse(st), AllCount(st.ballots), NEW t, Tallies(t, st), NEW u, Tallies(u, t)
  PROVE  Tallies(u, st)
<1>1. AllDue(st) \in Int /\ AllDue(t) \in Int /\ AllDue(u) \in Int
  BY DueIsNat DEF Tallies
<1>2. /\ Purse(t) /\ t.members = st.members /\ t.proposals = st.proposals
      /\ t.held.depositUgnot = st.held.depositUgnot
      /\ Idle(st) >= 0 => Idle(t) >= 0
      /\ TreasuryUgnot(st) <= TreasuryUgnot(t)
      /\ AllDue(t) - t.held.rewardUgnot <= AllDue(st) - st.held.rewardUgnot
      /\ Short(t) = Short(st)
  BY DEF Tallies
<1>3. /\ Purse(u) /\ AllCount(u.ballots) /\ u.members = t.members /\ u.proposals = t.proposals
      /\ u.held.depositUgnot = t.held.depositUgnot
      /\ Idle(t) >= 0 => Idle(u) >= 0
      /\ TreasuryUgnot(t) <= TreasuryUgnot(u)
      /\ AllDue(u) - u.held.rewardUgnot <= AllDue(t) - t.held.rewardUgnot
      /\ Short(u) = Short(t)
  BY DEF Tallies
<1>4. /\ TreasuryUgnot(st) \in Int /\ TreasuryUgnot(t) \in Int /\ TreasuryUgnot(u) \in Int
      /\ st.held.rewardUgnot \in Int /\ t.held.rewardUgnot \in Int /\ u.held.rewardUgnot \in Int
  BY <1>2, <1>3, HeldAreInt
<1>5. TreasuryUgnot(st) <= TreasuryUgnot(u)
  BY <1>2, <1>3, <1>4
<1>6. AllDue(u) - u.held.rewardUgnot <= AllDue(st) - st.held.rewardUgnot
  BY <1>1, <1>2, <1>3, <1>4
<1> QED
  BY <1>2, <1>3, <1>5, <1>6 DEF Tallies

\* What pays nobody, for members.
LEMMA PaysTallies ==
  ASSUME NEW st, Purse(st), AllCount(st.ballots), NEW t, Pays(t, st), t.members = st.members
  PROVE  Tallies(t, st)
BY DEF Pays, Banks, Tallies

LEMMA SameTallies ==
  ASSUME NEW st, Purse(st), AllCount(st.ballots), NEW cond, NEW t, t = Require(st, cond)
  PROVE  Tallies(t, st) /\ t.ballots = st.ballots /\ t.held = st.held /\ t.ugnot = st.ugnot
<1>1. t.ballots = st.ballots /\ t.held = st.held /\ t.ugnot = st.ugnot
  BY DEF Require, Purse, StoreFields
<1> QED
  BY <1>1, RequirePays, PaysTallies

\* Another record of a ballot: what members are due of all is no more than before and what this one got.
LEMMA UnsettledWith ==
  ASSUME NEW bs, AllCount(bs), NEW seq \in DOMAIN bs, NEW c, Counts(c), NEW m, NEW cursor
  PROVE  Unsettled([bs EXCEPT ![seq] = c], m, cursor) <= Unsettled(bs, m, cursor) + Claim(c, m)
<1> DEFINE cs == [bs EXCEPT ![seq] = c]
           f == [i \in DOMAIN bs |-> IF cursor < i THEN Claim(bs[i], m) ELSE 0]
           g == [i \in DOMAIN bs |-> IF cursor < i THEN Claim(cs[i], m) ELSE 0]
<1>1. /\ DOMAIN cs = DOMAIN bs /\ cs[seq] = c
      /\ \A i \in DOMAIN bs \ {seq} : cs[i] = bs[i]
  OBVIOUS
<1> HIDE DEF cs
<1>2. IsFiniteSet(DOMAIN bs)
  BY BallotNumbers DEF AllCount
<1>3. Claim(c, m) \in Nat /\ \A i \in DOMAIN bs : Claim(bs[i], m) \in Nat
  BY ClaimIsNat DEF AllCount
<1>4. \A i \in DOMAIN bs : Claim(cs[i], m) \in Nat
  BY <1>1, <1>3
<1>5. f \in [DOMAIN bs -> Nat] /\ g \in [DOMAIN bs -> Nat]
  BY <1>3, <1>4
<1>6. \A i \in DOMAIN bs \ {seq} : g[i] = f[i]
  BY <1>1
<1>7. f[seq] \in Nat /\ g[seq] \in Nat /\ g[seq] <= Claim(c, m)
  BY <1>1, <1>3
<1>8. Unsettled(bs, m, cursor) = SumFunction(f) /\ Unsettled(cs, m, cursor) = SumFunction(g)
  BY <1>1 DEF Unsettled
<1> HIDE DEF f, g
<1>9. f \in [DOMAIN bs -> Int] /\ g \in [DOMAIN bs -> Int]
  BY <1>5
<1>10. SumFunction(g) = SumFunction(f) - f[seq] + g[seq] /\ SumFunction(f) \in Int
  BY <1>2, <1>6, <1>9, SumChange, SumType
<1>11. SumFunction(g) <= SumFunction(f) + Claim(c, m)
  BY <1>3, <1>7, <1>10
<1> QED
  BY <1>8, <1>11 DEF cs

\* A ballot that was opened owes nothing.
LEMMA UnsettledMore ==
  ASSUME NEW bs, AllCount(bs), NEW b, b.bondShare = 0, NEW m, NEW cursor
  PROVE  Unsettled(Append(bs, b), m, cursor) = Unsettled(bs, m, cursor)
<1> DEFINE cs == Append(bs, b)
           n == Len(bs) + 1
           f == [i \in DOMAIN bs |-> IF cursor < i THEN Claim(bs[i], m) ELSE 0]
           g == [i \in DOMAIN cs |-> IF cursor < i THEN Claim(cs[i], m) ELSE 0]
<1>1. /\ IsSequence(cs) /\ DOMAIN cs = DOMAIN bs \cup {n} /\ n \notin DOMAIN bs /\ cs[n] = b
      /\ \A i \in DOMAIN bs : cs[i] = bs[i]
  BY Appended DEF AllCount
<1>2. IsFiniteSet(DOMAIN cs)
  BY <1>1, BallotNumbers
<1>3. \A i \in DOMAIN bs : Claim(bs[i], m) \in Nat
  BY ClaimIsNat DEF AllCount
<1>4. Claim(b, m) = 0
  BY NoClaim
<1> HIDE DEF cs, n
<1>5. f \in [DOMAIN bs -> Int]
  BY <1>3
<1>6. \A i \in DOMAIN cs : g[i] = IF i \in DOMAIN bs THEN f[i] ELSE 0
  BY <1>1, <1>4
<1>7. DOMAIN g = DOMAIN cs /\ DOMAIN bs \in SUBSET DOMAIN cs
  BY <1>1
<1>8. Unsettled(bs, m, cursor) = SumFunction(f) /\ Unsettled(cs, m, cursor) = SumFunction(g)
  BY DEF Unsettled
<1> HIDE DEF f, g
<1>9. SumFunction(g) = SumFunction(f)
  BY <1>2, <1>5, <1>6, <1>7, SumPart
<1> QED
  BY <1>8, <1>9 DEF cs

LEMMA DueWith ==
  ASSUME NEW st, Purse(st), AllCount(st.ballots), NEW seq \in DOMAIN st.ballots, NEW c, Counts(c),
         NEW t, t.members = st.members, t.ballots = [st.ballots EXCEPT ![seq] = c]
  PROVE  AllCount(t.ballots) /\ AllDue(t) <= AllDue(st) + c.bondShare
<1>1. AllCount(t.ballots)
  <2>1. /\ IsSequence(t.ballots) /\ DOMAIN t.ballots = DOMAIN st.ballots
        /\ t.ballots[seq] = c /\ \A i \in DOMAIN st.ballots \ {seq} : t.ballots[i] = st.ballots[i]
    BY Amended DEF AllCount
  <2> QED
    BY <2>1 DEF AllCount
<1> DEFINE d == [m \in Members |-> Claim(c, m)]
           f == [m \in Members |-> Due(st, m)]
           g == [m \in Members |-> Due(t, m)]
           h == [m \in Members |-> f[m] + d[m]]
<1>2. ASSUME NEW m \in Members
      PROVE  /\ Due(t, m) \in Nat /\ Due(st, m) \in Nat /\ Claim(c, m) \in Nat
             /\ Due(t, m) <= Due(st, m) + Claim(c, m)
  <2> DEFINE cursor == st.members[m].cursor
             bs == st.ballots
             cs == t.ballots
  <2>1. Unsettled(cs, m, cursor) <= Unsettled(bs, m, cursor) + Claim(c, m)
    BY UnsettledWith
  <2>2. Unsettled(cs, m, cursor) \in Nat /\ Unsettled(bs, m, cursor) \in Nat
    BY <1>1, UnsettledIsNat
  <2>3. Claim(c, m) \in Nat
    BY ClaimIsNat
  <2>4. st.members[m].pendingUgnot \in Nat
    BY DEF Purse, MemberPurse
  <2>5. /\ Due(st, m) = st.members[m].pendingUgnot + Unsettled(bs, m, cursor)
        /\ Due(t, m) = st.members[m].pendingUgnot + Unsettled(cs, m, cursor)
    BY DEF Due
  <2> HIDE DEF cursor, bs, cs
  <2> QED
    BY <2>1, <2>2, <2>3, <2>4, <2>5
<1>3. /\ f \in [Members -> Int] /\ g \in [Members -> Int] /\ d \in [Members -> Int] /\ h \in [Members -> Int]
      /\ \A m \in Members : g[m] <= h[m] /\ h[m] = f[m] + d[m]
  BY <1>2
<1>4. SumFunction(d) <= c.bondShare
  BY ClaimsFit
<1>5. AllDue(t) = SumFunction(g) /\ AllDue(st) = SumFunction(f) /\ c.bondShare \in Int
  BY DEF AllDue, Counts
<1> HIDE DEF d, f, g, h
<1>6. SumFunction(g) <= SumFunction(h) /\ SumFunction(h) = SumFunction(f) + SumFunction(d)
  BY <1>3, MembersAssumption, SumOrder, SumAdd
<1>7. SumFunction(d) \in Int /\ SumFunction(f) \in Int /\ SumFunction(g) \in Int
  BY <1>3, MembersAssumption, SumType
<1> QED
  BY <1>1, <1>4, <1>5, <1>6, <1>7

\* A record of a ballot that has no coins.
LEMMA WroteTallies ==
  ASSUME NEW st, Purse(st), AllCount(st.ballots), NEW seq \in DOMAIN st.ballots, NEW c, Counts(c),
         c.bondShare = 0, NEW t, Wrote(t, st, seq, c)
  PROVE  Tallies(t, st)
<1>1. AllCount(t.ballots) /\ AllDue(t) <= AllDue(st) + c.bondShare
  BY DueWith DEF Wrote
<1>2. Purse(t)
  BY DEF Purse, Wrote
<1>3. AllDue(st) \in Int /\ AllDue(t) \in Int
  BY <1>1, <1>2, DueIsNat
<1>4. Idle(t) = Idle(st) /\ TreasuryUgnot(t) = TreasuryUgnot(st) /\ Short(t) = Short(st)
  BY DEF Wrote, Idle, TreasuryUgnot, Short, TreasuryPyth
<1>5. TreasuryUgnot(st) \in Int /\ st.held.rewardUgnot \in Int
  BY HeldAreInt
<1>6. TreasuryUgnot(st) <= TreasuryUgnot(t)
  BY <1>4, <1>5
<1>7. AllDue(t) - t.held.rewardUgnot <= AllDue(st) - st.held.rewardUgnot
  <2>1. t.held.rewardUgnot = st.held.rewardUgnot
    BY DEF Wrote
  <2>2. AllDue(t) <= AllDue(st)
    BY <1>1, <1>3
  <2> QED
    BY <1>3, <1>5, <2>1, <2>2
<1> QED
  BY <1>1, <1>2, <1>4, <1>6, <1>7 DEF Tallies, Wrote

\* The records of a ballot that opens and of one more vote, decided, funded or appealed.
LEMMA CountsAgain ==
  ASSUME NEW b, Counts(b), NEW c, DOMAIN c = BallotFields, c.reveals = b.reveals, c.tally = b.tally,
         c.bondShare \in Nat, c.expectedPool \in Nat, c.coherentWeight \in Int,
         c.phase # "resolved" \/ ~c.final => c.bondShare = 0,
         c.phase = "resolved" /\ ~c.appealed => c.coherentWeight = CoherentWeight(c.tally, c.outcome)
  PROVE  Counts(c)
<1>1. ASSUME NEW x \in BallotChoices
      PROVE  c.tally[x] = RevealedWeight(c, RevealedFor(c, x))
  <2>1. RevealedFor(c, x) = RevealedFor(b, x)
    BY DEF RevealedFor
  <2>2. RevealedWeight(c, RevealedFor(c, x)) = RevealedWeight(b, RevealedFor(b, x))
    BY <2>1 DEF RevealedWeight
  <2>3. b.tally[x] = RevealedWeight(b, RevealedFor(b, x))
    BY DEF Counts
  <2> QED
    BY <2>2, <2>3
<1>2. /\ DOMAIN c.reveals \subseteq Members /\ DOMAIN c.tally = BallotChoices
      /\ \A m \in DOMAIN c.reveals : c.reveals[m].choice \in BallotChoices /\ c.reveals[m].weight \in Nat
  BY DEF Counts
<1> QED
  BY <1>1, <1>2 DEF Counts

LEMMA OpeningCounts ==
  ASSUME NEW st, NEW d, NEW round, NEW major, NEW obligated, NEW commitEnds, NEW revealEnds, NEW prev,
         NEW b, b = Opening(st, d, round, major, obligated, commitEnds, revealEnds, prev)
  PROVE  Counts(b) /\ b.bondShare = 0
<1>1. /\ DOMAIN b = BallotFields /\ b.reveals = << >> /\ b.tally = NoWeights /\ b.bondShare = 0 /\ b.expectedPool = 0
      /\ b.coherentWeight = 0 /\ b.phase = "commit"
  BY DEF Opening, BallotFields
<1>2. DOMAIN b.reveals = {}
  BY <1>1, EmptyIsSequence
<1>3. ASSUME NEW x \in BallotChoices
      PROVE  b.tally[x] = RevealedWeight(b, RevealedFor(b, x))
  <2>1. b.tally[x] = 0
    BY <1>1 DEF NoWeights
  <2>2. RevealedFor(b, x) = {}
    BY <1>2 DEF RevealedFor
  <2> DEFINE f == [m \in RevealedFor(b, x) |-> b.reveals[m].weight]
  <2>3. DOMAIN f = {}
    BY <2>2
  <2> HIDE DEF f
  <2>4. SumFunction(f) = 0
    BY <2>3, SumNothing
  <2> QED
    BY <2>1, <2>4 DEF f, RevealedWeight
<1>4. DOMAIN b.tally = BallotChoices
  BY <1>1 DEF NoWeights
<1> QED
  BY <1>1, <1>2, <1>3, <1>4 DEF Counts

LEMMA OpenBallotTallies ==
  ASSUME NEW st, Purse(st), AllCount(st.ballots), NEW d, NEW round, NEW major, NEW prev,
         NEW t, t = OpenBallot(st, d, round, major, prev)
  PROVE  Tallies(t, st) /\ \A seq \in DOMAIN st.ballots : seq \in DOMAIN t.ballots /\ t.ballots[seq] = st.ballots[seq]
<1> DEFINE obligated == TotalPowerAt(st, epoch)
           commitEnds == now + Param.commitPeriod[round]
           revealEnds == commitEnds + Param.revealPeriod[round]
           b == Opening(st, d, round, major, obligated, commitEnds, revealEnds, prev)
<1>1. t = [st EXCEPT !.ballots = Append(@, b)]
  BY DEF OpenBallot, NewBallot, Opening
<1>2. Counts(b) /\ b.bondShare = 0
  BY OpeningCounts
<1> HIDE DEF b
<1>3. /\ DOMAIN t = StoreFields /\ t.members = st.members /\ t.fees = st.fees /\ t.proposals = st.proposals
      /\ t.held = st.held /\ t.ugnot = st.ugnot /\ t.pyth = st.pyth /\ t.ballots = Append(st.ballots, b)
  BY <1>1 DEF Purse, StoreFields
<1>4. /\ IsSequence(t.ballots) /\ DOMAIN t.ballots = DOMAIN st.ballots \cup {Len(st.ballots) + 1}
      /\ t.ballots[Len(st.ballots) + 1] = b
      /\ \A i \in DOMAIN st.ballots : t.ballots[i] = st.ballots[i]
  BY <1>3, Appended DEF AllCount
<1>5. AllCount(t.ballots)
  BY <1>2, <1>4 DEF AllCount
<1>6. Purse(t)
  BY <1>3 DEF Purse
<1>7. AllDue(t) = AllDue(st)
  <2>1. ASSUME NEW m \in Members PROVE Due(t, m) = Due(st, m)
    <3> DEFINE cursor == st.members[m].cursor
    <3>1. Unsettled(t.ballots, m, cursor) = Unsettled(st.ballots, m, cursor)
      BY <1>2, <1>3, UnsettledMore
    <3> QED
      BY <1>3, <3>1 DEF Due
  <2> QED
    BY <2>1 DEF AllDue
<1>8. Idle(t) = Idle(st) /\ TreasuryUgnot(t) = TreasuryUgnot(st) /\ Short(t) = Short(st)
  BY <1>3 DEF Idle, TreasuryUgnot, Short, TreasuryPyth
<1>9. AllDue(st) \in Int /\ TreasuryUgnot(st) \in Int /\ st.held.rewardUgnot \in Int
  BY DueIsNat, HeldAreInt
<1>10. TreasuryUgnot(st) <= TreasuryUgnot(t)
  BY <1>8, <1>9
<1>11. AllDue(t) - t.held.rewardUgnot <= AllDue(st) - st.held.rewardUgnot
  BY <1>3, <1>7, <1>9
<1>12. Tallies(t, st)
  BY <1>3, <1>5, <1>6, <1>8, <1>10, <1>11 DEF Tallies
<1> QED
  BY <1>4, <1>12

LEMMA BallotCommitTallies ==
  ASSUME NEW st, Purse(st), AllCount(st.ballots), NEW seq \in DOMAIN st.ballots, st.ballots[seq].phase = "commit",
         NEW m, NEW choice, NEW t, t = BallotCommit(st, seq, m, choice)
  PROVE  Tallies(t, st)
<1> DEFINE b == st.ballots[seq]
           c == CommittedBallot(b, m, choice)
<1>1. Wrote(t, st, seq, c)
  BY BallotCommitWrites DEF Purse
<1>2. Counts(b) /\ b.phase = "commit"
  BY DEF AllCount
<1> HIDE DEF b
<1>3. /\ DOMAIN c = BallotFields /\ c.reveals = b.reveals /\ c.tally = b.tally /\ c.bondShare = b.bondShare
      /\ c.expectedPool = b.expectedPool /\ c.coherentWeight = b.coherentWeight /\ c.phase = "commit"
  BY <1>2 DEF Counts, BallotFields, CommittedBallot
<1> HIDE DEF c
<1>4. b.bondShare = 0 /\ b.expectedPool \in Nat /\ b.coherentWeight \in Int
  BY <1>2 DEF Counts
<1>5. Counts(c)
  BY <1>2, <1>3, <1>4, CountsAgain
<1> QED
  BY <1>1, <1>3, <1>4, <1>5, WroteTallies

LEMMA WeightsAreNat ==
  ASSUME NEW b, Counts(b), NEW S \in SUBSET DOMAIN b.reveals
  PROVE  IsFiniteSet(S) /\ RevealedWeight(b, S) \in Nat
<1> DEFINE f == [m \in S |-> b.reveals[m].weight]
<1>1. IsFiniteSet(S)
  BY MembersAssumption, FS_Subset DEF Counts
<1>2. f \in [S -> Nat]
  BY DEF Counts
<1> HIDE DEF f
<1>3. SumFunction(f) \in Nat
  BY <1>1, <1>2, SumNat
<1> QED
  BY <1>1, <1>3 DEF f, RevealedWeight

LEMMA TallyIsNat ==
  ASSUME NEW b, Counts(b), NEW x \in BallotChoices
  PROVE  b.tally[x] \in Nat
<1>1. RevealedFor(b, x) \in SUBSET DOMAIN b.reveals
  BY DEF RevealedFor
<1> QED
  BY <1>1, WeightsAreNat DEF Counts

LEMMA ChosenIsNat ==
  ASSUME NEW b, Counts(b), NEW S \in SUBSET BallotChoices
  PROVE  WeightOf(b.tally, S) \in Nat
<1> DEFINE f == [x \in S |-> b.tally[x]]
<1>1. IsFiniteSet(S)
  BY ChoicesFinite
<1>2. f \in [S -> Nat]
  BY TallyIsNat
<1>3. DOMAIN f = S /\ \A x \in S : f[x] = b.tally[x]
  OBVIOUS
<1> HIDE DEF f
<1>4. SumFunction(f) \in Nat
  BY <1>1, <1>2, SumNat
<1>5. SumFunctionOnSet(b.tally, S) = SumFunctionOnSet(f, S)
  BY <1>1, <1>3, SumSameValues
<1> QED
  BY <1>3, <1>4, <1>5 DEF SumFunction, WeightOf

LEMMA PartIsNat ==
  ASSUME NEW a \in Nat, NEW r \in Nat
  PROVE  MulDiv(a, r, Bps) \in Nat
<1> DEFINE p == a * r
<1>1. p \in Nat
  BY ProductIsNat
<1> HIDE DEF p
<1>2. p \div 10000 \in Nat
  BY <1>1, WholePart
<1> QED
  BY <1>2 DEF MulDiv, Bps, p

LEMMA PoolIsNat ==
  ASSUME NEW b, Counts(b), BallotOK(b), NEW outcome
  PROVE  ExpectedPenaltyPool(b.tally, outcome, b.obligated, Rates) \in Nat
<1> DEFINE w == b.tally
           all == Total(w)
           absent == IF b.obligated > all THEN b.obligated - all ELSE 0
           against == WeightOf(w, IncoherentChoices(outcome))
           x == MulDiv(absent, Rates.absent, Bps)
           y == MulDiv(w["ABSTAIN"], Rates.abstained, Bps)
           z == MulDiv(against, Rates.incoherent, Bps)
<1>1. b.obligated \in Int
  BY DEF BallotOK
<1>2. IncoherentChoices(outcome) \in SUBSET BallotChoices
  BY DEF IncoherentChoices
<1>3. against \in Nat
  BY <1>2, ChosenIsNat
<1>4. all \in Nat
  BY ChosenIsNat DEF Total
<1>5. w["ABSTAIN"] \in Nat
  BY TallyIsNat DEF BallotChoices
<1>6. Rates.absent \in Nat /\ Rates.abstained \in Nat /\ Rates.incoherent \in Nat
  BY StakesAssumption DEF Rates
<1> HIDE DEF all
<1>7. absent \in Nat
  BY <1>1, <1>4
<1> HIDE DEF absent, against
<1>8. x \in Nat /\ y \in Nat /\ z \in Nat
  BY <1>3, <1>5, <1>6, <1>7, PartIsNat
<1>9. ExpectedPenaltyPool(w, outcome, b.obligated, Rates) = x + y + z
  BY DEF ExpectedPenaltyPool, absent, against, all
<1> HIDE DEF x, y, z
<1> QED
  BY <1>8, <1>9

LEMMA BallotResolveTallies ==
  ASSUME NEW st, Sound(st), Purse(st), AllCount(st.ballots), NEW seq \in DOMAIN st.ballots,
         st.ballots[seq].phase # "resolved", NEW b, b = st.ballots[seq], NEW res,
         NEW t, t = ResolveAs(st, seq, b, res)
  PROVE  Tallies(t, st) /\ seq \in DOMAIN t.ballots /\ t.ballots[seq].bondShare = 0
<1> DEFINE outcome == res.outcome
           tier == res.tier
           coherent == CoherentWeight(b.tally, outcome)
           pool == ExpectedPenaltyPool(b.tally, outcome, b.obligated, Rates)
           c == ResolvedBallot(b, outcome, tier, coherent, pool)
<1>1. t = BallotResolve(st, seq, outcome, tier, coherent, pool)
  BY DEF ResolveAs
<1>2. Counts(b) /\ BallotOK(b) /\ IsSequence(st.ballots)
  BY SoundShape DEF AllCount, BallotsOK
<1>3. pool \in Nat /\ coherent \in Int
  BY <1>2, PoolIsNat, PoolIsInt
<1>4. b.bondShare = 0
  BY <1>2 DEF Counts
<1> HIDE DEF coherent, pool, outcome, tier
<1>5. Wrote(t, st, seq, c)
  BY <1>1, BallotResolveWrites
<1>6. /\ DOMAIN c = BallotFields /\ c.reveals = b.reveals /\ c.tally = b.tally /\ c.bondShare = 0
      /\ c.expectedPool = pool /\ c.coherentWeight = coherent /\ c.outcome = outcome
  BY <1>2, <1>4 DEF Counts, BallotFields, ResolvedBallot
<1> HIDE DEF c
<1>7. Counts(c)
  <2>1. c.coherentWeight = CoherentWeight(c.tally, c.outcome)
    BY <1>6 DEF coherent
  <2> QED
    BY <1>2, <1>3, <1>6, <2>1, CountsAgain
<1>8. Tallies(t, st)
  BY <1>5, <1>6, <1>7, WroteTallies
<1>9. seq \in DOMAIN t.ballots /\ t.ballots[seq] = c
  BY <1>2, <1>5, Amended DEF Wrote
<1> QED
  BY <1>6, <1>8, <1>9

LEMMA BallotSupersedeTallies ==
  ASSUME NEW st, Sound(st), Purse(st), AllCount(st.ballots), NEW seq \in DOMAIN st.ballots,
         ~st.ballots[seq].final, NEW pool \in Nat, NEW t, t = BallotSupersede(st, seq, pool)
  PROVE  Tallies(t, st)
<1> DEFINE b == st.ballots[seq]
           cond == b.phase = "resolved" /\ ~b.final
           q == Require(st, cond)
           c == SupersededBallot(b, pool)
<1>1. Wrote(t, q, seq, c)
  BY BallotSupersedeWrites
<1> HIDE DEF cond
<1>2. Tallies(q, st) /\ q.ballots = st.ballots
  BY SameTallies
<1>3. Counts(b) /\ ~b.final
  BY DEF AllCount
<1> HIDE DEF q, b
<1>4. b.bondShare = 0
  BY <1>3 DEF Counts
<1>5. /\ DOMAIN c = BallotFields /\ c.reveals = b.reveals /\ c.tally = b.tally /\ c.bondShare = 0
      /\ c.expectedPool = pool /\ c.coherentWeight = 0 /\ c.appealed = TRUE
  BY <1>3, <1>4 DEF Counts, BallotFields, SupersededBallot
<1> HIDE DEF c
<1>6. Counts(c)
  BY <1>3, <1>5, CountsAgain
<1>7. Purse(q) /\ AllCount(q.ballots) /\ seq \in DOMAIN q.ballots
  BY <1>2 DEF Tallies
<1>8. Tallies(t, q)
  BY <1>1, <1>5, <1>6, <1>7, WroteTallies
<1> QED
  BY <1>2, <1>8, TalliesOn

\* One reveal more, of a voter that has none.
LEMMA RevealedCounts ==
  ASSUME NEW b, Counts(b), b.bondShare = 0, NEW m \in Members, m \notin DOMAIN b.reveals,
         NEW choice \in BallotChoices, NEW weight \in Nat, NEW top,
         NEW c, c = RevealedBallot(b, m, choice, weight, top)
  PROVE  Counts(c) /\ c.bondShare = 0
<1> DEFINE one == [choice |-> choice, weight |-> weight]
           reveals == [x \in DOMAIN b.reveals \cup {m} |-> IF x = m THEN one ELSE b.reveals[x]]
           tally == [b.tally EXCEPT ![choice] = @ + weight]
<1>1. /\ DOMAIN c = BallotFields /\ c.reveals = reveals /\ c.tally = tally /\ c.bondShare = 0
      /\ c.expectedPool = b.expectedPool /\ c.coherentWeight = b.coherentWeight /\ c.phase = "reveal"
  BY DEF Counts, BallotFields, RevealedBallot
<1>2. one.choice = choice /\ one.weight = weight
  OBVIOUS
<1> HIDE DEF one
<1>3. /\ DOMAIN reveals = DOMAIN b.reveals \cup {m} /\ reveals[m] = one
      /\ \A x \in DOMAIN b.reveals : reveals[x] = b.reveals[x]
  OBVIOUS
<1>4. /\ DOMAIN tally = BallotChoices /\ tally[choice] = b.tally[choice] + weight
      /\ \A x \in BallotChoices \ {choice} : tally[x] = b.tally[x]
  BY DEF Counts
<1> HIDE DEF reveals, tally
<1>5. ASSUME NEW x \in BallotChoices
      PROVE  c.tally[x] = RevealedWeight(c, RevealedFor(c, x))
  <2> DEFINE S == RevealedFor(b, x)
             w == [y \in DOMAIN c.reveals |-> c.reveals[y].weight]
             f == [y \in S |-> b.reveals[y].weight]
  <2>1. S \in SUBSET DOMAIN b.reveals
    BY DEF RevealedFor
  <2>2. IsFiniteSet(S) /\ RevealedWeight(b, S) \in Nat
    BY <2>1, WeightsAreNat
  <2>3. b.tally[x] = RevealedWeight(b, S)
    BY DEF Counts
  <2>4. RevealedFor(c, x) = IF x = choice THEN S \cup {m} ELSE S
    BY <1>1, <1>2, <1>3 DEF RevealedFor
  <2>5. \A y \in DOMAIN b.reveals : b.reveals[y].weight \in Nat
    BY DEF Counts
  <2>6. \A y \in S \cup {m} : w[y] \in Int
    BY <1>1, <1>2, <1>3, <2>1, <2>5
  <2>7. w[m] = weight /\ \A y \in S : w[y] = f[y]
    BY <1>1, <1>2, <1>3, <2>1
  <2>8. RevealedWeight(b, S) = SumFunctionOnSet(w, S)
    <3>1. RevealedWeight(b, S) = SumFunctionOnSet(f, S)
      BY DEF RevealedWeight, SumFunction
    <3>2. SumFunctionOnSet(w, S) = SumFunctionOnSet(f, S)
      <4> HIDE DEF w, f, S
      <4> QED
        BY <2>2, <2>7, SumSameValues
    <3> QED
      BY <3>1, <3>2
  <2>9. ASSUME NEW T \in SUBSET (S \cup {m})
        PROVE  RevealedWeight(c, T) = SumFunctionOnSet(w, T)
    <3> DEFINE g == [y \in T |-> c.reveals[y].weight]
    <3>1. RevealedWeight(c, T) = SumFunctionOnSet(g, T)
      BY DEF RevealedWeight, SumFunction
    <3>2. IsFiniteSet(T)
      BY <2>2, FS_AddElement, FS_Subset
    <3>3. \A y \in T : g[y] = w[y]
      BY <1>1, <1>3, <2>1
    <3> HIDE DEF g, w
    <3>4. SumFunctionOnSet(g, T) = SumFunctionOnSet(w, T)
      BY <3>2, <3>3, SumSameValues
    <3> QED
      BY <3>1, <3>4
  <2>10. m \notin S
    BY <2>1
  <2> HIDE DEF S, w, f
  <2>11. CASE x = choice
    <3>1. RevealedWeight(c, RevealedFor(c, x)) = SumFunctionOnSet(w, S \cup {m})
      BY <2>4, <2>9, <2>11
    <3>2. SumFunctionOnSet(w, S \cup {m}) = w[m] + SumFunctionOnSet(w, S)
      BY <2>2, <2>6, <2>10, SumOneMore
    <3>3. c.tally[x] = b.tally[x] + weight
      BY <1>1, <1>4, <2>11
    <3>4. weight + RevealedWeight(b, S) = RevealedWeight(b, S) + weight
      BY <2>2
    <3> QED
      BY <2>3, <2>7, <2>8, <3>1, <3>2, <3>3, <3>4
  <2>12. CASE x # choice
    <3>1. RevealedWeight(c, RevealedFor(c, x)) = SumFunctionOnSet(w, S)
      BY <2>4, <2>9, <2>12
    <3>2. c.tally[x] = b.tally[x]
      BY <1>1, <1>4, <2>12
    <3> QED
      BY <2>3, <2>8, <3>1, <3>2
  <2> QED
    BY <2>11, <2>12
<1>6. /\ DOMAIN c.reveals \subseteq Members
      /\ \A x \in DOMAIN c.reveals : c.reveals[x].choice \in BallotChoices /\ c.reveals[x].weight \in Nat
  BY <1>1, <1>2, <1>3 DEF Counts
<1>7. b.expectedPool \in Nat /\ b.coherentWeight \in Int
  BY DEF Counts
<1>8. DOMAIN c.tally = BallotChoices
  BY <1>1, <1>4
<1> QED
  BY <1>1, <1>5, <1>6, <1>7, <1>8 DEF Counts

LEMMA BallotRevealTallies ==
  ASSUME NEW st, Sound(st), Purse(st), AllCount(st.ballots), NEW seq \in DOMAIN st.ballots,
         st.ballots[seq].phase # "resolved", NEW m \in Members, NEW choice \in BallotChoices, NEW weight \in Nat,
         NEW top, NEW t, t = BallotReveal(st, seq, m, choice, weight, top), t.ok
  PROVE  Tallies(t, st)
<1> DEFINE b == st.ballots[seq]
           cond == m \notin DOMAIN b.reveals
           q == Require(st, cond)
           c == RevealedBallot(b, m, choice, weight, top)
<1>1. Wrote(t, q, seq, c)
  BY BallotRevealWrites
<1>2. q.ok => cond
  BY SoundShape DEF Require, StoreFields
<1>3. cond
  BY <1>1, <1>2 DEF Wrote
<1>4. Tallies(q, st) /\ q.ballots = st.ballots
  <2> HIDE DEF cond
  <2> QED
    BY SameTallies
<1>5. Counts(b) /\ b.phase # "resolved"
  BY DEF AllCount
<1>6. m \notin DOMAIN b.reveals
  BY <1>3
<1> HIDE DEF q, b
<1>7. b.bondShare = 0
  BY <1>5 DEF Counts
<1>8. Counts(c) /\ c.bondShare = 0
  BY <1>5, <1>6, <1>7, RevealedCounts
<1>9. Purse(q) /\ AllCount(q.ballots) /\ seq \in DOMAIN q.ballots
  BY <1>4 DEF Tallies
<1> HIDE DEF c
<1>10. Tallies(t, q)
  BY <1>1, <1>8, <1>9, WroteTallies
<1> QED
  BY <1>4, <1>10, TalliesOn

\* The coins a ballot gets are there, and its voters are due no more than those.
LEMMA BallotFundTallies ==
  ASSUME NEW st, Sound(st), Purse(st), AllCount(st.ballots), NEW seq \in DOMAIN st.ballots,
         st.ballots[seq].bondShare = 0, NEW amount \in Nat, st.ballots[seq].phase = "resolved" \/ amount = 0,
         NEW t, t = BallotFund(st, seq, amount), t.ok
  PROVE  Tallies(t, st)
<1> DEFINE cond == amount = 0 \/ st.held.knownUgnot + amount <= st.ugnot
           q == Require(st, cond)
           b == q.ballots[seq]
           share == b.bondShare + amount
           reward == q.held.rewardUgnot + amount
           known == q.held.knownUgnot + amount
           c == FundedBallot(b, share)
<1>1. PICK u : Wrote(u, q, seq, c) /\ t = HeldSet(HeldSet(u, "rewardUgnot", reward), "knownUgnot", known)
  <2> HIDE DEF c, reward, known
  <2> QED
    BY BallotFundWrites DEF c, reward, known, share
<1>2. q.ok => cond
  BY SoundShape DEF Require, StoreFields
<1>3. Tallies(q, st) /\ q.ballots = st.ballots /\ q.held = st.held /\ q.ugnot = st.ugnot
  <2> HIDE DEF cond
  <2> QED
    BY SameTallies
<1> HIDE DEF q
<1>4. Counts(b) /\ b.bondShare = 0 /\ (b.phase = "resolved" \/ amount = 0) /\ seq \in DOMAIN q.ballots
  BY <1>3 DEF AllCount
<1> HIDE DEF b
<1>5. share = amount
  BY <1>4
<1> HIDE DEF share, reward, known
<1>6. /\ DOMAIN c = BallotFields /\ c.reveals = b.reveals /\ c.tally = b.tally /\ c.bondShare = amount
      /\ c.expectedPool = b.expectedPool /\ c.coherentWeight = b.coherentWeight /\ c.phase = b.phase
      /\ c.final = TRUE /\ c.appealed = b.appealed /\ c.outcome = b.outcome
  BY <1>4, <1>5 DEF Counts, BallotFields, FundedBallot
<1> HIDE DEF c
<1>7. Counts(c)
  <2>1. b.expectedPool \in Nat /\ b.coherentWeight \in Int
    BY <1>4 DEF Counts
  <2>2. c.phase = "resolved" /\ ~c.appealed => c.coherentWeight = CoherentWeight(c.tally, c.outcome)
    BY <1>4, <1>6 DEF Counts
  <2>3. c.phase # "resolved" \/ ~c.final => c.bondShare = 0
    BY <1>4, <1>6
  <2> QED
    BY <1>4, <1>6, <2>1, <2>2, <2>3, CountsAgain
<1>8. Purse(q) /\ AllCount(q.ballots)
  BY <1>3 DEF Tallies
<1>9. /\ DOMAIN t = StoreFields /\ t.members = q.members /\ t.fees = q.fees /\ t.proposals = q.proposals
      /\ t.ugnot = q.ugnot /\ t.pyth = q.pyth /\ t.ok = q.ok /\ t.ballots = [q.ballots EXCEPT ![seq] = c]
      /\ t.held = [q.held EXCEPT !.rewardUgnot = reward, !.knownUgnot = known]
  <2> DEFINE v == HeldSet(u, "rewardUgnot", reward)
  <2>1. DOMAIN u = StoreFields /\ u.held = q.held
    BY <1>1 DEF Wrote
  <2>2. /\ DOMAIN v = StoreFields /\ v.held = [q.held EXCEPT !.rewardUgnot = reward] /\ v.members = u.members
        /\ v.fees = u.fees /\ v.proposals = u.proposals /\ v.ugnot = u.ugnot /\ v.pyth = u.pyth /\ v.ok = u.ok
        /\ v.ballots = u.ballots
    BY <2>1 DEF HeldSet, StoreFields
  <2> HIDE DEF v
  <2>3. t = HeldSet(v, "knownUgnot", known)
    BY <1>1 DEF v
  <2>4. /\ DOMAIN t = StoreFields /\ t.held = [v.held EXCEPT !.knownUgnot = known] /\ t.members = v.members
        /\ t.fees = v.fees /\ t.proposals = v.proposals /\ t.ugnot = v.ugnot /\ t.pyth = v.pyth /\ t.ok = v.ok
        /\ t.ballots = v.ballots
    BY ONLY <2>2, <2>3 DEF HeldSet, StoreFields
  <2> QED
    BY ONLY <1>1, <2>2, <2>4 DEF Wrote
<1>10. AllCount(t.ballots) /\ AllDue(t) <= AllDue(q) + c.bondShare
  BY <1>4, <1>7, <1>8, <1>9, DueWith
<1>11. CoinsHeld(t.held, q.held, known, q.held.feeUgnot, reward)
  BY <1>8, <1>9 DEF Purse, NothingHeld, CoinsHeld
<1>12. /\ q.held.knownUgnot \in Int /\ q.held.feeUgnot \in Int /\ q.held.rewardUgnot \in Int
       /\ q.held.depositUgnot \in Int /\ q.held.stakedPyth \in Int /\ q.held.unbondingPyth \in Int
       /\ q.held.rewardPyth \in Int /\ q.held.pendingPyth \in Int /\ q.ugnot \in Int /\ q.pyth \in Int
       /\ TreasuryUgnot(q) \in Int /\ Idle(q) \in Int
  BY <1>8, HeldAreInt DEF Purse
<1>13. reward = q.held.rewardUgnot + amount /\ known = q.held.knownUgnot + amount
  BY DEF reward, known
<1>14. Purse(t)
  <2>1. reward \in Int /\ known \in Int
    BY <1>12, <1>13
  <2>2. \A f \in DOMAIN NothingHeld : t.held[f] \in Int
    BY <1>11, <1>12, <2>1 DEF CoinsHeld, NothingHeld
  <2>3. DOMAIN t.held = DOMAIN NothingHeld
    BY <1>11 DEF CoinsHeld
  <2> QED
    BY <1>8, <1>9, <2>2, <2>3 DEF Purse
<1>15. TreasuryUgnot(t) = TreasuryUgnot(q) /\ Short(t) = Short(q)
  BY <1>9, <1>11, <1>12, <1>13 DEF CoinsHeld, TreasuryUgnot, Short, TreasuryPyth
<1>16. Idle(q) >= 0 => Idle(t) >= 0
  <2>1. cond
    BY <1>2, <1>9
  <2>2. amount = 0 \/ q.held.knownUgnot + amount <= q.ugnot
    BY <1>3, <2>1
  <2>3. Idle(t) = q.ugnot - (q.held.knownUgnot + amount) /\ Idle(q) = q.ugnot - q.held.knownUgnot
    BY <1>9, <1>11, <1>13 DEF CoinsHeld, Idle
  <2> QED
    BY <1>12, <2>2, <2>3
<1>17. AllDue(t) - t.held.rewardUgnot <= AllDue(q) - q.held.rewardUgnot
  <2>1. AllDue(t) \in Int /\ AllDue(q) \in Int
    BY <1>8, <1>10, <1>14, DueIsNat
  <2>2. t.held.rewardUgnot = q.held.rewardUgnot + amount /\ AllDue(t) <= AllDue(q) + amount
    BY <1>6, <1>10, <1>11, <1>13 DEF CoinsHeld
  <2> QED
    BY <1>12, <2>1, <2>2
<1>18. TreasuryUgnot(q) <= TreasuryUgnot(t)
  BY <1>12, <1>15
<1>19. Tallies(t, q)
  BY <1>9, <1>10, <1>11, <1>14, <1>15, <1>16, <1>17, <1>18 DEF Tallies, CoinsHeld
<1> QED
  BY <1>3, <1>8, <1>19, TalliesOn

LEMMA FinishedTallies ==
  ASSUME NEW st, Sound(st), Purse(st), AllCount(st.ballots), NEW seq \in DOMAIN st.ballots,
         st.ballots[seq].phase # "resolved", NEW b, b = st.ballots[seq], NEW res,
         NEW t, t = Finished(st, seq, b, res)
  PROVE  Tallies(t, st) /\ seq \in DOMAIN t.ballots /\ t.ballots[seq].bondShare = 0
<1> DEFINE u == ResolveAs(st, seq, b, res)
           d == b.dispute
           major == b.majorRequested
<1>1. t = IF res.outcome = "ROLL" THEN OpenBallot(u, d, 2, major, seq) ELSE u
  BY DEF Finished
<1>2. Tallies(u, st) /\ seq \in DOMAIN u.ballots /\ u.ballots[seq].bondShare = 0
  BY BallotResolveTallies
<1> HIDE DEF u, d, major
<1>3. CASE res.outcome = "ROLL"
  <2>1. t = OpenBallot(u, d, 2, major, seq)
    BY <1>1, <1>3
  <2>2. Purse(u) /\ AllCount(u.ballots)
    BY <1>2 DEF Tallies
  <2>3. Tallies(t, u) /\ \A i \in DOMAIN u.ballots : i \in DOMAIN t.ballots /\ t.ballots[i] = u.ballots[i]
    BY <2>1, <2>2, OpenBallotTallies
  <2>4. Tallies(t, st)
    BY <1>2, <2>3, TalliesOn
  <2> QED
    BY <1>2, <2>3, <2>4
<1>4. CASE res.outcome # "ROLL"
  BY <1>1, <1>2, <1>4
<1> QED
  BY <1>3, <1>4

LEMMA SupersededTallies ==
  ASSUME NEW st, Sound(st), Purse(st), AllCount(st.ballots), NEW seq \in DOMAIN st.ballots,
         ~st.ballots[seq].final, NEW b, b = st.ballots[seq], NEW t, t = Superseded(st, seq, b)
  PROVE  Tallies(t, st)
<1> DEFINE cond == b.phase = "resolved" /\ b.round = 1 /\ ~b.final
           q == Require(st, cond)
           pool == ExpectedPenaltyPool(b.tally, "ROLL", b.obligated, Rates)
           u == BallotSupersede(q, seq, pool)
           d == b.dispute
           major == b.majorRequested
<1>1. t = OpenBallot(u, d, 2, major, seq)
  BY DEF Superseded
<1>2. Sound(q) /\ q.ballots = st.ballots /\ Tallies(q, st)
  <2> HIDE DEF cond
  <2> QED
    BY RequireBallots, SameTallies
<1>3. pool \in Nat
  <2>1. Counts(b) /\ BallotOK(b)
    BY SoundShape DEF AllCount, BallotsOK
  <2> QED
    BY <2>1, PoolIsNat
<1> HIDE DEF q, pool, d, major
<1>4. Tallies(u, q)
  <2>1. Purse(q) /\ AllCount(q.ballots) /\ seq \in DOMAIN q.ballots /\ ~q.ballots[seq].final
    BY <1>2 DEF Tallies
  <2> QED
    BY <1>2, <1>3, <2>1, BallotSupersedeTallies
<1> HIDE DEF u
<1>5. Tallies(u, st) /\ Purse(u) /\ AllCount(u.ballots)
  <2>1. Tallies(u, st)
    BY <1>2, <1>4, TalliesOn
  <2> QED
    BY <2>1 DEF Tallies
<1>6. Tallies(t, u)
  BY <1>1, <1>5, OpenBallotTallies
<1> QED
  BY <1>5, <1>6, TalliesOn

\* The core funds the dispute's latest ballot: the one before it is final long since.
LEMMA FundVotersTallies ==
  ASSUME NEW st, Sound(st), Purse(st), AllCount(st.ballots), InOrder(st.ballots), NEW seq \in DOMAIN st.ballots,
         st.ballots[seq].phase = "resolved", st.ballots[seq].bondShare = 0, NEW amount \in Nat,
         NEW t, t = FundVoters(st, seq, amount), t.ok
  PROVE  Tallies(t, st)
<1> DEFINE a == Arrived(st, amount)
           cond == st.ballots[seq].phase = "resolved"
           q == Require(a, cond)
           funded == BallotFund(q, seq, amount)
           prev == st.ballots[seq].prev
<1>1. t = funded
  <2>1. t = IF prev # 0 /\ ~st.ballots[prev].final THEN BallotFund(funded, prev, 0) ELSE funded
    BY DEF FundVoters, Arrived
  <2>2. prev # 0 => st.ballots[prev].final = TRUE
    BY DEF InOrder
  <2> HIDE DEF funded, prev
  <2> QED
    BY <2>1, <2>2
<1>2. Sound(a) /\ a.ballots = st.ballots
  BY UgnotArrived DEF Arrived
<1>3. Tallies(a, st)
  BY ArrivedPays, PaysTallies
<1> HIDE DEF a
<1>4. Purse(a) /\ AllCount(a.ballots)
  BY <1>3 DEF Tallies
<1>5. Sound(q) /\ q.ballots = a.ballots /\ Tallies(q, a)
  <2> HIDE DEF cond
  <2> QED
    BY <1>2, <1>4, RequireBallots, SameTallies
<1> HIDE DEF q
<1>6. /\ Tallies(q, st) /\ Purse(q) /\ AllCount(q.ballots) /\ seq \in DOMAIN q.ballots
      /\ q.ballots[seq].bondShare = 0 /\ q.ballots[seq].phase = "resolved"
  <2>1. Tallies(q, st)
    BY <1>3, <1>5, TalliesOn
  <2> QED
    BY <1>2, <1>5, <2>1 DEF Tallies
<1>7. Tallies(t, q)
  BY <1>1, <1>5, <1>6, BallotFundTallies
<1> QED
  BY <1>6, <1>7, TalliesOn

-----------------------------------------------------------------------------
(* Calls about ballots. *)

TalliesNow == \E t : Tallies(t, Store) /\ Commit(t)

LEMMA CommitVoteTallies ==
  ASSUME Purse(Store), AllCount(Store.ballots), NEW m, NEW d, NEW choice, CommitVote(m, d, choice)
  PROVE  TalliesNow
<1> DEFINE seq == BallotOf(Store, d)
           t == BallotCommit(Store, seq, m, choice)
<1>1. CanCommit(seq) /\ Commit(t)
  BY DEF CommitVote
<1>2. seq \in DOMAIN Store.ballots /\ Store.ballots[seq].phase = "commit"
  BY <1>1, StoreIs DEF CanCommit
<1> HIDE DEF seq
<1>3. Tallies(t, Store)
  BY <1>2, BallotCommitTallies
<1> HIDE DEF t
<1> QED
  BY <1>1, <1>3 DEF TalliesNow

LEMMA MemberWeightIsInt ==
  ASSUME Sound(Store), NEW m \in Members, NEW seq \in DOMAIN Store.ballots
  PROVE  MemberWeight(Store, m, Store.ballots[seq].sealed) \in Int
<1> DEFINE sealed == Store.ballots[seq].sealed
           p == PowerAt(Store, m, sealed)
           l == Live(Store.members[m])
<1>1. sealed \in Nat
  <2>1. BallotOK(Store.ballots[seq])
    BY SoundShape DEF BallotsOK
  <2>2. sealed \in 1 .. epoch /\ epoch \in Nat
    BY <2>1, SoundShape DEF BallotOK
  <2> QED
    BY <2>2
<1>2. MemberWeight(Store, m, sealed) = IF Store.members[m].known THEN Lesser(p, l) ELSE 0
  BY DEF MemberWeight
<1> HIDE DEF sealed
<1>3. p \in Int
  BY <1>1, PowerIsInt
<1>4. l \in Int
  <2>1. Store.members[m].staked \in Nat /\ Store.members[m].unbondAmount \in Nat
    BY DEF Sound, Shaped, MemberOK
  <2> QED
    BY <2>1 DEF Live
<1> HIDE DEF p, l
<1>5. MemberWeight(Store, m, sealed) \in Int
  BY <1>2, <1>3, <1>4 DEF Lesser
<1> QED
  BY <1>5 DEF sealed

LEMMA RevealVoteTallies ==
  ASSUME Sound(Store), Purse(Store), AllCount(Store.ballots), NEW m \in Members, NEW d, RevealVote(m, d)
  PROVE  TalliesNow
<1> DEFINE seq == BallotOf(Store, d)
           b == ballots[seq]
           choice == b.commits[m]
           weight == MemberWeight(Store, m, b.sealed)
           top == ReplaceTop(Store.ballots[seq].top, [voter |-> m, choice |-> choice, weight |-> weight])
           t == BallotReveal(Store, seq, m, choice, weight, top)
<1>1. CanReveal(seq) /\ ValidChoice(choice, b.majorRequested) /\ weight > 0 /\ Commit(t)
  BY DEF RevealVote, Revealed
<1>2. seq \in DOMAIN Store.ballots /\ b = Store.ballots[seq] /\ Store.ballots[seq].phase # "resolved"
  BY <1>1, StoreIs DEF CanReveal
<1>3. choice \in BallotChoices
  BY <1>1 DEF ValidChoice
<1>4. weight \in Nat
  <2>1. weight \in Int
    BY <1>2, MemberWeightIsInt
  <2> HIDE DEF weight
  <2> QED
    BY <1>1, <2>1
<1>5. t.ok
  BY <1>1 DEF Commit
<1> HIDE DEF seq, choice, weight, top
<1>6. Tallies(t, Store)
  BY <1>2, <1>3, <1>4, <1>5, BallotRevealTallies
<1> HIDE DEF t
<1> QED
  BY <1>1, <1>6 DEF TalliesNow

LEMMA VoterOpsTally ==
  ASSUME Sound(Store), Purse(Store), AllCount(Store.ballots), VoterOps
  PROVE  TalliesNow
<1>1. ASSUME NEW m \in Members, NEW d \in Disputes, RevealVote(m, d)
      PROVE  TalliesNow
  BY <1>1, RevealVoteTallies
<1>2. ASSUME NEW m \in Members, NEW d \in Disputes, NEW choice \in BallotChoices, CommitVote(m, d, choice)
      PROVE  TalliesNow
  BY <1>2, CommitVoteTallies
<1> QED
  BY <1>1, <1>2 DEF VoterOps

LEMMA OpenDisputeVoteTallies ==
  ASSUME Purse(Store), AllCount(Store.ballots), NEW d, NEW major, OpenDisputeVote(d, major)
  PROVE  TalliesNow
<1> DEFINE cond == BallotOf(Store, d) = 0
           q == Require(Store, cond)
           t == OpenBallot(q, d, 1, major, 0)
<1>1. Commit(t)
  BY DEF OpenDisputeVote
<1>2. Tallies(q, Store)
  <2> HIDE DEF cond
  <2> QED
    BY SameTallies
<1> HIDE DEF q
<1>3. Purse(q) /\ AllCount(q.ballots)
  BY <1>2 DEF Tallies
<1>4. Tallies(t, q)
  BY <1>3, OpenBallotTallies
<1> HIDE DEF t
<1>5. Tallies(t, Store)
  BY <1>2, <1>4, TalliesOn
<1> QED
  BY <1>1, <1>5 DEF TalliesNow

LEMMA EndedTallies ==
  ASSUME Sound(Store), Purse(Store), AllCount(Store.ballots), NEW seq, BallotEnded(seq), NEW t, t = Ended(Store, seq)
  PROVE  Tallies(t, Store) /\ seq \in DOMAIN t.ballots /\ t.ballots[seq].bondShare = 0
<1> DEFINE b == Store.ballots[seq]
           res == Verdict(b)
<1>1. seq \in DOMAIN Store.ballots /\ b.phase # "resolved"
  BY StoreIs DEF BallotEnded
<1>2. t = Finished(Store, seq, b, res)
  BY DEF Ended
<1> HIDE DEF res
<1> QED
  BY <1>1, <1>2, FinishedTallies

LEMMA ResolveOpenTallies ==
  ASSUME Sound(Store), Purse(Store), AllCount(Store.ballots), NEW d, ResolveOpen(d)
  PROVE  TalliesNow
<1> DEFINE seq == BallotOf(Store, d)
           t == Ended(Store, seq)
<1>1. BallotEnded(seq) /\ Commit(t)
  BY DEF ResolveOpen, FirstDue
<1> HIDE DEF seq
<1>2. Tallies(t, Store)
  BY <1>1, EndedTallies
<1> HIDE DEF t
<1> QED
  BY <1>1, <1>2 DEF TalliesNow

\* A decision that was not applied yet is of a ballot that has no coins.
LEMMA SeenWaiting ==
  ASSUME NEW st, Sound(st), NEW d, NEW outcome, Seen(st, d) = House!Decision(1, "decided", outcome)
  PROVE  ~st.ballots[BallotOf(st, d)].final
<1> DEFINE b == st.ballots[BallotOf(st, d)]
<1>1. BallotOf(st, d) # 0 /\ b.phase = "resolved"
  BY SeenDecided, ZeroIsNoBallot
<1>2. Seen(st, d) = Look(b.round, b.phase, b.final, b.outcome)
  BY <1>1 DEF Seen
<1> HIDE DEF b
<1>3. SUFFICES ASSUME b.final PROVE FALSE
  BY DEF b
<1>4. Seen(st, d) = House!Decision(b.round, "applied", b.outcome)
  BY <1>1, <1>2, <1>3 DEF Look
<1>5. Seen(st, d).stage = "applied" /\ Seen(st, d).stage = "decided"
  BY <1>4 DEF House!Decision
<1> QED
  BY <1>5

LEMMA ResolveDecidedTallies ==
  ASSUME Sound(Store), Purse(Store), AllCount(Store.ballots), InOrder(ballots), NEW d, NEW outcome,
         Seen(Store, d) = House!Decision(1, "decided", outcome), NEW amount \in VoterShares, ResolveDecided(d, amount)
  PROVE  TalliesNow
<1> DEFINE seq == BallotOf(Store, d)
           t == FundVoters(Store, seq, amount)
<1>1. Commit(t) /\ amount \in Nat
  BY BallotsAssumption DEF ResolveDecided
<1>2. seq \in DOMAIN Store.ballots /\ Store.ballots[seq].phase = "resolved" /\ ~Store.ballots[seq].final
  BY SeenDecided, SeenWaiting
<1> HIDE DEF seq
<1>3. Store.ballots[seq].bondShare = 0 /\ InOrder(Store.ballots)
  BY <1>2, StoreIs DEF AllCount, Counts
<1>4. t.ok
  BY <1>1 DEF Commit
<1>5. Tallies(t, Store)
  BY <1>1, <1>2, <1>3, <1>4, FundVotersTallies
<1> HIDE DEF t
<1> QED
  BY <1>1, <1>5 DEF TalliesNow

LEMMA ResolveAppealedTallies ==
  ASSUME Sound(Store), Purse(Store), AllCount(Store.ballots), InOrder(ballots), NEW d,
         Seen(Store, d) = House!Voting(2), NEW amount \in VoterShares, ResolveAppealed(d, amount)
  PROVE  TalliesNow
<1> DEFINE seq == BallotOf(Store, d)
           b == ballots[seq]
           res == Verdict(b)
           outcome == res.outcome
           u == Ended(Store, seq)
           t == FundVoters(u, seq, amount)
<1>1. Commit(t) /\ amount \in Nat /\ BallotEnded(seq)
  BY BallotsAssumption DEF ResolveAppealed, SecondDue
<1>2. seq \in DOMAIN Store.ballots /\ b = Store.ballots[seq] /\ b.phase # "resolved" /\ b.round = 2
  BY SeenVoting, StoreIs
<1>3. outcome # "ROLL"
  BY <1>2, VerdictIs
<1>4. u = Finished(Store, seq, b, res)
  BY <1>2 DEF Ended
<1>5. Tallies(u, Store) /\ seq \in DOMAIN u.ballots /\ u.ballots[seq].bondShare = 0
  <2> HIDE DEF seq
  <2> QED
    BY <1>1, EndedTallies
<1> HIDE DEF u, res
<1>6. Ends(u, Store, seq, outcome)
  BY <1>2, <1>4, FinishedEnds
<1>7. /\ seq = BallotOf(Store, d) /\ InOrder(Store.ballots) /\ Store.ballots[seq].phase # "resolved"
  BY <1>2, StoreIs
<1> HIDE DEF outcome, seq
<1>8. InOrder(u.ballots) /\ Becomes(u, Store, seq, "resolved", outcome, FALSE)
  BY <1>2, <1>3, <1>6, <1>7, EndsSeen
<1>9. Sound(u)
  BY <1>8, BecomesGoes DEF Goes
<1>10. u.ballots[seq].phase = "resolved"
  <2> DEFINE final == FALSE
  <2>1. Becomes(u, Store, seq, "resolved", outcome, final)
    BY <1>8
  <2> HIDE DEF final
  <2> QED
    BY <1>2, <2>1, BecomesRecord
<1>11. Purse(u) /\ AllCount(u.ballots)
  BY <1>5 DEF Tallies
<1>12. t.ok
  BY <1>1 DEF Commit
<1>13. Tallies(t, u)
  BY <1>1, <1>5, <1>8, <1>9, <1>10, <1>11, <1>12, FundVotersTallies
<1> HIDE DEF t
<1>14. Tallies(t, Store)
  BY <1>5, <1>13, TalliesOn
<1> QED
  BY <1>1, <1>14 DEF TalliesNow

LEMMA OpenAppealRoundTallies ==
  ASSUME Sound(Store), Purse(Store), AllCount(Store.ballots), NEW d, NEW outcome,
         Seen(Store, d) = House!Decision(1, "decided", outcome), OpenAppealRound(d)
  PROVE  TalliesNow
<1> DEFINE seq == BallotOf(Store, d)
           b == ballots[seq]
           t == Superseded(Store, seq, b)
<1>1. Commit(t)
  BY DEF OpenAppealRound
<1>2. seq \in DOMAIN Store.ballots /\ b = Store.ballots[seq] /\ ~Store.ballots[seq].final
  BY SeenDecided, SeenWaiting, StoreIs
<1> HIDE DEF seq, b
<1>3. Tallies(t, Store)
  BY <1>2, SupersededTallies
<1> HIDE DEF t
<1> QED
  BY <1>1, <1>3 DEF TalliesNow

LEMMA CoreOpsTally ==
  ASSUME Sound(Store), Purse(Store), AllCount(Store.ballots), Agreed(Store, disputes), CoreOps
  PROVE  TalliesNow
<1>1. InOrder(ballots) /\ \A d \in Disputes : Agrees(Seen(Store, d), disputes[d].status)
  BY StoreIs DEF Agreed
<1>2. ASSUME NEW d \in Disputes, NEW major, OpenDisputeVote(d, major)
      PROVE  TalliesNow
  BY <1>2, OpenDisputeVoteTallies
<1>3. ASSUME NEW d \in Disputes, ResolveOpen(d)
      PROVE  TalliesNow
  BY <1>3, ResolveOpenTallies
<1>4. ASSUME NEW d \in Disputes, NEW amount \in VoterShares, ResolveDecided(d, amount)
      PROVE  TalliesNow
  <2>1. disputes[d].status = "decided"
    BY <1>4 DEF ResolveDecided, WindowDue
  <2>2. PICK outcome \in House!Outcomes : Seen(Store, d) = House!Decision(1, "decided", outcome)
    BY <1>1, <2>1 DEF Agrees
  <2> QED
    BY <1>1, <1>4, <2>2, ResolveDecidedTallies
<1>5. ASSUME NEW d \in Disputes, NEW amount \in VoterShares, ResolveAppealed(d, amount)
      PROVE  TalliesNow
  <2>1. disputes[d].status = "appealed"
    BY <1>5 DEF ResolveAppealed, SecondDue
  <2>2. Seen(Store, d) = House!Voting(2)
    BY <1>1, <2>1 DEF Agrees
  <2> QED
    BY <1>1, <1>5, <2>2, ResolveAppealedTallies
<1>6. ASSUME NEW d \in Disputes, OpenAppealRound(d)
      PROVE  TalliesNow
  <2>1. disputes[d].status = "decided"
    BY <1>6 DEF OpenAppealRound
  <2>2. PICK outcome \in House!Outcomes : Seen(Store, d) = House!Decision(1, "decided", outcome)
    BY <1>1, <2>1 DEF Agrees
  <2> QED
    BY <1>6, <2>2, OpenAppealRoundTallies
<1> QED
  BY <1>2, <1>3, <1>4, <1>5, <1>6 DEF CoreOps

-----------------------------------------------------------------------------
(* Deposits. *)

DepositSum(ps) == SumFunction([id \in DOMAIN ps |-> ps[id].deposit])

\* What is held as deposits is the deposits of the proposals.
DepositsOK(st) ==
  /\ IsSequence(st.proposals)
  /\ \A id \in DOMAIN st.proposals : DOMAIN st.proposals[id] = ProposalFields /\ st.proposals[id].deposit \in Nat
  /\ st.held.depositUgnot = DepositSum(st.proposals)

\* t comes of st by what becomes of proposals: nobody is owed more, and the realm is no shorter of PYTH.
Handles(t, st) ==
  /\ Purse(t) /\ DepositsOK(t) /\ t.ballots = st.ballots
  /\ t.held.rewardUgnot = st.held.rewardUgnot
  /\ \A m \in Members : t.members[m].pendingUgnot = st.members[m].pendingUgnot /\ t.members[m].cursor = st.members[m].cursor
  /\ Idle(st) >= 0 => Idle(t) >= 0
  /\ Short(t) <= Short(st) \/ Short(t) <= 0

LEMMA HandlesOn ==
  ASSUME NEW st, Purse(st), NEW t, Handles(t, st), NEW u, Handles(u, t)
  PROVE  Handles(u, st)
<1>1. Short(st) \in Int /\ Short(t) \in Int /\ Short(u) \in Int
  BY HeldAreInt DEF Handles
<1>2. (Short(t) <= Short(st) \/ Short(t) <= 0) /\ (Short(u) <= Short(t) \/ Short(u) <= 0)
  BY DEF Handles
<1>3. Short(u) <= Short(st) \/ Short(u) <= 0
  BY <1>1, <1>2
<1> QED
  BY <1>3 DEF Handles

\* Coins that the realm knows of and that are deposits.
DepositsHeld(h, g, known, deposit) ==
  /\ DOMAIN h = DOMAIN NothingHeld
  /\ h.knownUgnot = known /\ h.depositUgnot = deposit /\ h.feeUgnot = g.feeUgnot /\ h.rewardUgnot = g.rewardUgnot
  /\ h.stakedPyth = g.stakedPyth /\ h.unbondingPyth = g.unbondingPyth
  /\ h.rewardPyth = g.rewardPyth /\ h.pendingPyth = g.pendingPyth

LEMMA BooksHandle ==
  ASSUME NEW st, Purse(st), NEW t, DOMAIN t = StoreFields, t.members = st.members, t.fees = st.fees,
         t.ballots = st.ballots, t.pyth = st.pyth, DepositsOK(t),
         NEW known \in Int, NEW deposit \in Int, DepositsHeld(t.held, st.held, known, deposit),
         t.ugnot \in Int, Idle(st) >= 0 => known <= t.ugnot
  PROVE  /\ Handles(t, st)
         /\ TreasuryUgnot(t) = TreasuryUgnot(st) + (known - st.held.knownUgnot) - (deposit - st.held.depositUgnot)
<1>1. /\ st.held.knownUgnot \in Int /\ st.held.feeUgnot \in Int /\ st.held.rewardUgnot \in Int
      /\ st.held.depositUgnot \in Int /\ st.held.stakedPyth \in Int /\ st.held.unbondingPyth \in Int
      /\ st.held.rewardPyth \in Int /\ st.held.pendingPyth \in Int /\ Short(st) \in Int
  BY HeldAreInt
<1>2. \A f \in DOMAIN NothingHeld : t.held[f] \in Int
  BY <1>1 DEF DepositsHeld, NothingHeld
<1>3. Purse(t)
  BY <1>2 DEF Purse, DepositsHeld
<1>4. Short(t) = Short(st) /\ Idle(t) = t.ugnot - known
  BY DEF DepositsHeld, Short, TreasuryPyth, Idle
<1>5. Idle(st) >= 0 => Idle(t) >= 0
  BY <1>4
<1>6. Short(t) <= Short(st)
  BY <1>1, <1>4
<1>7. TreasuryUgnot(t) = TreasuryUgnot(st) + (known - st.held.knownUgnot) - (deposit - st.held.depositUgnot)
  BY <1>1 DEF DepositsHeld, TreasuryUgnot
<1> QED
  BY <1>3, <1>5, <1>6, <1>7 DEF Handles, DepositsHeld

LEMMA DepositsAmended ==
  ASSUME NEW st, DepositsOK(st), NEW id \in DOMAIN st.proposals, NEW p, DOMAIN p = ProposalFields, p.deposit \in Nat,
         NEW qs, qs = [st.proposals EXCEPT ![id] = p]
  PROVE  /\ IsSequence(qs) /\ DOMAIN qs = DOMAIN st.proposals /\ qs[id] = p
         /\ \A i \in DOMAIN qs : DOMAIN qs[i] = ProposalFields /\ qs[i].deposit \in Nat
         /\ DepositSum(qs) = st.held.depositUgnot - st.proposals[id].deposit + p.deposit
         /\ st.held.depositUgnot \in Int
<1> DEFINE ps == st.proposals
           f == [i \in DOMAIN ps |-> ps[i].deposit]
           g == [i \in DOMAIN qs |-> qs[i].deposit]
<1>1. IsSequence(qs) /\ DOMAIN qs = DOMAIN ps /\ qs[id] = p /\ \A i \in DOMAIN ps \ {id} : qs[i] = ps[i]
  BY Amended DEF DepositsOK
<1>2. \A i \in DOMAIN ps : ps[i].deposit \in Nat /\ DOMAIN ps[i] = ProposalFields
  BY DEF DepositsOK
<1>3. \A i \in DOMAIN qs : DOMAIN qs[i] = ProposalFields /\ qs[i].deposit \in Nat
  BY <1>1, <1>2
<1>4. f \in [DOMAIN ps -> Int] /\ g \in [DOMAIN ps -> Int] /\ \A i \in DOMAIN ps \ {id} : g[i] = f[i]
  BY <1>1, <1>2, <1>3
<1>5. f[id] = ps[id].deposit /\ g[id] = p.deposit
  BY <1>1
<1>6. IsFiniteSet(DOMAIN ps)
  BY BallotNumbers DEF DepositsOK
<1>7. DepositSum(ps) = SumFunction(f) /\ DepositSum(qs) = SumFunction(g)
  BY DEF DepositSum
<1>8. id \in DOMAIN ps
  OBVIOUS
<1> HIDE DEF f, g
<1>9. SumFunction(g) = SumFunction(f) - f[id] + g[id] /\ SumFunction(f) \in Int
  BY <1>4, <1>6, <1>8, SumChange, SumType
<1>10. st.held.depositUgnot = DepositSum(ps)
  BY DEF DepositsOK
<1> QED
  BY <1>1, <1>3, <1>5, <1>7, <1>9, <1>10

\* Another record of a proposal with the same deposit.
LEMMA RecordedHandles ==
  ASSUME NEW st, Purse(st), DepositsOK(st), NEW id \in DOMAIN st.proposals, NEW p, DOMAIN p = ProposalFields,
         p.deposit = st.proposals[id].deposit, NEW t, Recorded(t, st, id, p)
  PROVE  /\ Handles(t, st) /\ TreasuryUgnot(t) = TreasuryUgnot(st)
         /\ DOMAIN t.proposals = DOMAIN st.proposals /\ t.proposals[id] = p
<1> DEFINE qs == t.proposals
           known == st.held.knownUgnot
           deposit == st.held.depositUgnot
<1>1. p.deposit \in Nat /\ qs = [st.proposals EXCEPT ![id] = p]
  BY DEF DepositsOK, Recorded
<1> HIDE DEF qs
<1>2. /\ IsSequence(qs) /\ DOMAIN qs = DOMAIN st.proposals /\ qs[id] = p
      /\ \A i \in DOMAIN qs : DOMAIN qs[i] = ProposalFields /\ qs[i].deposit \in Nat
      /\ DepositSum(qs) = deposit - st.proposals[id].deposit + p.deposit
      /\ deposit \in Int
  BY <1>1, DepositsAmended
<1>3. DepositSum(qs) = deposit
  BY <1>1, <1>2
<1>4. t.held = st.held /\ t.ugnot = st.ugnot
  BY DEF Recorded
<1>5. DepositsOK(t)
  BY <1>2, <1>3, <1>4 DEF DepositsOK, qs
<1>6. known \in Int /\ st.ugnot \in Int /\ DepositsHeld(t.held, st.held, known, deposit)
  BY <1>4, HeldAreInt DEF Purse, DepositsHeld
<1>7. Idle(st) >= 0 => known <= t.ugnot
  BY <1>4, <1>6 DEF Idle
<1> HIDE DEF known, deposit
<1>8. /\ Handles(t, st)
      /\ TreasuryUgnot(t) = TreasuryUgnot(st) + (known - st.held.knownUgnot) - (deposit - st.held.depositUgnot)
  <2>1. /\ DOMAIN t = StoreFields /\ t.members = st.members /\ t.fees = st.fees /\ t.ballots = st.ballots
        /\ t.pyth = st.pyth /\ t.ugnot \in Int
    BY <1>4, <1>6 DEF Recorded
  <2> QED
    BY <1>2, <1>5, <1>6, <1>7, <2>1, BooksHandle
<1>9. TreasuryUgnot(t) = TreasuryUgnot(st)
  BY <1>2, <1>6, <1>8, HeldAreInt DEF known, deposit
<1> QED
  BY <1>2, <1>8, <1>9 DEF qs

LEMMA SetStatusHandles ==
  ASSUME NEW st, Purse(st), DepositsOK(st), NEW id \in DOMAIN st.proposals, NEW status, NEW t, t = SetStatus(st, id, status)
  PROVE  /\ Handles(t, st) /\ TreasuryUgnot(t) = TreasuryUgnot(st)
         /\ DOMAIN t.proposals = DOMAIN st.proposals
<1> DEFINE p == [st.proposals[id] EXCEPT !.status = status]
<1>1. Recorded(t, st, id, p)
  BY DEF Recorded, SetStatus, StoreFields, Purse
<1>2. DOMAIN st.proposals[id] = ProposalFields
  BY DEF DepositsOK
<1>3. DOMAIN p = ProposalFields /\ p.deposit = st.proposals[id].deposit
  BY <1>2 DEF ProposalFields
<1> HIDE DEF p
<1> QED
  BY <1>1, <1>3, RecordedHandles

LEMMA PropSetHandles ==
  ASSUME NEW st, Purse(st), DepositsOK(st), NEW id \in DOMAIN st.proposals, NEW f, f # "deposit", NEW v,
         NEW t, t = PropSet(st, id, f, v)
  PROVE  /\ Handles(t, st) /\ TreasuryUgnot(t) = TreasuryUgnot(st)
         /\ DOMAIN t.proposals = DOMAIN st.proposals
<1> DEFINE p == [st.proposals[id] EXCEPT ![f] = v]
<1>1. Recorded(t, st, id, p)
  BY DEF Recorded, PropSet, StoreFields, Purse
<1>2. DOMAIN st.proposals[id] = ProposalFields
  BY DEF DepositsOK
<1>3. DOMAIN p = ProposalFields /\ p.deposit = st.proposals[id].deposit
  BY <1>2 DEF ProposalFields
<1> HIDE DEF p
<1> QED
  BY <1>1, <1>3, RecordedHandles

LEMMA RequireHandles ==
  ASSUME NEW st, Purse(st), DepositsOK(st), NEW cond, NEW t, t = Require(st, cond)
  PROVE  /\ Handles(t, st) /\ TreasuryUgnot(t) = TreasuryUgnot(st)
         /\ t.proposals = st.proposals /\ t.held = st.held /\ t.pyth = st.pyth /\ t.ugnot = st.ugnot
         /\ t.members = st.members
<1>1. /\ DOMAIN t = StoreFields /\ t.members = st.members /\ t.fees = st.fees /\ t.held = st.held
      /\ t.ugnot = st.ugnot /\ t.pyth = st.pyth /\ t.ballots = st.ballots /\ t.proposals = st.proposals
  BY DEF Require, Purse, StoreFields
<1>2. Purse(t) /\ DepositsOK(t)
  BY <1>1 DEF Purse, DepositsOK
<1>3. Idle(t) = Idle(st) /\ Short(t) = Short(st) /\ TreasuryUgnot(t) = TreasuryUgnot(st)
  BY <1>1 DEF Idle, Short, TreasuryPyth, TreasuryUgnot
<1>4. Short(t) <= Short(st)
  BY <1>3, HeldAreInt
<1> QED
  BY <1>1, <1>2, <1>3, <1>4 DEF Handles

\* A deposit that is forfeited is the treasury's.
LEMMA DepositForfeitHandles ==
  ASSUME NEW st, Purse(st), DepositsOK(st), NEW id \in DOMAIN st.proposals, NEW t, t = DepositForfeit(st, id)
  PROVE  /\ Handles(t, st) /\ TreasuryUgnot(t) = TreasuryUgnot(st) + st.proposals[id].deposit
         /\ DOMAIN t.proposals = DOMAIN st.proposals
<1> DEFINE amount == st.proposals[id].deposit
           deposit == st.held.depositUgnot - amount
           known == st.held.knownUgnot
           u == HeldSet(st, "depositUgnot", deposit)
           none == 0
           p == [st.proposals[id] EXCEPT !.deposit = none]
           qs == t.proposals
<1>1. t = [u EXCEPT !.proposals[id].deposit = 0]
  BY ForfeitedByFields
<1>2. /\ DOMAIN u = StoreFields /\ u.members = st.members /\ u.fees = st.fees /\ u.ballots = st.ballots
      /\ u.proposals = st.proposals /\ u.ugnot = st.ugnot /\ u.pyth = st.pyth
      /\ u.held = [st.held EXCEPT !.depositUgnot = deposit]
  BY DEF HeldSet, Purse, StoreFields
<1> HIDE DEF u
<1>3. /\ DOMAIN t = StoreFields /\ t.members = st.members /\ t.fees = st.fees /\ t.ballots = st.ballots
      /\ t.ugnot = st.ugnot /\ t.pyth = st.pyth /\ t.held = [st.held EXCEPT !.depositUgnot = deposit]
      /\ t.proposals = [st.proposals EXCEPT ![id] = p]
  BY <1>1, <1>2 DEF StoreFields
<1>4. amount \in Nat /\ DOMAIN st.proposals[id] = ProposalFields /\ none = 0
  BY DEF DepositsOK
<1>5. DOMAIN p = ProposalFields /\ p.deposit = none
  BY <1>4 DEF ProposalFields
<1> HIDE DEF p, none
<1>6. p.deposit \in Nat /\ qs = [st.proposals EXCEPT ![id] = p]
  BY <1>3, <1>4, <1>5
<1> HIDE DEF qs
<1>7. /\ IsSequence(qs) /\ DOMAIN qs = DOMAIN st.proposals
      /\ \A i \in DOMAIN qs : DOMAIN qs[i] = ProposalFields /\ qs[i].deposit \in Nat
      /\ DepositSum(qs) = st.held.depositUgnot - amount + p.deposit
      /\ st.held.depositUgnot \in Int
  BY <1>5, <1>6, DepositsAmended
<1>8. DepositSum(qs) = deposit /\ deposit \in Int
  BY <1>4, <1>5, <1>7
<1>9. known \in Int /\ st.ugnot \in Int /\ DepositsHeld(t.held, st.held, known, deposit)
  <2>1. known \in Int /\ st.ugnot \in Int /\ DOMAIN st.held = DOMAIN NothingHeld
    BY HeldAreInt DEF Purse
  <2> HIDE DEF deposit
  <2> QED
    BY <1>3, <2>1 DEF DepositsHeld, NothingHeld
<1>10. DepositsOK(t)
  <2>1. t.held.depositUgnot = deposit
    BY <1>9 DEF DepositsHeld
  <2> HIDE DEF deposit
  <2> QED
    BY <1>7, <1>8, <2>1 DEF DepositsOK, qs
<1>11. Idle(st) >= 0 => known <= t.ugnot
  BY <1>3, <1>9 DEF Idle
<1>12. TreasuryUgnot(st) \in Int
  BY HeldAreInt
<1> DEFINE d == deposit
<1>13. d = st.held.depositUgnot - amount /\ known = st.held.knownUgnot
  OBVIOUS
<1> HIDE DEF d, known, amount
<1>14. /\ Handles(t, st)
       /\ TreasuryUgnot(t) = TreasuryUgnot(st) + (known - st.held.knownUgnot) - (d - st.held.depositUgnot)
  BY <1>3, <1>8, <1>9, <1>10, <1>11, BooksHandle DEF d
<1>15. TreasuryUgnot(t) = TreasuryUgnot(st) + amount
  BY <1>4, <1>7, <1>9, <1>12, <1>13, <1>14
<1> QED
  BY <1>7, <1>14, <1>15 DEF qs, amount

LEMMA SendUgnotHandles ==
  ASSUME NEW st, Purse(st), DepositsOK(st), NEW amount \in Int, NEW t, t = SendUgnot(st, amount)
  PROVE  Handles(t, st) /\ TreasuryUgnot(t) = TreasuryUgnot(st) - amount /\ t.proposals = st.proposals
<1> DEFINE known == st.held.knownUgnot - amount
           deposit == st.held.depositUgnot
<1>1. Sent(t, st, amount)
  BY SendUgnotIs DEF Purse
<1>2. /\ st.held.knownUgnot \in Int /\ deposit \in Int /\ st.ugnot \in Int /\ DOMAIN st.held = DOMAIN NothingHeld
      /\ TreasuryUgnot(st) \in Int
  BY HeldAreInt DEF Purse
<1>3. t.held = [st.held EXCEPT !.knownUgnot = known]
  BY <1>1 DEF Sent
<1>4. known \in Int /\ known = st.held.knownUgnot - amount
  BY <1>2
<1> HIDE DEF known
<1>5. DepositsHeld(t.held, st.held, known, deposit)
  BY <1>2, <1>3 DEF DepositsHeld, NothingHeld
<1>6. t.ugnot \in Int /\ (Idle(st) >= 0 => known <= t.ugnot)
  BY <1>1, <1>2, <1>4 DEF Idle, Sent
<1>7. DepositsOK(t)
  BY <1>1, <1>5 DEF DepositsOK, Sent, DepositsHeld
<1> HIDE DEF deposit
<1>8. /\ Handles(t, st)
      /\ TreasuryUgnot(t) = TreasuryUgnot(st) + (known - st.held.knownUgnot) - (deposit - st.held.depositUgnot)
  BY <1>1, <1>2, <1>4, <1>5, <1>6, <1>7, BooksHandle DEF Sent
<1>9. TreasuryUgnot(t) = TreasuryUgnot(st) - amount
  BY <1>2, <1>4, <1>8 DEF deposit
<1> QED
  BY <1>1, <1>8, <1>9 DEF Sent

\* A deposit that is refunded is no loss to the treasury.
LEMMA DepositRefundHandles ==
  ASSUME NEW st, Purse(st), DepositsOK(st), NEW id \in DOMAIN st.proposals, NEW t, t = DepositRefund(st, id)
  PROVE  Handles(t, st) /\ TreasuryUgnot(t) = TreasuryUgnot(st) /\ DOMAIN t.proposals = DOMAIN st.proposals
<1> DEFINE amount == st.proposals[id].deposit
           u == DepositForfeit(st, id)
<1>1. t = IF amount = 0 THEN st ELSE SendUgnot(u, amount)
  BY DEF DepositRefund
<1>2. Handles(u, st) /\ TreasuryUgnot(u) = TreasuryUgnot(st) + amount /\ DOMAIN u.proposals = DOMAIN st.proposals
  BY DepositForfeitHandles
<1>3. amount \in Int /\ TreasuryUgnot(st) \in Int
  BY HeldAreInt DEF DepositsOK
<1> HIDE DEF amount, u
<1>4. CASE amount = 0
  <2>1. t = st
    BY <1>1, <1>4
  <2>2. Short(st) <= Short(st)
    BY HeldAreInt
  <2> QED
    BY <2>1, <2>2 DEF Handles
<1>5. CASE amount # 0
  <2>1. t = SendUgnot(u, amount)
    BY <1>1, <1>5
  <2>2. Purse(u) /\ DepositsOK(u)
    BY <1>2 DEF Handles
  <2>3. Handles(t, u) /\ TreasuryUgnot(t) = TreasuryUgnot(u) - amount /\ t.proposals = u.proposals
    BY <1>3, <2>1, <2>2, SendUgnotHandles
  <2>4. Handles(t, st)
    BY <1>2, <2>3, HandlesOn
  <2>5. TreasuryUgnot(t) = TreasuryUgnot(st)
    BY <1>2, <1>3, <2>3
  <2> QED
    BY <1>2, <2>3, <2>4, <2>5
<1> QED
  BY <1>4, <1>5

LEMMA TalliedHandles ==
  ASSUME NEW st, Purse(st), DepositsOK(st), NEW id \in DOMAIN st.proposals, NEW p, NEW t, t = Tallied(st, id, p)
  PROVE  Handles(t, st) /\ TreasuryUgnot(st) <= TreasuryUgnot(t) /\ DOMAIN t.proposals = DOMAIN st.proposals
<1> DEFINE f == DepositForfeit(st, id)
           r == DepositRefund(st, id)
           carried == IF Carried(p) THEN "passed" ELSE "rejected"
           lost == "rejected"
<1>1. t = IF ~ProposalQuorate(st, p) THEN SetStatus(f, id, lost) ELSE SetStatus(r, id, carried)
  BY DEF Tallied
<1> HIDE DEF carried, lost
<1>2. Handles(f, st) /\ TreasuryUgnot(f) = TreasuryUgnot(st) + st.proposals[id].deposit /\ DOMAIN f.proposals = DOMAIN st.proposals
  BY DepositForfeitHandles
<1>3. Handles(r, st) /\ TreasuryUgnot(r) = TreasuryUgnot(st) /\ DOMAIN r.proposals = DOMAIN st.proposals
  BY DepositRefundHandles
<1> HIDE DEF f, r
<1>4. st.proposals[id].deposit \in Nat /\ TreasuryUgnot(st) \in Int
  BY HeldAreInt DEF DepositsOK
<1>5. CASE ~ProposalQuorate(st, p)
  <2>1. t = SetStatus(f, id, lost)
    BY <1>1, <1>5
  <2>2. Purse(f) /\ DepositsOK(f) /\ id \in DOMAIN f.proposals
    BY <1>2 DEF Handles
  <2>3. Handles(t, f) /\ TreasuryUgnot(t) = TreasuryUgnot(f) /\ DOMAIN t.proposals = DOMAIN f.proposals
    BY <2>1, <2>2, SetStatusHandles
  <2>4. Handles(t, st)
    BY <1>2, <2>3, HandlesOn
  <2> QED
    BY <1>2, <1>4, <2>3, <2>4
<1>6. CASE ProposalQuorate(st, p)
  <2>1. t = SetStatus(r, id, carried)
    BY <1>1, <1>6
  <2>2. Purse(r) /\ DepositsOK(r) /\ id \in DOMAIN r.proposals
    BY <1>3 DEF Handles
  <2>3. Handles(t, r) /\ TreasuryUgnot(t) = TreasuryUgnot(r) /\ DOMAIN t.proposals = DOMAIN r.proposals
    BY <2>1, <2>2, SetStatusHandles
  <2>4. Handles(t, st)
    BY <1>3, <2>3, HandlesOn
  <2> QED
    BY <1>3, <1>4, <2>3, <2>4
<1> QED
  BY <1>5, <1>6

\* What changes neither the books nor what members get of ballots.
LEMMA SameBooksHandle ==
  ASSUME NEW st, Purse(st), DepositsOK(st), NEW t, DOMAIN t = StoreFields, DOMAIN t.members = Members,
         t.fees = st.fees, t.held = st.held, t.ugnot = st.ugnot, t.pyth = st.pyth, t.ballots = st.ballots,
         t.proposals = st.proposals,
         \A m \in Members : /\ MemberPurse(t.members[m])
                            /\ t.members[m].pendingUgnot = st.members[m].pendingUgnot
                            /\ t.members[m].cursor = st.members[m].cursor
  PROVE  Handles(t, st) /\ TreasuryUgnot(t) = TreasuryUgnot(st)
<1>1. Purse(t) /\ DepositsOK(t)
  BY DEF Purse, DepositsOK
<1>2. Idle(t) = Idle(st) /\ Short(t) = Short(st) /\ TreasuryUgnot(t) = TreasuryUgnot(st)
  BY DEF Idle, Short, TreasuryPyth, TreasuryUgnot
<1>3. Short(t) <= Short(st)
  BY <1>2, HeldAreInt
<1> QED
  BY <1>1, <1>2, <1>3 DEF Handles

LEMMA ProposalVoteHandles ==
  ASSUME NEW st, Purse(st), DepositsOK(st), NEW id \in DOMAIN st.proposals, NEW m, NEW choice, NEW weight,
         NEW t, t = ProposalVote(st, id, m, choice, weight)
  PROVE  Handles(t, st) /\ TreasuryUgnot(t) = TreasuryUgnot(st)
<1> DEFINE cond == m \notin DOMAIN st.proposals[id].votes
           q == Require(st, cond)
<1>1. Handles(q, st) /\ TreasuryUgnot(q) = TreasuryUgnot(st) /\ q.proposals = st.proposals
  <2> HIDE DEF cond
  <2> QED
    BY RequireHandles
<1>2. t = Counted(q, id, m, choice, weight)
  BY DEF ProposalVote
<1> HIDE DEF q
<1> DEFINE b == q.proposals[id]
           votes == [x \in DOMAIN b.votes \cup {m} |-> IF x = m THEN choice ELSE b.votes[x]]
           yes == IF choice = "YES" THEN b.yes + weight ELSE b.yes
           no == IF choice = "NO" THEN b.no + weight ELSE b.no
           abstain == IF choice = "ABSTAIN" THEN b.abstain + weight ELSE b.abstain
           t1 == PropSet(q, id, "votes", votes)
           t2 == PropSet(t1, id, "yes", yes)
           t3 == PropSet(t2, id, "no", no)
<1>3. t = PropSet(t3, id, "abstain", abstain)
  BY <1>2, CountedByFields
<1> HIDE DEF votes, yes, no, abstain
<1>4. Purse(q) /\ DepositsOK(q) /\ id \in DOMAIN q.proposals
  BY <1>1 DEF Handles
<1>5. Handles(t1, q) /\ TreasuryUgnot(t1) = TreasuryUgnot(q) /\ DOMAIN t1.proposals = DOMAIN q.proposals
  BY <1>4, PropSetHandles
<1> HIDE DEF t1
<1>6. Purse(t1) /\ DepositsOK(t1) /\ id \in DOMAIN t1.proposals
  BY <1>4, <1>5 DEF Handles
<1>7. Handles(t2, t1) /\ TreasuryUgnot(t2) = TreasuryUgnot(t1) /\ DOMAIN t2.proposals = DOMAIN t1.proposals
  BY <1>6, PropSetHandles
<1> HIDE DEF t2
<1>8. Purse(t2) /\ DepositsOK(t2) /\ id \in DOMAIN t2.proposals
  BY <1>6, <1>7 DEF Handles
<1>9. Handles(t3, t2) /\ TreasuryUgnot(t3) = TreasuryUgnot(t2) /\ DOMAIN t3.proposals = DOMAIN t2.proposals
  BY <1>8, PropSetHandles
<1> HIDE DEF t3
<1>10. Purse(t3) /\ DepositsOK(t3) /\ id \in DOMAIN t3.proposals
  BY <1>8, <1>9 DEF Handles
<1>11. Handles(t, t3) /\ TreasuryUgnot(t) = TreasuryUgnot(t3)
  BY <1>3, <1>10, PropSetHandles
<1>12. Handles(t1, st)
  BY <1>1, <1>5, HandlesOn
<1>13. Handles(t2, st)
  BY <1>7, <1>12, HandlesOn
<1>14. Handles(t3, st)
  BY <1>9, <1>13, HandlesOn
<1>15. Handles(t, st)
  BY <1>11, <1>14, HandlesOn
<1> QED
  BY <1>1, <1>5, <1>7, <1>9, <1>11, <1>15

\* Coins that come with a proposal are there, and known of once they are its deposit.
LEMMA DepositArrives ==
  ASSUME NEW st, Purse(st), DepositsOK(st), NEW sent \in Nat, NEW t, t = Arrived(st, sent)
  PROVE  /\ Handles(t, st) /\ TreasuryUgnot(t) = TreasuryUgnot(st)
         /\ t.proposals = st.proposals /\ t.held = st.held /\ t.ugnot = st.ugnot + sent
<1>1. /\ DOMAIN t = StoreFields /\ t.members = st.members /\ t.fees = st.fees /\ t.ballots = st.ballots
      /\ t.proposals = st.proposals /\ t.pyth = st.pyth /\ t.held = st.held /\ t.ugnot = st.ugnot + sent
  BY DEF Arrived, Purse, StoreFields
<1>2. st.ugnot \in Int /\ st.held.knownUgnot \in Int
  BY HeldAreInt DEF Purse
<1>3. t.ugnot \in Int /\ sent \in Int
  BY <1>1, <1>2
<1>4. Purse(t) /\ DepositsOK(t)
  BY <1>1, <1>3 DEF Purse, DepositsOK
<1>5. Short(t) = Short(st) /\ TreasuryUgnot(t) = TreasuryUgnot(st)
  BY <1>1 DEF Short, TreasuryPyth, TreasuryUgnot
<1>6. Idle(st) >= 0 => Idle(t) >= 0
  BY <1>1, <1>2 DEF Idle
<1>7. Short(t) <= Short(st)
  BY <1>5, HeldAreInt
<1> QED
  BY <1>1, <1>4, <1>5, <1>6, <1>7 DEF Handles

LEMMA DepositsWith ==
  ASSUME NEW ps, IsSequence(ps), \A i \in DOMAIN ps : DOMAIN ps[i] = ProposalFields /\ ps[i].deposit \in Nat,
         NEW p, DOMAIN p = ProposalFields, p.deposit \in Nat, NEW qs, qs = Append(ps, p)
  PROVE  /\ IsSequence(qs) /\ DepositSum(qs) = DepositSum(ps) + p.deposit
         /\ \A i \in DOMAIN qs : DOMAIN qs[i] = ProposalFields /\ qs[i].deposit \in Nat
<1> DEFINE n == Len(ps) + 1
           D == DOMAIN ps
           f == [i \in D |-> ps[i].deposit]
           g == [i \in D \cup {n} |-> qs[i].deposit]
<1>1. /\ IsSequence(qs) /\ DOMAIN qs = D \cup {n} /\ n \notin D /\ qs[n] = p /\ \A i \in D : qs[i] = ps[i]
  BY Appended
<1>2. \A i \in DOMAIN qs : DOMAIN qs[i] = ProposalFields /\ qs[i].deposit \in Nat
  BY <1>1
<1>3. IsFiniteSet(D) /\ IsFiniteSet(D \cup {n})
  BY BallotNumbers, FS_AddElement
<1>4. (\A i \in D \cup {n} : g[i] \in Int) /\ g[n] = p.deposit /\ \A i \in D : g[i] = f[i]
  BY <1>1, <1>2
<1>5. DOMAIN f = D /\ DOMAIN g = D \cup {n}
  OBVIOUS
<1>6. DepositSum(ps) = SumFunction(f) /\ DepositSum(qs) = SumFunction(g)
  BY <1>1 DEF DepositSum
<1>7. n \notin D
  BY <1>1
<1> HIDE DEF f, g, n, D
<1>8. SumFunctionOnSet(g, D \cup {n}) = g[n] + SumFunctionOnSet(g, D)
  BY <1>3, <1>4, <1>7, SumOneMore
<1>9. SumFunctionOnSet(g, D) = SumFunctionOnSet(f, D)
  BY <1>3, <1>4, SumSameValues
<1>10. SumFunctionOnSet(g, D) \in Int
  BY <1>3, <1>4, SumIsInt
<1> QED
  BY <1>1, <1>2, <1>4, <1>5, <1>6, <1>8, <1>9, <1>10 DEF SumFunction

LEMMA NewProposalHandles ==
  ASSUME NEW st, Purse(st), DepositsOK(st), NEW m, NEW payload, NEW deposit \in Nat,
         NEW t, t = NewProposal(st, m, payload, deposit), t.ok
  PROVE  Handles(t, st) /\ TreasuryUgnot(t) = TreasuryUgnot(st)
<1> DEFINE r == Rules[payload.kind]
           ends == now + r.voting
           p == [payload |-> payload, proposer |-> m, sealed |-> epoch, votingEnds |-> ends,
                 executable |-> ends + r.timelock, expires |-> ends + r.timelock + Param.executionWindow,
                 quorumBps |-> r.quorumBps, thresholdBps |-> r.thresholdBps, deposit |-> deposit,
                 status |-> "active", votes |-> << >>, yes |-> 0, no |-> 0, abstain |-> 0]
           cond == st.held.knownUgnot + deposit <= st.ugnot
           q == Require(st, cond)
           x == q.held.depositUgnot + deposit
           y == q.held.knownUgnot + deposit
           u == [q EXCEPT !.proposals = Append(@, p)]
           v == HeldSet(u, "depositUgnot", x)
<1>1. t = HeldSet(v, "knownUgnot", y)
  BY OpenedByFields
<1>2. DOMAIN p = ProposalFields /\ p.deposit = deposit
  BY DEF ProposalFields
<1> HIDE DEF p
<1>3. /\ DOMAIN q = StoreFields /\ q.members = st.members /\ q.fees = st.fees /\ q.ballots = st.ballots
      /\ q.proposals = st.proposals /\ q.held = st.held /\ q.ugnot = st.ugnot /\ q.pyth = st.pyth /\ (q.ok => cond)
  BY DEF Require, StoreFields, Purse
<1> HIDE DEF q, x, y
<1>4. /\ DOMAIN u = StoreFields /\ u.members = st.members /\ u.fees = st.fees /\ u.ballots = st.ballots
      /\ u.held = st.held /\ u.ugnot = st.ugnot /\ u.pyth = st.pyth /\ u.ok = q.ok
      /\ u.proposals = Append(st.proposals, p)
  BY <1>3 DEF StoreFields
<1> HIDE DEF u
<1>5. /\ DOMAIN v = StoreFields /\ v.members = st.members /\ v.fees = st.fees /\ v.ballots = st.ballots
      /\ v.held = [st.held EXCEPT !.depositUgnot = x] /\ v.ugnot = st.ugnot /\ v.pyth = st.pyth /\ v.ok = q.ok
      /\ v.proposals = Append(st.proposals, p)
  BY <1>4 DEF HeldSet, StoreFields
<1> HIDE DEF v
<1>6. /\ DOMAIN t = StoreFields /\ t.members = st.members /\ t.fees = st.fees /\ t.ballots = st.ballots
      /\ t.held = [v.held EXCEPT !.knownUgnot = y] /\ t.ugnot = st.ugnot /\ t.pyth = st.pyth /\ t.ok = q.ok
      /\ t.proposals = Append(st.proposals, p)
  BY <1>1, <1>5 DEF HeldSet, StoreFields
<1>7. /\ st.held.knownUgnot \in Int /\ st.held.depositUgnot \in Int /\ st.ugnot \in Int
      /\ TreasuryUgnot(st) \in Int /\ DOMAIN st.held = DOMAIN NothingHeld
  BY HeldAreInt DEF Purse
<1>8. x = st.held.depositUgnot + deposit /\ y = st.held.knownUgnot + deposit /\ x \in Int /\ y \in Int
  BY <1>3, <1>7 DEF x, y
<1>9. DepositsHeld(t.held, st.held, y, x)
  BY <1>5, <1>6, <1>7 DEF DepositsHeld, NothingHeld
<1>10. DepositsOK(t)
  <2>1. /\ IsSequence(t.proposals) /\ DepositSum(t.proposals) = DepositSum(st.proposals) + deposit
        /\ \A i \in DOMAIN t.proposals : DOMAIN t.proposals[i] = ProposalFields /\ t.proposals[i].deposit \in Nat
    <3> DEFINE ps == st.proposals
               qs == t.proposals
    <3>1. IsSequence(ps) /\ \A i \in DOMAIN ps : DOMAIN ps[i] = ProposalFields /\ ps[i].deposit \in Nat
      BY DEF DepositsOK
    <3>2. qs = Append(ps, p) /\ DOMAIN p = ProposalFields /\ p.deposit \in Nat /\ p.deposit = deposit
      BY <1>2, <1>6
    <3> HIDE DEF ps, qs
    <3>3. /\ IsSequence(qs) /\ DepositSum(qs) = DepositSum(ps) + p.deposit
          /\ \A i \in DOMAIN qs : DOMAIN qs[i] = ProposalFields /\ qs[i].deposit \in Nat
      BY <3>1, <3>2, DepositsWith
    <3> QED
      BY <3>2, <3>3 DEF ps, qs
  <2>2. st.held.depositUgnot = DepositSum(st.proposals) /\ t.held.depositUgnot = x
    BY <1>9 DEF DepositsOK, DepositsHeld
  <2> QED
    BY <1>8, <2>1, <2>2 DEF DepositsOK
<1>11. Idle(st) >= 0 => y <= t.ugnot
  BY <1>3, <1>6, <1>8
<1>12. /\ Handles(t, st)
       /\ TreasuryUgnot(t) = TreasuryUgnot(st) + (y - st.held.knownUgnot) - (x - st.held.depositUgnot)
  <2>1. /\ DOMAIN t = StoreFields /\ t.members = st.members /\ t.fees = st.fees /\ t.ballots = st.ballots
        /\ t.pyth = st.pyth /\ t.ugnot \in Int /\ x \in Int /\ y \in Int
    BY <1>6, <1>7, <1>8
  <2> HIDE DEF x, y
  <2> QED
    BY ONLY <1>9, <1>10, <1>11, <2>1, Purse(st), BooksHandle
<1>13. TreasuryUgnot(t) = TreasuryUgnot(st)
  BY <1>7, <1>8, <1>12
<1> QED
  BY <1>12, <1>13

-----------------------------------------------------------------------------
(* What is carried. *)

\* t comes of st by what a proposal does; only one about the treasury's coins takes some of them.
Carries(t, st, payload) ==
  /\ Handles(t, st) /\ t.proposals = st.proposals
  /\ \/ TreasuryUgnot(t) = TreasuryUgnot(st)
     \/ payload.kind = "treasury-ugnot" /\ TreasuryUgnot(t) >= 0

LEMMA TreasurySendUgnotCarries ==
  ASSUME NEW st, Sound(st), Purse(st), DepositsOK(st), NEW payload, payload.kind = "treasury-ugnot", NEW amount \in Nat,
         NEW t, t = TreasurySendUgnot(st, amount), t.ok
  PROVE  Carries(t, st, payload)
<1> DEFINE cond == amount > 0 /\ amount <= TreasuryUgnot(st)
           q == Require(st, cond)
<1>1. t = SendUgnot(q, amount)
  BY DEF TreasurySendUgnot
<1>2. Handles(q, st) /\ TreasuryUgnot(q) = TreasuryUgnot(st) /\ q.proposals = st.proposals
  <2> HIDE DEF cond
  <2> QED
    BY RequireHandles
<1>3. Sound(q) /\ (q.ok => cond)
  <2> HIDE DEF cond
  <2> QED
    BY RequireApart DEF Apart, Goes
<1> HIDE DEF q
<1>4. amount <= TreasuryUgnot(st)
  BY <1>1, <1>3, SendUgnotOk
<1>5. amount \in Int /\ TreasuryUgnot(st) \in Int /\ Purse(q) /\ DepositsOK(q)
  BY <1>2, HeldAreInt DEF Handles
<1>6. Handles(t, q) /\ TreasuryUgnot(t) = TreasuryUgnot(q) - amount /\ t.proposals = q.proposals
  BY <1>1, <1>5, SendUgnotHandles
<1>7. Handles(t, st)
  BY <1>2, <1>6, HandlesOn
<1>8. TreasuryUgnot(t) >= 0
  BY <1>2, <1>4, <1>5, <1>6
<1> QED
  BY <1>2, <1>6, <1>7, <1>8 DEF Carries

\* PYTH that backs rewards stays.
LEMMA TreasurySendPythCarries ==
  ASSUME NEW st, Sound(st), Purse(st), DepositsOK(st), NEW payload, NEW m \in Members, NEW amount \in Nat,
         NEW t, t = TreasurySendPyth(st, m, amount), t.ok
  PROVE  Carries(t, st, payload)
<1> DEFINE cond == amount > 0 /\ amount <= TreasuryPythFree(st)
           q == Require(st, cond)
<1>1. t = SendPyth(q, m, amount)
  BY DEF TreasurySendPyth
<1>2. /\ Handles(q, st) /\ TreasuryUgnot(q) = TreasuryUgnot(st) /\ q.proposals = st.proposals
      /\ q.held = st.held /\ q.pyth = st.pyth /\ q.ugnot = st.ugnot /\ q.members = st.members
  <2> HIDE DEF cond
  <2> QED
    BY RequireHandles
<1>3. Sound(q) /\ (q.ok => cond)
  <2> HIDE DEF cond
  <2> QED
    BY RequireApart DEF Apart, Goes
<1> HIDE DEF q
<1>4. /\ q.ok /\ DOMAIN t = StoreFields /\ t.members = q.members /\ t.fees = q.fees /\ t.ballots = q.ballots
      /\ t.proposals = q.proposals /\ t.held = q.held /\ t.pyth = q.pyth - amount
  <2>1. amount \in Int /\ q.wallets \in [Members -> Int] /\ DOMAIN q = StoreFields
    BY <1>3 DEF Sound, Shaped
  <2> QED
    BY <1>1, <2>1, SendPythIs
<1>5. t.ugnot = q.ugnot
  <2>1. DOMAIN q = StoreFields
    BY <1>3 DEF Sound, Shaped
  <2> QED
    BY <1>1, <2>1 DEF SendPyth, Require, StoreFields
<1>6. Purse(q) /\ DepositsOK(q) /\ q.ballots = st.ballots
  BY <1>2 DEF Handles
<1>7. q.pyth \in Int /\ t.pyth \in Int
  BY <1>4, <1>6 DEF Purse
<1>8. Purse(t) /\ DepositsOK(t)
  BY <1>4, <1>5, <1>6, <1>7 DEF Purse, DepositsOK
<1>9. Idle(t) = Idle(st) /\ TreasuryUgnot(t) = TreasuryUgnot(st)
  BY <1>2, <1>4, <1>5 DEF Idle, TreasuryUgnot
<1>10. Short(t) <= 0
  <2> DEFINE free == TreasuryPyth(st)
             owed == st.held.pendingPyth - st.held.rewardPyth
  <2>1. free \in Int /\ owed \in Int
    <3>1. /\ st.held.pendingPyth \in Int /\ st.held.rewardPyth \in Int /\ st.held.stakedPyth \in Int
          /\ st.held.unbondingPyth \in Int /\ st.pyth \in Int
      BY HeldAreInt DEF Purse
    <3> QED
      BY <3>1 DEF TreasuryPyth
  <2>2. TreasuryPythFree(st) = IF free - (IF owed > 0 THEN owed ELSE 0) < 0 THEN 0
                               ELSE free - (IF owed > 0 THEN owed ELSE 0)
    BY DEF TreasuryPythFree, ReservedPyth
  <2>3. amount > 0 /\ amount <= TreasuryPythFree(st)
    BY <1>3, <1>4
  <2>4. Short(t) = owed - (free - amount)
    <3>1. /\ st.held.pendingPyth \in Int /\ st.held.rewardPyth \in Int /\ st.held.stakedPyth \in Int
          /\ st.held.unbondingPyth \in Int /\ st.pyth \in Int /\ t.held = st.held /\ t.pyth = st.pyth - amount
      BY <1>2, <1>4, HeldAreInt DEF Purse
    <3> QED
      BY <3>1 DEF Short, TreasuryPyth
  <2> HIDE DEF free, owed
  <2> QED
    BY <2>1, <2>2, <2>3, <2>4
<1>11. Idle(st) >= 0 => Idle(t) >= 0
  BY <1>9
<1>12. Handles(t, st)
  BY <1>2, <1>4, <1>6, <1>8, <1>10, <1>11 DEF Handles
<1> QED
  BY <1>2, <1>4, <1>9, <1>12 DEF Carries

LEMMA MintedCarries ==
  ASSUME NEW st, Purse(st), DepositsOK(st), NEW payload, NEW m, NEW amount, NEW t, t = Minted(st, m, amount)
  PROVE  Carries(t, st, payload)
<1> DEFINE cond == amount > 0 /\ MintAllowed(st, amount)
           q == Require(st, cond)
<1>1. t = [q EXCEPT !.wallets[m] = @ + amount]
  BY DEF Minted
<1>2. DOMAIN q = StoreFields /\ q.members = st.members /\ q.fees = st.fees /\ q.ballots = st.ballots
      /\ q.proposals = st.proposals /\ q.held = st.held /\ q.ugnot = st.ugnot /\ q.pyth = st.pyth
  BY DEF Require, StoreFields, Purse
<1> HIDE DEF q
<1>3. DOMAIN t = StoreFields /\ t.members = st.members /\ t.fees = st.fees /\ t.ballots = st.ballots
      /\ t.proposals = st.proposals /\ t.held = st.held /\ t.ugnot = st.ugnot /\ t.pyth = st.pyth
  BY <1>1, <1>2 DEF StoreFields
<1>4. DOMAIN t.members = Members /\ \A x \in Members : MemberPurse(t.members[x])
  BY <1>3 DEF Purse
<1>5. Handles(t, st) /\ TreasuryUgnot(t) = TreasuryUgnot(st)
  BY <1>3, <1>4, SameBooksHandle
<1> QED
  BY <1>3, <1>5 DEF Carries

LEMMA VestedCarries ==
  ASSUME NEW st, Purse(st), DepositsOK(st), NEW payload, NEW m \in Members, NEW until, NEW floor,
         NEW t, t = Vested(st, m, until, floor)
  PROVE  Carries(t, st, payload)
<1> DEFINE cond == st.members[m].known
           q == Require(st, cond)
<1>1. t = [q EXCEPT !.members[m].vestedUntil = until, !.members[m].vestFloor = floor]
  BY DEF Vested
<1>2. DOMAIN q = StoreFields /\ q.members = st.members /\ q.fees = st.fees /\ q.ballots = st.ballots
      /\ q.proposals = st.proposals /\ q.held = st.held /\ q.ugnot = st.ugnot /\ q.pyth = st.pyth
  BY DEF Require, StoreFields, Purse
<1> HIDE DEF q
<1>3. DOMAIN q.members = Members /\ \A x \in Members : MemberPurse(q.members[x])
  BY <1>2 DEF Purse
<1>4. /\ DOMAIN t = StoreFields /\ t.fees = st.fees /\ t.ballots = st.ballots
      /\ t.proposals = st.proposals /\ t.held = st.held /\ t.ugnot = st.ugnot /\ t.pyth = st.pyth
      /\ DOMAIN t.members = Members /\ \A x \in Members \ {m} : t.members[x] = q.members[x]
  BY <1>1, <1>2, <1>3 DEF StoreFields
<1>5. t.members[m] = [q.members[m] EXCEPT !.vestedUntil = until, !.vestFloor = floor]
  BY ZenonT(30), <1>1, <1>2, <1>3 DEF StoreFields
<1>6. /\ MemberPurse(t.members[m])
      /\ t.members[m].pendingUgnot = q.members[m].pendingUgnot /\ t.members[m].cursor = q.members[m].cursor
  BY <1>3, <1>5 DEF MemberPurse, NoMember
<1>7. ASSUME NEW x \in Members
      PROVE  /\ MemberPurse(t.members[x])
             /\ t.members[x].pendingUgnot = st.members[x].pendingUgnot /\ t.members[x].cursor = st.members[x].cursor
  <2>1. CASE x = m
    BY <1>2, <1>6, <2>1
  <2>2. CASE x # m
    BY <1>2, <1>3, <1>4, <2>2
  <2> QED
    BY <2>1, <2>2
<1>8. Handles(t, st) /\ TreasuryUgnot(t) = TreasuryUgnot(st)
  BY <1>4, <1>7, SameBooksHandle
<1> QED
  BY <1>4, <1>8 DEF Carries

LEMMA AppliedCarries ==
  ASSUME NEW st, Sound(st), Purse(st), DepositsOK(st), NEW payload, payload \in Payloads, NEW succeeds,
         NEW t, t = Applied(st, payload, succeeds), t.ok
  PROVE  Carries(t, st, payload)
<1> DEFINE m == payload.member
           amount == payload.amount
           kind == payload.kind
           until == payload.until
<1>1. m \in Members /\ amount \in Nat
  BY PayloadsAssumption
<1>2. CASE kind = "treasury-ugnot"
  <2>1. t = TreasurySendUgnot(st, amount)
    BY <1>2 DEF Applied
  <2> HIDE DEF amount
  <2> QED
    BY <1>1, <1>2, <2>1, TreasurySendUgnotCarries
<1>3. CASE kind = "treasury-pyth"
  <2>1. t = TreasurySendPyth(st, m, amount)
    BY <1>3 DEF Applied
  <2> HIDE DEF m, amount
  <2> QED
    BY <1>1, <2>1, TreasurySendPythCarries
<1>4. CASE kind = "mint"
  <2>1. t = Minted(st, m, amount)
    BY <1>4 DEF Applied
  <2> HIDE DEF m, amount
  <2> QED
    BY <1>1, <2>1, MintedCarries
<1>5. CASE kind = "vesting"
  <2>1. t = Vested(st, m, until, amount)
    BY <1>5 DEF Applied
  <2> HIDE DEF m, amount, until
  <2> QED
    BY <1>1, <2>1, VestedCarries
<1>6. CASE kind \notin {"treasury-ugnot", "treasury-pyth", "mint", "vesting"}
  <2>1. t = Require(st, succeeds)
    BY <1>6 DEF Applied
  <2> QED
    BY <2>1, RequireHandles DEF Carries
<1> QED
  BY <1>2, <1>3, <1>4, <1>5, <1>6

\* A proposal that takes coins of the treasury is executed, and was not before.
Drawn(t, st, id) ==
  /\ st.proposals[id].status # "executed" /\ t.proposals[id].status = "executed"
  /\ st.proposals[id].payload.kind = "treasury-ugnot" /\ TreasuryUgnot(t) >= 0

LEMMA ExecutedHandles ==
  ASSUME NEW st, Sound(st), Purse(st), DepositsOK(st), NEW id, id \in DOMAIN st.proposals, NEW succeeds,
         NEW t, t = Executed(st, id, succeeds), t.ok
  PROVE  Handles(t, st) /\ (TreasuryUgnot(t) = TreasuryUgnot(st) \/ Drawn(t, st, id))
<1>1. CASE ~Runs(st, id)
  <2>1. t = st
    BY <1>1 DEF Executed
  <2>2. Short(st) <= Short(st)
    BY HeldAreInt
  <2> QED
    BY <2>1, <2>2 DEF Handles
<1>2. CASE Runs(st, id) /\ now > st.proposals[id].expires
  <2> DEFINE u == SetStatus(st, id, "expired")
  <2>1. t = u
    BY <1>2 DEF Executed
  <2>2. Handles(u, st) /\ TreasuryUgnot(u) = TreasuryUgnot(st)
    BY SetStatusHandles
  <2> QED
    BY <2>1, <2>2
<1>3. CASE Runs(st, id) /\ ~(now > st.proposals[id].expires)
  <2> DEFINE u == SetStatus(st, id, "executed")
             payload == st.proposals[id].payload
  <2>1. t = Applied(u, payload, succeeds)
    BY <1>3 DEF Executed
  <2>2. Amends(u, st) /\ u.proposals[id].status = "executed"
    BY SetStatusAmends
  <2>3. Handles(u, st) /\ TreasuryUgnot(u) = TreasuryUgnot(st)
    BY SetStatusHandles
  <2> HIDE DEF u
  <2>4. payload \in Payloads
    BY SoundShape DEF ProposalsOK
  <2>5. Sound(u) /\ Purse(u) /\ DepositsOK(u)
    BY <2>2, <2>3, AmendsSound DEF Handles
  <2> HIDE DEF payload
  <2>6. Carries(t, u, payload)
    BY <2>1, <2>4, <2>5, AppliedCarries
  <2>7. Handles(t, u) /\ t.proposals = u.proposals
        /\ (TreasuryUgnot(t) = TreasuryUgnot(u) \/ (payload.kind = "treasury-ugnot" /\ TreasuryUgnot(t) >= 0))
    BY <2>6 DEF Carries
  <2>8. Handles(t, st)
    BY <2>3, <2>7, HandlesOn
  <2>9. st.proposals[id].status = "passed" /\ t.proposals[id].status = "executed"
    BY <1>3, <2>2, <2>7 DEF Runs
  <2> QED
    BY <2>3, <2>7, <2>8, <2>9 DEF Drawn, payload
<1> QED
  BY <1>1, <1>2, <1>3

-----------------------------------------------------------------------------
(* Calls about proposals. *)

\* A call that leaves the treasury its coins, or was voted to take some.
HandlesNow ==
  \E t : /\ Handles(t, Store) /\ Commit(t)
         /\ TreasuryUgnot(Store) <= TreasuryUgnot(t) \/ \E id \in DOMAIN Store.proposals : Drawn(t, Store, id)

LEMMA ProposeHandles ==
  ASSUME Purse(Store), DepositsOK(Store), NEW m, NEW payload, NEW sent \in Deposits, Propose(m, payload, sent)
  PROVE  HandlesNow
<1> DEFINE a == Arrived(Store, sent)
           deposit == IF AboveBar(Store, m) THEN 0 ELSE sent
           t == NewProposal(a, m, payload, deposit)
<1>1. Commit(t)
  BY DEF Propose, Arrived
<1>2. sent \in Nat /\ deposit \in Nat
  BY DepositsAssumption
<1>3. Handles(a, Store) /\ TreasuryUgnot(a) = TreasuryUgnot(Store)
  BY <1>2, DepositArrives
<1> HIDE DEF a, deposit
<1>4. Purse(a) /\ DepositsOK(a) /\ t.ok
  BY <1>1, <1>3 DEF Handles, Commit
<1>5. Handles(t, a) /\ TreasuryUgnot(t) = TreasuryUgnot(a)
  BY <1>2, <1>4, NewProposalHandles
<1> HIDE DEF t
<1>6. Handles(t, Store)
  BY <1>3, <1>5, HandlesOn
<1>7. TreasuryUgnot(Store) <= TreasuryUgnot(t)
  BY <1>3, <1>5, HeldAreInt
<1> QED
  BY <1>1, <1>6, <1>7 DEF HandlesNow

LEMMA VoteHandles ==
  ASSUME Purse(Store), DepositsOK(Store), NEW m, NEW id, NEW choice, Vote(m, id, choice)
  PROVE  HandlesNow
<1> DEFINE weight == WeightAt(Store, m, proposals[id].sealed)
           t == ProposalVote(Store, id, m, choice, weight)
<1>1. Commit(t) /\ id \in DOMAIN Store.proposals
  BY StoreIs DEF Vote
<1> HIDE DEF weight
<1>2. Handles(t, Store) /\ TreasuryUgnot(t) = TreasuryUgnot(Store)
  BY <1>1, ProposalVoteHandles
<1> HIDE DEF t
<1>3. TreasuryUgnot(Store) <= TreasuryUgnot(t)
  BY <1>2, HeldAreInt
<1> QED
  BY <1>1, <1>2, <1>3 DEF HandlesNow

LEMMA CancelHandles ==
  ASSUME Purse(Store), DepositsOK(Store), NEW m, NEW id, Cancel(m, id)
  PROVE  HandlesNow
<1> DEFINE f == DepositForfeit(Store, id)
           t == SetStatus(f, id, "canceled")
<1>1. Commit(t) /\ id \in DOMAIN Store.proposals
  BY StoreIs DEF Cancel
<1>2. Handles(f, Store) /\ TreasuryUgnot(f) = TreasuryUgnot(Store) + Store.proposals[id].deposit
      /\ DOMAIN f.proposals = DOMAIN Store.proposals
  BY <1>1, DepositForfeitHandles
<1> HIDE DEF f
<1>3. Purse(f) /\ DepositsOK(f) /\ id \in DOMAIN f.proposals
  BY <1>1, <1>2 DEF Handles
<1>4. Handles(t, f) /\ TreasuryUgnot(t) = TreasuryUgnot(f)
  BY <1>3, SetStatusHandles
<1> HIDE DEF t
<1>5. Handles(t, Store)
  BY <1>2, <1>4, HandlesOn
<1>6. Store.proposals[id].deposit \in Nat
  BY <1>1 DEF DepositsOK
<1>7. TreasuryUgnot(Store) <= TreasuryUgnot(t)
  BY <1>2, <1>4, <1>6, HeldAreInt
<1> QED
  BY <1>1, <1>5, <1>7 DEF HandlesNow

LEMMA ExecuteHandles ==
  ASSUME Sound(Store), Purse(Store), DepositsOK(Store), NEW id, NEW succeeds, Execute(id, succeeds)
  PROVE  HandlesNow
<1> DEFINE u == AfterTally(id)
           t == Executed(u, id, succeeds)
<1>1. Commit(t) /\ id \in DOMAIN Store.proposals /\ t.ok /\ proposals[id].status # "executed"
  BY StoreIs DEF Execute, Commit
<1>2. Amends(u, Store) /\ Handles(u, Store) /\ TreasuryUgnot(Store) <= TreasuryUgnot(u)
  <2>1. CASE proposals[id].status = "active"
    <3>1. u = Tallied(Store, id, proposals[id])
      BY <2>1 DEF AfterTally
    <3> QED
      BY <1>1, <3>1, TalliedAmends, TalliedHandles
  <2>2. CASE proposals[id].status # "active"
    <3>1. u = Store
      BY <2>2 DEF AfterTally
    <3>2. CoinsOnly(Store, Store)
      BY CoinsOnlyItself
    <3>3. Short(Store) <= Short(Store) /\ TreasuryUgnot(Store) <= TreasuryUgnot(Store)
      BY HeldAreInt
    <3>4. Handles(Store, Store)
      BY <3>3 DEF Handles
    <3> QED
      BY <3>1, <3>2, <3>3, <3>4, CoinsAmend
  <2> QED
    BY <2>1, <2>2
<1> HIDE DEF u
<1>3. /\ id \in DOMAIN u.proposals /\ Sound(u) /\ u.proposals[id].payload = Store.proposals[id].payload
      /\ Purse(u) /\ DepositsOK(u)
  BY <1>1, <1>2, AmendsSound DEF Amends, Handles
<1>4. Handles(t, u) /\ (TreasuryUgnot(t) = TreasuryUgnot(u) \/ Drawn(t, u, id))
  BY <1>1, <1>3, ExecutedHandles
<1> HIDE DEF t
<1>5. Handles(t, Store)
  BY <1>2, <1>4, HandlesOn
<1>6. Drawn(t, u, id) => Drawn(t, Store, id)
  BY <1>1, <1>3, StoreIs DEF Drawn
<1>7. TreasuryUgnot(t) = TreasuryUgnot(u) => TreasuryUgnot(Store) <= TreasuryUgnot(t)
  BY <1>2
<1> QED
  BY <1>1, <1>4, <1>5, <1>6, <1>7 DEF HandlesNow

LEMMA ProposalOpsHandle ==
  ASSUME Sound(Store), Purse(Store), DepositsOK(Store), ProposalOps
  PROVE  HandlesNow
<1>1. ASSUME NEW m \in Members, NEW payload \in Payloads, NEW sent \in Deposits, Propose(m, payload, sent)
      PROVE  HandlesNow
  BY <1>1, ProposeHandles
<1>2. ASSUME NEW m \in Members, NEW id \in DOMAIN proposals, Cancel(m, id)
      PROVE  HandlesNow
  BY <1>2, CancelHandles
<1>3. ASSUME NEW m \in Members, NEW id \in DOMAIN proposals, NEW choice \in ProposalChoices, Vote(m, id, choice)
      PROVE  HandlesNow
  BY <1>3, VoteHandles
<1>4. ASSUME NEW id \in DOMAIN proposals, NEW succeeds \in BOOLEAN, Execute(id, succeeds)
      PROVE  HandlesNow
  BY <1>4, ExecuteHandles
<1> QED
  BY <1>1, <1>2, <1>3, <1>4 DEF ProposalOps

-----------------------------------------------------------------------------
(* The invariant. *)

\* What is known of is there, the treasury lacks nothing, and what members are due has arrived.
CoinInv(st) ==
  /\ Purse(st) /\ AllCount(st.ballots) /\ DepositsOK(st)
  /\ Idle(st) >= 0 /\ TreasuryUgnot(st) >= 0 /\ AllDue(st) <= st.held.rewardUgnot

\* A step that keeps it: only a vote takes coins of the treasury, and only settlements may leave
\* the realm short of PYTH.
CoinStep(t, st) ==
  /\ CoinInv(t)
  /\ TreasuryUgnot(st) <= TreasuryUgnot(t) \/ \E id \in DOMAIN st.proposals : Drawn(t, st, id)
  /\ (\A m \in Members : t.members[m].cursor = st.members[m].cursor) => Short(t) <= Short(st) \/ Short(t) <= 0

LEMMA PaysStep ==
  ASSUME NEW st, CoinInv(st), NEW t, Pays(t, st)
  PROVE  CoinStep(t, st)
<1>1. /\ Purse(t) /\ t.ballots = st.ballots /\ t.proposals = st.proposals
      /\ t.held.depositUgnot = st.held.depositUgnot
      /\ Idle(st) >= 0 => Idle(t) >= 0
      /\ TreasuryUgnot(st) <= TreasuryUgnot(t)
      /\ AllDue(t) - t.held.rewardUgnot <= AllDue(st) - st.held.rewardUgnot
      /\ (\A m \in Members : st.members[m].cursor = t.members[m].cursor) => Short(t) = Short(st)
  BY DEF Pays, Banks
<1>2. Purse(st) /\ AllCount(st.ballots) /\ DepositsOK(st) /\ Idle(st) >= 0 /\ TreasuryUgnot(st) >= 0
      /\ AllDue(st) <= st.held.rewardUgnot
  BY DEF CoinInv
<1>3. AllCount(t.ballots) /\ DepositsOK(t)
  BY <1>1, <1>2 DEF DepositsOK
<1>4. /\ st.held.rewardUgnot \in Int /\ t.held.rewardUgnot \in Int /\ AllDue(st) \in Int /\ AllDue(t) \in Int
      /\ TreasuryUgnot(st) \in Int /\ TreasuryUgnot(t) \in Int /\ Short(t) \in Int
  BY <1>1, <1>2, <1>3, HeldAreInt, DueIsNat
<1>5. AllDue(t) <= t.held.rewardUgnot /\ TreasuryUgnot(t) >= 0
  BY <1>1, <1>2, <1>4
<1>6. Short(t) = Short(st) => Short(t) <= Short(st)
  BY <1>4
<1> QED
  BY <1>1, <1>2, <1>3, <1>5, <1>6 DEF CoinStep, CoinInv

LEMMA TalliesStep ==
  ASSUME NEW st, CoinInv(st), NEW t, Tallies(t, st)
  PROVE  CoinStep(t, st)
<1>1. /\ Purse(t) /\ AllCount(t.ballots) /\ t.members = st.members /\ t.proposals = st.proposals
      /\ t.held.depositUgnot = st.held.depositUgnot
      /\ Idle(st) >= 0 => Idle(t) >= 0
      /\ TreasuryUgnot(st) <= TreasuryUgnot(t)
      /\ AllDue(t) - t.held.rewardUgnot <= AllDue(st) - st.held.rewardUgnot
      /\ Short(t) = Short(st)
  BY DEF Tallies
<1>2. Purse(st) /\ AllCount(st.ballots) /\ DepositsOK(st) /\ Idle(st) >= 0 /\ TreasuryUgnot(st) >= 0
      /\ AllDue(st) <= st.held.rewardUgnot
  BY DEF CoinInv
<1>3. DepositsOK(t)
  BY <1>1, <1>2 DEF DepositsOK
<1>4. /\ st.held.rewardUgnot \in Int /\ t.held.rewardUgnot \in Int /\ AllDue(st) \in Int /\ AllDue(t) \in Int
      /\ TreasuryUgnot(st) \in Int /\ TreasuryUgnot(t) \in Int /\ Short(t) \in Int
  BY <1>1, <1>2, HeldAreInt, DueIsNat
<1>5. AllDue(t) <= t.held.rewardUgnot /\ TreasuryUgnot(t) >= 0
  BY <1>1, <1>2, <1>4
<1>6. Short(t) <= Short(st)
  BY <1>1, <1>4
<1> QED
  BY <1>1, <1>2, <1>3, <1>5, <1>6 DEF CoinStep, CoinInv

LEMMA HandlesStep ==
  ASSUME NEW st, CoinInv(st), NEW t, Handles(t, st),
         TreasuryUgnot(st) <= TreasuryUgnot(t) \/ \E id \in DOMAIN st.proposals : Drawn(t, st, id)
  PROVE  CoinStep(t, st)
<1>1. /\ Purse(t) /\ DepositsOK(t) /\ t.ballots = st.ballots /\ t.held.rewardUgnot = st.held.rewardUgnot
      /\ Idle(st) >= 0 => Idle(t) >= 0
      /\ Short(t) <= Short(st) \/ Short(t) <= 0
  BY DEF Handles
<1>2. Purse(st) /\ AllCount(st.ballots) /\ Idle(st) >= 0 /\ TreasuryUgnot(st) >= 0
      /\ AllDue(st) <= st.held.rewardUgnot
  BY DEF CoinInv
<1>3. AllDue(t) = AllDue(st)
  BY SameDue DEF Handles
<1>4. TreasuryUgnot(t) >= 0
  <2>1. CASE TreasuryUgnot(st) <= TreasuryUgnot(t)
    BY <1>1, <1>2, <2>1, HeldAreInt
  <2>2. CASE \E id \in DOMAIN st.proposals : Drawn(t, st, id)
    BY <2>2 DEF Drawn
  <2> QED
    BY <2>1, <2>2
<1>5. AllDue(t) <= t.held.rewardUgnot /\ AllCount(t.ballots)
  BY <1>1, <1>2, <1>3
<1>6. CoinInv(t)
  BY <1>1, <1>2, <1>4, <1>5 DEF CoinInv
<1> QED
  BY <1>1, <1>6 DEF CoinStep

\* Two states with the same books.
LEMMA SameInv ==
  ASSUME NEW st, CoinInv(st), NEW t, DOMAIN t = StoreFields, t.members = st.members, t.fees = st.fees,
         t.ballots = st.ballots, t.proposals = st.proposals, t.held = st.held, t.ugnot = st.ugnot, t.pyth = st.pyth
  PROVE  CoinInv(t) /\ TreasuryUgnot(t) = TreasuryUgnot(st) /\ Short(t) = Short(st)
<1>1. TreasuryUgnot(t) = TreasuryUgnot(st) /\ Short(t) = Short(st) /\ Idle(t) = Idle(st)
  BY DEF TreasuryUgnot, Short, TreasuryPyth, Idle
<1>2. AllDue(t) = AllDue(st)
  BY SameDue
<1>3. Purse(t) /\ DepositsOK(t)
  BY DEF CoinInv, Purse, DepositsOK
<1> QED
  BY <1>1, <1>2, <1>3 DEF CoinInv

\* What a step does to the realm: it keeps the invariant, and the treasury is guarded.
Guarded ==
  /\ CoinInv(Store)'
  /\ TreasuryUgnot(Store)' < TreasuryUgnot(Store)
       => \E id \in DOMAIN proposals : /\ proposals[id].status # "executed" /\ proposals'[id].status = "executed"
                                       /\ proposals[id].payload.kind = "treasury-ugnot"
  /\ (\A m \in Members : members'[m].cursor = members[m].cursor) /\ Uncovered' > 0 => Uncovered' <= Uncovered

LEMMA UncoveredIs == Uncovered = Short(Store)
BY StoreIs DEF Uncovered, Short

LEMMA CoinStepGuards ==
  ASSUME CoinInv(Store), NEW t, CoinStep(t, Store), Commit(t)
  PROVE  Guarded
<1>1. /\ members' = t.members /\ fees' = t.fees /\ ballots' = t.ballots
      /\ proposals' = t.proposals /\ held' = t.held /\ ugnot' = t.ugnot /\ pyth' = t.pyth
  BY DEF Commit
<1> DEFINE next == Store'
<1>2. /\ DOMAIN next = StoreFields /\ next.members = t.members /\ next.fees = t.fees /\ next.ballots = t.ballots
      /\ next.proposals = t.proposals /\ next.held = t.held /\ next.ugnot = t.ugnot /\ next.pyth = t.pyth
  BY <1>1 DEF Store, StoreFields
<1>3. CoinInv(t)
  BY DEF CoinStep
<1> HIDE DEF next
<1>4. CoinInv(next) /\ TreasuryUgnot(next) = TreasuryUgnot(t) /\ Short(next) = Short(t)
  BY <1>2, <1>3, SameInv
<1>5. CoinInv(Store)' /\ TreasuryUgnot(Store)' = TreasuryUgnot(t) /\ Short(Store)' = Short(t)
  BY <1>4 DEF next
<1>6. Uncovered = Short(Store) /\ Uncovered' = Short(t)
  <2>1. (Uncovered = Short(Store))'
    BY UncoveredIs, PTL
  <2> QED
    BY <1>5, <2>1, UncoveredIs
<1>7. TreasuryUgnot(Store) \in Int /\ TreasuryUgnot(t) \in Int /\ Short(Store) \in Int /\ Short(t) \in Int
  BY <1>3, HeldAreInt DEF CoinInv
<1>8. ASSUME TreasuryUgnot(Store)' < TreasuryUgnot(Store)
      PROVE  \E id \in DOMAIN proposals : /\ proposals[id].status # "executed" /\ proposals'[id].status = "executed"
                                          /\ proposals[id].payload.kind = "treasury-ugnot"
  <2>1. ~(TreasuryUgnot(Store) <= TreasuryUgnot(t))
    BY <1>5, <1>7, <1>8
  <2>2. PICK id \in DOMAIN Store.proposals : Drawn(t, Store, id)
    BY <2>1 DEF CoinStep
  <2> QED
    BY <1>1, <2>2, StoreIs DEF Drawn
<1>9. ASSUME \A m \in Members : members'[m].cursor = members[m].cursor, Uncovered' > 0
      PROVE  Uncovered' <= Uncovered
  <2>1. \A m \in Members : t.members[m].cursor = Store.members[m].cursor
    BY <1>1, <1>9, StoreIs
  <2>2. Short(t) <= Short(Store) \/ Short(t) <= 0
    BY <2>1 DEF CoinStep
  <2> QED
    BY <1>6, <1>7, <1>9, <2>2
<1> QED
  BY <1>5, <1>8, <1>9 DEF Guarded

LEMMA IdleGuards ==
  ASSUME CoinInv(Store), UNCHANGED tables
  PROVE  Guarded
<1>1. /\ members' = members /\ power' = power /\ fees' = fees /\ ballots' = ballots /\ proposals' = proposals
      /\ held' = held /\ ugnot' = ugnot /\ pyth' = pyth /\ wallets' = wallets
  BY DEF tables
<1>2. Store' = Store
  BY <1>1 DEF Store
<1>3. CoinInv(Store)' /\ TreasuryUgnot(Store)' = TreasuryUgnot(Store)
  BY <1>2
<1>4. Uncovered' = Uncovered
  BY <1>1, <1>2 DEF Uncovered
<1>5. TreasuryUgnot(Store) \in Int /\ Short(Store) \in Int
  BY HeldAreInt DEF CoinInv
<1>6. ~(TreasuryUgnot(Store)' < TreasuryUgnot(Store)) /\ Uncovered' <= Uncovered
  BY <1>3, <1>4, <1>5, UncoveredIs
<1> QED
  BY <1>3, <1>6 DEF Guarded

LEMMA NextGuards ==
  ASSUME DaoInv, CoinInv(Store), [Next]_vars
  PROVE  Guarded
<1>1. Sound(Store) /\ Agreed(Store, disputes) /\ Purse(Store) /\ AllCount(Store.ballots) /\ DepositsOK(Store)
  BY DEF DaoInv, CoinInv
<1>2. CASE Tick \/ NextEpoch \/ UNCHANGED vars
  <2>1. UNCHANGED tables
    BY <1>2 DEF Tick, NextEpoch, vars
  <2> QED
    BY <2>1, IdleGuards
<1>3. CASE MemberOps
  <2>1. PICK t : Pays(t, Store) /\ Commit(t)
    BY <1>1, <1>3, MemberOpsPay DEF PaysNow
  <2> QED
    BY <2>1, PaysStep, CoinStepGuards
<1>4. CASE VoterOps \/ CoreOps
  <2>1. TalliesNow
    BY <1>1, <1>4, VoterOpsTally, CoreOpsTally
  <2>2. PICK t : Tallies(t, Store) /\ Commit(t)
    BY <2>1 DEF TalliesNow
  <2> QED
    BY <2>2, TalliesStep, CoinStepGuards
<1>5. CASE ProposalOps
  <2>1. PICK t : /\ Handles(t, Store) /\ Commit(t)
                 /\ TreasuryUgnot(Store) <= TreasuryUgnot(t) \/ \E id \in DOMAIN Store.proposals : Drawn(t, Store, id)
    BY <1>1, <1>5, ProposalOpsHandle DEF HandlesNow
  <2>2. CoinStep(t, Store)
    BY <2>1, HandlesStep
  <2> QED
    BY <2>1, <2>2, CoinStepGuards
<1> QED
  BY <1>2, <1>3, <1>4, <1>5 DEF Next

LEMMA InitCoins ==
  ASSUME Init
  PROVE  CoinInv(Store)
<1> DEFINE st == Store
<1>1. /\ members = [m \in Members |-> NoMember] /\ fees = NoFees /\ ballots = << >> /\ proposals = << >>
      /\ held = NothingHeld /\ ugnot = 0 /\ pyth = Treasury
  BY DEF Init, Installed, EmptyStore
<1>2. /\ DOMAIN st = StoreFields /\ st.members = [m \in Members |-> NoMember] /\ st.fees = NoFees
      /\ st.ballots = << >> /\ st.proposals = << >> /\ st.held = NothingHeld /\ st.ugnot = 0 /\ st.pyth = Treasury
  BY <1>1 DEF Store, StoreFields
<1> HIDE DEF st
<1>3. MemberPurse(NoMember)
  BY DEF MemberPurse, NoMember, NoPosition
<1>4. \A f \in DOMAIN NothingHeld : st.held[f] = 0
  BY <1>2 DEF NothingHeld
<1>5. st.fees.accPerShare = 0 /\ st.fees.carry = 0 /\ st.fees.totalShares = 0 /\ DOMAIN st.fees = DOMAIN NoFees
  BY <1>2 DEF NoFees
<1>6. Purse(st)
  <2>1. Treasury \in Int
    BY WalletsAssumption
  <2>2. DOMAIN st.members = Members /\ \A m \in Members : MemberPurse(st.members[m])
    BY <1>2, <1>3
  <2>3. \A f \in DOMAIN NothingHeld : st.held[f] \in Int
    BY <1>4
  <2> QED
    BY <1>2, <1>5, <2>1, <2>2, <2>3 DEF Purse
<1>7. DOMAIN st.ballots = {} /\ IsSequence(st.ballots) /\ DOMAIN st.proposals = {} /\ IsSequence(st.proposals)
  BY <1>2, EmptyIsSequence
<1>8. AllCount(st.ballots)
  BY <1>7 DEF AllCount
<1>9. /\ st.held.knownUgnot = 0 /\ st.held.feeUgnot = 0 /\ st.held.rewardUgnot = 0 /\ st.held.depositUgnot = 0
  BY <1>2 DEF NothingHeld
<1>10. IsFiniteSet({})
  BY FS_EmptySet
<1>11. DepositsOK(st)
  <2> DEFINE f == [id \in DOMAIN st.proposals |-> st.proposals[id].deposit]
  <2>1. DOMAIN f = {}
    BY <1>7
  <2> HIDE DEF f
  <2>2. SumFunction(f) = 0
    BY <2>1, SumNothing
  <2> QED
    BY <1>7, <1>9, <2>2 DEF DepositsOK, DepositSum, f
<1>12. Idle(st) = 0 /\ TreasuryUgnot(st) = 0
  BY <1>2, <1>9 DEF Idle, TreasuryUgnot
<1>13. AllDue(st) = 0
  <2>1. ASSUME NEW m \in Members PROVE Due(st, m) = 0
    <3> DEFINE cursor == st.members[m].cursor
               f == [seq \in DOMAIN st.ballots |-> IF cursor < seq THEN Claim(st.ballots[seq], m) ELSE 0]
    <3>1. DOMAIN f = {}
      BY <1>7
    <3>2. Unsettled(st.ballots, m, cursor) = SumFunction(f)
      BY DEF Unsettled
    <3> HIDE DEF f
    <3>3. SumFunction(f) = 0
      BY <3>1, SumNothing
    <3>4. st.members[m].pendingUgnot = 0
      BY <1>2 DEF NoMember
    <3> QED
      BY <3>2, <3>3, <3>4 DEF Due
  <2> DEFINE g == [m \in Members |-> Due(st, m)]
  <2>2. DOMAIN g = Members /\ \A m \in Members : g[m] = 0
    BY <2>1
  <2> HIDE DEF g
  <2>3. SumFunction(g) = 0
    BY <2>2, MembersAssumption, SumOfNothing
  <2> QED
    BY <2>3 DEF AllDue, g
<1> QED
  BY <1>6, <1>8, <1>9, <1>11, <1>12, <1>13 DEF CoinInv, st

LEMMA AlwaysCoins == Spec => [](DaoInv /\ CoinInv(Store))
<1>1. Init => CoinInv(Store)
  BY InitCoins
<1>2. DaoInv /\ CoinInv(Store) /\ [Next]_vars => CoinInv(Store)'
  BY NextGuards DEF Guarded
<1> QED
  BY <1>1, <1>2, AlwaysSound, PTL DEF Spec

-----------------------------------------------------------------------------
(* What follows. *)

\* The coins of the realm cover what it knows of, and those cover the fees, rewards and deposits
\* it owes; deposits are those of the proposals, and the rewards that members were credited have
\* arrived; and the coherent voters of a ballot get no more than its pool, and than the coins the
\* core sent for it (state.gno:494-635, 770-798, ballots.gno:163-203, tally.gno:341-356).
THEOREM CoinsAlwaysCovered == Spec => []CoinsCovered
<1>1. CoinInv(Store) => CoinsCovered
  <2> SUFFICES ASSUME CoinInv(Store) PROVE CoinsCovered
    OBVIOUS
  <2>1. /\ Purse(Store) /\ AllCount(Store.ballots) /\ DepositsOK(Store) /\ Idle(Store) >= 0
        /\ TreasuryUgnot(Store) >= 0 /\ AllDue(Store) <= Store.held.rewardUgnot
    BY DEF CoinInv
  <2>2. held.knownUgnot <= ugnot
    <3>1. Store.held.knownUgnot \in Int /\ Store.ugnot \in Int
      BY <2>1, HeldAreInt DEF Purse
    <3> QED
      BY <2>1, <3>1, StoreIs DEF Idle
  <2>3. held.depositUgnot = SumFunction([id \in DOMAIN proposals |-> proposals[id].deposit])
    BY <2>1, StoreIs DEF DepositsOK, DepositSum
  <2>4. SumOf("pendingUgnot") <= held.rewardUgnot
    <3> DEFINE f == [m \in Members |-> members[m]["pendingUgnot"]]
               g == [m \in Members |-> Due(Store, m)]
    <3>1. ASSUME NEW m \in Members PROVE f[m] \in Nat /\ g[m] \in Nat /\ f[m] <= g[m]
      <4>1. Store.members[m].pendingUgnot \in Nat
        BY <2>1 DEF Purse, MemberPurse
      <4>2. Unsettled(Store.ballots, m, Store.members[m].cursor) \in Nat
        BY <2>1, UnsettledIsNat
      <4> QED
        BY <4>1, <4>2, StoreIs DEF Due
    <3>2. f \in [Members -> Int] /\ g \in [Members -> Int] /\ f \in [Members -> Nat]
      BY <3>1
    <3>3. \A m \in Members : f[m] <= g[m]
      BY <3>1
    <3>4. SumOf("pendingUgnot") = SumFunction(f) /\ AllDue(Store) = SumFunction(g)
      BY DEF SumOf, AllDue
    <3> HIDE DEF f, g
    <3>5. SumFunction(f) <= SumFunction(g) /\ SumFunction(f) \in Int /\ SumFunction(g) \in Int
      BY <3>2, <3>3, MembersAssumption, SumOrder, SumType
    <3>6. Store.held.rewardUgnot \in Int /\ held = Store.held
      BY <2>1, HeldAreInt, StoreIs
    <3> QED
      BY <2>1, <3>4, <3>5, <3>6
  <2>5. ASSUME NEW seq \in DOMAIN ballots, ballots[seq].phase = "resolved"
        PROVE  /\ Shared(ballots[seq], ballots[seq].expectedPool) <= ballots[seq].expectedPool
               /\ Shared(ballots[seq], ballots[seq].bondShare) <= ballots[seq].bondShare
    <3>1. Counts(ballots[seq])
      BY <2>1, StoreIs DEF AllCount
    <3>2. ballots[seq].expectedPool \in Nat /\ ballots[seq].bondShare \in Nat
      BY <3>1 DEF Counts
    <3> QED
      BY <2>5, <3>1, <3>2, SharedFits
  <2> QED
    BY <2>1, <2>2, <2>3, <2>4, <2>5 DEF CoinsCovered
<1> QED
  BY <1>1, AlwaysCoins, PTL

\* Only a proposal that was carried takes coins of the treasury: claims, refunds, rewards and
\* syncs never do, and nothing but settlements makes the realm unable to pay the rewards it
\* credited (state.gno:526-555, 646-652).
THEOREM TreasuryAlwaysGuarded == Spec => TreasuryGuarded
<1>1. DaoInv /\ CoinInv(Store) /\ [Next]_vars => Guarded
  BY NextGuards
<1>2. Guarded => /\ TreasuryUgnot(Store)' < TreasuryUgnot(Store)
                      => \E id \in DOMAIN proposals :
                           /\ proposals[id].status # "executed" /\ proposals'[id].status = "executed"
                           /\ proposals[id].payload.kind = "treasury-ugnot"
                 /\ (\A m \in Members : members'[m].cursor = members[m].cursor) /\ Uncovered' > 0
                      => Uncovered' <= Uncovered
  BY DEF Guarded
<1> QED
  BY <1>1, <1>2, AlwaysCoins, PTL DEF Spec, TreasuryGuarded

=============================================================================
