-------------------------------- MODULE SetSums --------------------------------
(***************************************************************************)
(* What the proofs use of sums over finite sets (SumFunctionOnSet): a sum  *)
(* does not depend on the order in which its terms are taken, and changes  *)
(* with its set and its terms as expected.                                 *)
(***************************************************************************)
EXTENDS Integers, FiniteSets, FiniteSetsExt, FiniteSetTheorems, TLAPS

(* The fold behind a sum: one function of all the subsets.                 *)
Pick(s) == CHOOSE x \in s : TRUE
TermOf(w, g, s) == IF s = {} THEN 0 ELSE w[Pick(s)] + g[s \ {Pick(s)}]
Partial(w, S) == CHOOSE g : g = [s \in SUBSET S |-> TermOf(w, g, s)]

LEMMA SumIsPartial == \A w, S : SumFunctionOnSet(w, S) = Partial(w, S)[S]
  BY DEF SumFunctionOnSet, FoldFunctionOnSet, MapThenFoldSet, Partial, TermOf, Pick

LEMMA PickIsElement == \A s : s # {} => Pick(s) \in s
  BY DEF Pick

(* Induction on the size of a set, by its least counterexample.            *)
Less == { p \in Nat \X Nat : p[1] < p[2] }

LEMMA SmallestNat ==
    ASSUME NEW B \in SUBSET Nat, B # {}
    PROVE  \E n \in B : \A m \in B : n <= m
  <1>1. IsWellFoundedOn(Less, Nat)
    BY NatLessThanWellFounded DEF OpToRel, Less
  <1>2. PICK n \in B : \A m \in B : << m, n >> \notin Less
    BY <1>1, WFMin
  <1>3. ASSUME NEW m \in B  PROVE n <= m
    <2>1. m \in Nat /\ n \in Nat
      OBVIOUS
    <2>2. << m, n >> \in Nat \X Nat /\ ~ (m < n)
      BY <1>2, <2>1 DEF Less
    <2> QED  BY <2>1, <2>2
  <1> QED  BY <1>3

LEMMA UpTo ==
    ASSUME NEW n \in Nat, NEW G, 0 \in G, \A i \in 1..n : i - 1 \in G => i \in G
    PROVE  0..n \subseteq G /\ n \in G
  <1> DEFINE Bad == (0..n) \ G
  <1> SUFFICES ASSUME Bad # {}  PROVE FALSE
    OBVIOUS
  <1>1. PICK i \in Bad : \A j \in Bad : i <= j
    <2>1. Bad \in SUBSET Nat
      OBVIOUS
    <2> HIDE DEF Bad
    <2> QED  BY <2>1, SmallestNat
  <1>2. i \in 1..n /\ i - 1 \in 0..n /\ ~(i <= i - 1)
    BY <1>1
  <1> QED  BY <1>1, <1>2

LEMMA SmallestSet ==
    ASSUME NEW S, IsFiniteSet(S), NEW Bad \in SUBSET SUBSET S, Bad # {}
    PROVE  \E T \in Bad : \A x \in T : T \ {x} \notin Bad
  <1> DEFINE R == StrictSubsetOrdering(S)
  <1>1. IsWellFoundedOn(R, SUBSET S)
    BY FS_StrictSubsetOrderingWellFounded, FS_FiniteSubsetsOfFinite
  <1>2. PICK T \in Bad : \A U \in Bad : << U, T >> \notin R
    BY <1>1, WFMin
  <1>3. ASSUME NEW x \in T  PROVE << T \ {x}, T >> \in R
    BY <1>3 DEF StrictSubsetOrdering
  <1> QED  BY <1>2, <1>3

-------------------------------------------------------------------------------
(* The fold is defined: a function can be found that obeys its equation for *)
(* all the subsets of up to n elements, whatever n.                        *)

ObeysUpTo(w, S, g, n) == \A s \in SUBSET S : Cardinality(s) <= n => g[s] = TermOf(w, g, s)

LEMMA CardinalityRest ==
    ASSUME NEW S, IsFiniteSet(S), NEW s \in SUBSET S
    PROVE  /\ Cardinality(s) \in Nat /\ (Cardinality(s) = 0 <=> s = {})
           /\ s # {} => /\ Pick(s) \in s /\ s \ {Pick(s)} \in SUBSET S
                        /\ Cardinality(s \ {Pick(s)}) = Cardinality(s) - 1
  <1>1. IsFiniteSet(s)
    BY FS_Subset
  <1> QED  BY <1>1, PickIsElement, FS_CardinalityType, FS_EmptySet, FS_RemoveElement

LEMMA PartialUpTo ==
    ASSUME NEW S, IsFiniteSet(S), NEW w, \A x \in S : w[x] \in Int, NEW n \in Nat
    PROVE  \E g \in [SUBSET S -> Int] : ObeysUpTo(w, S, g, n)
  <1> DEFINE Bad == {m \in Nat : ~ \E g \in [SUBSET S -> Int] : ObeysUpTo(w, S, g, m)}
  <1> SUFFICES ASSUME Bad # {}  PROVE FALSE
    OBVIOUS
  <1>1. PICK m \in Bad : \A k \in Bad : m <= k
    BY SmallestNat
  <1>2. CASE m = 0
    <2> DEFINE g == [s \in SUBSET S |-> 0]
    <2>1. g \in [SUBSET S -> Int]
      OBVIOUS
    <2>2. ASSUME NEW s \in SUBSET S, Cardinality(s) <= 0  PROVE g[s] = TermOf(w, g, s)
      <3>1. Cardinality(s) \in Nat /\ (Cardinality(s) = 0 <=> s = {})
        BY CardinalityRest
      <3>2. s = {}
        BY <2>2, <3>1
      <3> QED  BY <3>2 DEF TermOf
    <2>3. ObeysUpTo(w, S, g, 0)
      BY <2>2 DEF ObeysUpTo
    <2> QED  BY <1>1, <1>2, <2>1, <2>3
  <1>3. CASE m # 0
    <2>1. m \in Nat /\ m - 1 \in Nat /\ m - 1 \notin Bad
      <3> HIDE DEF Bad
      <3>1. Bad \subseteq Nat
        BY DEF Bad
      <3> QED  BY <1>1, <1>3, <3>1
    <2>2. PICK g \in [SUBSET S -> Int] : ObeysUpTo(w, S, g, m - 1)
      BY <2>1
    <2> DEFINE h == [s \in SUBSET S |-> TermOf(w, g, s)]
    <2>3. ASSUME NEW s \in SUBSET S  PROVE TermOf(w, g, s) \in Int
      <3>1. CASE s = {}
        BY <3>1 DEF TermOf
      <3>2. CASE s # {}
        <4>1. Pick(s) \in S /\ s \ {Pick(s)} \in SUBSET S
          BY <3>2, CardinalityRest
        <4>2. w[Pick(s)] \in Int /\ g[s \ {Pick(s)}] \in Int
          BY <4>1
        <4> QED  BY <3>2, <4>2 DEF TermOf
      <3> QED  BY <3>1, <3>2
    <2>4. h \in [SUBSET S -> Int]
      BY <2>3
    <2>5. ASSUME NEW s \in SUBSET S, Cardinality(s) <= m - 1  PROVE h[s] = g[s]
      BY <2>2, <2>5 DEF ObeysUpTo
    <2>6. ASSUME NEW s \in SUBSET S, Cardinality(s) <= m  PROVE h[s] = TermOf(w, h, s)
      <3>1. h[s] = TermOf(w, g, s)
        OBVIOUS
      <3>2. CASE s = {}
        BY <3>1, <3>2 DEF TermOf
      <3>3. CASE s # {}
        <4>1. s \ {Pick(s)} \in SUBSET S /\ Cardinality(s \ {Pick(s)}) <= m - 1
          BY <2>1, <2>6, <3>3, CardinalityRest
        <4>2. h[s \ {Pick(s)}] = g[s \ {Pick(s)}]
          BY <2>5, <4>1
        <4> HIDE DEF h
        <4> QED  BY <3>1, <3>3, <4>2 DEF TermOf
      <3> QED  BY <3>2, <3>3
    <2> HIDE DEF h
    <2>7. ObeysUpTo(w, S, h, m)
      BY <2>6 DEF ObeysUpTo
    <2> QED  BY <1>1, <2>4, <2>7
  <1> QED  BY <1>2, <1>3

LEMMA PartialObeys ==
    ASSUME NEW S, IsFiniteSet(S), NEW w, \A x \in S : w[x] \in Int
    PROVE  Partial(w, S) = [s \in SUBSET S |-> TermOf(w, Partial(w, S), s)]
  <1>1. Cardinality(S) \in Nat
    BY FS_CardinalityType
  <1>2. PICK g \in [SUBSET S -> Int] : ObeysUpTo(w, S, g, Cardinality(S))
    BY <1>1, PartialUpTo
  <1>3. \A s \in SUBSET S : g[s] = TermOf(w, g, s)
    BY <1>2, FS_Subset DEF ObeysUpTo
  <1>4. g = [s \in SUBSET S |-> TermOf(w, g, s)]
    BY <1>3
  <1> QED  BY <1>4 DEF Partial

(* Two solutions agree, also where one is about more terms than the other.  *)
LEMMA PartialsAgree ==
    ASSUME NEW S, IsFiniteSet(S), NEW g, NEW h, NEW w, NEW v, \A x \in S : w[x] = v[x],
           \A s \in SUBSET S : g[s] = TermOf(w, g, s) /\ h[s] = TermOf(v, h, s)
    PROVE  g[S] = h[S]
  <1> DEFINE Bad == {s \in SUBSET S : g[s] # h[s]}
  <1> SUFFICES ASSUME Bad # {}  PROVE FALSE
    OBVIOUS
  <1>1. PICK s \in Bad : \A x \in s : s \ {x} \notin Bad
    BY SmallestSet
  <1>2. s # {}
    BY <1>1 DEF TermOf
  <1>3. Pick(s) \in s /\ s \ {Pick(s)} \in SUBSET S
    BY <1>2, PickIsElement
  <1>4. g[s \ {Pick(s)}] = h[s \ {Pick(s)}] /\ w[Pick(s)] = v[Pick(s)]
    BY <1>1, <1>3
  <1>5. g[s] = TermOf(w, g, s) /\ h[s] = TermOf(v, h, s)
    BY <1>1
  <1> QED  BY <1>1, <1>2, <1>4, <1>5 DEF TermOf

-------------------------------------------------------------------------------
(* The laws of sums                                                        *)

Terms(w, S) == IsFiniteSet(S) /\ \A x \in S : w[x] \in Int
Sum(w, S) == SumFunctionOnSet(w, S)

LEMMA PartialAt ==
    ASSUME NEW S, NEW w, Terms(w, S)
    PROVE  \A s \in SUBSET S : Partial(w, S)[s] = TermOf(w, Partial(w, S), s)
  <1> DEFINE P == Partial(w, S)
  <1>1. P = [s \in SUBSET S |-> TermOf(w, P, s)]
    BY PartialObeys DEF Terms
  <1> HIDE DEF P
  <1>2. ASSUME NEW s \in SUBSET S  PROVE P[s] = TermOf(w, P, s)
    <2> DEFINE f == [u \in SUBSET S |-> TermOf(w, P, u)]
    <2>1. f[s] = TermOf(w, P, s) /\ P = f
      BY <1>1
    <2> HIDE DEF f
    <2> QED  BY <2>1
  <1> QED  BY <1>2 DEF P

LEMMA SumOfPart ==
    ASSUME NEW S, NEW w, Terms(w, S), NEW T \in SUBSET S
    PROVE  Sum(w, T) = Partial(w, S)[T]
  <1>1. IsFiniteSet(S) /\ IsFiniteSet(T) /\ \A x \in S : w[x] \in Int
    BY FS_Subset DEF Terms
  <1>2. \A s \in SUBSET S : Partial(w, S)[s] = TermOf(w, Partial(w, S), s)
    BY PartialAt
  <1>3. \A s \in SUBSET T : Partial(w, T)[s] = TermOf(w, Partial(w, T), s)
    BY <1>1, PartialAt DEF Terms
  <1>4. Partial(w, S)[T] = Partial(w, T)[T]
    BY <1>1, <1>2, <1>3, PartialsAgree
  <1> QED  BY <1>4, SumIsPartial DEF Sum

LEMMA SumEmpty == \A w : Sum(w, {}) = 0
  <1> TAKE w
  <1>1. Terms(w, {})
    BY FS_EmptySet DEF Terms
  <1>2. Partial(w, {})[{}] = TermOf(w, Partial(w, {}), {})
    BY <1>1, PartialAt
  <1> QED  BY <1>2, SumIsPartial DEF TermOf, Sum

LEMMA SumPick ==
    ASSUME NEW S, NEW w, Terms(w, S), NEW T \in SUBSET S, T # {}
    PROVE  Pick(T) \in T /\ Sum(w, T) = w[Pick(T)] + Sum(w, T \ {Pick(T)})
  <1>1. Pick(T) \in T /\ T \ {Pick(T)} \in SUBSET S
    BY PickIsElement
  <1>2. Partial(w, S)[T] = TermOf(w, Partial(w, S), T)
    BY PartialAt
  <1>3. Sum(w, T) = Partial(w, S)[T] /\ Sum(w, T \ {Pick(T)}) = Partial(w, S)[T \ {Pick(T)}]
    BY <1>1, SumOfPart
  <1> QED  BY <1>1, <1>2, <1>3 DEF TermOf

LEMMA SumIsInt ==
    ASSUME NEW S, NEW w, Terms(w, S)
    PROVE  Sum(w, S) \in Int
  <1> DEFINE Bad == {T \in SUBSET S : Sum(w, T) \notin Int}
  <1> SUFFICES ASSUME Bad # {}  PROVE FALSE
    OBVIOUS
  <1>1. PICK T \in Bad : \A x \in T : T \ {x} \notin Bad
    BY SmallestSet DEF Terms
  <1>2. T # {}
    BY <1>1, SumEmpty
  <1>3. Pick(T) \in T /\ Sum(w, T) = w[Pick(T)] + Sum(w, T \ {Pick(T)})
    BY <1>2, SumPick
  <1>4. Sum(w, T \ {Pick(T)}) \in Int /\ w[Pick(T)] \in Int
    BY <1>1, <1>3 DEF Terms
  <1> QED  BY <1>1, <1>3, <1>4

LEMMA PartOfTerms == \A w, S : \A T \in SUBSET S : Terms(w, S) => Terms(w, T)
  BY FS_Subset DEF Terms

(* Any element can be the first.                                           *)
LEMMA SumWithout ==
    ASSUME NEW S, NEW w, Terms(w, S), NEW a \in S
    PROVE  Sum(w, S) = w[a] + Sum(w, S \ {a})
  <1> DEFINE Good(T) == \A x \in T : Sum(w, T) = w[x] + Sum(w, T \ {x})
             Bad == {T \in SUBSET S : ~Good(T)}
  <1> SUFFICES ASSUME Bad # {}  PROVE FALSE
    OBVIOUS
  <1>1. PICK T \in Bad : \A x \in T : T \ {x} \notin Bad
    BY SmallestSet DEF Terms
  <1>2. PICK x \in T : Sum(w, T) # w[x] + Sum(w, T \ {x})
    BY <1>1
  <1> DEFINE y == Pick(T)
             U == T \ {x}
             V == T \ {y}
             W == (T \ {x}) \ {y}
  <1>3. y \in T /\ Sum(w, T) = w[y] + Sum(w, V)
    BY <1>2, SumPick
  <1>4. x # y
    BY <1>2, <1>3
  <1>5. Good(U) /\ Good(V)
    BY <1>1, <1>2, <1>3
  <1>6. W = V \ {x} /\ W = U \ {y} /\ x \in V /\ y \in U
    BY <1>2, <1>3, <1>4
  <1>7. Sum(w, U) = w[y] + Sum(w, W) /\ Sum(w, V) = w[x] + Sum(w, W)
    BY <1>5, <1>6
  <1>8. Sum(w, W) \in Int /\ w[x] \in Int /\ w[y] \in Int
    BY <1>2, <1>3, PartOfTerms, SumIsInt DEF Terms
  <1> HIDE DEF y, U, V, W
  <1>9. Sum(w, T) = w[x] + Sum(w, U)
    BY <1>3, <1>7, <1>8
  <1> QED  BY <1>2, <1>9 DEF U

LEMMA SumWith ==
    ASSUME NEW S, NEW a, a \notin S, NEW w, Terms(w, S \cup {a})
    PROVE  Sum(w, S \cup {a}) = w[a] + Sum(w, S)
  <1>1. (S \cup {a}) \ {a} = S
    OBVIOUS
  <1> QED  BY <1>1, SumWithout

(* A sum depends on its terms only, and grows with them.                   *)
LEMMA SumSame ==
    ASSUME NEW S, NEW w, NEW v, Terms(w, S), \A x \in S : w[x] = v[x]
    PROVE  Sum(w, S) = Sum(v, S)
  <1>1. IsFiniteSet(S) /\ Terms(v, S)
    BY DEF Terms
  <1>2. \A s \in SUBSET S : /\ Partial(w, S)[s] = TermOf(w, Partial(w, S), s)
                            /\ Partial(v, S)[s] = TermOf(v, Partial(v, S), s)
    BY <1>1, PartialAt
  <1>3. Partial(w, S)[S] = Partial(v, S)[S]
    BY <1>1, <1>2, PartialsAgree
  <1> QED  BY <1>3, SumIsPartial DEF Sum

LEMMA SumAtMost ==
    ASSUME NEW S, NEW w, NEW v, Terms(w, S), Terms(v, S), \A x \in S : w[x] <= v[x]
    PROVE  Sum(w, S) <= Sum(v, S)
  <1> DEFINE Bad == {T \in SUBSET S : ~(Sum(w, T) <= Sum(v, T))}
  <1> SUFFICES ASSUME Bad # {}  PROVE FALSE
    OBVIOUS
  <1>1. PICK T \in Bad : \A x \in T : T \ {x} \notin Bad
    BY SmallestSet DEF Terms
  <1>2. T # {}
    BY <1>1, SumEmpty
  <1>3. PICK x \in T : TRUE
    BY <1>2
  <1>4. Terms(w, T) /\ Terms(v, T) /\ Terms(w, T \ {x}) /\ Terms(v, T \ {x})
    BY PartOfTerms
  <1>5. /\ Sum(w, T) = w[x] + Sum(w, T \ {x}) /\ Sum(v, T) = v[x] + Sum(v, T \ {x})
        /\ Sum(w, T \ {x}) \in Int /\ Sum(v, T \ {x}) \in Int
        /\ w[x] \in Int /\ v[x] \in Int /\ w[x] <= v[x]
    BY <1>4, SumWithout, SumIsInt DEF Terms
  <1>6. Sum(w, T \ {x}) <= Sum(v, T \ {x})
    BY <1>1
  <1> QED  BY <1>1, <1>5, <1>6

LEMMA SumIsNat ==
    ASSUME NEW S, IsFiniteSet(S), NEW w, \A x \in S : w[x] \in Nat
    PROVE  Sum(w, S) \in Nat
  <1> DEFINE Bad == {T \in SUBSET S : Sum(w, T) \notin Nat}
  <1> SUFFICES ASSUME Bad # {}  PROVE FALSE
    OBVIOUS
  <1>0. Terms(w, S)
    BY DEF Terms
  <1>1. PICK T \in Bad : \A x \in T : T \ {x} \notin Bad
    BY SmallestSet
  <1>2. T # {}
    BY <1>1, SumEmpty
  <1>3. Pick(T) \in T /\ Sum(w, T) = w[Pick(T)] + Sum(w, T \ {Pick(T)})
    <2>1. T \in SUBSET S
      OBVIOUS
    <2> HIDE DEF Bad
    <2> QED  BY <1>0, <1>2, <2>1, SumPick
  <1>4. Sum(w, T \ {Pick(T)}) \in Nat /\ w[Pick(T)] \in Nat
    BY <1>1, <1>3
  <1> QED  BY <1>1, <1>3, <1>4

LEMMA SumOfMore ==
    ASSUME NEW S, NEW T, NEW w, Terms(w, S), T \subseteq S, \A x \in S \ T : w[x] >= 0
    PROVE  Sum(w, T) <= Sum(w, S)
  <1> DEFINE Bad == {U \in SUBSET S : T \subseteq U /\ ~(Sum(w, T) <= Sum(w, U))}
  <1> SUFFICES ASSUME Bad # {}  PROVE FALSE
    OBVIOUS
  <1>0. Bad \in SUBSET SUBSET S /\ IsFiniteSet(S)
    BY DEF Terms
  <1>1. PICK U \in Bad : \A x \in U : U \ {x} \notin Bad
    <2> HIDE DEF Bad
    <2> QED  BY <1>0, SmallestSet
  <1>2. Sum(w, T) \in Int
    BY PartOfTerms, SumIsInt
  <1>3. U # T
    BY <1>1, <1>2
  <1>4. PICK x \in U : x \notin T
    BY <1>1, <1>3
  <1>5. Sum(w, U) = w[x] + Sum(w, U \ {x}) /\ Sum(w, U \ {x}) \in Int /\ w[x] \in Int /\ w[x] >= 0
    BY <1>4, PartOfTerms, SumWithout, SumIsInt DEF Terms
  <1>6. Sum(w, T) <= Sum(w, U \ {x})
    BY <1>1, <1>4
  <1> QED  BY <1>1, <1>2, <1>5, <1>6

LEMMA SumChangedAt ==
    ASSUME NEW S, NEW a \in S, NEW w, NEW v, Terms(w, S), v[a] \in Int,
           \A x \in S : x # a => v[x] = w[x]
    PROVE  Sum(v, S) = Sum(w, S) - w[a] + v[a]
  <1>1. Terms(v, S) /\ Terms(w, S \ {a}) /\ w[a] \in Int
    BY PartOfTerms DEF Terms
  <1>2. Sum(w, S \ {a}) = Sum(v, S \ {a}) /\ Sum(w, S \ {a}) \in Int
    BY <1>1, SumSame, SumIsInt
  <1>3. Sum(w, S) = w[a] + Sum(w, S \ {a}) /\ Sum(v, S) = v[a] + Sum(v, S \ {a})
    BY <1>1, SumWithout
  <1> QED  BY <1>1, <1>2, <1>3

LEMMA SumOfZeros ==
    ASSUME NEW S, IsFiniteSet(S), NEW w, \A x \in S : w[x] = 0
    PROVE  Sum(w, S) = 0
  <1> DEFINE Bad == {T \in SUBSET S : Sum(w, T) # 0}
  <1> SUFFICES ASSUME Bad # {}  PROVE FALSE
    OBVIOUS
  <1>0. Terms(w, S)
    BY DEF Terms
  <1>1. PICK T \in Bad : \A x \in T : T \ {x} \notin Bad
    BY SmallestSet
  <1>2. T # {}
    BY <1>1, SumEmpty
  <1>3. Pick(T) \in T /\ Sum(w, T) = w[Pick(T)] + Sum(w, T \ {Pick(T)})
    <2>1. T \in SUBSET S
      OBVIOUS
    <2> HIDE DEF Bad
    <2> QED  BY <1>0, <1>2, <2>1, SumPick
  <1>4. Sum(w, T \ {Pick(T)}) = 0 /\ w[Pick(T)] = 0
    BY <1>1, <1>3
  <1> QED  BY <1>1, <1>3, <1>4

LEMMA SumOfOnes ==
    ASSUME NEW S, IsFiniteSet(S), NEW w, \A x \in S : w[x] = 1
    PROVE  Sum(w, S) = Cardinality(S)
  <1> DEFINE Bad == {T \in SUBSET S : Sum(w, T) # Cardinality(T)}
  <1> SUFFICES ASSUME Bad # {}  PROVE FALSE
    OBVIOUS
  <1>0. Terms(w, S)
    BY DEF Terms
  <1>1. PICK T \in Bad : \A x \in T : T \ {x} \notin Bad
    BY SmallestSet
  <1>2. T # {}
    BY <1>1, SumEmpty, FS_EmptySet
  <1>3. Pick(T) \in T /\ Sum(w, T) = w[Pick(T)] + Sum(w, T \ {Pick(T)})
    <2>1. T \in SUBSET S
      OBVIOUS
    <2> HIDE DEF Bad
    <2> QED  BY <1>0, <1>2, <2>1, SumPick
  <1>4. Cardinality(T) \in Nat /\ Cardinality(T \ {Pick(T)}) = Cardinality(T) - 1
    BY <1>2, CardinalityRest
  <1>5. Sum(w, T \ {Pick(T)}) = Cardinality(T \ {Pick(T)}) /\ w[Pick(T)] = 1
    BY <1>1, <1>3
  <1> QED  BY <1>1, <1>3, <1>4, <1>5

(* A sum can be taken group by group.                                      *)
Group(w, S, h, g) == Sum(w, {x \in S : h[x] = g})
Groups(w, S, h, G) == [g \in G |-> Group(w, S, h, g)]

LEMMA SumOfGroups ==
    ASSUME NEW S, NEW w, Terms(w, S), NEW G, IsFiniteSet(G), NEW h, \A x \in S : h[x] \in G
    PROVE  Sum(Groups(w, S, h, G), G) = Sum(w, S)
  <1> DEFINE Bad == {T \in SUBSET S : Sum(Groups(w, T, h, G), G) # Sum(w, T)}
  <1> SUFFICES ASSUME Bad # {}  PROVE FALSE
    OBVIOUS
  <1>0. Bad \in SUBSET SUBSET S /\ IsFiniteSet(S)
    BY DEF Terms
  <1>1. PICK T \in Bad : \A x \in T : T \ {x} \notin Bad
    <2> HIDE DEF Bad
    <2> QED  BY <1>0, SmallestSet
  <1>2. ASSUME NEW U \in SUBSET S, NEW g  PROVE Terms(w, {x \in U : h[x] = g}) /\ Group(w, U, h, g) \in Int
    <2>1. Terms(w, {x \in U : h[x] = g})
      BY PartOfTerms
    <2> QED  BY <2>1, SumIsInt DEF Group
  <1>3. T # {}
    <2> SUFFICES ASSUME T = {}  PROVE FALSE
      OBVIOUS
    <2>1. \A g \in G : Groups(w, T, h, G)[g] = 0
      BY SumEmpty DEF Groups, Group
    <2> QED  BY <1>1, <2>1, SumOfZeros, SumEmpty
  <1>4. PICK x \in T : TRUE
    BY <1>3
  <1> DEFINE U == T \ {x}
             a == h[x]
             v == Groups(w, T, h, G)
             u == Groups(w, U, h, G)
  <1>5. a \in G /\ U \in SUBSET S /\ T \in SUBSET S /\ x \in T
    OBVIOUS
  <1>6. Sum(u, G) = Sum(w, U)
    BY <1>1
  <1>7. v[a] = w[x] + u[a] /\ w[x] \in Int /\ u[a] \in Int
    <2>1. {y \in T : h[y] = a} \ {x} = {y \in U : h[y] = a}
      OBVIOUS
    <2>2. Terms(w, {y \in T : h[y] = a}) /\ x \in {y \in T : h[y] = a}
      BY <1>2
    <2>3. Group(w, T, h, a) = w[x] + Group(w, U, h, a)
      BY <2>1, <2>2, SumWithout DEF Group
    <2> QED  BY <1>2, <2>3 DEF Groups, Terms
  <1>8. ASSUME NEW g \in G, g # a  PROVE v[g] = u[g]
    <2>1. {y \in T : h[y] = g} = {y \in U : h[y] = g}
      BY <1>8
    <2> QED  BY <2>1 DEF Groups, Group
  <1>9. Terms(u, G)
    BY <1>2 DEF Groups, Terms
  <1>10. Sum(v, G) = Sum(u, G) - u[a] + v[a]
    <2>1. v[a] \in Int
      BY <1>7
    <2> HIDE DEF u, v, a
    <2> QED  BY <1>5, <1>8, <1>9, <2>1, SumChangedAt
  <1>11. Sum(w, T) = w[x] + Sum(w, U) /\ Sum(w, U) \in Int
    BY PartOfTerms, SumWithout, SumIsInt
  <1>12. Sum(v, G) = Sum(w, T)
    <2> HIDE DEF u, v, a, U
    <2> QED  BY <1>6, <1>7, <1>10, <1>11
  <1> QED  BY <1>1, <1>12

(* Two sets that have nothing in common.                                   *)
LEMMA SumOfUnion ==
    ASSUME NEW S, NEW T, S \cap T = {}, NEW w, Terms(w, S), Terms(w, T)
    PROVE  Sum(w, S \cup T) = Sum(w, S) + Sum(w, T)
  <1> DEFINE Bad == {U \in SUBSET T : Sum(w, S \cup U) # Sum(w, S) + Sum(w, U)}
  <1> SUFFICES ASSUME Bad # {}  PROVE FALSE
    OBVIOUS
  <1>0. Bad \in SUBSET SUBSET T /\ IsFiniteSet(T) /\ Terms(w, S \cup T)
    BY FS_Union DEF Terms
  <1>1. PICK U \in Bad : \A x \in U : U \ {x} \notin Bad
    <2> HIDE DEF Bad
    <2> QED  BY <1>0, SmallestSet
  <1>2. Sum(w, S) \in Int
    BY SumIsInt
  <1>3. U # {}
    <2> SUFFICES ASSUME U = {}  PROVE FALSE
      OBVIOUS
    <2>1. S \cup U = S /\ Sum(w, U) = 0
      BY SumEmpty
    <2> QED  BY <1>1, <1>2, <2>1
  <1>4. PICK x \in U : TRUE
    BY <1>3
  <1>5. Sum(w, U) = w[x] + Sum(w, U \ {x}) /\ Sum(w, U \ {x}) \in Int /\ w[x] \in Int
    BY <1>4, PartOfTerms, SumWithout, SumIsInt DEF Terms
  <1>6. Sum(w, S \cup U) = w[x] + Sum(w, S \cup (U \ {x}))
    <2>1. (S \cup U) \ {x} = S \cup (U \ {x}) /\ x \in S \cup U
      OBVIOUS
    <2>2. Terms(w, S \cup U)
      BY <1>0, PartOfTerms
    <2> QED  BY <2>1, <2>2, SumWithout
  <1>7. Sum(w, S \cup (U \ {x})) = Sum(w, S) + Sum(w, U \ {x})
    BY <1>1, <1>4
  <1> QED  BY <1>1, <1>2, <1>5, <1>6, <1>7

LEMMA SumIsBounded ==
    ASSUME NEW S, IsFiniteSet(S), NEW k \in Nat, NEW w, \A x \in S : w[x] \in 0..k
    PROVE  Sum(w, S) \in 0..(Cardinality(S) * k)
  <1> DEFINE Bad == {T \in SUBSET S : Sum(w, T) \notin 0..(Cardinality(T) * k)}
  <1> SUFFICES ASSUME Bad # {}  PROVE FALSE
    OBVIOUS
  <1>0. Terms(w, S)
    BY DEF Terms
  <1>1. PICK T \in Bad : \A x \in T : T \ {x} \notin Bad
    BY SmallestSet
  <1>2. T # {}
    BY <1>1, SumEmpty, FS_EmptySet
  <1>3. Pick(T) \in T /\ Sum(w, T) = w[Pick(T)] + Sum(w, T \ {Pick(T)})
    <2>1. T \in SUBSET S
      OBVIOUS
    <2> HIDE DEF Bad
    <2> QED  BY <1>0, <1>2, <2>1, SumPick
  <1>4. Cardinality(T) \in Nat /\ Cardinality(T \ {Pick(T)}) = Cardinality(T) - 1
    BY <1>2, CardinalityRest
  <1>5. Sum(w, T \ {Pick(T)}) \in 0..(Cardinality(T \ {Pick(T)}) * k) /\ w[Pick(T)] \in 0..k
    BY <1>1, <1>3
  <1>6. \A n \in Nat : (n - 1) * k + k = n * k
    OBVIOUS
  <1> QED  BY <1>1, <1>3, <1>4, <1>5, <1>6
===============================================================================
