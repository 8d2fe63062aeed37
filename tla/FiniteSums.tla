----------------------------- MODULE FiniteSums -----------------------------
(***************************************************************************)
(* Facts about finite sets of integers and sums over them, for the proofs  *)
(* about the recorder's running sums, the search cutoff and the parser.    *)
(* Induction over finite sets is the library's theorem that strict         *)
(* inclusion is well founded, applied to the set of subsets for which a    *)
(* claim holds.                                                            *)
(***************************************************************************)
EXTENDS FiniteSetsExt, Functions, FiniteSetTheorems, TLAPS

LEMMA FiniteParts ==
  \A S, P : IsFiniteSet(S) /\ P \subseteq S => IsFiniteSet(P)
BY FS_Subset

(* The values of a function on a finite set.                                *)
LEMMA FiniteImage ==
  ASSUME NEW S, IsFiniteSet(S), NEW f
  PROVE  IsFiniteSet({f[x] : x \in S})
<1> DEFINE T == {f[x] : x \in S}
           g == [x \in S |-> f[x]]
<1>1. g \in Surjection(S, T)
  BY DEF Surjection
<1>2. QED
  BY <1>1, FS_Surjection

(* Some member of a family of subsets has no other member as a subset.      *)
LEMMA MinimalSubset ==
  ASSUME NEW S, IsFiniteSet(S), NEW F \in SUBSET SUBSET S, F # {}
  PROVE  \E A \in F : \A B \in F : B \subseteq A => B = A
<1>1. IsWellFoundedOn(StrictSubsetOrdering(S), SUBSET S)
  BY FS_StrictSubsetOrderingWellFounded, FS_FiniteSubsetsOfFinite
<1>2. \E A \in F : \A B \in F : ~(<<B, A>> \in StrictSubsetOrdering(S))
  BY <1>1, WFMin, Zenon
<1>3. QED
  BY <1>2 DEF StrictSubsetOrdering

(* A family that has each subset of S whose strict subsets it has, has all. *)
LEMMA SetInduction ==
  ASSUME NEW S, IsFiniteSet(S), NEW F \in SUBSET SUBSET S,
         \A A \in SUBSET S : (\A B \in SUBSET A : B # A => B \in F) => A \in F
  PROVE  F = SUBSET S
<1> DEFINE Rest == (SUBSET S) \ F
<1> SUFFICES ASSUME Rest # {} PROVE FALSE
  OBVIOUS
<1>1. PICK A \in Rest : \A B \in Rest : B \subseteq A => B = A
  <2>1. Rest \in SUBSET SUBSET S
    OBVIOUS
  <2> HIDE DEF Rest
  <2>2. QED
    BY <2>1, MinimalSubset
<1>2. \A B \in SUBSET A : B # A => B \in F
  BY <1>1
<1>3. QED
  BY <1>1, <1>2

----------------------------------------------------------------------------
(* Largest and smallest elements. *)

LEMMA MaxIs ==
  ASSUME NEW S \in SUBSET Int, IsFiniteSet(S), S # {}
  PROVE  Max(S) \in S /\ \A x \in S : x <= Max(S)
<1> DEFINE F == {A \in SUBSET S : A = {} \/ \E m \in A : \A x \in A : x <= m}
<1>1. ASSUME NEW A \in SUBSET S, \A B \in SUBSET A : B # A => B \in F
      PROVE  A \in F
  <2>1. CASE A = {}
    BY <2>1
  <2>2. ASSUME NEW y \in A PROVE A \in F
    <3>1. A \ {y} \in F
      BY <1>1
    <3>2. CASE A \ {y} = {}
      BY <3>2
    <3>3. CASE \E m \in A \ {y} : \A x \in A \ {y} : x <= m
      <4>1. PICK m \in A \ {y} : \A x \in A \ {y} : x <= m
        BY <3>3
      <4>2. CASE y <= m
        BY <4>1, <4>2
      <4>3. CASE m <= y
        BY <4>1, <4>3
      <4>4. QED
        BY <4>2, <4>3
    <3>4. QED
      BY <3>1, <3>2, <3>3
  <2>3. QED
    BY <2>1, <2>2
<1>2. F = SUBSET S
  <2> HIDE DEF F
  <2>1. F \in SUBSET SUBSET S
    BY DEF F
  <2>2. QED
    BY <1>1, <2>1, SetInduction
<1>3. S \in F
  BY <1>2
<1>4. QED
  BY <1>3 DEF Max

LEMMA MinIs ==
  ASSUME NEW S \in SUBSET Int, IsFiniteSet(S), S # {}
  PROVE  Min(S) \in S /\ \A x \in S : Min(S) <= x
<1> DEFINE F == {A \in SUBSET S : A = {} \/ \E m \in A : \A x \in A : m <= x}
<1>1. ASSUME NEW A \in SUBSET S, \A B \in SUBSET A : B # A => B \in F
      PROVE  A \in F
  <2>1. CASE A = {}
    BY <2>1
  <2>2. ASSUME NEW y \in A PROVE A \in F
    <3>1. A \ {y} \in F
      BY <1>1
    <3>2. CASE A \ {y} = {}
      BY <3>2
    <3>3. CASE \E m \in A \ {y} : \A x \in A \ {y} : m <= x
      <4>1. PICK m \in A \ {y} : \A x \in A \ {y} : m <= x
        BY <3>3
      <4>2. CASE y <= m
        BY <4>1, <4>2
      <4>3. CASE m <= y
        BY <4>1, <4>3
      <4>4. QED
        BY <4>2, <4>3
    <3>4. QED
      BY <3>1, <3>2, <3>3
  <2>3. QED
    BY <2>1, <2>2
<1>2. F = SUBSET S
  <2> HIDE DEF F
  <2>1. F \in SUBSET SUBSET S
    BY DEF F
  <2>2. QED
    BY <1>1, <2>1, SetInduction
<1>3. S \in F
  BY <1>2
<1>4. QED
  BY <1>3 DEF Min

----------------------------------------------------------------------------
(* SumFunctionOnSet takes the elements in an order of its own; what it      *)
(* computes does not depend on it.                                          *)

AnyOf(s) == CHOOSE x \in s : TRUE

(* g is the recursive function that SumFunctionOnSet(f, S) is made of. *)
Sums(f, S, g) ==
  g = [s \in SUBSET S |-> IF s = {} THEN 0 ELSE f[AnyOf(s)] + g[s \ {AnyOf(s)}]]

LEMMA SumIsChosen ==
  ASSUME NEW f, NEW S
  PROVE  SumFunctionOnSet(f, S) = (CHOOSE g : Sums(f, S, g))[S]
BY DEF SumFunctionOnSet, FoldFunctionOnSet, MapThenFoldSet, Sums, AnyOf

LEMMA SumsAt ==
  ASSUME NEW f, NEW S, NEW g, Sums(f, S, g), NEW s \in SUBSET S
  PROVE  g[s] = IF s = {} THEN 0 ELSE f[AnyOf(s)] + g[s \ {AnyOf(s)}]
BY DEF Sums

LEMMA AnyOfIs ==
  ASSUME NEW s, s # {}
  PROVE  AnyOf(s) \in s
BY DEF AnyOf

LEMMA SumsUnique ==
  ASSUME NEW f, NEW S, IsFiniteSet(S), NEW R, NEW g, Sums(f, S, g), NEW h, Sums(f, R, h)
  PROVE  \A s \in SUBSET S : s \subseteq R => g[s] = h[s]
<1> DEFINE F == {A \in SUBSET S : A \subseteq R => g[A] = h[A]}
<1>1. ASSUME NEW A \in SUBSET S, \A B \in SUBSET A : B # A => B \in F
      PROVE  A \in F
  <2>1. SUFFICES ASSUME A \subseteq R PROVE g[A] = h[A]
    OBVIOUS
  <2>2. CASE A = {}
    BY <2>1, <2>2, SumsAt
  <2>3. CASE A # {}
    <3>1. AnyOf(A) \in A
      BY <2>3, AnyOfIs
    <3>2. g[A \ {AnyOf(A)}] = h[A \ {AnyOf(A)}]
      BY <1>1, <2>1, <3>1
    <3>3. g[A] = f[AnyOf(A)] + g[A \ {AnyOf(A)}]
      BY <2>3, SumsAt
    <3>4. h[A] = f[AnyOf(A)] + h[A \ {AnyOf(A)}]
      BY <2>1, <2>3, SumsAt
    <3>5. QED
      BY <3>2, <3>3, <3>4
  <2>4. QED
    BY <2>2, <2>3
<1>2. F = SUBSET S
  <2> HIDE DEF F
  <2>1. F \in SUBSET SUBSET S
    BY DEF F
  <2>2. QED
    BY <1>1, <2>1, SetInduction
<1>3. QED
  BY <1>2

LEMMA SumsExist ==
  ASSUME NEW f, NEW S, IsFiniteSet(S)
  PROVE  \E g : Sums(f, S, g)
<1> DEFINE F == {A \in SUBSET S : \E g : Sums(f, A, g)}
<1>1. ASSUME NEW A \in SUBSET S, \A B \in SUBSET A : B # A => B \in F
      PROVE  A \in F
  <2> DEFINE G(B) == CHOOSE g : Sums(f, B, g)
             rest == A \ {AnyOf(A)}
             g == [s \in SUBSET A |->
                     IF s # A THEN G(s)[s]
                     ELSE IF s = {} THEN 0 ELSE f[AnyOf(A)] + G(rest)[rest]]
  <2>1. \A B \in SUBSET A : B # A => Sums(f, B, G(B))
    BY <1>1
  <2>2. IsFiniteSet(A)
    BY FS_Subset
  <2> SUFFICES \A s \in SUBSET A :
                  g[s] = IF s = {} THEN 0 ELSE f[AnyOf(s)] + g[s \ {AnyOf(s)}]
    <3> HIDE DEF G, rest
    <3>1. g = [s \in SUBSET A |-> g[s]]
      OBVIOUS
    <3> HIDE DEF g
    <3>2. Sums(f, A, g)
      BY <3>1 DEF Sums
    <3>3. QED
      BY <3>2
  <2> SUFFICES ASSUME NEW s \in SUBSET A
               PROVE  g[s] = IF s = {} THEN 0 ELSE f[AnyOf(s)] + g[s \ {AnyOf(s)}]
    OBVIOUS
  <2>3. CASE s = {}
    <3>1. CASE A = {}
      BY <2>3, <3>1
    <3>2. CASE A # {}
      <4>1. G(s)[s] = 0
        BY <2>1, <2>3, <3>2, SumsAt
      <4>2. QED
        BY <2>3, <3>2, <4>1
    <3>3. QED
      BY <3>1, <3>2
  <2>4. CASE s # {}
    <3> DEFINE less == s \ {AnyOf(s)}
    <3>1. AnyOf(s) \in s /\ less \in SUBSET s /\ less # s /\ less \in SUBSET A /\ less # A
      BY <2>4, AnyOfIs
    <3>2. g[less] = G(less)[less]
      BY <3>1
    <3>3. CASE s = A
      BY <2>4, <3>2, <3>3
    <3>4. CASE s # A
      <4>1. Sums(f, s, G(s)) /\ Sums(f, less, G(less))
        BY <2>1, <3>1, <3>4
      <4>2. IsFiniteSet(s)
        BY <2>2, FS_Subset
      <4>3. G(s)[s] = f[AnyOf(s)] + G(s)[less]
        <5> HIDE DEF G
        <5>1. QED
          BY <2>4, <4>1, SumsAt
      <4>4. G(s)[less] = G(less)[less]
        <5> HIDE DEF G
        <5>1. QED
          BY <3>1, <4>1, <4>2, SumsUnique
      <4>5. g[s] = G(s)[s]
        BY <3>4
      <4>6. QED
        BY <2>4, <3>2, <4>3, <4>4, <4>5
    <3>5. QED
      BY <3>3, <3>4
  <2>5. QED
    BY <2>3, <2>4
<1>2. F = SUBSET S
  <2> HIDE DEF F
  <2>1. F \in SUBSET SUBSET S
    BY DEF F
  <2>2. QED
    BY <1>1, <2>1, SetInduction
<1>3. QED
  BY <1>2

LEMMA SumsOfSubset ==
  ASSUME NEW f, NEW S, IsFiniteSet(S), NEW g, Sums(f, S, g), NEW A \in SUBSET S
  PROVE  SumFunctionOnSet(f, A) = g[A]
<1> DEFINE h == CHOOSE g1 : Sums(f, A, g1)
<1>1. IsFiniteSet(A)
  BY FS_Subset
<1>2. Sums(f, A, h)
  BY <1>1, SumsExist
<1> HIDE DEF h
<1>3. h[A] = g[A]
  <2>1. A \in SUBSET A /\ A \subseteq S
    OBVIOUS
  <2>2. \A s \in SUBSET A : s \subseteq S => h[s] = g[s]
    BY <1>1, <1>2, SumsUnique
  <2>3. QED
    BY <2>1, <2>2
<1>4. QED
  BY <1>3, SumIsChosen DEF h

LEMMA SumOfNone ==
  ASSUME NEW f
  PROVE  SumFunctionOnSet(f, {}) = 0
<1>1. PICK g : Sums(f, {}, g)
  BY FS_EmptySet, SumsExist
<1>2. SumFunctionOnSet(f, {}) = g[{}]
  BY <1>1, FS_EmptySet, SumsOfSubset
<1>3. QED
  BY <1>1, <1>2, SumsAt

LEMMA SumOfSome ==
  ASSUME NEW f, NEW S, IsFiniteSet(S), S # {}
  PROVE  SumFunctionOnSet(f, S) = f[AnyOf(S)] + SumFunctionOnSet(f, S \ {AnyOf(S)})
<1>1. PICK g : Sums(f, S, g)
  BY SumsExist
<1>2. SumFunctionOnSet(f, S) = g[S]
  BY <1>1, SumsOfSubset
<1>3. SumFunctionOnSet(f, S \ {AnyOf(S)}) = g[S \ {AnyOf(S)}]
  BY <1>1, SumsOfSubset
<1>4. QED
  BY <1>1, <1>2, <1>3, SumsAt

(* Sums of integers are integers, and sums of naturals naturals. *)
LEMMA SumIsInt ==
  ASSUME NEW S, IsFiniteSet(S), NEW f, \A x \in S : f[x] \in Int
  PROVE  SumFunctionOnSet(f, S) \in Int
<1> DEFINE F == {A \in SUBSET S : SumFunctionOnSet(f, A) \in Int}
<1>1. ASSUME NEW A \in SUBSET S, \A B \in SUBSET A : B # A => B \in F
      PROVE  A \in F
  <2>1. CASE A = {}
    BY <2>1, SumOfNone
  <2>2. CASE A # {}
    <3>1. AnyOf(A) \in A
      BY <2>2, AnyOfIs
    <3>2. A \ {AnyOf(A)} \in F
      BY <1>1, <3>1
    <3>3. IsFiniteSet(A)
      BY FS_Subset
    <3>4. SumFunctionOnSet(f, A) = f[AnyOf(A)] + SumFunctionOnSet(f, A \ {AnyOf(A)})
      BY <2>2, <3>3, SumOfSome
    <3>5. QED
      BY <3>1, <3>2, <3>4
  <2>3. QED
    BY <2>1, <2>2
<1>2. F = SUBSET S
  <2> HIDE DEF F
  <2>1. F \in SUBSET SUBSET S
    BY DEF F
  <2>2. QED
    BY <1>1, <2>1, SetInduction
<1>3. QED
  BY <1>2

LEMMA SumIsNat ==
  ASSUME NEW S, IsFiniteSet(S), NEW f, \A x \in S : f[x] \in Nat
  PROVE  SumFunctionOnSet(f, S) \in Nat
<1> DEFINE F == {A \in SUBSET S : SumFunctionOnSet(f, A) \in Nat}
<1>1. ASSUME NEW A \in SUBSET S, \A B \in SUBSET A : B # A => B \in F
      PROVE  A \in F
  <2>1. CASE A = {}
    BY <2>1, SumOfNone
  <2>2. CASE A # {}
    <3>1. AnyOf(A) \in A
      BY <2>2, AnyOfIs
    <3>2. A \ {AnyOf(A)} \in F
      BY <1>1, <3>1
    <3>3. IsFiniteSet(A)
      BY FS_Subset
    <3>4. SumFunctionOnSet(f, A) = f[AnyOf(A)] + SumFunctionOnSet(f, A \ {AnyOf(A)})
      BY <2>2, <3>3, SumOfSome
    <3>5. QED
      BY <3>1, <3>2, <3>4
  <2>3. QED
    BY <2>1, <2>2
<1>2. F = SUBSET S
  <2> HIDE DEF F
  <2>1. F \in SUBSET SUBSET S
    BY DEF F
  <2>2. QED
    BY <1>1, <2>1, SetInduction
<1>3. QED
  BY <1>2

(* Any element may be the one taken first. *)
LEMMA SumTakes ==
  ASSUME NEW S, IsFiniteSet(S), NEW f, \A x \in S : f[x] \in Int, NEW y \in S
  PROVE  SumFunctionOnSet(f, S) = f[y] + SumFunctionOnSet(f, S \ {y})
<1> DEFINE sum(A) == SumFunctionOnSet(f, A)
           F == {A \in SUBSET S : \A x \in A : sum(A) = f[x] + sum(A \ {x})}
<1> HIDE DEF sum
<1>0. \A A \in SUBSET S : IsFiniteSet(A) /\ sum(A) \in Int
  BY FS_Subset, SumIsInt DEF sum
<1>1. \A A \in SUBSET S : A # {} => AnyOf(A) \in A /\ sum(A) = f[AnyOf(A)] + sum(A \ {AnyOf(A)})
  BY <1>0, SumOfSome, AnyOfIs DEF sum
<1>2. ASSUME NEW A \in SUBSET S, \A B \in SUBSET A : B # A => B \in F, NEW x \in A
      PROVE  sum(A) = f[x] + sum(A \ {x})
  <2> DEFINE a == AnyOf(A)
  <2>1. a \in A /\ sum(A) = f[a] + sum(A \ {a})
    BY <1>1
  <2> HIDE DEF a
  <2>2. CASE x = a
    BY <2>1, <2>2
  <2>3. CASE x # a
    <3>1. A \ {a} \in F /\ A \ {x} \in F
      BY <1>2, <2>1
    <3>2. x \in A \ {a} /\ a \in A \ {x}
      BY <2>1, <2>3
    <3>3. sum(A \ {a}) = f[x] + sum((A \ {a}) \ {x})
      BY <3>1, <3>2
    <3>4. sum(A \ {x}) = f[a] + sum((A \ {x}) \ {a})
      BY <3>1, <3>2
    <3>5. (A \ {a}) \ {x} = (A \ {x}) \ {a}
      OBVIOUS
    <3>6. f[x] \in Int /\ f[a] \in Int /\ sum((A \ {x}) \ {a}) \in Int
      BY <1>0, <2>1
    <3> DEFINE both == sum((A \ {x}) \ {a})
    <3>7. sum(A \ {a}) = f[x] + both /\ sum(A \ {x}) = f[a] + both /\ both \in Int
      BY <3>3, <3>4, <3>5, <3>6
    <3> HIDE DEF both
    <3>8. QED
      BY <2>1, <3>6, <3>7
  <2>4. QED
    BY <2>2, <2>3
<1>3. F = SUBSET S
  <2>1. \A A \in SUBSET S : (\A B \in SUBSET A : B # A => B \in F) => A \in F
    BY <1>2
  <2> HIDE DEF F
  <2>2. F \in SUBSET SUBSET S
    BY DEF F
  <2>3. QED
    BY <2>1, <2>2, SetInduction
<1>4. QED
  BY <1>3 DEF sum

(* A part of a sum of naturals is not larger. *)
LEMMA SumOfPart ==
  ASSUME NEW S, IsFiniteSet(S), NEW f, \A x \in S : f[x] \in Nat, NEW P \in SUBSET S
  PROVE  SumFunctionOnSet(f, P) <= SumFunctionOnSet(f, S)
<1> DEFINE sum(A) == SumFunctionOnSet(f, A)
           F == {A \in SUBSET S : P \subseteq A => sum(P) <= sum(A)}
<1> HIDE DEF sum
<1>1. \A A \in SUBSET S : sum(A) \in Nat
  BY FS_Subset, SumIsNat DEF sum
<1>2. ASSUME NEW A \in SUBSET S, \A B \in SUBSET A : B # A => B \in F
      PROVE  A \in F
  <2>1. SUFFICES ASSUME P \subseteq A PROVE sum(P) <= sum(A)
    OBVIOUS
  <2>2. CASE A = P
    BY <1>1, <2>2
  <2>3. CASE A # P
    <3>1. PICK x \in A : x \notin P
      BY <2>1, <2>3
    <3>2. sum(P) <= sum(A \ {x})
      BY <1>2, <2>1, <3>1
    <3>3. sum(A) = f[x] + sum(A \ {x})
      <4>1. IsFiniteSet(A)
        BY FS_Subset
      <4>2. \A y \in A : f[y] \in Int
        OBVIOUS
      <4>3. QED
        BY <4>1, <4>2, SumTakes DEF sum
    <3> DEFINE less == A \ {x}
    <3>4. sum(less) \in Nat /\ sum(P) \in Nat /\ f[x] \in Nat
      BY <1>1
    <3>5. sum(P) <= sum(less) /\ sum(A) = f[x] + sum(less)
      BY <3>2, <3>3
    <3> HIDE DEF less
    <3>6. QED
      BY <3>4, <3>5
  <2>4. QED
    BY <2>2, <2>3
<1>3. F = SUBSET S
  <2> HIDE DEF F
  <2>1. F \in SUBSET SUBSET S
    BY DEF F
  <2>2. QED
    BY <1>2, <2>1, SetInduction
<1>4. QED
  BY <1>3 DEF sum

(* The sums of what lies up to each point: each is its own value more than  *)
(* the one before it, and none is less than an earlier one.                 *)
UpTo(D, k) == {j \in D : j <= k}

LEMMA PrefixSums ==
  ASSUME NEW D \in SUBSET Int, IsFiniteSet(D), NEW f, \A x \in D : f[x] \in Nat, NEW k \in D
  PROVE  LET sum(j) == SumFunctionOnSet(f, UpTo(D, j))
             earlier == {j \in D : j < k}
         IN  /\ sum(k) \in Nat
             /\ sum(k) = f[k] + (IF earlier = {} THEN 0 ELSE sum(Max(earlier)))
             /\ \A j \in D : j <= k => sum(j) <= sum(k)
<1> DEFINE sum(j) == SumFunctionOnSet(f, UpTo(D, j))
           earlier == {j \in D : j < k}
<1>0. \A j \in D : j \in Int
  OBVIOUS
<1>1. \A j \in D : IsFiniteSet(UpTo(D, j)) /\ \A x \in UpTo(D, j) : f[x] \in Nat
  BY FiniteParts DEF UpTo
<1>2. sum(k) \in Nat
  BY <1>1, SumIsNat
<1>3. ASSUME NEW j \in D, j <= k PROVE sum(j) <= sum(k)
  <2>1. UpTo(D, j) \in SUBSET UpTo(D, k)
    <3>1. \A x \in D : x <= j => x <= k
      BY <1>0, <1>3
    <3>2. QED
      BY <3>1 DEF UpTo
  <2>2. QED
    BY <1>1, <2>1, SumOfPart
<1>4. sum(k) = f[k] + SumFunctionOnSet(f, earlier)
  <2>1. k \in UpTo(D, k) /\ UpTo(D, k) \ {k} = earlier
    <3>1. k <= k /\ \A x \in D : x < k <=> x <= k /\ x # k
      BY <1>0
    <3>2. QED
      BY <3>1 DEF UpTo
  <2>2. \A x \in UpTo(D, k) : f[x] \in Int
    BY <1>1
  <2>3. SumFunctionOnSet(f, UpTo(D, k)) = f[k] + SumFunctionOnSet(f, UpTo(D, k) \ {k})
    BY <1>1, <2>1, <2>2, SumTakes
  <2>4. QED
    BY <2>1, <2>3
<1>5. SumFunctionOnSet(f, earlier) = IF earlier = {} THEN 0 ELSE sum(Max(earlier))
  <2>1. CASE earlier = {}
    BY <2>1, SumOfNone
  <2>2. CASE earlier # {}
    <3>1. IsFiniteSet(earlier) /\ earlier \in SUBSET Int
      BY FiniteParts
    <3>2. Max(earlier) \in earlier /\ \A j \in earlier : j <= Max(earlier)
      <4> HIDE DEF earlier
      <4>1. QED
        BY <2>2, <3>1, MaxIs
    <3>3. UpTo(D, Max(earlier)) = earlier
      <4> DEFINE m == Max(earlier)
      <4>1. m \in D /\ m < k /\ \A j \in D : j < k => j <= m
        BY <3>2
      <4> HIDE DEF m
      <4>2. UpTo(D, m) = {j \in D : j < k}
        <5>1. \A j \in D : j <= m <=> j < k
          BY <1>0, <4>1
        <5>2. QED
          BY <5>1 DEF UpTo
      <4>3. QED
        BY <4>2 DEF m
    <3>4. QED
      BY <2>2, <3>3
  <2>3. QED
    BY <2>1, <2>2
<1>6. QED
  BY <1>2, <1>3, <1>4, <1>5

(* Induction on the numbers up to N, for a set in place of a predicate.     *)
LEMMA Upward ==
  ASSUME NEW N \in Nat, NEW X, 0 \in X, \A n \in 0..N : n < N /\ n \in X => n + 1 \in X
  PROVE  0..N \subseteq X
<1> DEFINE R == (0..N) \ X
<1> SUFFICES ASSUME R # {} PROVE FALSE
  OBVIOUS
<1>1. R \in SUBSET Int /\ IsFiniteSet(R)
  <2>1. IsFiniteSet(0..N)
    BY FS_Interval
  <2>2. R \subseteq 0..N
    OBVIOUS
  <2>3. R \in SUBSET Int
    BY <2>2
  <2> HIDE DEF R
  <2>4. IsFiniteSet(R)
    BY <2>1, <2>2, FiniteParts
  <2>5. QED
    BY <2>3, <2>4
<1> DEFINE m == Min(R)
<1>2. m \in R /\ \A x \in R : m <= x
  <2> HIDE DEF R
  <2>1. QED
    BY <1>1, MinIs
<1> HIDE DEF m
<1>3. m \in Nat /\ m # 0 /\ m <= N
  BY <1>2
<1>4. m - 1 \in 0..N /\ m - 1 < N /\ m - 1 \notin R
  BY <1>2, <1>3
<1>5. QED
  BY <1>2, <1>3, <1>4
=============================================================================
