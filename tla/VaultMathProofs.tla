---------------------------- MODULE VaultMathProofs ----------------------------
(***************************************************************************)
(* The arithmetic the other proofs stand on: products and rounded          *)
(* quotients, sums over finite sets of indices (SumFunctionOnSet of the    *)
(* community modules), and what the operators of VaultMath return.         *)
(*                                                                         *)
(* The provers cannot instantiate an induction theorem with a predicate,   *)
(* but they can with a set: SubsetInduction takes the collection of the    *)
(* subsets for which a fact holds.                                         *)
(***************************************************************************)
EXTENDS VaultMath, FiniteSetTheorems, TLAPS

-------------------------------------------------------------------------------
(***************************************************************************)
(* Products and quotients.                                                 *)
(***************************************************************************)
\* A quotient by a positive number lies between its numerator's multiples.
LEMMA DivBounds ==
  ASSUME NEW x \in Int, NEW d \in Nat \ {0}
  PROVE  /\ x \div d \in Int
         /\ d * (x \div d) <= x
         /\ x < d * (x \div d) + d
  OBVIOUS

LEMMA DivMonotone ==
  ASSUME NEW x \in Int, NEW y \in Int, x <= y, NEW d \in Nat \ {0}
  PROVE  x \div d <= y \div d
<1>1. x \div d \in Int /\ d * (x \div d) <= x BY DivBounds
<1>2. y \div d \in Int /\ y < d * (y \div d) + d BY DivBounds
<1>3. d * (x \div d) < d * (y \div d + 1) BY <1>1, <1>2
<1>4. SUFFICES ASSUME ~(x \div d <= y \div d) PROVE FALSE OBVIOUS
<1>5. y \div d + 1 <= x \div d BY <1>1, <1>2, <1>4
<1>6. \A a, b \in Int : a <= b => d * a <= d * b OBVIOUS
<1>7. d * (y \div d + 1) <= d * (x \div d) BY <1>1, <1>2, <1>5, <1>6
<1>. QED BY <1>1, <1>2, <1>3, <1>7

LEMMA TimesMonotone ==
  ASSUME NEW a \in Int, NEW b \in Int, a <= b, NEW c \in Nat
  PROVE  a * c <= b * c
OBVIOUS

\* The floor of a quotient is a natural number and is not above it.
LEMMA FloorDivision ==
  ASSUME NEW a \in Nat, NEW d \in Nat \ {0}
  PROVE  a \div d \in Nat /\ (a \div d) * d <= a
OBVIOUS

\* A product of natural numbers is one.
LEMMA ProductIsNat ==
  ASSUME NEW a \in Nat, NEW b \in Nat
  PROVE  a * b \in Nat
OBVIOUS

\* A part of a natural number that is at most the whole.
LEMMA PartBounds ==
  ASSUME NEW x \in Nat, NEW part \in 0 .. BpsDenom
  PROVE  (x * part) \div BpsDenom \in 0 .. x
<1>. BpsDenom \in Nat \ {0} BY ScaleAssumption
<1>1. x * part \in Nat /\ x * part <= x * BpsDenom
  <2>1. part * x <= BpsDenom * x BY TimesMonotone
  <2>. QED BY <2>1
<1>2. (x * part) \div BpsDenom <= (x * BpsDenom) \div BpsDenom BY <1>1, DivMonotone
<1>3. 0 \div BpsDenom <= (x * part) \div BpsDenom BY <1>1, DivMonotone
<1>4. (x * BpsDenom) \div BpsDenom = x /\ 0 \div BpsDenom = 0 OBVIOUS
<1>. QED BY <1>1, <1>2, <1>3, <1>4, DivBounds

-------------------------------------------------------------------------------
(***************************************************************************)
(* Induction over the subsets of a finite set.                             *)
(***************************************************************************)
\* A collection that has a set whenever it has all its proper subsets has every
\* finite set.
LEMMA SubsetInduction ==
  ASSUME NEW S, IsFiniteSet(S), NEW C,
         \A A \in SUBSET S : (\A B \in SUBSET A : B # A => B \in C) => A \in C
  PROVE  SUBSET S \subseteq C
<1>1. IsWellFoundedOn(StrictSubsetOrdering(S), SUBSET S)
  BY FS_FiniteSubsetsOfFinite, FS_StrictSubsetOrderingWellFounded
<1> DEFINE Bad == (SUBSET S) \ C
<1> SUFFICES ASSUME Bad # {}
             PROVE  FALSE
  OBVIOUS
<1>2. Bad \subseteq SUBSET S
  OBVIOUS
<1> HIDE DEF Bad
<1>3. PICK m \in Bad : \A s \in Bad : ~(<<s, m>> \in StrictSubsetOrdering(S))
  BY <1>1, <1>2, WFMin
<1>4. m \in SUBSET S /\ m \notin C
  BY <1>3 DEF Bad
<1>5. ASSUME NEW B \in SUBSET m, B # m
      PROVE  B \in C
  <2>1. <<B, m>> \in StrictSubsetOrdering(S)
    BY <1>4, <1>5 DEF StrictSubsetOrdering
  <2> QED BY <1>3, <1>4, <2>1 DEF Bad
<1> QED BY <1>4, <1>5

\* Induction over an interval, stated of the set C of good numbers.
LEMMA RangeInduction ==
  ASSUME NEW n \in Nat, NEW C, 0 \in C, \A i \in 0 .. n - 1 : i \in C => i + 1 \in C
  PROVE  0 .. n \subseteq C
<1> DEFINE D == 1 .. n
           Good == {A \in SUBSET D : \A k \in 0 .. n : A = 1 .. k => k \in C}
<1>1. ASSUME NEW A \in SUBSET D, \A B \in SUBSET A : B # A => B \in Good
      PROVE  A \in Good
  <2>1. ASSUME NEW k \in 0 .. n, A = 1 .. k
        PROVE  k \in C
    <3>1. CASE k = 0
      BY <3>1
    <3>2. CASE k # 0
      <4>1. k - 1 \in 0 .. n - 1 /\ k - 1 \in 0 .. n /\ (k - 1) + 1 = k
        BY <3>2
      <4>2. 1 .. k - 1 \in SUBSET A /\ k \in A /\ k \notin 1 .. k - 1
        BY <2>1, <3>2
      <4>3. 1 .. k - 1 \in Good
        BY <1>1, <4>2
      <4>4. k - 1 \in C
        BY <4>1, <4>3
      <4> QED BY <4>1, <4>4
    <3> QED BY <3>1, <3>2
  <2> QED BY <2>1
<1>2. IsFiniteSet(D)
  <2>1. 1 \in Int /\ n \in Int
    OBVIOUS
  <2> QED BY <2>1, FS_Interval
<1>3. \A k \in 0 .. n : 1 .. k \in SUBSET D
  OBVIOUS
<1> HIDE DEF D, Good
<1>4. SUBSET D \subseteq Good
  BY <1>1, <1>2, SubsetInduction
<1>5. ASSUME NEW k \in 0 .. n
      PROVE  k \in C
  <2>1. 1 .. k \in Good
    BY <1>3, <1>4
  <2> QED BY <2>1 DEF Good
<1> QED BY <1>5

-------------------------------------------------------------------------------
(***************************************************************************)
(* The recursion a sum is defined by.  A tally of S is a function that     *)
(* gives every subset of S its sum.                                        *)
(***************************************************************************)
Pick(s) == CHOOSE x \in s : TRUE

Tally(f, S, g) ==
  g = [s \in SUBSET S |-> IF s = {} THEN 0 ELSE f[Pick(s)] + g[s \ {Pick(s)}]]

LEMMA SumIsTally ==
  ASSUME NEW f, NEW S
  PROVE  SumFunctionOnSet(f, S) = (CHOOSE g : Tally(f, S, g))[S]
BY DEF SumFunctionOnSet, FoldFunctionOnSet, MapThenFoldSet, Tally, Pick

\* Tallies agree on the sets they share.
LEMMA TalliesAgree ==
  ASSUME NEW f, NEW A, NEW B, NEW g, NEW h, IsFiniteSet(A), B \in SUBSET A,
         Tally(f, A, g), Tally(f, B, h)
  PROVE  g[B] = h[B]
<1> DEFINE Same == {s \in SUBSET B : g[s] = h[s]}
<1>1. ASSUME NEW s \in SUBSET B, \A t \in SUBSET s : t # s => t \in Same
      PROVE  s \in Same
  <2>1. CASE s = {}
    BY <2>1 DEF Tally
  <2>2. CASE s # {}
    <3>1. Pick(s) \in s
      BY <2>2 DEF Pick
    <3>2. g[s \ {Pick(s)}] = h[s \ {Pick(s)}]
      BY <1>1, <3>1
    <3>3. /\ g[s] = f[Pick(s)] + g[s \ {Pick(s)}]
          /\ h[s] = f[Pick(s)] + h[s \ {Pick(s)}]
      BY <2>2 DEF Tally
    <3> QED BY <3>2, <3>3
  <2> QED BY <2>1, <2>2
<1>2. IsFiniteSet(B)
  BY FS_Subset
<1> HIDE DEF Same
<1>3. SUBSET B \subseteq Same
  BY <1>1, <1>2, SubsetInduction
<1> QED BY <1>3 DEF Same

\* Every finite set has a tally: it takes from the tally of each proper subset the
\* sum of that subset.
LEMMA TallyExists ==
  ASSUME NEW f, NEW S, IsFiniteSet(S)
  PROVE  \E g : Tally(f, S, g)
<1> DEFINE H(A) == CHOOSE g : Tally(f, A, g)
           Tallied == {A \in SUBSET S : Tally(f, A, H(A))}
<1>1. ASSUME NEW A \in SUBSET S, \A B \in SUBSET A : B # A => B \in Tallied
      PROVE  A \in Tallied
  <2> DEFINE g == [s \in SUBSET A |->
                     IF s = {} THEN 0 ELSE f[Pick(s)] + H(s \ {Pick(s)})[s \ {Pick(s)}]]
  <2>1. ASSUME NEW B \in SUBSET A, B # A
        PROVE  Tally(f, B, H(B)) /\ IsFiniteSet(B)
    BY <1>1, <2>1, FS_Subset
  <2> HIDE DEF H
  <2>2. ASSUME NEW B \in SUBSET A, B # A
        PROVE  g[B] = H(B)[B]
    <3>1. CASE B = {}
      <4>1. Tally(f, B, H(B)) /\ g[B] = 0
        BY <2>1, <2>2, <3>1
      <4> QED BY <3>1, <4>1 DEF Tally
    <3>2. CASE B # {}
      <4> DEFINE D == B \ {Pick(B)}
      <4>1. Pick(B) \in B
        BY <3>2 DEF Pick
      <4>2. D \in SUBSET A /\ D # A /\ D \in SUBSET B
        BY <2>2, <4>1
      <4>3. H(B)[D] = H(D)[D]
        BY <2>1, <2>2, <4>2, TalliesAgree
      <4>4. H(B)[B] = f[Pick(B)] + H(B)[D]
        BY <2>1, <2>2, <3>2 DEF Tally
      <4>5. g[B] = f[Pick(B)] + H(D)[D]
        BY <3>2
      <4> QED BY <4>3, <4>4, <4>5
    <3> QED BY <3>1, <3>2
  <2>3. ASSUME NEW s \in SUBSET A, s # {}
        PROVE  H(s \ {Pick(s)})[s \ {Pick(s)}] = g[s \ {Pick(s)}]
    <3>1. Pick(s) \in s
      BY <2>3 DEF Pick
    <3>2. s \ {Pick(s)} \in SUBSET A /\ s \ {Pick(s)} # A
      BY <3>1
    <3> QED BY <2>2, <3>2
  <2>4. Tally(f, A, g)
    BY <2>3, Zenon DEF Tally
  <2> QED BY <2>4 DEF H
<1> HIDE DEF Tallied
<1>2. SUBSET S \subseteq Tallied
  BY <1>1, SubsetInduction
<1> QED BY <1>2 DEF Tallied

LEMMA SumStep ==
  ASSUME NEW f, NEW S, IsFiniteSet(S)
  PROVE  SumFunctionOnSet(f, S) =
           IF S = {} THEN 0 ELSE f[Pick(S)] + SumFunctionOnSet(f, S \ {Pick(S)})
<1> DEFINE H(A) == CHOOSE g : Tally(f, A, g)
           R == S \ {Pick(S)}
<1>1. Tally(f, S, H(S))
  BY TallyExists
<1>2. IsFiniteSet(R)
  BY FS_RemoveElement
<1>3. Tally(f, R, H(R))
  BY <1>2, TallyExists
<1>4. SumFunctionOnSet(f, S) = H(S)[S] /\ SumFunctionOnSet(f, R) = H(R)[R]
  BY SumIsTally
<1> HIDE DEF H
<1>5. H(S)[R] = H(R)[R]
  BY <1>1, <1>3, TalliesAgree
<1>6. H(S)[S] = IF S = {} THEN 0 ELSE f[Pick(S)] + H(S)[R]
  BY <1>1 DEF Tally
<1> QED BY <1>4, <1>5, <1>6

-------------------------------------------------------------------------------
(***************************************************************************)
(* What sums are.                                                          *)
(***************************************************************************)
\* The sum over no index.
LEMMA SumEmpty ==
  ASSUME NEW f
  PROVE  SumFunctionOnSet(f, {}) = 0
BY SumStep, FS_EmptySet

\* A sum of integers is an integer.
LEMMA SumIsInt ==
  ASSUME NEW f, NEW S, IsFiniteSet(S), \A x \in S : f[x] \in Int
  PROVE  SumFunctionOnSet(f, S) \in Int
<1> DEFINE Good == {A \in SUBSET S : SumFunctionOnSet(f, A) \in Int}
<1>1. ASSUME NEW A \in SUBSET S, \A B \in SUBSET A : B # A => B \in Good
      PROVE  A \in Good
  <2>1. IsFiniteSet(A)
    BY FS_Subset
  <2>2. CASE A = {}
    BY <2>2, SumEmpty
  <2>3. CASE A # {}
    <3>1. Pick(A) \in A
      BY <2>3 DEF Pick
    <3>2. SumFunctionOnSet(f, A \ {Pick(A)}) \in Int
      BY <1>1, <3>1
    <3>3. SumFunctionOnSet(f, A) = f[Pick(A)] + SumFunctionOnSet(f, A \ {Pick(A)})
      BY <2>1, <2>3, SumStep
    <3> QED BY <3>1, <3>2, <3>3
  <2> QED BY <2>2, <2>3
<1> HIDE DEF Good
<1>2. SUBSET S \subseteq Good
  BY <1>1, SubsetInduction
<1> QED BY <1>2 DEF Good

\* Any term may be taken out of a sum, whichever the definition takes first.
LEMMA SumRemove ==
  ASSUME NEW f, NEW S, IsFiniteSet(S), \A x \in S : f[x] \in Int, NEW x \in S
  PROVE  SumFunctionOnSet(f, S) = f[x] + SumFunctionOnSet(f, S \ {x})
<1> DEFINE Removes(A) ==
             \A y \in A : SumFunctionOnSet(f, A) = f[y] + SumFunctionOnSet(f, A \ {y})
           Good == {A \in SUBSET S : Removes(A)}
<1>1. ASSUME NEW A \in SUBSET S, \A B \in SUBSET A : B # A => B \in Good,
             NEW y \in A
      PROVE  SumFunctionOnSet(f, A) = f[y] + SumFunctionOnSet(f, A \ {y})
  <2> DEFINE c == Pick(A)
             rest == SumFunctionOnSet(f, (A \ {c}) \ {y})
  <2>1. IsFiniteSet(A) /\ c \in A
    BY FS_Subset DEF Pick
  <2>2. SumFunctionOnSet(f, A) = f[c] + SumFunctionOnSet(f, A \ {c})
    BY <2>1, SumStep
  <2>3. CASE c = y
    BY <2>2, <2>3
  <2>4. CASE c # y
    <3>1. Removes(A \ {c}) /\ Removes(A \ {y})
      BY <1>1, <2>1
    <3>2. (A \ {c}) \ {y} = (A \ {y}) \ {c} /\ (A \ {c}) \ {y} \in SUBSET S
      BY <2>1
    <3> HIDE DEF c
    <3>3. /\ SumFunctionOnSet(f, A \ {c}) = f[y] + rest
          /\ SumFunctionOnSet(f, A \ {y}) = f[c] + rest
      BY <2>1, <2>4, <3>1, <3>2
    <3>4. rest \in Int /\ f[y] \in Int /\ f[c] \in Int
      BY <2>1, <3>2, FS_Subset, SumIsInt
    <3> HIDE DEF rest
    <3> QED BY <2>2, <3>3, <3>4
  <2> QED BY <2>3, <2>4
<1>2. \A A \in SUBSET S : (\A B \in SUBSET A : B # A => B \in Good) => A \in Good
  BY <1>1
<1> HIDE DEF Good
<1>3. SUBSET S \subseteq Good
  BY <1>2, SubsetInduction
<1> QED BY <1>3 DEF Good

\* Sums of the same terms are equal.
LEMMA SumSame ==
  ASSUME NEW f, NEW g, NEW S, IsFiniteSet(S), \A x \in S : f[x] = g[x]
  PROVE  SumFunctionOnSet(f, S) = SumFunctionOnSet(g, S)
<1> DEFINE Good == {A \in SUBSET S : SumFunctionOnSet(f, A) = SumFunctionOnSet(g, A)}
<1>1. ASSUME NEW A \in SUBSET S, \A B \in SUBSET A : B # A => B \in Good
      PROVE  A \in Good
  <2>1. IsFiniteSet(A)
    BY FS_Subset
  <2>2. CASE A = {}
    BY <2>2, SumEmpty
  <2>3. CASE A # {}
    <3>1. Pick(A) \in A
      BY <2>3 DEF Pick
    <3>2. A \ {Pick(A)} \in Good
      BY <1>1, <3>1
    <3>3. /\ SumFunctionOnSet(f, A) = f[Pick(A)] + SumFunctionOnSet(f, A \ {Pick(A)})
          /\ SumFunctionOnSet(g, A) = g[Pick(A)] + SumFunctionOnSet(g, A \ {Pick(A)})
      BY <2>1, <2>3, SumStep
    <3> QED BY <3>1, <3>2, <3>3
  <2> QED BY <2>2, <2>3
<1> HIDE DEF Good
<1>2. SUBSET S \subseteq Good
  BY <1>1, SubsetInduction
<1> QED BY <1>2 DEF Good

\* One term changes, and the sum by as much.
LEMMA SumUpdate ==
  ASSUME NEW f, NEW g, NEW S, IsFiniteSet(S), NEW x \in S,
         \A y \in S : f[y] \in Int, g[x] \in Int, \A y \in S \ {x} : g[y] = f[y]
  PROVE  SumFunctionOnSet(g, S) = SumFunctionOnSet(f, S) - f[x] + g[x]
<1> DEFINE rest == SumFunctionOnSet(f, S \ {x})
<1>1. IsFiniteSet(S \ {x})
  BY FS_Subset
<1>2. rest \in Int
  BY <1>1, SumIsInt
<1>3. SumFunctionOnSet(g, S \ {x}) = rest
  BY <1>1, SumSame
<1>4. SumFunctionOnSet(f, S) = f[x] + rest
  BY SumRemove
<1>5. \A y \in S : g[y] \in Int
  OBVIOUS
<1>6. SumFunctionOnSet(g, S) = g[x] + rest
  BY <1>3, <1>5, SumRemove
<1> HIDE DEF rest
<1> QED BY <1>2, <1>4, <1>6

\* The sum of sums of terms.
LEMMA SumPlus ==
  ASSUME NEW f, NEW g, NEW h, NEW S, IsFiniteSet(S),
         \A x \in S : f[x] \in Int /\ g[x] \in Int /\ h[x] = f[x] + g[x]
  PROVE  SumFunctionOnSet(h, S) = SumFunctionOnSet(f, S) + SumFunctionOnSet(g, S)
<1> DEFINE Adds(A) ==
             SumFunctionOnSet(h, A) = SumFunctionOnSet(f, A) + SumFunctionOnSet(g, A)
           Good == {A \in SUBSET S : Adds(A)}
<1>1. ASSUME NEW A \in SUBSET S, \A B \in SUBSET A : B # A => B \in Good
      PROVE  Adds(A)
  <2>1. IsFiniteSet(A)
    BY FS_Subset
  <2>2. CASE A = {}
    BY <2>2, SumEmpty
  <2>3. CASE A # {}
    <3> DEFINE p == Pick(A)
               R == A \ {p}
    <3>1. p \in A
      BY <2>3 DEF Pick
    <3>2. Adds(R) /\ IsFiniteSet(R) /\ R \in SUBSET S
      BY <1>1, <2>1, <3>1, FS_Subset
    <3>3. /\ SumFunctionOnSet(f, A) = f[p] + SumFunctionOnSet(f, R)
          /\ SumFunctionOnSet(g, A) = g[p] + SumFunctionOnSet(g, R)
          /\ SumFunctionOnSet(h, A) = h[p] + SumFunctionOnSet(h, R)
      BY <2>1, <2>3, SumStep
    <3>4. SumFunctionOnSet(f, R) \in Int /\ SumFunctionOnSet(g, R) \in Int
      BY <3>2, SumIsInt
    <3> HIDE DEF p, R
    <3>5. f[p] \in Int /\ g[p] \in Int /\ h[p] = f[p] + g[p]
      BY <3>1
    <3> QED BY <3>2, <3>3, <3>4, <3>5
  <2> QED BY <2>2, <2>3
<1>2. \A A \in SUBSET S : (\A B \in SUBSET A : B # A => B \in Good) => A \in Good
  BY <1>1
<1> HIDE DEF Good
<1>3. SUBSET S \subseteq Good
  BY <1>2, SubsetInduction
<1> QED BY <1>3 DEF Good

\* A sum of larger terms is larger.
LEMMA SumMonotone ==
  ASSUME NEW f, NEW g, NEW S, IsFiniteSet(S),
         \A x \in S : f[x] \in Int /\ g[x] \in Int /\ f[x] <= g[x]
  PROVE  SumFunctionOnSet(f, S) <= SumFunctionOnSet(g, S)
<1> DEFINE Grows(A) == SumFunctionOnSet(f, A) <= SumFunctionOnSet(g, A)
           Good == {A \in SUBSET S : Grows(A)}
<1>1. ASSUME NEW A \in SUBSET S, \A B \in SUBSET A : B # A => B \in Good
      PROVE  Grows(A)
  <2>1. IsFiniteSet(A)
    BY FS_Subset
  <2>2. CASE A = {}
    BY <2>2, SumEmpty
  <2>3. CASE A # {}
    <3> DEFINE p == Pick(A)
               R == A \ {p}
    <3>1. p \in A
      BY <2>3 DEF Pick
    <3>2. Grows(R) /\ IsFiniteSet(R) /\ R \in SUBSET S
      BY <1>1, <2>1, <3>1, FS_Subset
    <3>3. /\ SumFunctionOnSet(f, A) = f[p] + SumFunctionOnSet(f, R)
          /\ SumFunctionOnSet(g, A) = g[p] + SumFunctionOnSet(g, R)
      BY <2>1, <2>3, SumStep
    <3>4. SumFunctionOnSet(f, R) \in Int /\ SumFunctionOnSet(g, R) \in Int
      BY <3>2, SumIsInt
    <3> HIDE DEF p, R
    <3>5. f[p] \in Int /\ g[p] \in Int /\ f[p] <= g[p]
      BY <3>1
    <3> QED BY <3>2, <3>3, <3>4, <3>5
  <2> QED BY <2>2, <2>3
<1>2. \A A \in SUBSET S : (\A B \in SUBSET A : B # A => B \in Good) => A \in Good
  BY <1>1
<1> HIDE DEF Good
<1>3. SUBSET S \subseteq Good
  BY <1>2, SubsetInduction
<1> QED BY <1>3 DEF Good

\* Terms that are zero add nothing.
LEMMA SumZero ==
  ASSUME NEW f, NEW S, IsFiniteSet(S), \A x \in S : f[x] = 0
  PROVE  SumFunctionOnSet(f, S) = 0
<1> DEFINE s == SumFunctionOnSet(f, S)
<1>1. \A x \in S : f[x] \in Int /\ f[x] = f[x] + f[x]
  OBVIOUS
<1>2. s \in Int
  BY <1>1, SumIsInt
<1>3. s = s + s
  BY <1>1, SumPlus
<1> HIDE DEF s
<1>4. s = 0
  BY <1>2, <1>3
<1> QED BY <1>4 DEF s

\* A sum of natural numbers is one, and none of its terms is above it.
LEMMA SumOfNat ==
  ASSUME NEW f, NEW S, IsFiniteSet(S), \A x \in S : f[x] \in Nat
  PROVE  /\ SumFunctionOnSet(f, S) \in Nat
         /\ \A x \in S : f[x] <= SumFunctionOnSet(f, S)
<1> DEFINE none == [x \in S |-> 0]
<1>1. ASSUME NEW A \in SUBSET S
      PROVE  SumFunctionOnSet(f, A) \in Nat
  <2>1. IsFiniteSet(A)
    BY FS_Subset
  <2>2. SumFunctionOnSet(none, A) = 0
    BY <2>1, SumZero
  <2>3. SumFunctionOnSet(none, A) <= SumFunctionOnSet(f, A)
    BY <2>1, SumMonotone
  <2>4. SumFunctionOnSet(f, A) \in Int
    BY <2>1, SumIsInt
  <2> QED BY <2>2, <2>3, <2>4
<1>2. ASSUME NEW x \in S
      PROVE  f[x] <= SumFunctionOnSet(f, S)
  <2>1. SumFunctionOnSet(f, S) = f[x] + SumFunctionOnSet(f, S \ {x})
    BY SumRemove
  <2>2. SumFunctionOnSet(f, S \ {x}) \in Nat
    BY <1>1
  <2> QED BY <2>1, <2>2
<1> QED BY <1>1, <1>2

\* A sum over fewer indices is that over all, when the terms left out are zero.
LEMMA SumSupport ==
  ASSUME NEW f, NEW S, IsFiniteSet(S), NEW T \in SUBSET S,
         \A x \in S : f[x] \in Int, \A x \in S \ T : f[x] = 0
  PROVE  SumFunctionOnSet(f, S) = SumFunctionOnSet(f, T)
<1> DEFINE Keeps(A) == T \subseteq A => SumFunctionOnSet(f, A) = SumFunctionOnSet(f, T)
           Good == {A \in SUBSET S : Keeps(A)}
<1>1. ASSUME NEW A \in SUBSET S, \A B \in SUBSET A : B # A => B \in Good
      PROVE  Keeps(A)
  <2>1. CASE A \ T = {}
    <3>1. T \subseteq A => A = T
      BY <2>1
    <3> QED BY <3>1
  <2>2. CASE A \ T # {}
    <3>1. PICK x \in A : x \notin T
      BY <2>2
    <3>2. IsFiniteSet(A) /\ IsFiniteSet(A \ {x})
      BY FS_Subset
    <3>3. SumFunctionOnSet(f, A) = f[x] + SumFunctionOnSet(f, A \ {x})
      BY <3>2, SumRemove
    <3>4. SumFunctionOnSet(f, A \ {x}) \in Int /\ f[x] = 0
      BY <3>1, <3>2, SumIsInt
    <3>5. Keeps(A \ {x})
      BY <1>1
    <3> QED BY <3>1, <3>3, <3>4, <3>5
  <2> QED BY <2>1, <2>2
<1>2. \A A \in SUBSET S : (\A B \in SUBSET A : B # A => B \in Good) => A \in Good
  BY <1>1
<1> HIDE DEF Good
<1>3. SUBSET S \subseteq Good
  BY <1>2, SubsetInduction
<1> QED BY <1>3 DEF Good

\* A part of a sum of natural numbers is not above the whole.
LEMMA SumOfPart ==
  ASSUME NEW f, NEW S, IsFiniteSet(S), NEW T \in SUBSET S, \A x \in S : f[x] \in Nat
  PROVE  SumFunctionOnSet(f, T) \in Nat /\ SumFunctionOnSet(f, T) <= SumFunctionOnSet(f, S)
<1> DEFINE g == [x \in S |-> IF x \in T THEN f[x] ELSE 0]
<1>1. /\ \A x \in S : f[x] \in Int /\ g[x] \in Int /\ g[x] <= f[x]
      /\ \A x \in S : g[x] \in Int
      /\ \A x \in S \ T : g[x] = 0
      /\ \A x \in T : g[x] = f[x]
      /\ \A x \in T : f[x] \in Nat
      /\ IsFiniteSet(T)
  BY FS_Subset
<1> HIDE DEF g
<1>2. SumFunctionOnSet(g, S) <= SumFunctionOnSet(f, S)
  BY <1>1, SumMonotone
<1>3. SumFunctionOnSet(g, S) = SumFunctionOnSet(g, T)
  BY <1>1, SumSupport
<1>4. SumFunctionOnSet(g, T) = SumFunctionOnSet(f, T)
  BY <1>1, SumSame
<1>5. SumFunctionOnSet(f, T) \in Nat
  BY <1>1, SumOfNat
<1> QED BY <1>2, <1>3, <1>4, <1>5

\* The same of SumFunction, whose indices are a function's domain.
LEMMA SumFunctionUpdate ==
  ASSUME NEW S, IsFiniteSet(S), NEW f \in [S -> Int], NEW x \in S, NEW n \in Int
  PROVE  SumFunction([f EXCEPT ![x] = n]) = SumFunction(f) - f[x] + n
<1> DEFINE g == [f EXCEPT ![x] = n]
<1>1. DOMAIN f = S /\ DOMAIN g = S /\ g[x] = n /\ \A y \in S \ {x} : g[y] = f[y]
  OBVIOUS
<1> HIDE DEF g
<1>2. SumFunctionOnSet(g, S) = SumFunctionOnSet(f, S) - f[x] + g[x]
  BY <1>1, SumUpdate
<1> QED BY <1>1, <1>2 DEF SumFunction, g

\* A function of which one value grows by n.
LEMMA SumFunctionGrows ==
  ASSUME NEW S, IsFiniteSet(S), NEW f \in [S -> Int], NEW x \in S, NEW n \in Int, NEW g,
         g = [f EXCEPT ![x] = f[x] + n]
  PROVE  SumFunction(g) = SumFunction(f) + n
<1>1. SumFunction(f) \in Int
  <2>1. DOMAIN f = S /\ \A y \in S : f[y] \in Int
    OBVIOUS
  <2> QED BY <2>1, SumIsInt DEF SumFunction
<1>2. f[x] \in Int /\ f[x] + n \in Int
  OBVIOUS
<1>3. \A m \in Int : SumFunction([f EXCEPT ![x] = m]) = SumFunction(f) - f[x] + m
  <2> TAKE m \in Int
  <2> QED BY SumFunctionUpdate, Zenon
<1> DEFINE m == f[x] + n
<1>4. m \in Int /\ m = f[x] + n /\ g = [f EXCEPT ![x] = m]
  BY <1>2
<1> HIDE DEF m
<1>5. SumFunction(g) = SumFunction(f) - f[x] + m
  BY <1>3, <1>4
<1> QED BY <1>1, <1>2, <1>4, <1>5

LEMMA SumFunctionOfNat ==
  ASSUME NEW S, IsFiniteSet(S), NEW f \in [S -> Nat]
  PROVE  SumFunction(f) \in Nat /\ \A x \in S : f[x] <= SumFunction(f)
<1>1. DOMAIN f = S /\ \A x \in S : f[x] \in Nat
  OBVIOUS
<1> QED BY <1>1, SumOfNat DEF SumFunction

LEMMA SumFunctionZero ==
  ASSUME NEW S, IsFiniteSet(S), NEW f, DOMAIN f = S, \A x \in S : f[x] = 0
  PROVE  SumFunction(f) = 0
BY SumZero DEF SumFunction

\* A sum of integers along an interval, by its last term.
LEMMA SumExtends ==
  ASSUME NEW n \in Nat \ {0}, NEW f, \A i \in 1 .. n : f[i] \in Int
  PROVE  SumFunctionOnSet(f, 1 .. n) = f[n] + SumFunctionOnSet(f, 1 .. n - 1)
<1>1. IsFiniteSet(1 .. n) /\ n \in 1 .. n
  BY FS_Interval
<1>2. (1 .. n) \ {n} = 1 .. n - 1
  OBVIOUS
<1> QED BY <1>1, <1>2, SumRemove

\* The parts of a split are integers that add up to its amount.
LEMMA SplitAddsUp ==
  ASSUME NEW amount \in Int, NEW n \in Nat \ {0}, NEW weights \in Seq(Nat), Len(weights) = n
  PROVE  LET parts == SplitProRata(amount, weights)
         IN  /\ parts \in [1 .. n -> Int]
             /\ SumFunctionOnSet(parts, 1 .. n) = amount
<1> DEFINE total == SumFunctionOnSet(weights, 1 .. n)
           part == [i \in 1 .. n |-> IF total <= 0 THEN 0 ELSE (amount * weights[i]) \div total]
           rest == SumFunctionOnSet(part, 1 .. n - 1)
           parts == [part EXCEPT ![n] = amount - rest]
<1>1. \A i \in 1 .. n : weights[i] \in Nat
  OBVIOUS
<1>2. SplitProRata(amount, weights) = parts
  BY DEF SplitProRata
<1>3. IsFiniteSet(1 .. n) /\ IsFiniteSet(1 .. n - 1) /\ n \in 1 .. n /\ n - 1 \in Nat
  BY FS_Interval
<1>4. total \in Nat
  BY <1>1, <1>3, SumOfNat
<1> HIDE DEF total
<1>5. part \in [1 .. n -> Int]
  <2>1. ASSUME NEW i \in 1 .. n, ~(total <= 0)
        PROVE  (amount * weights[i]) \div total \in Int
    <3>1. amount * weights[i] \in Int /\ total \in Nat \ {0}
      BY <1>1, <1>4, <2>1
    <3> QED BY <3>1, DivBounds
  <2> QED BY <2>1
<1> HIDE DEF part
<1>6. rest \in Int
  BY <1>3, <1>5, SumIsInt
<1> HIDE DEF rest
<1>7. parts \in [1 .. n -> Int] /\ parts[n] = amount - rest
      /\ \A i \in 1 .. n - 1 : parts[i] = part[i]
  BY <1>3, <1>5, <1>6
<1> HIDE DEF parts
<1>8. SumFunctionOnSet(parts, 1 .. n - 1) = rest
  BY <1>3, <1>7, SumSame DEF rest
<1>9. SumFunctionOnSet(parts, 1 .. n) = parts[n] + SumFunctionOnSet(parts, 1 .. n - 1)
  BY <1>7, SumExtends
<1>10. SumFunctionOnSet(parts, 1 .. n) = amount
  BY <1>6, <1>7, <1>8, <1>9
<1> QED BY <1>2, <1>7, <1>10

\* A factor of every term is one of the sum.
LEMMA SumScale ==
  ASSUME NEW f, NEW g, NEW c \in Int, NEW S, IsFiniteSet(S),
         \A x \in S : f[x] \in Int /\ g[x] = c * f[x]
  PROVE  SumFunctionOnSet(g, S) = c * SumFunctionOnSet(f, S)
<1> DEFINE Scales(A) == SumFunctionOnSet(g, A) = c * SumFunctionOnSet(f, A)
           Good == {A \in SUBSET S : Scales(A)}
<1>1. ASSUME NEW A \in SUBSET S, \A B \in SUBSET A : B # A => B \in Good
      PROVE  A \in Good
  <2>1. IsFiniteSet(A) /\ \A x \in A : f[x] \in Int /\ g[x] \in Int
    BY FS_Subset
  <2>2. CASE A = {}
    <3>1. Scales({})
      BY SumEmpty
    <3> QED BY <2>2, <3>1
  <2>3. ASSUME NEW x \in A
        PROVE  Scales(A)
    <3> DEFINE R == A \ {x}
               F == SumFunctionOnSet(f, R)
    <3>1. R \in SUBSET A /\ R # A /\ IsFiniteSet(R)
      BY <2>1, FS_Subset
    <3>2. SumFunctionOnSet(g, R) = c * F
      BY <1>1, <3>1
    <3>3. F \in Int
      BY <2>1, <3>1, SumIsInt
    <3>4. SumFunctionOnSet(f, A) = f[x] + F
      BY <2>1, SumRemove
    <3>5. SumFunctionOnSet(g, A) = g[x] + SumFunctionOnSet(g, R)
      BY <2>1, SumRemove
    <3>6. g[x] = c * f[x] /\ f[x] \in Int
      OBVIOUS
    <3> HIDE DEF F, R
    <3>7. c * (f[x] + F) = c * f[x] + c * F
      BY <3>3, <3>6
    <3> QED BY <3>2, <3>4, <3>5, <3>6, <3>7
  <2> HIDE DEF Scales
  <2> QED BY <2>2, <2>3
<1> HIDE DEF Good
<1>2. SUBSET S \subseteq Good
  BY <1>1, SubsetInduction
<1> QED BY <1>2 DEF Good

\* A set's cardinality is a sum of ones.
LEMMA SumOfOnes ==
  ASSUME NEW f, NEW S, IsFiniteSet(S), \A x \in S : f[x] = 1
  PROVE  SumFunctionOnSet(f, S) = Cardinality(S)
<1> DEFINE Counts(A) == SumFunctionOnSet(f, A) = Cardinality(A)
           Good == {A \in SUBSET S : Counts(A)}
<1>1. ASSUME NEW A \in SUBSET S, \A B \in SUBSET A : B # A => B \in Good
      PROVE  A \in Good
  <2>1. IsFiniteSet(A) /\ \A x \in A : f[x] \in Int
    BY FS_Subset
  <2>2. CASE A = {}
    <3>1. Counts({})
      BY SumEmpty, FS_EmptySet
    <3> QED BY <2>2, <3>1
  <2>3. ASSUME NEW x \in A
        PROVE  Counts(A)
    <3> DEFINE R == A \ {x}
    <3>1. R \in SUBSET A /\ R # A
      OBVIOUS
    <3>2. SumFunctionOnSet(f, R) = Cardinality(R)
      BY <1>1, <3>1
    <3>3. SumFunctionOnSet(f, A) = 1 + SumFunctionOnSet(f, R)
      BY <2>1, SumRemove
    <3>4. Cardinality(R) = Cardinality(A) - 1 /\ Cardinality(A) \in Nat
      BY <2>1, FS_RemoveElement, FS_CardinalityType
    <3> QED BY <3>2, <3>3, <3>4
  <2> HIDE DEF Counts
  <2> QED BY <2>2, <2>3
<1> HIDE DEF Good
<1>2. SUBSET S \subseteq Good
  BY <1>1, SubsetInduction
<1> QED BY <1>2 DEF Good

\* A table adds up to the same by rows and by columns.
LEMMA SumSwap ==
  ASSUME NEW S, IsFiniteSet(S), NEW T, IsFiniteSet(T), NEW f,
         \A x \in S, y \in T : f[x][y] \in Int
  PROVE  SumFunctionOnSet([x \in S |-> SumFunctionOnSet(f[x], T)], S)
           = SumFunctionOnSet([y \in T |-> SumFunctionOnSet([x \in S |-> f[x][y]], S)], T)
<1> DEFINE rows == [x \in S |-> SumFunctionOnSet(f[x], T)]
           column(y) == [x \in S |-> f[x][y]]
           Columns(A) == [y \in T |-> SumFunctionOnSet(column(y), A)]
           Swaps(A) == SumFunctionOnSet(rows, A) = SumFunctionOnSet(Columns(A), T)
           Good == {A \in SUBSET S : Swaps(A)}
<1>0. \A x \in S : rows[x] \in Int
  BY SumIsInt
<1>1. ASSUME NEW A \in SUBSET S, \A B \in SUBSET A : B # A => B \in Good
      PROVE  A \in Good
  <2>1. IsFiniteSet(A)
    BY FS_Subset
  <2>2. CASE A = {}
    <3>1. \A y \in T : Columns(A)[y] = 0
      BY <2>2, SumEmpty
    <3> HIDE DEF Columns, rows
    <3> QED BY <2>2, <3>1, SumZero, SumEmpty
  <2>3. ASSUME NEW x \in A
        PROVE  Swaps(A)
    <3> DEFINE R == A \ {x}
               g == Columns(R)
               h == Columns(A)
    <3>1. R \in SUBSET A /\ R # A /\ IsFiniteSet(R) /\ x \in S
      BY <2>1, FS_Subset
    <3>2. SumFunctionOnSet(rows, R) = SumFunctionOnSet(g, T)
      BY <1>1, <3>1
    <3>3. SumFunctionOnSet(rows, A) = rows[x] + SumFunctionOnSet(rows, R)
      <4> HIDE DEF rows
      <4> QED BY <1>0, <2>1, SumRemove
    <3>4. ASSUME NEW y \in T
          PROVE  g[y] \in Int /\ f[x][y] \in Int /\ h[y] = f[x][y] + g[y]
      <4> DEFINE c == column(y)
      <4>1. /\ \A z \in A : c[z] \in Int
            /\ c[x] = f[x][y] /\ f[x][y] \in Int
            /\ h[y] = SumFunctionOnSet(c, A) /\ g[y] = SumFunctionOnSet(c, R)
        BY <3>1
      <4> HIDE DEF c, g, h
      <4>2. SumFunctionOnSet(c, R) \in Int
        BY <3>1, <4>1, SumIsInt
      <4>3. SumFunctionOnSet(c, A) = c[x] + SumFunctionOnSet(c, R)
        BY <2>1, <4>1, SumRemove
      <4> QED BY <4>1, <4>2, <4>3
    <3>5. rows[x] = SumFunctionOnSet(f[x], T)
      BY <3>1
    <3> SUFFICES SumFunctionOnSet(rows, A) = SumFunctionOnSet(h, T)
      OBVIOUS
    <3> HIDE DEF rows, g, h
    <3> DEFINE k == f[x]
    <3>6. \A y \in T : k[y] \in Int /\ g[y] \in Int /\ h[y] = k[y] + g[y]
      BY <3>4
    <3> HIDE DEF k
    <3>7. SumFunctionOnSet(h, T) = SumFunctionOnSet(k, T) + SumFunctionOnSet(g, T)
      BY <3>6, SumPlus
    <3> QED BY <3>2, <3>3, <3>5, <3>7 DEF k
  <2> HIDE DEF Swaps
  <2> QED BY <2>2, <2>3
<1> HIDE DEF Good
<1>2. S \in Good
  BY <1>1, SubsetInduction
<1> QED BY <1>2 DEF Good

\* The sums over the classes of a partition add up to the whole.
LEMMA SumByClass ==
  ASSUME NEW f, NEW class, NEW S, IsFiniteSet(S), NEW V, IsFiniteSet(V),
         \A x \in S : f[x] \in Int /\ class[x] \in V
  PROVE  SumFunctionOnSet([v \in V |-> SumFunctionOnSet(f, {x \in S : class[x] = v})], V)
           = SumFunctionOnSet(f, S)
<1> DEFINE Of(A, v) == SumFunctionOnSet(f, {x \in A : class[x] = v})
           Parts(A) == [v \in V |-> Of(A, v)]
           Adds(A) == SumFunctionOnSet(Parts(A), V) = SumFunctionOnSet(f, A)
           Good == {A \in SUBSET S : Adds(A)}
<1>1. ASSUME NEW A \in SUBSET S, \A B \in SUBSET A : B # A => B \in Good
      PROVE  A \in Good
  <2>1. IsFiniteSet(A) /\ \A x \in A : f[x] \in Int /\ class[x] \in V
    BY FS_Subset
  <2>0. ASSUME NEW B \in SUBSET A, NEW v \in V
        PROVE  Of(B, v) \in Int
    <3>1. IsFiniteSet({x \in B : class[x] = v}) /\ \A y \in {x \in B : class[x] = v} : f[y] \in Int
      BY <2>1, FS_Subset
    <3> QED BY <3>1, SumIsInt
  <2>2. CASE A = {}
    <3>1. \A v \in V : {x \in A : class[x] = v} = {}
      BY <2>2
    <3>2. \A v \in V : Parts(A)[v] = 0
      BY <3>1, SumEmpty
    <3> HIDE DEF Parts
    <3>3. SumFunctionOnSet(Parts(A), V) = 0 /\ SumFunctionOnSet(f, A) = 0
      BY <2>2, <3>2, SumZero, SumEmpty
    <3> QED BY <3>3
  <2>3. ASSUME NEW x \in A
        PROVE  Adds(A)
    <3> DEFINE R == A \ {x}
               k == class[x]
    <3>1. R \in SUBSET A /\ R # A /\ IsFiniteSet(R) /\ k \in V /\ f[x] \in Int
      BY <2>1, FS_Subset
    <3>2. Adds(R)
      BY <1>1, <3>1
    <3>3. ASSUME NEW v \in V \ {k}
          PROVE  Of(A, v) = Of(R, v)
      <4>1. {y \in A : class[y] = v} = {y \in R : class[y] = v}
        OBVIOUS
      <4> QED BY <4>1
    <3>4. Of(A, k) = f[x] + Of(R, k)
      <4> DEFINE C == {y \in A : class[y] = k}
      <4>1. x \in C /\ IsFiniteSet(C) /\ \A y \in C : f[y] \in Int
        BY <2>1, FS_Subset
      <4>2. C \ {x} = {y \in R : class[y] = k}
        OBVIOUS
      <4> HIDE DEF C
      <4>3. SumFunctionOnSet(f, C) = f[x] + SumFunctionOnSet(f, C \ {x})
        BY <4>1, SumRemove
      <4> QED BY <4>2, <4>3 DEF C
    <3> DEFINE g == Parts(R)
               h == Parts(A)
               a == SumFunctionOnSet(f, A)
               r == SumFunctionOnSet(f, R)
    <3>5. \A v \in V : g[v] = Of(R, v) /\ h[v] = Of(A, v)
      OBVIOUS
    <3>6. \A v \in V : Of(R, v) \in Int
      BY <2>0, <3>1
    <3>7. SumFunctionOnSet(g, V) = r
      BY <3>2
    <3>8. a = f[x] + r
      BY <2>1, SumRemove
    <3> SUFFICES SumFunctionOnSet(h, V) = a
      OBVIOUS
    <3> HIDE DEF g, h, k, R, Of, a
    <3>9. /\ \A v \in V : g[v] \in Int
          /\ h[k] = f[x] + g[k] /\ h[k] \in Int
          /\ \A v \in V \ {k} : h[v] = g[v]
      BY <3>1, <3>3, <3>4, <3>5, <3>6
    <3>10. SumFunctionOnSet(h, V) = SumFunctionOnSet(g, V) - g[k] + h[k]
      BY <3>1, <3>9, SumUpdate
    <3>11. SumFunctionOnSet(g, V) \in Int
      BY <3>9, SumIsInt
    <3> QED BY <3>1, <3>7, <3>8, <3>9, <3>10, <3>11
  <2> HIDE DEF Adds
  <2> QED BY <2>2, <2>3
<1> HIDE DEF Good
<1>2. SUBSET S \subseteq Good
  BY <1>1, SubsetInduction
<1>3. S \in Good
  BY <1>2
<1> QED BY <1>3 DEF Good


-------------------------------------------------------------------------------
(***************************************************************************)
(* Sums along a sequence.                                                  *)
(***************************************************************************)
SumAlong(f, s) == SumFunctionOnSet([i \in 1 .. Len(s) |-> f[s[i]]], 1 .. Len(s))

LEMMA SumAlongIsInt ==
  ASSUME NEW E, NEW f \in [E -> Int], NEW s \in Seq(E)
  PROVE  SumAlong(f, s) \in Int
<1> DEFINE g == [i \in 1 .. Len(s) |-> f[s[i]]]
<1>1. IsFiniteSet(1 .. Len(s)) /\ \A i \in 1 .. Len(s) : g[i] \in Int
  BY FS_Interval
<1> HIDE DEF g
<1>2. SumFunctionOnSet(g, 1 .. Len(s)) \in Int
  BY <1>1, SumIsInt
<1> QED BY <1>2 DEF SumAlong, g

LEMMA SumAlongIsNat ==
  ASSUME NEW E, NEW f \in [E -> Nat], NEW s \in Seq(E)
  PROVE  SumAlong(f, s) \in Nat
<1> DEFINE g == [i \in 1 .. Len(s) |-> f[s[i]]]
<1>1. IsFiniteSet(1 .. Len(s))
  BY FS_Interval
<1>2. \A i \in 1 .. Len(s) : s[i] \in E
  OBVIOUS
<1>3. \A i \in 1 .. Len(s) : g[i] \in Nat
  BY <1>2
<1> HIDE DEF g
<1>4. SumFunctionOnSet(g, 1 .. Len(s)) \in Nat
  BY <1>1, <1>3, SumOfNat
<1> QED BY <1>4 DEF SumAlong, g

LEMMA SumAlongEmpty ==
  ASSUME NEW f
  PROVE  SumAlong(f, <<>>) = 0
<1>1. 1 .. Len(<<>>) = {}
  OBVIOUS
<1> QED BY <1>1, SumEmpty DEF SumAlong

LEMMA SumAlongAppend ==
  ASSUME NEW E, NEW f \in [E -> Int], NEW s \in Seq(E), NEW e \in E
  PROVE  SumAlong(f, Append(s, e)) = SumAlong(f, s) + f[e]
<1> DEFINE t == Append(s, e)
           n == Len(s)
           g == [i \in 1 .. Len(t) |-> f[t[i]]]
           h == [i \in 1 .. n |-> f[s[i]]]
<1>1. n \in Nat /\ n + 1 \in Nat \ {0} /\ Len(t) = n + 1 /\ t \in Seq(E)
  OBVIOUS
<1>2. g[n + 1] = f[e] /\ \A i \in 1 .. n : g[i] = h[i]
  OBVIOUS
<1>3. \A i \in 1 .. n + 1 : g[i] \in Int
  <2> SUFFICES ASSUME NEW i \in 1 .. n + 1 PROVE g[i] \in Int
    OBVIOUS
  <2>1. t[i] \in E
    BY <1>1
  <2> QED BY <1>1, <2>1
<1>4. SumAlong(f, t) = SumFunctionOnSet(g, 1 .. n + 1) /\ SumAlong(f, s) = SumFunctionOnSet(h, 1 .. n)
  BY <1>1 DEF SumAlong
<1> HIDE DEF g, h
<1>5. (n + 1) - 1 = n /\ IsFiniteSet(1 .. n)
  BY <1>1, FS_Interval
<1> HIDE DEF n, t
<1>6. SumFunctionOnSet(g, 1 .. n + 1) = g[n + 1] + SumFunctionOnSet(g, 1 .. n)
  BY <1>1, <1>3, <1>5, SumExtends
<1>7. SumFunctionOnSet(g, 1 .. n) = SumFunctionOnSet(h, 1 .. n)
  BY <1>2, <1>5, SumSame
<1>8. SumFunctionOnSet(g, 1 .. n) \in Int
  <2>1. \A i \in 1 .. n : g[i] \in Int
    BY <1>1, <1>3
  <2> QED BY <2>1, <1>5, SumIsInt
<1>9. f[e] \in Int
  OBVIOUS
<1>10. SumAlong(f, t) = SumAlong(f, s) + f[e]
  BY <1>2, <1>4, <1>6, <1>7, <1>8, <1>9
<1> QED BY <1>10 DEF t

LEMMA SumAlongConcat ==
  ASSUME NEW E, NEW f \in [E -> Int], NEW s \in Seq(E), NEW t \in Seq(E)
  PROVE  SumAlong(f, s \o t) = SumAlong(f, s) + SumAlong(f, t)
<1> DEFINE Adds(u) == SumAlong(f, s \o u) = SumAlong(f, s) + SumAlong(f, u)
           Good == {n \in 0 .. Len(t) : Adds(SubSeq(t, 1, n))}
<1>1. Len(t) \in Nat
  OBVIOUS
<1>2. 0 \in Good
  <2> DEFINE u == SubSeq(t, 1, 0)
  <2>1. u = <<>> /\ s \o u = s
    OBVIOUS
  <2> HIDE DEF u
  <2>2. SumAlong(f, s) \in Int /\ SumAlong(f, u) = 0
    BY <2>1, SumAlongIsInt, SumAlongEmpty
  <2>3. Adds(u)
    BY <2>1, <2>2
  <2> HIDE DEF Adds
  <2> QED BY <1>1, <2>3 DEF u
<1>3. ASSUME NEW n \in 0 .. Len(t) - 1, n \in Good
      PROVE  n + 1 \in Good
  <2> DEFINE u == SubSeq(t, 1, n)
             e == t[n + 1]
  <2>1. e \in E /\ u \in Seq(E) /\ SubSeq(t, 1, n + 1) = Append(u, e)
    <3>1. n \in Nat /\ n + 1 \in 1 .. Len(t) /\ n <= Len(t)
      BY <1>1
    <3>2. u \in Seq(E) /\ Len(u) = n /\ \A i \in 1 .. n : u[i] = t[i]
      BY <3>1
    <3>3. e \in E
      BY <3>1
    <3> DEFINE w == SubSeq(t, 1, n + 1)
    <3>4. w \in Seq(E) /\ Len(w) = n + 1 /\ \A i \in 1 .. n + 1 : w[i] = t[i]
      BY <3>1
    <3>0. e = t[n + 1]
      OBVIOUS
    <3> HIDE DEF u, e, w
    <3>5. Append(u, e) \in Seq(E) /\ Len(Append(u, e)) = n + 1
          /\ Append(u, e)[n + 1] = e /\ \A i \in 1 .. n : Append(u, e)[i] = u[i]
      BY <3>2, <3>3
    <3>6. \A i \in 1 .. n + 1 : w[i] = Append(u, e)[i]
      <4> SUFFICES ASSUME NEW i \in 1 .. n + 1 PROVE w[i] = Append(u, e)[i]
        OBVIOUS
      <4>1. i \in 1 .. n \/ i = n + 1
        BY <3>1
      <4>2. w[i] = t[i]
        BY <3>4
      <4> QED BY <3>0, <3>2, <3>5, <4>1, <4>2
    <3>7. w = Append(u, e)
      BY <3>4, <3>5, <3>6
    <3> QED BY <3>2, <3>3, <3>7 DEF w
  <2>2. Adds(u)
    BY <1>3
  <2> HIDE DEF u, e
  <2>3. s \o Append(u, e) = Append(s \o u, e) /\ s \o u \in Seq(E)
    BY <2>1
  <2>4. SumAlong(f, Append(u, e)) = SumAlong(f, u) + f[e]
        /\ SumAlong(f, Append(s \o u, e)) = SumAlong(f, s \o u) + f[e]
    BY <2>1, <2>3, SumAlongAppend
  <2>5. SumAlong(f, s) \in Int /\ SumAlong(f, u) \in Int /\ f[e] \in Int
    BY <2>1, SumAlongIsInt
  <2>6. Adds(Append(u, e))
    BY <2>2, <2>3, <2>4, <2>5
  <2>7. n + 1 \in 0 .. Len(t)
    BY <1>1
  <2> HIDE DEF Adds
  <2> QED BY <2>1, <2>6, <2>7
<1> HIDE DEF Good, Adds
<1>4. 0 .. Len(t) \subseteq Good
  BY <1>1, <1>2, <1>3, RangeInduction
<1>5. Len(t) \in Good /\ SubSeq(t, 1, Len(t)) = t
  BY <1>1, <1>4
<1> QED BY <1>5 DEF Good, Adds

-------------------------------------------------------------------------------
(***************************************************************************)
(* What is kept of a sequence.                                             *)
(***************************************************************************)
KeptNext(s, keep, before, n) == IF n \in keep THEN Append(before, s[n]) ELSE before

\* What is kept of the first i elements, for every i up to k.
Keeping(s, keep, k, kept) ==
  kept = [i \in 0 .. k |-> IF i = 0 THEN <<>> ELSE KeptNext(s, keep, kept[i - 1], i)]

LEMMA KeepingExists ==
  ASSUME NEW s, NEW keep, NEW n \in Nat
  PROVE  \E kept : Keeping(s, keep, n, kept)
<1> DEFINE Good == {k \in 0 .. n : \E kept : Keeping(s, keep, k, kept)}
<1>1. 0 \in Good
  <2> DEFINE kept == [i \in 0 .. 0 |-> <<>>]
  <2>1. Keeping(s, keep, 0, kept)
    BY DEF Keeping
  <2> QED BY <2>1
<1>2. ASSUME NEW k \in 0 .. n - 1, k \in Good
      PROVE  k + 1 \in Good
  <2>1. PICK kept : Keeping(s, keep, k, kept)
    BY <1>2
  <2> DEFINE next == [i \in 0 .. k + 1 |-> IF i <= k THEN kept[i] ELSE KeptNext(s, keep, kept[k], i)]
             same == [i \in 0 .. k + 1 |-> IF i = 0 THEN <<>> ELSE KeptNext(s, keep, next[i - 1], i)]
  <2>2. ASSUME NEW i \in 0 .. k + 1
        PROVE  next[i] = same[i]
    <3>1. CASE i = 0
      BY <2>1, <3>1 DEF Keeping
    <3>2. CASE i \in 1 .. k
      <4>1. i - 1 \in 0 .. k /\ i \in 0 .. k /\ i # 0 /\ i <= k /\ i - 1 <= k
        BY <3>2
      <4>2. kept[i] = KeptNext(s, keep, kept[i - 1], i)
        BY <2>1, <4>1 DEF Keeping
      <4> QED BY <4>1, <4>2
    <3>3. CASE i = k + 1
      <4>1. i - 1 = k /\ k <= k /\ ~(i <= k) /\ i # 0 /\ k \in 0 .. k + 1
        BY <3>3
      <4> QED BY <4>1
    <3> QED BY <3>1, <3>2, <3>3
  <2>3. next = same
    BY <2>2
  <2>4. Keeping(s, keep, k + 1, next)
    BY <2>3 DEF Keeping
  <2> QED BY <2>4
<1> HIDE DEF Good
<1>3. 0 .. n \subseteq Good
  BY <1>1, <1>2, RangeInduction
<1>4. n \in Good
  BY <1>3
<1> QED BY <1>4 DEF Good

\* A sum along what is kept is the sum of the terms kept.
KeptSum(f, s, keep) ==
  SumFunctionOnSet([i \in 1 .. Len(s) |-> IF i \in keep THEN f[s[i]] ELSE 0], 1 .. Len(s))

LEMMA SumAlongKept ==
  ASSUME NEW E, NEW s \in Seq(E), NEW keep
  PROVE  /\ Kept(s, keep) \in Seq(E)
         /\ \A f \in [E -> Int] : SumAlong(f, Kept(s, keep)) = KeptSum(f, s, keep)
<1> DEFINE n == Len(s)
           kept == CHOOSE g : Keeping(s, keep, n, g)
           Terms(f) == [i \in 1 .. n |-> IF i \in keep THEN f[s[i]] ELSE 0]
           Adds(k) == /\ kept[k] \in Seq(E)
                      /\ \A f \in [E -> Int] :
                           SumAlong(f, kept[k]) = SumFunctionOnSet(Terms(f), 1 .. k)
           Good == {k \in 0 .. n : Adds(k)}
<1>1. n \in Nat /\ \A i \in 1 .. n : s[i] \in E
  OBVIOUS
<1>2. Keeping(s, keep, n, kept)
  <2>1. \E g : Keeping(s, keep, n, g)
    BY <1>1, KeepingExists
  <2> QED BY <2>1
<1>3. Kept(s, keep) = kept[n]
  BY DEF Kept, Keeping, KeptNext
<1> HIDE DEF kept, n
<1>4. kept[0] = <<>> /\ \A i \in 1 .. n : kept[i] = KeptNext(s, keep, kept[i - 1], i)
  <2>1. kept[0] = <<>>
    BY <1>1, <1>2 DEF Keeping
  <2>2. ASSUME NEW i \in 1 .. n
        PROVE  kept[i] = KeptNext(s, keep, kept[i - 1], i)
    <3>1. i \in 0 .. n /\ i # 0
      BY <1>1
    <3> QED BY <1>2, <3>1, Zenon DEF Keeping
  <2> QED BY <2>1, <2>2
<1>5. 0 \in Good
  <2>1. kept[0] \in Seq(E) /\ 1 .. 0 = {}
    BY <1>4
  <2>2. ASSUME NEW f \in [E -> Int]
        PROVE  SumAlong(f, kept[0]) = SumFunctionOnSet(Terms(f), 1 .. 0)
    <3> HIDE DEF Terms
    <3> QED BY <1>4, <2>1, SumAlongEmpty, SumEmpty
  <2> HIDE DEF Terms
  <2> QED BY <1>1, <2>1, <2>2
<1>6. ASSUME NEW k \in 0 .. n - 1, k \in Good
      PROVE  k + 1 \in Good
  <2>1. k + 1 \in 1 .. n /\ k + 1 \in Nat \ {0} /\ (k + 1) - 1 = k /\ s[k + 1] \in E
    BY <1>1
  <2>2. kept[k + 1] = KeptNext(s, keep, kept[k], k + 1) /\ kept[k] \in Seq(E)
    BY <1>4, <1>6, <2>1
  <2>3. kept[k + 1] \in Seq(E)
    BY <2>1, <2>2 DEF KeptNext
  <2>4. ASSUME NEW f \in [E -> Int]
        PROVE  SumAlong(f, kept[k + 1]) = SumFunctionOnSet(Terms(f), 1 .. k + 1)
    <3>1. \A i \in 1 .. k + 1 : Terms(f)[i] \in Int
      BY <1>1, <2>1
    <3>2. Terms(f)[k + 1] = IF k + 1 \in keep THEN f[s[k + 1]] ELSE 0
      BY <2>1
    <3>3. SumAlong(f, kept[k]) = SumFunctionOnSet(Terms(f), 1 .. k)
      BY <1>6
    <3> HIDE DEF Terms
    <3>4. SumFunctionOnSet(Terms(f), 1 .. k + 1) = Terms(f)[k + 1] + SumFunctionOnSet(Terms(f), 1 .. k)
      BY <2>1, <3>1, SumExtends
    <3>5. SumAlong(f, kept[k]) \in Int /\ f[s[k + 1]] \in Int
      BY <2>1, <2>2, SumAlongIsInt
    <3>6. CASE k + 1 \in keep
      <4>1. SumAlong(f, Append(kept[k], s[k + 1])) = SumAlong(f, kept[k]) + f[s[k + 1]]
        BY <2>1, <2>2, SumAlongAppend
      <4> QED BY <2>2, <3>2, <3>3, <3>4, <3>5, <3>6, <4>1 DEF KeptNext
    <3>7. CASE k + 1 \notin keep
      BY <2>2, <3>2, <3>3, <3>4, <3>5, <3>7 DEF KeptNext
    <3> QED BY <3>6, <3>7
  <2> HIDE DEF Terms
  <2> QED BY <1>1, <2>1, <2>3, <2>4
<1> HIDE DEF Good, Adds
<1>7. 0 .. n \subseteq Good
  BY <1>1, <1>5, <1>6, RangeInduction
<1>8. Adds(n)
  BY <1>1, <1>7 DEF Good
<1> QED BY <1>3, <1>8 DEF Adds, n, KeptSum

-------------------------------------------------------------------------------
(***************************************************************************)
(* Splits and order legs.                                                  *)
(***************************************************************************)
\* Each part of a split is a natural number, and short of its proportion by less than one.
LEMMA SplitParts ==
  ASSUME NEW amount \in Nat, NEW n \in Nat \ {0}, NEW weights \in Seq(Nat), Len(weights) = n
  PROVE  LET parts == SplitProRata(amount, weights)
             total == SumFunctionOnSet(weights, 1 .. n)
         IN  /\ parts \in [1 .. n -> Nat]
             /\ total \in Nat
             /\ \A i \in 1 .. n : amount * weights[i] <= total * (parts[i] + 1)
<1> DEFINE total == SumFunctionOnSet(weights, 1 .. n)
           part == [i \in 1 .. n |-> IF total <= 0 THEN 0 ELSE (amount * weights[i]) \div total]
           rest == SumFunctionOnSet(part, 1 .. n - 1)
           parts == [part EXCEPT ![n] = amount - rest]
           before == SumFunctionOnSet(weights, 1 .. n - 1)
<1>1. \A i \in 1 .. n : weights[i] \in Nat
  OBVIOUS
<1>2. SplitProRata(amount, weights) = parts
  BY DEF SplitProRata
<1>3. IsFiniteSet(1 .. n) /\ IsFiniteSet(1 .. n - 1) /\ n \in 1 .. n /\ n - 1 \in Nat
      /\ 1 .. n - 1 \subseteq 1 .. n
  BY FS_Interval
<1>4. total \in Nat /\ before \in Nat /\ total = weights[n] + before
  <2>1. total \in Nat /\ before \in Nat
    BY <1>1, <1>3, SumOfNat, SumOfPart
  <2>2. total = weights[n] + before
    BY <1>1, SumExtends
  <2> QED BY <2>1, <2>2
<1>5. total > 0 => \A i \in 1 .. n : /\ part[i] \in Nat
                                     /\ total * part[i] <= amount * weights[i]
                                     /\ amount * weights[i] <= total * (part[i] + 1)
  <2> SUFFICES ASSUME total > 0, NEW i \in 1 .. n
               PROVE  /\ part[i] \in Nat
                      /\ total * part[i] <= amount * weights[i]
                      /\ amount * weights[i] <= total * (part[i] + 1)
    OBVIOUS
  <2> DEFINE a == amount * weights[i]
             q == part[i]
  <2>1. weights[i] \in Nat /\ total \in Nat \ {0}
    BY <1>1, <1>4
  <2>2. a \in Nat
    BY <2>1, ProductIsNat
  <2>3. q = a \div total
    BY <1>4
  <2> HIDE DEF a, q, total
  <2>4. q \in Nat /\ total * q <= a /\ a < total * q + total
    BY <2>1, <2>2, <2>3, DivBounds, FloorDivision
  <2>5. total * (q + 1) = total * q + total
    BY <2>1, <2>4
  <2>6. total * q \in Int
    BY <2>1, <2>4
  <2>7. a <= total * (q + 1)
    BY <2>1, <2>2, <2>4, <2>5, <2>6
  <2> QED BY <2>4, <2>7 DEF a, q
<1>6. total <= 0 => \A i \in 1 .. n : part[i] = 0 /\ weights[i] = 0
  <2> SUFFICES ASSUME total <= 0, NEW i \in 1 .. n PROVE part[i] = 0 /\ weights[i] = 0
    OBVIOUS
  <2>1. weights[i] <= total
    BY <1>1, <1>3, SumOfNat
  <2>2. part[i] = 0
    OBVIOUS
  <2> HIDE DEF total, part
  <2> QED BY <1>1, <1>4, <2>1, <2>2
<1>7. part \in [1 .. n -> Nat]
  <2>1. \A i \in 1 .. n : part[i] \in Nat
    <3> HIDE DEF part
    <3>1. total > 0 \/ total <= 0
      BY <1>4
    <3> QED BY <1>5, <1>6, <3>1
  <2> QED BY <2>1
<1> HIDE DEF part
<1>8. rest \in Nat
  BY <1>3, <1>7, SumOfNat
<1>9. parts = [part EXCEPT ![n] = amount - rest] /\ parts[n] = amount - rest
      /\ \A i \in 1 .. n - 1 : parts[i] = part[i]
  BY <1>3, <1>7
<1> HIDE DEF total, rest, before, parts
<1>10. /\ parts[n] \in Nat
       /\ amount * weights[n] <= total * (parts[n] + 1)
  <2>1. CASE total <= 0
    <3>1. \A i \in 1 .. n - 1 : part[i] = 0
      BY <1>3, <1>6, <2>1
    <3>2. rest = 0
      BY <1>3, <3>1, SumZero DEF rest
    <3>3. total = 0 /\ weights[n] = 0
      BY <1>3, <1>4, <1>6, <2>1
    <3>4. parts[n] = amount
      BY <1>9, <3>2
    <3>5. amount * 0 = 0 /\ 0 * (amount + 1) = 0
      OBVIOUS
    <3> QED BY <3>3, <3>4, <3>5
  <2>2. CASE total > 0
    <3> DEFINE scaled == [i \in 1 .. n - 1 |-> total * part[i]]
               shared == [i \in 1 .. n - 1 |-> amount * weights[i]]
               w == weights[n]
    <3>0. total \in Nat \ {0} /\ total \in Int /\ amount \in Int /\ w \in Nat /\ total = w + before
      BY <1>1, <1>3, <1>4, <2>2
    <3>1. ASSUME NEW i \in 1 .. n - 1
          PROVE  /\ part[i] \in Int /\ weights[i] \in Int
                 /\ scaled[i] = total * part[i] /\ shared[i] = amount * weights[i]
                 /\ scaled[i] \in Int /\ shared[i] \in Int
                 /\ scaled[i] <= shared[i]
      <4>1. i \in 1 .. n
        BY <1>3
      <4>2. part[i] \in Nat /\ weights[i] \in Nat /\ total * part[i] <= amount * weights[i]
        BY <1>1, <1>5, <2>2, <4>1
      <4>3. total * part[i] \in Int /\ amount * weights[i] \in Int
        BY <3>0, <4>2
      <4> QED BY <4>2, <4>3
    <3> HIDE DEF scaled, shared, w
    <3>2. SumFunctionOnSet(scaled, 1 .. n - 1) = total * rest
      <4> DEFINE T == 1 .. n - 1
      <4>1. IsFiniteSet(T) /\ total \in Int
            /\ \A i \in T : part[i] \in Int /\ scaled[i] = total * part[i]
        BY <1>3, <3>0, <3>1
      <4> HIDE DEF T
      <4>2. SumFunctionOnSet(scaled, T) = total * SumFunctionOnSet(part, T)
        BY <4>1, SumScale
      <4> QED BY <4>2 DEF T, rest
    <3>3. SumFunctionOnSet(shared, 1 .. n - 1) = amount * before
      <4> DEFINE T == 1 .. n - 1
                 f == weights
                 c == amount
      <4>1. IsFiniteSet(T) /\ c \in Int
            /\ \A i \in T : f[i] \in Int /\ shared[i] = c * f[i]
        BY <1>3, <3>0, <3>1
      <4> HIDE DEF T, f, c
      <4>2. SumFunctionOnSet(shared, T) = c * SumFunctionOnSet(f, T)
        BY <4>1, SumScale
      <4> QED BY <4>2 DEF T, f, c, before
    <3>4. SumFunctionOnSet(scaled, 1 .. n - 1) <= SumFunctionOnSet(shared, 1 .. n - 1)
      BY <1>3, <3>1, SumMonotone
    <3>5. total * rest <= amount * before
      BY <3>2, <3>3, <3>4
    <3>6. total * amount = amount * w + amount * before
      BY <1>4, <3>0
    <3>7. total * parts[n] = total * amount - total * rest
      <4>1. total * (amount - rest) = total * amount - total * rest
        BY <1>8, <3>0
      <4> QED BY <1>9, <4>1
    <3>8. total * amount \in Int /\ total * rest \in Int /\ amount * w \in Nat /\ amount * before \in Int
      BY <1>4, <1>8, <3>0, ProductIsNat
    <3>9. amount * w <= total * parts[n]
      BY <3>5, <3>6, <3>7, <3>8
    <3>10. parts[n] \in Int
      BY <1>8, <1>9
    <3>11. parts[n] >= 0
      <4> SUFFICES ASSUME parts[n] <= 0 - 1 PROVE FALSE
        BY <3>10
      <4>1. total * parts[n] <= total * (0 - 1)
        BY <3>0, <3>10, TimesMonotone
      <4>2. total * (0 - 1) < 0 /\ total * (0 - 1) \in Int /\ total * parts[n] \in Int
        BY <3>0, <3>10
      <4> QED BY <3>8, <3>9, <4>1, <4>2
    <3>12. total * (parts[n] + 1) = total * parts[n] + total /\ total * parts[n] \in Int
      BY <3>0, <3>10
    <3>13. amount * w <= total * (parts[n] + 1)
      BY <3>0, <3>8, <3>9, <3>12
    <3> QED BY <3>10, <3>11, <3>13 DEF w
  <2> QED BY <1>4, <2>1, <2>2
<1>11. \A i \in 1 .. n : parts[i] \in Nat /\ amount * weights[i] <= total * (parts[i] + 1)
  <2> SUFFICES ASSUME NEW i \in 1 .. n, i # n
               PROVE  parts[i] \in Nat /\ amount * weights[i] <= total * (parts[i] + 1)
    BY <1>10
  <2>1. parts[i] = part[i] /\ part[i] \in Nat
    BY <1>3, <1>7, <1>9
  <2>2. CASE total > 0
    BY <1>5, <2>1, <2>2
  <2>3. CASE total <= 0
    <3>1. weights[i] = 0 /\ part[i] = 0
      BY <1>6, <2>3
    <3>2. total = 0
      BY <1>4, <2>3
    <3>3. amount * 0 = 0 /\ 0 * (0 + 1) = 0
      OBVIOUS
    <3> QED BY <2>1, <3>1, <3>2, <3>3
  <2> QED BY <1>4, <2>2, <2>3
<1>12. parts \in [1 .. n -> Nat]
  BY <1>7, <1>9, <1>11
<1> QED BY <1>2, <1>4, <1>11, <1>12 DEF total

-------------------------------------------------------------------------------
(***************************************************************************)
(* The remainder.  Every part of a split but the last is rounded down, so  *)
(* a smaller amount split alike has smaller parts, and its last part is at *)
(* most Spare(n) above that of the larger.                                 *)
(***************************************************************************)
\* The sum over a range of a function and one for each of its arguments.
LEMMA SumAndOnes ==
  ASSUME NEW k \in Nat, NEW f, \A i \in 1 .. k : f[i] \in Int,
         NEW g, \A i \in 1 .. k : g[i] = f[i] + 1
  PROVE  SumFunctionOnSet(g, 1 .. k) = SumFunctionOnSet(f, 1 .. k) + k
<1> DEFINE S == 1 .. k
           ones == [i \in S |-> 1]
<1>1. IsFiniteSet(S) /\ Cardinality(S) = k
  BY FS_Interval
<1>2. \A i \in S : ones[i] = 1 /\ ones[i] \in Int /\ f[i] \in Int /\ g[i] = f[i] + ones[i]
  OBVIOUS
<1> HIDE DEF S, ones
<1>3. SumFunctionOnSet(g, S) = SumFunctionOnSet(f, S) + SumFunctionOnSet(ones, S)
  BY <1>1, <1>2, SumPlus
<1>4. SumFunctionOnSet(ones, S) = k
  BY <1>1, <1>2, SumOfOnes
<1> QED BY <1>3, <1>4 DEF S

Totals(W, w, n) == W = SumFunctionOnSet(w, 1 .. n)

\* r is R by the weights w of which W is the total, rounded down, and s at least S so
\* rounded, up to the last part.
RoundedDown(W, w, S, s, R, r, n) ==
  \A i \in 1 .. n - 1 : W * r[i] <= R * w[i] /\ S * w[i] < W * (s[i] + 1)

\* No part of s is above that of r, but for what the last one has to spare.
Fits(s, r, n) == \A i \in 1 .. n : s[i] <= r[i] + (IF i = n THEN Spare(n) ELSE 0)

\* The last of n parts, when those before it are within one of their proportions.
LEMMA LastPartFits ==
  ASSUME NEW n \in Nat \ {0}, NEW w, NEW s, NEW r,
         \A i \in 1 .. n : w[i] \in Nat /\ s[i] \in Nat /\ r[i] \in Nat,
         NEW W \in Nat \ {0}, NEW S \in Nat, NEW R \in Nat,
         Totals(W, w, n), Totals(S, s, n), Totals(R, r, n), S <= R,
         RoundedDown(W, w, S, s, R, r, n)
  PROVE  s[n] <= r[n] + Spare(n)
<1> DEFINE k == n - 1
           T == 1 .. k
           ws == SumFunctionOnSet(w, T)
           ss == SumFunctionOnSet(s, T)
           rs == SumFunctionOnSet(r, T)
<1>0. IsFiniteSet(T)
  BY FS_Interval
<1>1. /\ k \in Nat /\ n \in 1 .. n /\ T \subseteq 1 .. n /\ IsFiniteSet(T)
      /\ S \in Int /\ R \in Int /\ W \in Int
  BY <1>0
<1>2. /\ \A i \in T : w[i] \in Nat /\ s[i] \in Nat /\ r[i] \in Nat
      /\ w[n] \in Nat /\ s[n] \in Nat /\ r[n] \in Nat
  BY <1>1
<1>3. /\ \A i \in 1 .. n : w[i] \in Int /\ s[i] \in Int /\ r[i] \in Int
  OBVIOUS
<1>4. W = w[n] + ws /\ S = s[n] + ss /\ R = r[n] + rs
  BY <1>3, SumExtends DEF Totals
<1>5. ws \in Nat /\ ss \in Nat /\ rs \in Nat
  <2> HIDE DEF T
  <2> QED BY <1>1, <1>2, SumOfNat
<1>6. W * rs <= R * ws
  <2> DEFINE f == [i \in T |-> W * r[i]]
             g == [i \in T |-> R * w[i]]
  <2>1. ASSUME NEW i \in T
        PROVE  /\ f[i] \in Int /\ g[i] \in Int /\ f[i] <= g[i]
               /\ r[i] \in Int /\ f[i] = W * r[i]
               /\ w[i] \in Int /\ g[i] = R * w[i]
    <3>1. W * r[i] \in Int /\ R * w[i] \in Int
      BY <1>2, ProductIsNat
    <3>2. W * r[i] <= R * w[i]
      BY DEF RoundedDown
    <3> QED BY <1>2, <3>1, <3>2
  <2> HIDE DEF f, g, T
  <2>2. SumFunctionOnSet(f, T) <= SumFunctionOnSet(g, T)
    BY <1>1, <2>1, SumMonotone
  <2>3. SumFunctionOnSet(f, T) = W * rs
    <3> DEFINE a == r
               c == W
    <3>1. IsFiniteSet(T) /\ c \in Int /\ \A i \in T : a[i] \in Int /\ f[i] = c * a[i]
      BY <1>1, <2>1
    <3> HIDE DEF a, c
    <3>2. SumFunctionOnSet(f, T) = c * SumFunctionOnSet(a, T)
      BY <3>1, SumScale
    <3> QED BY <3>2 DEF a, c
  <2>4. SumFunctionOnSet(g, T) = R * ws
    <3> DEFINE a == w
               c == R
    <3>1. IsFiniteSet(T) /\ c \in Int /\ \A i \in T : a[i] \in Int /\ g[i] = c * a[i]
      BY <1>1, <2>1
    <3> HIDE DEF a, c
    <3>2. SumFunctionOnSet(g, T) = c * SumFunctionOnSet(a, T)
      BY <3>1, SumScale
    <3> QED BY <3>2 DEF a, c
  <2> QED BY <2>2, <2>3, <2>4
<1>7. S * ws + k <= W * (ss + k)
  <2> DEFINE f == [i \in T |-> S * w[i]]
             f1 == [i \in T |-> f[i] + 1]
             g == [i \in T |-> s[i] + 1]
             gW == [i \in T |-> W * g[i]]
  <2>1. ASSUME NEW i \in T
        PROVE  /\ f[i] \in Int /\ f1[i] \in Int /\ g[i] \in Int /\ gW[i] \in Int
               /\ w[i] \in Int /\ f[i] = S * w[i] /\ f1[i] = f[i] + 1
               /\ s[i] \in Int /\ g[i] = s[i] + 1 /\ gW[i] = W * g[i]
               /\ f1[i] <= gW[i]
    <3>1. S * w[i] \in Int /\ W * (s[i] + 1) \in Int /\ S * w[i] < W * (s[i] + 1)
      <4>1. s[i] + 1 \in Nat
        BY <1>2
      <4>2. S * w[i] < W * (s[i] + 1)
        BY DEF RoundedDown
      <4> QED BY <1>2, <4>1, <4>2, ProductIsNat
    <3>2. f[i] = S * w[i] /\ f1[i] = f[i] + 1 /\ g[i] = s[i] + 1 /\ gW[i] = W * (s[i] + 1)
      OBVIOUS
    <3>3. w[i] \in Int /\ s[i] \in Int /\ s[i] + 1 \in Int
      BY <1>2
    <3> HIDE DEF f, f1, g, gW
    <3> QED BY <3>1, <3>2, <3>3
  <2> HIDE DEF f, f1, g, gW
  <2>2. SumFunctionOnSet(f1, T) = SumFunctionOnSet(f, T) + k
    <3>1. (\A i \in 1 .. k : f[i] \in Int) /\ (\A i \in 1 .. k : f1[i] = f[i] + 1)
      BY <2>1
    <3> HIDE DEF k
    <3> QED BY <1>1, <3>1, SumAndOnes
  <2>3. SumFunctionOnSet(g, T) = ss + k
    <3>1. (\A i \in 1 .. k : s[i] \in Int) /\ (\A i \in 1 .. k : g[i] = s[i] + 1)
      BY <2>1
    <3> HIDE DEF k
    <3> QED BY <1>1, <3>1, SumAndOnes
  <2> HIDE DEF T
  <2>4. SumFunctionOnSet(f, T) = S * ws
    <3> DEFINE a == w
               c == S
    <3>1. IsFiniteSet(T) /\ c \in Int /\ \A i \in T : a[i] \in Int /\ f[i] = c * a[i]
      BY <1>1, <2>1
    <3> HIDE DEF a, c
    <3>2. SumFunctionOnSet(f, T) = c * SumFunctionOnSet(a, T)
      BY <3>1, SumScale
    <3> QED BY <3>2 DEF a, c
  <2>5. SumFunctionOnSet(gW, T) = W * SumFunctionOnSet(g, T)
    <3> DEFINE a == g
               c == W
    <3>1. IsFiniteSet(T) /\ c \in Int /\ \A i \in T : a[i] \in Int /\ gW[i] = c * a[i]
      BY <1>1, <2>1
    <3> HIDE DEF a, c
    <3>2. SumFunctionOnSet(gW, T) = c * SumFunctionOnSet(a, T)
      BY <3>1, SumScale
    <3> QED BY <3>2 DEF a, c
  <2>6. SumFunctionOnSet(f1, T) <= SumFunctionOnSet(gW, T)
    BY <1>1, <2>1, SumMonotone
  <2> QED BY <2>2, <2>3, <2>4, <2>5, <2>6
<1> DEFINE wn == w[n]
           sn == s[n]
           rn == r[n]
<1>8. wn \in Nat /\ sn \in Nat /\ rn \in Nat /\ W = wn + ws /\ S = sn + ss /\ R = rn + rs
  BY <1>2, <1>4
<1> HIDE DEF T, ws, ss, rs, wn, sn, rn
<1>9. CASE n = 1
  <2>1. ss = 0 /\ rs = 0
    <3>1. T = {}
      BY <1>9 DEF T
    <3> QED BY <3>1, SumEmpty DEF ss, rs
  <2> QED BY <1>8, <1>9, <2>1 DEF Spare, sn, rn
<1>10. CASE n > 1
  <2>1. R * wn <= W * rn
    <3>1. R * wn = R * W - R * ws /\ W * rn = W * R - W * rs
      <4>1. wn = W - ws /\ rn = R - rs
        BY <1>5, <1>8
      <4>2. R * (W - ws) = R * W - R * ws /\ W * (R - rs) = W * R - W * rs
        BY <1>5
      <4> QED BY <4>1, <4>2
    <3>2. R * W = W * R /\ R * W \in Int /\ R * ws \in Int /\ W * rs \in Int
      BY <1>5
    <3> QED BY <1>6, <3>1, <3>2
  <2>2. S * wn <= R * wn
    BY <1>8, TimesMonotone
  <2>3. W * sn + k <= S * wn + k * W
    <3>1. sn = S - ss /\ wn = W - ws
      BY <1>5, <1>8
    <3>2. /\ W * (S - ss) = W * S - W * ss /\ S * (W - ws) = S * W - S * ws
          /\ W * (ss + k) = W * ss + k * W
      BY <1>1, <1>5
    <3>3. /\ W * S = S * W /\ S * W \in Int /\ W * ss \in Int /\ S * ws \in Int /\ k * W \in Int
          /\ k \in Int
      BY <1>1, <1>5
    <3> HIDE DEF k
    <3> QED BY <1>7, <3>1, <3>2, <3>3
  <2>4. W * sn < W * (rn + k)
    <3>1. W * (rn + k) = W * rn + k * W
      BY <1>1, <1>8
    <3>2. k \in Nat /\ k > 0
      BY <1>1, <1>10
    <3>3. W * sn \in Int /\ W * rn \in Int /\ S * wn \in Int /\ R * wn \in Int /\ k * W \in Int
      BY <1>1, <1>8
    <3> HIDE DEF k
    <3> QED BY <2>1, <2>2, <2>3, <3>1, <3>2, <3>3
  <2>5. sn < rn + k
    <3> SUFFICES ASSUME rn + k <= sn PROVE FALSE
      BY <1>1, <1>8
    <3>1. (rn + k) * W <= sn * W
      BY <1>1, <1>8, TimesMonotone
    <3>2. (rn + k) * W = W * (rn + k) /\ sn * W = W * sn /\ W * sn \in Int /\ W * (rn + k) \in Int
      BY <1>1, <1>8
    <3> QED BY <2>4, <3>1, <3>2
  <2> QED BY <1>8, <1>10, <2>5 DEF Spare, sn, rn
<1> QED BY <1>9, <1>10

\* All parts but the last are quotients.
LEMMA SplitQuotients ==
  ASSUME NEW amount \in Nat, NEW n \in Nat \ {0}, NEW weights \in Seq(Nat), Len(weights) = n,
         NEW i \in 1 .. n - 1
  PROVE  LET total == SumFunctionOnSet(weights, 1 .. n)
         IN  SplitProRata(amount, weights)[i] =
               IF total <= 0 THEN 0 ELSE (amount * weights[i]) \div total
<1>1. i \in 1 .. n /\ i # n
  OBVIOUS
<1> QED BY <1>1 DEF SplitProRata

\* Two amounts split alike.
LEMMA SplitFits ==
  ASSUME NEW n \in Nat \ {0}, NEW weights \in Seq(Nat), Len(weights) = n,
         NEW S \in Nat, NEW R \in Nat, S <= R
  PROVE  Fits(SplitProRata(S, weights), SplitProRata(R, weights), n)
<1> DEFINE s == SplitProRata(S, weights)
           r == SplitProRata(R, weights)
           W == SumFunctionOnSet(weights, 1 .. n)
<1>1. /\ s \in [1 .. n -> Nat] /\ W \in Nat
      /\ r \in [1 .. n -> Nat]
  BY SplitParts, Zenon
<1>2. SumFunctionOnSet(s, 1 .. n) = S /\ SumFunctionOnSet(r, 1 .. n) = R
  <2>1. S \in Int /\ R \in Int
    OBVIOUS
  <2> QED BY <2>1, SplitAddsUp, Zenon
<1>3. \A i \in 1 .. n - 1 : /\ s[i] = IF W <= 0 THEN 0 ELSE (S * weights[i]) \div W
                            /\ r[i] = IF W <= 0 THEN 0 ELSE (R * weights[i]) \div W
  BY SplitQuotients, Zenon
<1>4. n \in 1 .. n /\ \A i \in 1 .. n : weights[i] \in Nat
  OBVIOUS
<1>5. Spare(n) \in Nat
  BY DEF Spare
<1> HIDE DEF s, r, W
<1>6. CASE W = 0
  <2>1. \A i \in 1 .. n - 1 : s[i] = 0 /\ r[i] = 0
    BY <1>3, <1>6
  <2>2. S = s[n] /\ R = r[n]
    <3> DEFINE T == 1 .. n - 1
    <3>1. IsFiniteSet(T) /\ \A i \in T : s[i] = 0 /\ r[i] = 0
      BY <2>1, FS_Interval
    <3>2. SumFunctionOnSet(s, T) = 0 /\ SumFunctionOnSet(r, T) = 0
      <4> HIDE DEF T
      <4> QED BY <3>1, SumZero
    <3>3. \A i \in 1 .. n : s[i] \in Int /\ r[i] \in Int
      BY <1>1
    <3>4. S = s[n] + SumFunctionOnSet(s, T) /\ R = r[n] + SumFunctionOnSet(r, T)
      BY <1>2, <3>3, SumExtends
    <3>5. s[n] \in Int /\ r[n] \in Int
      BY <1>4, <3>3
    <3> HIDE DEF T
    <3> QED BY <3>2, <3>4, <3>5
  <2>3. \A i \in 1 .. n : i = n \/ i \in 1 .. n - 1
    OBVIOUS
  <2>4. ASSUME NEW i \in 1 .. n
        PROVE  s[i] <= r[i] + (IF i = n THEN Spare(n) ELSE 0)
    BY <1>5, <2>1, <2>2, <2>3
  <2> QED BY <2>4 DEF Fits, s, r
<1>7. CASE W # 0
  <2>1. ASSUME NEW i \in 1 .. n - 1
        PROVE  /\ s[i] <= r[i]
               /\ W * r[i] <= R * weights[i]
               /\ S * weights[i] < W * (s[i] + 1)
    <3> DEFINE w == weights[i]
               a == S * w
               b == R * w
    <3>1. i \in 1 .. n /\ w \in Nat /\ W \in Nat \ {0}
      BY <1>1, <1>4, <1>7
    <3>2. a \in Nat /\ b \in Nat /\ a <= b
      BY <3>1, ProductIsNat, TimesMonotone
    <3>3. s[i] = a \div W /\ r[i] = b \div W
      BY <1>3, <3>1
    <3> HIDE DEF a, b, w
    <3>4. a \div W <= b \div W
      BY <3>1, <3>2, DivMonotone
    <3>5. W * (b \div W) <= b /\ a < W * (a \div W) + W /\ a \div W \in Int
      BY <3>1, <3>2, DivBounds
    <3>6. W * (a \div W + 1) = W * (a \div W) + W
      BY <3>1, <3>5
    <3> QED BY <3>3, <3>4, <3>5, <3>6 DEF a, b, w
  <2>2. s[n] <= r[n] + Spare(n)
    <3>1. W \in Nat \ {0} /\ \A i \in 1 .. n : weights[i] \in Nat /\ s[i] \in Nat /\ r[i] \in Nat
      BY <1>1, <1>4, <1>7
    <3>2. Totals(W, weights, n) /\ Totals(S, s, n) /\ Totals(R, r, n)
      BY <1>2 DEF W, Totals
    <3>3. RoundedDown(W, weights, S, s, R, r, n)
      BY <2>1 DEF RoundedDown
    <3> QED BY <3>1, <3>2, <3>3, LastPartFits
  <2>3. ASSUME NEW i \in 1 .. n
        PROVE  s[i] <= r[i] + (IF i = n THEN Spare(n) ELSE 0)
    <3>1. CASE i = n
      BY <2>2, <3>1
    <3>2. CASE i # n
      <4>1. i \in 1 .. n - 1 /\ s[i] \in Nat /\ r[i] \in Nat
        BY <1>1, <3>2
      <4> QED BY <2>1, <3>2, <4>1
    <3> QED BY <3>1, <3>2
  <2> QED BY <2>3 DEF Fits, s, r
<1> QED BY <1>1, <1>6, <1>7

\* An amount split by parts that add up to at least as much.
LEMMA SplitOfPartsFits ==
  ASSUME NEW n \in Nat \ {0}, NEW r \in Seq(Nat), Len(r) = n,
         NEW R \in Nat \ {0}, Totals(R, r, n), NEW c \in Nat, c <= R
  PROVE  Fits(SplitProRata(c, r), r, n)
<1> DEFINE s == SplitProRata(c, r)
<1>1. s \in [1 .. n -> Nat]
  BY SplitParts, Zenon
<1>2. SumFunctionOnSet(s, 1 .. n) = c
  <2>1. c \in Int
    OBVIOUS
  <2> QED BY <2>1, SplitAddsUp, Zenon
<1>3. \A i \in 1 .. n - 1 :
        s[i] = IF R <= 0 THEN 0 ELSE (c * r[i]) \div R
  BY SplitQuotients, Zenon DEF Totals
<1>4. n \in 1 .. n /\ \A i \in 1 .. n : r[i] \in Nat
  OBVIOUS
<1> HIDE DEF s
<1>5. ASSUME NEW i \in 1 .. n - 1
      PROVE  s[i] <= r[i] /\ R * r[i] <= R * r[i] /\ c * r[i] < R * (s[i] + 1)
  <2> DEFINE q == r[i]
             a == c * q
             b == R * q
  <2>1. i \in 1 .. n /\ q \in Nat
    BY <1>4
  <2>2. a \in Nat /\ b \in Nat /\ a <= b
    BY <2>1, ProductIsNat, TimesMonotone
  <2>3. s[i] = a \div R
    BY <1>3
  <2> HIDE DEF a, q
  <2>4. R * (a \div R) <= a /\ a < R * (a \div R) + R /\ a \div R \in Int
    BY <2>2, DivBounds
  <2>5. a \div R <= q
    <3> DEFINE d == a \div R
    <3>1. d \in Int /\ R * d <= b
      BY <2>2, <2>4
    <3> HIDE DEF d, b
    <3> SUFFICES ASSUME q + 1 <= d PROVE FALSE
      BY <2>1, <3>1 DEF d
    <3>2. (q + 1) * R <= d * R
      BY <2>1, <3>1, TimesMonotone
    <3>3. (q + 1) * R = R * q + R /\ d * R = R * d /\ R * q \in Int /\ R * d \in Int
      BY <2>1, <3>1
    <3> QED BY <3>1, <3>2, <3>3 DEF b
  <2>7. R * (a \div R + 1) = R * (a \div R) + R
    BY <2>4
  <2>8. b <= b
    BY <2>2
  <2> QED BY <2>3, <2>4, <2>5, <2>7, <2>8 DEF a, b, q
<1>6. s[n] <= r[n] + Spare(n)
  <2>1. /\ \A i \in 1 .. n : r[i] \in Nat /\ s[i] \in Nat /\ r[i] \in Nat
        /\ RoundedDown(R, r, c, s, R, r, n)
        /\ R \in Nat
    BY <1>1, <1>4, <1>5 DEF RoundedDown
  <2>2. Totals(c, s, n)
    BY <1>2 DEF Totals
  <2> QED BY <2>1, <2>2, LastPartFits
<1>7. ASSUME NEW i \in 1 .. n
      PROVE  s[i] <= r[i] + (IF i = n THEN Spare(n) ELSE 0)
  <2>1. CASE i = n
    BY <1>6, <2>1
  <2>2. CASE i # n
    <3>1. i \in 1 .. n - 1 /\ s[i] \in Nat /\ r[i] \in Nat
      BY <1>1, <1>4, <2>2
    <3> QED BY <1>5, <2>2, <3>1
  <2> QED BY <2>1, <2>2
<1> QED BY <1>7 DEF s, Fits

\* Over any of the parts, the last or not.
LEMMA PartsFit ==
  ASSUME NEW n \in Nat, NEW f, NEW g, \A i \in 1 .. n : f[i] \in Nat /\ g[i] \in Nat,
         Fits(f, g, n),
         NEW J \in SUBSET (1 .. n)
  PROVE  /\ SumFunctionOnSet(f, J) \in Nat /\ SumFunctionOnSet(g, J) \in Nat
         /\ SumFunctionOnSet(f, J) <= SumFunctionOnSet(g, J) + Spare(n)
<1> DEFINE rest == [i \in 1 .. n |-> IF i = n THEN Spare(n) ELSE 0]
           h == [i \in 1 .. n |-> g[i] + rest[i]]
<1>0. IsFiniteSet(1 .. n)
  BY FS_Interval
<1>1. IsFiniteSet(1 .. n) /\ IsFiniteSet(J) /\ J \subseteq 1 .. n
  BY <1>0, FS_Subset
<1>2. Spare(n) \in Nat
  BY DEF Spare
<1>3. \A i \in 1 .. n : rest[i] \in Nat /\ h[i] = g[i] + rest[i] /\ f[i] <= h[i]
  BY <1>2 DEF Fits
<1>4. \A i \in 1 .. n : i # n => rest[i] = 0
  OBVIOUS
<1>5. n \in 1 .. n => rest[n] = Spare(n)
  OBVIOUS
<1> HIDE DEF rest, h
<1>6. \A i \in 1 .. n : f[i] \in Int /\ g[i] \in Int /\ rest[i] \in Int /\ h[i] \in Int
  BY <1>3
<1>7. \A i \in J : f[i] \in Nat /\ g[i] \in Nat /\ rest[i] \in Nat
  BY <1>1, <1>3
<1>8. /\ SumFunctionOnSet(f, J) \in Nat /\ SumFunctionOnSet(g, J) \in Nat
      /\ SumFunctionOnSet(rest, J) \in Nat
  BY <1>1, <1>7, SumOfNat
<1>9. SumFunctionOnSet(f, J) <= SumFunctionOnSet(h, J)
  <2>1. \A i \in J : f[i] \in Int /\ h[i] \in Int /\ f[i] <= h[i]
    BY <1>1, <1>3, <1>6
  <2> QED BY <1>1, <2>1, SumMonotone
<1>10. SumFunctionOnSet(h, J) = SumFunctionOnSet(g, J) + SumFunctionOnSet(rest, J)
  <2> DEFINE T == J
             a == g
  <2>1. IsFiniteSet(T) /\ \A i \in T : a[i] \in Int /\ rest[i] \in Int /\ h[i] = a[i] + rest[i]
    BY <1>1, <1>3, <1>6
  <2> HIDE DEF T, a
  <2>2. SumFunctionOnSet(h, T) = SumFunctionOnSet(a, T) + SumFunctionOnSet(rest, T)
    BY <2>1, SumPlus
  <2> QED BY <2>2 DEF T, a
<1>11. SumFunctionOnSet(rest, J) <= Spare(n)
  <2>1. SumFunctionOnSet(rest, J) <= SumFunctionOnSet(rest, 1 .. n)
    <3>1. \A i \in 1 .. n : rest[i] \in Nat
      BY <1>3
    <3> QED BY <1>1, <3>1, SumOfPart
  <2>2. CASE n \in 1 .. n
    <3>1. {n} \in SUBSET (1 .. n) /\ \A i \in (1 .. n) \ {n} : rest[i] = 0
      BY <1>4, <2>2
    <3>2. SumFunctionOnSet(rest, 1 .. n) = SumFunctionOnSet(rest, {n})
      BY <1>1, <1>6, <3>1, SumSupport
    <3>3. SumFunctionOnSet(rest, {n}) = rest[n] + SumFunctionOnSet(rest, {n} \ {n})
      <4>1. IsFiniteSet({n}) /\ n \in {n} /\ \A i \in {n} : rest[i] \in Int
        BY <1>6, <2>2, FS_Singleton
      <4> QED BY <4>1, SumRemove
    <3>4. SumFunctionOnSet(rest, {n} \ {n}) = 0
      <4>1. {n} \ {n} = {}
        OBVIOUS
      <4> QED BY <4>1, SumEmpty
    <3> QED BY <1>2, <1>5, <2>1, <2>2, <3>2, <3>3, <3>4
  <2>3. CASE n \notin 1 .. n
    <3>1. 1 .. n = {}
      BY <2>3
    <3>2. SumFunctionOnSet(rest, 1 .. n) = 0
      BY <3>1, SumEmpty
    <3> QED BY <1>2, <1>8, <2>1, <3>2
  <2> QED BY <2>2, <2>3
<1> QED BY <1>2, <1>8, <1>9, <1>10, <1>11

OrderLeg(V) == [vault : V, stake : Nat, reserve : Nat]
Places(vaults, v) == {i \in 1 .. Len(vaults) : vaults[i] = v}

\* The stored legs hold all of the stake and of the win, and each vault its parts of the
\* win's split: what is not stored is nothing.
LEMMA LegsHoldAll ==
  ASSUME NEW V, NEW vaults \in Seq(V), NEW weights \in Seq(Nat), NEW n \in Nat \ {0},
         Len(vaults) = n, Len(weights) = n, NEW stake \in Nat, NEW win \in Nat
  PROVE  LET legs == OrderLegs(vaults, weights, stake, win)
         IN  /\ legs \in Seq(OrderLeg(V))
             /\ SumFunctionOnSet(Stakes(legs), 1 .. Len(legs)) = stake
             /\ SumFunctionOnSet(Reserves(legs), 1 .. Len(legs)) = win
             /\ \A v \in V : PartOf(legs, Reserves(legs), v) =
                  SumFunctionOnSet(SplitProRata(win, weights), Places(vaults, v))
             /\ \A v \in V : PartOf(legs, Stakes(legs), v) =
                  SumFunctionOnSet(SplitProRata(stake, weights), Places(vaults, v))
             /\ Len(legs) <= n
<1> DEFINE stakes == SplitProRata(stake, weights)
           wins == SplitProRata(win, weights)
           all == [i \in 1 .. n |-> [vault |-> vaults[i], stake |-> stakes[i], reserve |-> wins[i]]]
           keep == {i \in 1 .. n : stakes[i] # 0 \/ wins[i] # 0}
           legs == Kept(all, keep)
           E == OrderLeg(V)
<1>1. OrderLegs(vaults, weights, stake, win) = legs
  BY DEF OrderLegs
<1>0. stake \in Int /\ win \in Int
  OBVIOUS
<1>2. stakes \in [1 .. n -> Nat] /\ SumFunctionOnSet(stakes, 1 .. n) = stake
  <2>1. stakes \in [1 .. n -> Nat]
    BY SplitParts, Zenon
  <2>2. SumFunctionOnSet(stakes, 1 .. n) = stake
    BY <1>0, SplitAddsUp, Zenon
  <2> QED BY <2>1, <2>2
<1>3. wins \in [1 .. n -> Nat] /\ SumFunctionOnSet(wins, 1 .. n) = win
  <2>1. wins \in [1 .. n -> Nat]
    BY SplitParts, Zenon
  <2>2. SumFunctionOnSet(wins, 1 .. n) = win
    BY <1>0, SplitAddsUp, Zenon
  <2> QED BY <2>1, <2>2
<1>4. \A i \in 1 .. n : vaults[i] \in V
  OBVIOUS
<1> HIDE DEF stakes, wins
<1>5. all \in Seq(E) /\ Len(all) = n
      /\ \A i \in 1 .. n : /\ all[i].vault = vaults[i] /\ all[i].stake = stakes[i]
                           /\ all[i].reserve = wins[i] /\ all[i] \in E
  <2>1. \A i \in 1 .. n : all[i] \in E
    BY <1>2, <1>3, <1>4 DEF OrderLeg
  <2>2. all \in Seq(E) /\ Len(all) = n
    BY <2>1
  <2> QED BY <2>1, <2>2
<1>6. \A i \in 1 .. n : i \notin keep => stakes[i] = 0 /\ wins[i] = 0
  OBVIOUS
<1> HIDE DEF all, keep
<1>7. /\ legs \in Seq(E)
      /\ \A f \in [E -> Int] :
           SumAlong(f, legs) =
             SumFunctionOnSet([i \in 1 .. n |-> IF i \in keep THEN f[all[i]] ELSE 0], 1 .. n)
  <2> HIDE DEF E
  <2>1. /\ Kept(all, keep) \in Seq(E)
        /\ \A f \in [E -> Int] : SumAlong(f, Kept(all, keep)) = KeptSum(f, all, keep)
    BY <1>5, SumAlongKept
  <2> QED BY <1>5, <2>1, Zenon DEF KeptSum
<1> HIDE DEF legs
<1>8. IsFiniteSet(1 .. n) /\ IsFiniteSet(1 .. Len(legs)) /\ \A j \in 1 .. Len(legs) : legs[j] \in E
  BY <1>7, FS_Interval
<1>9. SumFunctionOnSet(Stakes(legs), 1 .. Len(legs)) = stake
  <2> DEFINE f == [e \in E |-> e.stake]
             g == [i \in 1 .. n |-> IF i \in keep THEN f[all[i]] ELSE 0]
             h == [j \in 1 .. Len(legs) |-> f[legs[j]]]
  <2>1. f \in [E -> Int]
    BY DEF OrderLeg
  <2>2. SumAlong(f, legs) = SumFunctionOnSet(g, 1 .. n)
    BY <1>7, <2>1
  <2>3. \A i \in 1 .. n : g[i] = stakes[i]
    BY <1>5, <1>6
  <2>4. \A j \in 1 .. Len(legs) : h[j] = Stakes(legs)[j]
    BY <1>8 DEF Stakes
  <2>5. SumAlong(f, legs) = SumFunctionOnSet(h, 1 .. Len(legs))
    BY DEF SumAlong
  <2> HIDE DEF g, h, f
  <2>6. SumFunctionOnSet(g, 1 .. n) = SumFunctionOnSet(stakes, 1 .. n)
    BY <1>8, <2>3, SumSame
  <2>7. SumFunctionOnSet(h, 1 .. Len(legs)) = SumFunctionOnSet(Stakes(legs), 1 .. Len(legs))
    BY <1>8, <2>4, SumSame
  <2> QED BY <1>2, <2>2, <2>5, <2>6, <2>7
<1>10. SumFunctionOnSet(Reserves(legs), 1 .. Len(legs)) = win
  <2> DEFINE f == [e \in E |-> e.reserve]
             g == [i \in 1 .. n |-> IF i \in keep THEN f[all[i]] ELSE 0]
             h == [j \in 1 .. Len(legs) |-> f[legs[j]]]
  <2>1. f \in [E -> Int]
    BY DEF OrderLeg
  <2>2. SumAlong(f, legs) = SumFunctionOnSet(g, 1 .. n)
    BY <1>7, <2>1
  <2>3. \A i \in 1 .. n : g[i] = wins[i]
    BY <1>5, <1>6
  <2>4. \A j \in 1 .. Len(legs) : h[j] = Reserves(legs)[j]
    BY <1>8 DEF Reserves
  <2>5. SumAlong(f, legs) = SumFunctionOnSet(h, 1 .. Len(legs))
    BY DEF SumAlong
  <2> HIDE DEF g, h, f
  <2>6. SumFunctionOnSet(g, 1 .. n) = SumFunctionOnSet(wins, 1 .. n)
    BY <1>8, <2>3, SumSame
  <2>7. SumFunctionOnSet(h, 1 .. Len(legs)) = SumFunctionOnSet(Reserves(legs), 1 .. Len(legs))
    BY <1>8, <2>4, SumSame
  <2> QED BY <1>3, <2>2, <2>5, <2>6, <2>7
<1>11. ASSUME NEW v \in V
       PROVE  PartOf(legs, Reserves(legs), v) = SumFunctionOnSet(wins, Places(vaults, v))
  <2> DEFINE f == [e \in E |-> IF e.vault = v THEN e.reserve ELSE 0]
             g == [i \in 1 .. n |-> IF i \in keep THEN f[all[i]] ELSE 0]
             h == [j \in 1 .. Len(legs) |-> f[legs[j]]]
             I == {i \in 1 .. n : vaults[i] = v}
             J == {j \in 1 .. Len(legs) : legs[j].vault = v}
  <2>1. f \in [E -> Int]
    BY DEF OrderLeg
  <2>2. SumAlong(f, legs) = SumFunctionOnSet(g, 1 .. n)
    BY <1>7, <2>1
  <2>3. \A i \in 1 .. n : g[i] = IF vaults[i] = v THEN wins[i] ELSE 0
    BY <1>5, <1>6
  <2>4. \A j \in 1 .. Len(legs) : h[j] = IF legs[j].vault = v THEN Reserves(legs)[j] ELSE 0
    BY <1>8 DEF Reserves
  <2>5. SumAlong(f, legs) = SumFunctionOnSet(h, 1 .. Len(legs))
    BY DEF SumAlong
  <2>6. \A i \in 1 .. n : wins[i] \in Int
    BY <1>3
  <2>7. \A j \in 1 .. Len(legs) : Reserves(legs)[j] \in Int
    BY <1>8 DEF Reserves, OrderLeg
  <2>8. /\ I \in SUBSET (1 .. n) /\ \A i \in I : g[i] = wins[i]
        /\ \A i \in (1 .. n) \ I : g[i] = 0
    BY <2>3
  <2>9. /\ J \in SUBSET (1 .. Len(legs)) /\ \A j \in J : h[j] = Reserves(legs)[j]
        /\ \A j \in (1 .. Len(legs)) \ J : h[j] = 0
    BY <2>4
  <2>10. PartOf(legs, Reserves(legs), v) = SumFunctionOnSet(Reserves(legs), J)
    BY DEF PartOf
  <2> HIDE DEF g, h, f, I, J
  <2>11. (\A i \in 1 .. n : g[i] \in Int) /\ (\A j \in 1 .. Len(legs) : h[j] \in Int)
    <3>1. \A i \in 1 .. n : g[i] \in Int
      BY <2>3, <2>6
    <3>2. \A j \in 1 .. Len(legs) : h[j] \in Int
      BY <2>4, <2>7
    <3> QED BY <3>1, <3>2
  <2>12. SumFunctionOnSet(g, 1 .. n) = SumFunctionOnSet(g, I)
         /\ SumFunctionOnSet(h, 1 .. Len(legs)) = SumFunctionOnSet(h, J)
    BY <1>8, <2>8, <2>9, <2>11, SumSupport
  <2>13. SumFunctionOnSet(g, I) = SumFunctionOnSet(wins, I)
         /\ SumFunctionOnSet(h, J) = SumFunctionOnSet(Reserves(legs), J)
    <3>1. IsFiniteSet(I) /\ IsFiniteSet(J)
      BY <1>8, <2>8, <2>9, FS_Subset
    <3> QED BY <2>8, <2>9, <3>1, SumSame
  <2>14. PartOf(legs, Reserves(legs), v) = SumFunctionOnSet(wins, I)
    BY <2>2, <2>5, <2>10, <2>12, <2>13
  <2> QED BY <2>14 DEF I, Places
<1>13. ASSUME NEW v \in V
       PROVE  PartOf(legs, Stakes(legs), v) = SumFunctionOnSet(stakes, Places(vaults, v))
  <2> DEFINE f == [e \in E |-> IF e.vault = v THEN e.stake ELSE 0]
             g == [i \in 1 .. n |-> IF i \in keep THEN f[all[i]] ELSE 0]
             h == [j \in 1 .. Len(legs) |-> f[legs[j]]]
             I == {i \in 1 .. n : vaults[i] = v}
             J == {j \in 1 .. Len(legs) : legs[j].vault = v}
  <2>1. f \in [E -> Int]
    BY DEF OrderLeg
  <2>2. SumAlong(f, legs) = SumFunctionOnSet(g, 1 .. n)
    BY <1>7, <2>1
  <2>3. \A i \in 1 .. n : g[i] = IF vaults[i] = v THEN stakes[i] ELSE 0
    BY <1>5, <1>6
  <2>4. \A j \in 1 .. Len(legs) : h[j] = IF legs[j].vault = v THEN Stakes(legs)[j] ELSE 0
    BY <1>8 DEF Stakes
  <2>5. SumAlong(f, legs) = SumFunctionOnSet(h, 1 .. Len(legs))
    BY DEF SumAlong
  <2>6. \A i \in 1 .. n : stakes[i] \in Int
    BY <1>2
  <2>7. \A j \in 1 .. Len(legs) : Stakes(legs)[j] \in Int
    BY <1>8 DEF Stakes, OrderLeg
  <2>8. /\ I \in SUBSET (1 .. n) /\ \A i \in I : g[i] = stakes[i]
        /\ \A i \in (1 .. n) \ I : g[i] = 0
    BY <2>3
  <2>9. /\ J \in SUBSET (1 .. Len(legs)) /\ \A j \in J : h[j] = Stakes(legs)[j]
        /\ \A j \in (1 .. Len(legs)) \ J : h[j] = 0
    BY <2>4
  <2>10. PartOf(legs, Stakes(legs), v) = SumFunctionOnSet(Stakes(legs), J)
    BY DEF PartOf
  <2> HIDE DEF g, h, f, I, J
  <2>11. (\A i \in 1 .. n : g[i] \in Int) /\ (\A j \in 1 .. Len(legs) : h[j] \in Int)
    <3>1. \A i \in 1 .. n : g[i] \in Int
      BY <2>3, <2>6
    <3>2. \A j \in 1 .. Len(legs) : h[j] \in Int
      BY <2>4, <2>7
    <3> QED BY <3>1, <3>2
  <2>12. SumFunctionOnSet(g, 1 .. n) = SumFunctionOnSet(g, I)
         /\ SumFunctionOnSet(h, 1 .. Len(legs)) = SumFunctionOnSet(h, J)
    BY <1>8, <2>8, <2>9, <2>11, SumSupport
  <2>13. SumFunctionOnSet(g, I) = SumFunctionOnSet(stakes, I)
         /\ SumFunctionOnSet(h, J) = SumFunctionOnSet(Stakes(legs), J)
    <3>1. IsFiniteSet(I) /\ IsFiniteSet(J)
      BY <1>8, <2>8, <2>9, FS_Subset
    <3> QED BY <2>8, <2>9, <3>1, SumSame
  <2>14. PartOf(legs, Stakes(legs), v) = SumFunctionOnSet(stakes, I)
    BY <2>2, <2>5, <2>10, <2>12, <2>13
  <2> QED BY <2>14 DEF I, Places
<1>14. Len(legs) <= n
  <2> DEFINE f == [e \in E |-> 1]
             g == [i \in 1 .. n |-> IF i \in keep THEN f[all[i]] ELSE 0]
             h == [j \in 1 .. Len(legs) |-> f[legs[j]]]
             ones == [i \in 1 .. n |-> 1]
  <2>1. f \in [E -> Int]
    OBVIOUS
  <2>2. SumAlong(f, legs) = SumFunctionOnSet(g, 1 .. n)
    BY <1>7, <2>1
  <2>3. /\ \A i \in 1 .. n : g[i] \in Int /\ ones[i] \in Int /\ g[i] <= ones[i]
        /\ \A i \in 1 .. n : ones[i] = 1
    BY <1>5
  <2>4. \A j \in 1 .. Len(legs) : h[j] = 1
    BY <1>8
  <2>5. SumAlong(f, legs) = SumFunctionOnSet(h, 1 .. Len(legs))
    BY DEF SumAlong
  <2> HIDE DEF g, h, f, ones
  <2>6. SumFunctionOnSet(g, 1 .. n) <= SumFunctionOnSet(ones, 1 .. n)
    BY <1>8, <2>3, SumMonotone
  <2>7. /\ SumFunctionOnSet(ones, 1 .. n) = Cardinality(1 .. n)
        /\ SumFunctionOnSet(h, 1 .. Len(legs)) = Cardinality(1 .. Len(legs))
    BY <1>8, <2>3, <2>4, SumOfOnes
  <2>8. Len(legs) \in Nat /\ Cardinality(1 .. n) = n /\ Cardinality(1 .. Len(legs)) = Len(legs)
    <3> DEFINE k == Len(legs)
    <3>1. k \in Nat /\ 1 \in Int /\ n \in Nat
      BY <1>7
    <3> HIDE DEF k
    <3>2. Cardinality(1 .. n) = n
      BY <3>1, FS_Interval
    <3>3. Cardinality(1 .. k) = k
      BY <3>1, FS_Interval
    <3> QED BY <3>1, <3>2, <3>3 DEF k
  <2> QED BY <2>2, <2>5, <2>6, <2>7, <2>8
<1>12. /\ legs \in Seq(OrderLeg(V))
       /\ SumFunctionOnSet(Stakes(legs), 1 .. Len(legs)) = stake
       /\ SumFunctionOnSet(Reserves(legs), 1 .. Len(legs)) = win
       /\ \A v \in V : PartOf(legs, Reserves(legs), v) =
            SumFunctionOnSet(wins, Places(vaults, v))
       /\ \A v \in V : PartOf(legs, Stakes(legs), v) =
            SumFunctionOnSet(stakes, Places(vaults, v))
       /\ Len(legs) <= n
  BY <1>7, <1>9, <1>10, <1>11, <1>13, <1>14
<1> HIDE DEF E
<1> QED BY <1>1, <1>12 DEF wins, stakes

\* The vaults' parts of an amount add up to it.
LEMMA PartsAddUp ==
  ASSUME NEW V, IsFiniteSet(V), NEW legs \in Seq(OrderLeg(V)), NEW parts,
         \A i \in 1 .. Len(legs) : parts[i] \in Int
  PROVE  /\ \A v \in V : PartOf(legs, parts, v) \in Int
         /\ SumFunction([v \in V |-> PartOf(legs, parts, v)])
              = SumFunctionOnSet(parts, 1 .. Len(legs))
<1> DEFINE S == 1 .. Len(legs)
           class == [i \in S |-> legs[i].vault]
           Of(v) == {i \in S : legs[i].vault = v}
           Mine(v) == {i \in S : class[i] = v}
           whole == [v \in V |-> SumFunctionOnSet(parts, Mine(v))]
<1>1. IsFiniteSet(S) /\ \A i \in S : parts[i] \in Int /\ class[i] \in V
  <2>1. IsFiniteSet(S)
    BY FS_Interval
  <2>2. \A i \in S : legs[i] \in OrderLeg(V)
    OBVIOUS
  <2> QED BY <2>1, <2>2 DEF OrderLeg
<1>2. \A v \in V : Of(v) = Mine(v) /\ IsFiniteSet(Of(v)) /\ Of(v) \subseteq S
  BY <1>1, FS_Subset
<1>3. \A v \in V : PartOf(legs, parts, v) = SumFunctionOnSet(parts, Of(v))
  BY DEF PartOf
<1>4. SumFunctionOnSet(whole, V) = SumFunctionOnSet(parts, S)
  <2> HIDE DEF class, S
  <2> QED BY <1>1, SumByClass
<1> HIDE DEF S, class
<1>5. \A v \in V : PartOf(legs, parts, v) = whole[v]
  <2> SUFFICES ASSUME NEW v \in V PROVE PartOf(legs, parts, v) = whole[v]
    OBVIOUS
  <2>1. Of(v) = Mine(v)
    BY <1>2
  <2>2. whole[v] = SumFunctionOnSet(parts, Mine(v))
    OBVIOUS
  <2> HIDE DEF Of, Mine, whole
  <2> QED BY <1>3, <2>1, <2>2
<1>6. \A v \in V : PartOf(legs, parts, v) \in Int
  <2> SUFFICES ASSUME NEW v \in V PROVE PartOf(legs, parts, v) \in Int
    OBVIOUS
  <2>1. IsFiniteSet(Of(v)) /\ \A i \in Of(v) : parts[i] \in Int
    BY <1>1, <1>2
  <2> HIDE DEF Of
  <2> QED BY <1>3, <2>1, SumIsInt
<1> DEFINE g == [v \in V |-> PartOf(legs, parts, v)]
<1>7. DOMAIN g = V /\ \A v \in V : g[v] = whole[v]
  BY <1>5
<1> HIDE DEF g, whole
<1>8. SumFunction(g) = SumFunctionOnSet(parts, S)
  BY <1>4, <1>7, SumSame DEF SumFunction
<1> QED BY <1>6, <1>8 DEF g, S


-------------------------------------------------------------------------------
(***************************************************************************)
(* The arithmetic of a vault.                                              *)
(***************************************************************************)
\* Deposits mint a whole number of shares, worth no more than what came in.
LEMMA SharesForDepositFair ==
  ASSUME NEW d \in Nat, NEW b \in Nat, NEW r \in Nat, r <= b, NEW t \in Int
  PROVE  LET s == SharesForDeposit(d, b, r, t)
         IN  s \in Nat /\ (t > 0 => s * (b - r) <= d * t)
<1>1. CASE t > 0 /\ b - r > 0
  <2>1. d * t \in Nat /\ b - r \in Nat \ {0}
    BY <1>1, ProductIsNat
  <2> QED BY <1>1, <2>1, FloorDivision DEF SharesForDeposit, Equity
<1>2. CASE t > 0 /\ b - r = 0
  BY <1>2, ProductIsNat DEF SharesForDeposit, Equity
<1>3. CASE ~(t > 0)
  BY <1>3 DEF SharesForDeposit, Equity
<1> QED BY <1>1, <1>2, <1>3

\* Redemptions pay a whole amount, worth no more than the shares burnt.
LEMMA RedeemPayoutFair ==
  ASSUME NEW s \in Nat, NEW b \in Nat, NEW r \in Nat, r <= b, NEW t \in Int
  PROVE  LET p == RedeemPayout(s, b, r, t)
         IN  p \in Nat /\ (t > 0 => p * t <= s * (b - r))
<1>1. CASE t > 0
  <2>1. s * (b - r) \in Nat /\ t \in Nat \ {0}
    BY <1>1, ProductIsNat
  <2> QED BY <1>1, <2>1, FloorDivision DEF RedeemPayout, Equity
<1>2. CASE ~(t > 0)
  BY <1>2 DEF RedeemPayout
<1> QED BY <1>1, <1>2

\* A NAV is a natural number.
LEMMA NavIsNat ==
  ASSUME NEW b \in Nat, NEW r \in Nat, r <= b, NEW t \in Int
  PROVE  NavFixed(b, r, t) \in Nat
<1>1. CASE t > 0
  <2>1. (b - r) * NavScale \in Nat
    BY ProductIsNat, ScaleAssumption
  <2> QED BY <1>1, <2>1, FloorDivision DEF NavFixed, Equity
<1>2. CASE ~(t > 0)
  BY <1>2, ScaleAssumption DEF NavFixed
<1> QED BY <1>1, <1>2

\* A fee mints a whole number of shares.
LEMMA FeeSharesAreNat ==
  ASSUME NEW b \in Nat, NEW r \in Nat, r <= b, NEW t \in Int, NEW hwm \in Nat,
         NEW bps \in 0 .. BpsDenom
  PROVE  FeeShares(b, r, t, hwm, bps) \in Nat
<1> DEFINE fee == FeeEquity(b, r, t, hwm, bps)
<1>1. CASE FeeIsDue(b, r, t, hwm, bps) /\ fee > 0 /\ Equity(b, r) - fee > 0
  <2>0. NavFixed(b, r, t) \in Nat
    BY NavIsNat
  <2>1. t \in Nat \ {0} /\ NavFixed(b, r, t) - hwm \in Nat
    BY <1>1, <2>0 DEF FeeIsDue
  <2>2. ((NavFixed(b, r, t) - hwm) * t) \div NavScale \in Nat
    BY <2>1, ProductIsNat, FloorDivision, ScaleAssumption
  <2>3. fee \in Nat
    BY <2>2, ProductIsNat, FloorDivision, ScaleAssumption DEF FeeEquity
  <2>4. fee * t \in Nat /\ Equity(b, r) - fee \in Nat \ {0}
    BY <1>1, <2>1, <2>3, ProductIsNat DEF Equity
  <2> QED BY <1>1, <2>4, FloorDivision DEF FeeShares
<1>2. CASE ~(FeeIsDue(b, r, t, hwm, bps) /\ fee > 0 /\ Equity(b, r) - fee > 0)
  BY <1>2 DEF FeeShares
<1> QED BY <1>1, <1>2

\* The mark an accrual leaves is a natural number.
LEMMA NewMarkIsNat ==
  ASSUME NEW b \in Nat, NEW r \in Nat, r <= b, NEW t \in Int, NEW hwm \in Nat,
         NEW bps \in 0 .. BpsDenom
  PROVE  NewHighWaterNav(b, r, t, hwm, bps) \in Nat
<1>1. FeeShares(b, r, t, hwm, bps) \in Nat
  BY FeeSharesAreNat
<1>2. t + FeeShares(b, r, t, hwm, bps) \in Int
  BY <1>1
<1>3. NavFixed(b, r, t) \in Nat /\ NavFixed(b, r, t + FeeShares(b, r, t, hwm, bps)) \in Nat
  BY <1>2, NavIsNat
<1> QED BY <1>3 DEF NewHighWaterNav

\* A quotient is at least every number whose multiple the numerator covers.
LEMMA DivAtLeast ==
  ASSUME NEW a \in Nat, NEW d \in Nat \ {0}, NEW n \in Nat, n * d <= a
  PROVE  n <= a \div d
<1>1. (n * d) \div d = n
  OBVIOUS
<1>2. n * d \in Int
  OBVIOUS
<1> QED BY <1>1, <1>2, DivMonotone

\* Equity e behind t shares covers a mark h per share; a fee out of what is above
\* it mints at most f shares, and e still covers the mark of all of them.
LEMMA FeeLeavesMark ==
  ASSUME NEW e \in Nat, NEW t \in Nat \ {0}, NEW h \in Nat, NEW fee \in Nat, NEW f \in Nat,
         fee < e, f * (e - fee) <= fee * t, NavScale * fee + h * t <= e * NavScale
  PROVE  h * (t + f) <= e * NavScale
<1> DEFINE N == NavScale
           k == e - fee
<1>1. N \in Nat \ {0} /\ k \in Nat \ {0} /\ e = k + fee
  BY ScaleAssumption
<1> HIDE DEF N, k
<1>2. h * t <= N * k
  <2>1. N * e = N * k + N * fee
    BY <1>1
  <2>2. N * e = e * N /\ N * fee \in Int /\ h * t \in Int /\ N * k \in Int
    BY <1>1
  <2> QED BY <2>1, <2>2 DEF N
<1>3. (h * t) * e <= (N * k) * e
  BY <1>1, <1>2, TimesMonotone
<1>4. (f * k) * h <= (fee * t) * h
  <2>1. f * k \in Int /\ fee * t \in Int
    BY <1>1
  <2> QED BY <2>1, TimesMonotone DEF k
<1>5. (h * (t + f)) * k = (h * t) * k + (f * k) * h
  BY <1>1
<1>6. (h * t) * e = (h * t) * k + (fee * t) * h
  BY <1>1
<1>7. (N * k) * e = (e * N) * k
  BY <1>1
<1>8. (h * (t + f)) * k <= (e * N) * k
  <2>1. /\ (h * t) * k \in Int /\ (f * k) * h \in Int /\ (fee * t) * h \in Int
        /\ (e * N) * k \in Int
    BY <1>1
  <2> QED BY <2>1, <1>3, <1>4, <1>5, <1>6, <1>7
<1>9. ASSUME NEW x \in Int, NEW y \in Int, x * k <= y * k
      PROVE  x <= y
  BY <1>1, <1>9
<1>10. h * (t + f) \in Int /\ e * N \in Int
  BY <1>1
<1>11. h * (t + f) <= e * N
  BY <1>8, <1>9, <1>10
<1> QED BY <1>11 DEF N

\* After a fee the NAV is not below the mark it was measured from.
LEMMA FeeFromGain ==
  ASSUME NEW b \in Nat, NEW r \in Nat, r <= b, NEW t \in Nat, NEW hwm \in Nat,
         NEW bps \in 0 .. BpsDenom, FeeIsDue(b, r, t, hwm, bps)
  PROVE  NavFixed(b, r, t + FeeShares(b, r, t, hwm, bps)) >= hwm
<1> DEFINE e == b - r
           nav == NavFixed(b, r, t)
           gain == ((nav - hwm) * t) \div NavScale
           fee == FeeEquity(b, r, t, hwm, bps)
           f == FeeShares(b, r, t, hwm, bps)
<1>1. t \in Nat \ {0} /\ e \in Nat /\ NavScale \in Nat \ {0} /\ nav > hwm /\ nav \in Nat
  BY NavIsNat, ScaleAssumption DEF FeeIsDue
<1>2. nav * t <= e * NavScale
  BY <1>1, FloorDivision, ProductIsNat DEF NavFixed, Equity
<1>3. gain \in Nat /\ gain * NavScale <= (nav - hwm) * t
  <2> HIDE DEF nav
  <2>1. (nav - hwm) * t \in Nat
    BY <1>1, ProductIsNat
  <2> HIDE DEF gain
  <2>2. gain = ((nav - hwm) * t) \div NavScale
    BY DEF gain
  <2> QED BY <1>1, <2>1, <2>2, FloorDivision
<1>4. fee \in Nat /\ fee <= gain
  <2>1. fee = (gain * bps) \div BpsDenom
    BY DEF FeeEquity
  <2> HIDE DEF gain, fee
  <2>2. (gain * bps) \div BpsDenom \in 0 .. gain
    BY <1>3, PartBounds
  <2> QED BY <1>3, <2>1, <2>2
<1>5. f \in Nat /\ (f > 0 => fee < e /\ f * (e - fee) <= fee * t)
  <2>1. f \in Nat
    BY FeeSharesAreNat
  <2>2. CASE fee > 0 /\ e - fee > 0
    <3>1. f = (fee * t) \div (e - fee)
      BY <2>2 DEF FeeShares, Equity
    <3>2. fee * t \in Nat /\ e - fee \in Nat \ {0}
      BY <1>1, <1>4, <2>2, ProductIsNat
    <3> HIDE DEF f, fee, e
    <3> QED BY <2>1, <2>2, <3>1, <3>2, FloorDivision, <1>1, <1>4
  <2>3. CASE ~(fee > 0 /\ e - fee > 0)
    BY <2>3 DEF FeeShares, Equity
  <2> QED BY <2>1, <2>2, <2>3
<1>6. hwm * (t + f) <= e * NavScale
  <2> HIDE DEF nav, fee, gain, f, e
  <2>1. hwm * t <= nav * t
    BY <1>1, TimesMonotone
  <2>2. CASE f = 0
    BY <1>1, <1>2, <2>1, <2>2
  <2>3. CASE f > 0
    <3>1. fee * NavScale <= gain * NavScale
      BY <1>1, <1>3, <1>4, TimesMonotone
    <3>2. (nav - hwm) * t = nav * t - hwm * t
      BY <1>1
    <3>3. NavScale * fee + hwm * t <= e * NavScale
      <4>1. /\ fee * NavScale \in Int /\ gain * NavScale \in Int /\ nav * t \in Int
            /\ hwm * t \in Int /\ e * NavScale \in Int /\ NavScale * fee = fee * NavScale
        BY <1>1, <1>3, <1>4
      <4> QED BY <1>2, <1>3, <3>1, <3>2, <4>1
    <3> QED BY <1>1, <1>4, <1>5, <2>3, <3>3, FeeLeavesMark
  <2> QED BY <1>5, <2>2, <2>3
<1>7. e * NavScale \in Nat /\ t + f \in Nat \ {0}
  BY <1>1, <1>5, ProductIsNat
<1>8. hwm <= (e * NavScale) \div (t + f)
  <2> HIDE DEF f, e
  <2> QED BY <1>6, <1>7, DivAtLeast
<1>9. NavFixed(b, r, t + f) = (e * NavScale) \div (t + f)
  <2> HIDE DEF f
  <2> QED BY <1>7 DEF NavFixed, Equity
<1>10. (e * NavScale) \div (t + f) \in Nat
  <2> HIDE DEF f, e
  <2> QED BY <1>7, FloorDivision
<1> QED BY <1>8, <1>9, <1>10

\* A mark that has been accrued to is not below the old one.
LEMMA MarkRises ==
  ASSUME NEW b \in Nat, NEW r \in Nat, r <= b, NEW t \in Nat, NEW hwm \in Nat,
         NEW bps \in 0 .. BpsDenom
  PROVE  NewHighWaterNav(b, r, t, hwm, bps) >= hwm
<1>0. t \in Int
  OBVIOUS
<1>1. NavFixed(b, r, t) \in Nat
  BY <1>0, NavIsNat
<1>2. CASE FeeIsDue(b, r, t, hwm, bps)
  BY <1>2, FeeFromGain DEF NewHighWaterNav
<1>3. CASE ~FeeIsDue(b, r, t, hwm, bps)
  BY <1>1, <1>3 DEF NewHighWaterNav
<1> QED BY <1>2, <1>3

\* A positive factor cancels.
LEMMA CancelFactor ==
  ASSUME NEW a \in Int, NEW b \in Int, NEW c \in Nat \ {0}, a * c <= b * c
  PROVE  a <= b
<1> SUFFICES ASSUME ~(a <= b)
             PROVE  FALSE
  OBVIOUS
<1>1. b + 1 <= a /\ b + 1 \in Int
  OBVIOUS
<1>2. (b + 1) * c <= a * c
  BY <1>1, TimesMonotone
<1>3. (b + 1) * c = b * c + c /\ b * c \in Int /\ a * c \in Int
  OBVIOUS
<1> QED BY <1>2, <1>3

\* What is redeemed is never above the equity.
LEMMA RedeemAtMostEquity ==
  ASSUME NEW s \in Nat, NEW b \in Nat, NEW r \in Nat, r <= b, NEW t \in Nat, s <= t
  PROVE  RedeemPayout(s, b, r, t) <= b - r
<1> DEFINE p == RedeemPayout(s, b, r, t)
<1>1. t \in Int /\ b - r \in Nat /\ s \in Int
  OBVIOUS
<1>2. p \in Nat /\ (t > 0 => p * t <= s * (b - r))
  BY <1>1, RedeemPayoutFair
<1>3. CASE t > 0
  <2>1. s * (b - r) <= t * (b - r)
    BY <1>1, TimesMonotone
  <2> HIDE DEF p
  <2>2. p * t \in Int /\ s * (b - r) \in Int /\ t * (b - r) = (b - r) * t
        /\ (b - r) * t \in Int
    BY <1>1, <1>2
  <2>3. p * t <= (b - r) * t
    BY <1>2, <1>3, <2>1, <2>2
  <2>4. p <= b - r
    BY <1>1, <1>2, <1>3, <2>3, CancelFactor
  <2> QED BY <2>4 DEF p
<1>4. CASE ~(t > 0)
  BY <1>1, <1>4 DEF RedeemPayout
<1> QED BY <1>3, <1>4

\* Paying s of S shares their part of the equity e, rounded down, pays no less than
\* at the value a share had at first, E for T of them, and leaves the rest no less.
LEMMA PartKeepsValue ==
  ASSUME NEW T \in Nat \ {0}, NEW E \in Nat, NEW S \in Nat \ {0}, NEW e \in Nat,
         NEW s \in Nat, s <= S, E * S <= e * T
  PROVE  LET p == (s * e) \div S
         IN  /\ p \in Nat /\ p <= e
             /\ (s * E) \div T <= p
             /\ E * (S - s) <= (e - p) * T
<1> DEFINE p == (s * e) \div S
           q == (s * E) \div T
<1>1. s * e \in Nat /\ s * E \in Nat
  BY ProductIsNat
<1>2. p \in Nat /\ p * S <= s * e /\ q \in Nat /\ q * T <= s * E
  BY <1>1, FloorDivision
<1> HIDE DEF p, q
<1>3. p <= e
  <2>1. s * e <= S * e
    BY TimesMonotone
  <2>2. p * S <= e * S
    <3>1. S * e = e * S /\ p * S \in Int /\ e * S \in Int
      BY <1>2
    <3> QED BY <1>1, <1>2, <2>1, <3>1
  <2> QED BY <1>2, <2>2, CancelFactor
<1>4. s * (E * S) <= s * (e * T)
  <2>1. E * S \in Int /\ e * T \in Int
    OBVIOUS
  <2>2. (E * S) * s <= (e * T) * s
    BY <2>1, TimesMonotone
  <2> QED BY <2>1, <2>2
<1>5. q <= p
  <2>1. (q * T) * S <= (s * E) * S
    BY <1>1, <1>2, TimesMonotone
  <2>2. (q * S) * T = (q * T) * S /\ (s * E) * S = s * (E * S) /\ s * (e * T) = (s * e) * T
    BY <1>2
  <2>3. /\ (q * S) * T \in Int /\ s * (E * S) \in Int /\ (s * e) * T \in Int
        /\ q * S \in Int /\ s * e \in Int
    BY <1>2
  <2>4. (q * S) * T <= (s * e) * T
    BY <1>4, <2>1, <2>2, <2>3
  <2>5. q * S <= s * e
    BY <2>3, <2>4, CancelFactor
  <2> QED BY <1>1, <1>2, <2>5, DivAtLeast DEF p
<1>6. E * (S - s) <= (e - p) * T
  <2> DEFINE d == S - s
             k == e - p
  <2>1. d \in Nat /\ k \in Nat
    BY <1>2, <1>3
  <2>2. e * d <= k * S
    <3>1. k * S = e * S - p * S /\ e * d = e * S - s * e
      BY <1>2
    <3>2. e * S \in Int /\ p * S \in Int /\ s * e \in Int
      BY <1>2
    <3> QED BY <1>2, <3>1, <3>2
  <2> HIDE DEF d, k
  <2>3. (e * d) * T <= (k * S) * T
    <3>1. e * d \in Int /\ k * S \in Int /\ T \in Nat
      BY <2>1
    <3> QED BY <2>2, <3>1, TimesMonotone
  <2>4. (E * S) * d <= (e * T) * d
    <3>1. E * S \in Int /\ e * T \in Int
      OBVIOUS
    <3> QED BY <2>1, <3>1, TimesMonotone
  <2>5. (e * d) * T = (e * T) * d /\ (k * S) * T = (k * T) * S /\ (E * S) * d = (E * d) * S
    BY <2>1
  <2>6. /\ (e * T) * d \in Int /\ (k * T) * S \in Int /\ (E * d) * S \in Int
        /\ E * d \in Int /\ k * T \in Int
    BY <2>1
  <2>7. (E * d) * S <= (k * T) * S
    BY <2>3, <2>4, <2>5, <2>6
  <2>8. E * d <= k * T
    BY <2>6, <2>7, CancelFactor
  <2> QED BY <2>8 DEF d, k
<1> QED BY <1>2, <1>3, <1>5, <1>6 DEF p, q

\* All the equity e that is left pays s shares no less than at their first value.
LEMMA RestKeepsValue ==
  ASSUME NEW T \in Nat \ {0}, NEW E \in Nat, NEW S \in Nat, NEW e \in Nat,
         NEW s \in Nat, s <= S, E * S <= e * T
  PROVE  (s * E) \div T <= e
<1> DEFINE q == (s * E) \div T
<1>1. s * E \in Nat
  BY ProductIsNat
<1>2. q \in Nat /\ q * T <= s * E
  BY <1>1, FloorDivision
<1> HIDE DEF q
<1>3. s * E <= S * E
  BY TimesMonotone
<1>4. q * T \in Int /\ S * E = E * S /\ E * S \in Int /\ e * T \in Int
  BY <1>2
<1>5. q * T <= e * T
  BY <1>1, <1>2, <1>3, <1>4
<1>6. q <= e
  BY <1>2, <1>5, CancelFactor
<1> QED BY <1>6 DEF q

\* A deposit leaves the equity per share no lower.
LEMMA DepositKeepsNav ==
  ASSUME NEW d \in Nat, NEW b \in Nat, NEW r \in Nat, r <= b, NEW t \in Nat, t > 0
  PROVE  Equity(b + d, r) * t >= Equity(b, r) * (t + SharesForDeposit(d, b, r, t))
<1> DEFINE s == SharesForDeposit(d, b, r, t)
<1>1. t \in Int
  OBVIOUS
<1>2. s \in Nat /\ s * (b - r) <= d * t
  BY <1>1, SharesForDepositFair
<1> HIDE DEF s
<1>3. ((b + d) - r) * t = (b - r) * t + d * t /\ (b - r) * (t + s) = (b - r) * t + s * (b - r)
  BY <1>2
<1>4. (b - r) * t \in Int /\ d * t \in Int /\ s * (b - r) \in Int
  BY <1>2
<1>5. ((b + d) - r) * t >= (b - r) * (t + s)
  BY <1>2, <1>3, <1>4
<1> QED BY <1>5 DEF Equity, s

\* So does a redemption of s shares.
LEMMA RedeemKeepsNav ==
  ASSUME NEW s \in Nat, NEW b \in Nat, NEW r \in Nat, r <= b, NEW t \in Nat, t > 0
  PROVE  Equity(b - RedeemPayout(s, b, r, t), r) * t >= Equity(b, r) * (t - s)
<1> DEFINE p == RedeemPayout(s, b, r, t)
<1>1. t \in Int
  OBVIOUS
<1>2. p \in Nat /\ p * t <= s * (b - r)
  BY <1>1, RedeemPayoutFair
<1> HIDE DEF p
<1>3. (b - p - r) * t = (b - r) * t - p * t /\ (b - r) * (t - s) = (b - r) * t - s * (b - r)
  BY <1>2
<1>4. (b - r) * t \in Int /\ p * t \in Int /\ s * (b - r) \in Int
  BY <1>2
<1>5. (b - p - r) * t >= (b - r) * (t - s)
  BY <1>2, <1>3, <1>4
<1> QED BY <1>5 DEF Equity, p
===============================================================================
