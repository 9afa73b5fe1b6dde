---------------------------- MODULE FoldTheorems ----------------------------
(***************************************************************************)
(* Lemmas about folds over finite sets, MapThenSumSet above all, for the   *)
(* proofs about what a model sums up.  A fold is defined by recursion over *)
(* a set, and a theorem of induction that takes the formula to be proved   *)
(* as an operator is of no use to the provers.  Here the formula is a set, *)
(* that of the subsets, or numbers, for which it holds.                    *)
(***************************************************************************)
EXTENDS Integers, FiniteSetsExt, FiniteSetTheorems, WellFoundedInduction, TLAPS

\* Induction over the subsets of a finite set, with the induction formula as
\* the set of the subsets for which it holds.
LEMMA SubsetInduction ==
  ASSUME NEW S, IsFiniteSet(S), NEW Q,
         \A T \in SUBSET S : (\A x \in T : T \ {x} \in Q) => T \in Q
  PROVE  S \in Q
<1>. DEFINE Bad == {T \in SUBSET S : T \notin Q}
<1>. SUFFICES ASSUME S \notin Q PROVE FALSE
  OBVIOUS
<1>1. Bad \subseteq FiniteSubsetsOf(S) /\ Bad # {}
  <2>1. \A T \in SUBSET S : IsFiniteSet(T)
    BY FS_Subset
  <2>. QED
    BY <2>1 DEF FiniteSubsetsOf
<1>2. PICK T \in Bad : \A U \in Bad : <<U, T>> \notin StrictSubsetOrdering(S)
  <2>. HIDE DEF Bad
  <2>. QED
    BY <1>1, WFMin, FS_StrictSubsetOrderingWellFounded
<1>3. ASSUME NEW x \in T, T \ {x} \notin Q PROVE FALSE
  <2>1. T \ {x} \in Bad /\ T \ {x} # T
    BY <1>3
  <2>2. <<T \ {x}, T>> \in StrictSubsetOrdering(S)
    BY <2>1, <1>1, FS_Subset DEF StrictSubsetOrdering, FiniteSubsetsOf
  <2>. QED
    BY <1>2, <2>1, <2>2
<1>. QED
  BY <1>2, <1>3

\* Induction over the natural numbers, in the same form.
LEMMA NaturalInduction ==
  ASSUME NEW Q, 0 \in Q, \A n \in Nat : n \in Q => n + 1 \in Q
  PROVE  Nat \subseteq Q
<1>. SUFFICES ASSUME NEW n \in Nat PROVE n \in Q
  OBVIOUS
<1>. DEFINE R == {T \in SUBSET (1..n) : \A k \in 0..n : T = 1..k => k \in Q}
<1>1. ASSUME NEW T \in SUBSET (1..n), \A x \in T : T \ {x} \in R,
             NEW k \in 0..n, T = 1..k
      PROVE  k \in Q
  <2>1. CASE k = 0
    BY <2>1
  <2>2. CASE k # 0
    <3>1. k \in T /\ T \ {k} = 1..(k - 1) /\ k - 1 \in 0..n
      BY <1>1, <2>2
    <3>2. k - 1 \in Q
      BY <1>1, <3>1
    <3>. QED
      BY <3>1, <3>2
  <2>. QED
    BY <2>1, <2>2
<1>2. \A T \in SUBSET (1..n) : (\A x \in T : T \ {x} \in R) => T \in R
  BY <1>1
<1>3. 1..n \in R
  <2>1. IsFiniteSet(1..n)
    BY FS_Interval
  <2>. HIDE DEF R
  <2>. QED
    BY <1>2, <2>1, SubsetInduction
<1>. QED
  BY <1>3

\* A nonempty finite set of integers has a greatest element.
LEMMA MaxIsGreatest ==
  ASSUME NEW S, IsFiniteSet(S), S \subseteq Int, S # {}
  PROVE  Max(S) \in S /\ \A y \in S : Max(S) >= y
<1>. DEFINE Q == {T \in SUBSET S : T # {} => \E x \in T : \A y \in T : x >= y}
<1>1. ASSUME NEW T \in SUBSET S, \A x \in T : T \ {x} \in Q, T # {}
      PROVE  \E x \in T : \A y \in T : x >= y
  <2>1. PICK a \in T : TRUE
    BY <1>1
  <2>2. CASE T \ {a} = {}
    BY <2>1, <2>2
  <2>3. CASE T \ {a} # {}
    <3>1. PICK b \in T \ {a} : \A y \in T \ {a} : b >= y
      BY <1>1, <2>3
    <3>2. a \in Int /\ b \in Int /\ T \subseteq Int
      OBVIOUS
    <3>3. CASE a >= b
      <4>1. \A y \in T : a >= y
        BY <3>1, <3>2, <3>3
      <4>. QED
        BY <4>1
    <3>4. CASE ~(a >= b)
      <4>1. \A y \in T : b >= y
        BY <3>1, <3>2, <3>4
      <4>. QED
        BY <4>1
    <3>. QED
      BY <3>3, <3>4
  <2>. QED
    BY <2>2, <2>3
<1>2. \A T \in SUBSET S : (\A x \in T : T \ {x} \in Q) => T \in Q
  BY <1>1
<1>3. S \in Q
  <2>. HIDE DEF Q
  <2>. QED
    BY <1>2, SubsetInduction
<1>. QED
  BY <1>3 DEF Max

\* A nonempty family of subsets of a finite set has a member that no other
\* member contains.
LEMMA MaximalMember ==
  ASSUME NEW S, IsFiniteSet(S), NEW F, F \subseteq SUBSET S, F # {}
  PROVE  \E T \in F : \A U \in F : T \subseteq U => U = T
<1>. DEFINE Complements == {C \in SUBSET S : S \ C \in F}
<1>1. Complements \subseteq FiniteSubsetsOf(S)
  BY FS_Subset DEF FiniteSubsetsOf
<1>2. \A T \in F : S \ T \in Complements /\ S \ (S \ T) = T
  <2>. TAKE T \in F
  <2>1. S \ (S \ T) = T
    OBVIOUS
  <2>. QED
    BY <2>1
<1>3. PICK C \in Complements :
        \A B \in Complements : <<B, C>> \notin StrictSubsetOrdering(S)
  <2>1. Complements # {}
    BY <1>2
  <2>. HIDE DEF Complements
  <2>. QED
    BY <1>1, <2>1, WFMin, FS_StrictSubsetOrderingWellFounded
<1>. DEFINE T == S \ C
<1>4. T \in F
  BY <1>3
<1>5. ASSUME NEW U \in F, T \subseteq U
      PROVE  U = T
  <2>1. S \ U \in Complements /\ S \ U \subseteq C /\ C \in SUBSET S
    BY <1>2, <1>5
  <2>2. S \ U = C
    BY <1>3, <2>1 DEF StrictSubsetOrdering
  <2>. QED
    BY <1>2, <2>2
<1>. HIDE DEF T
<1>. QED
  BY <1>4, <1>5

\* g takes the elements out of the subsets of S one by one: pick says which
\* comes next, and step what it adds.
FoldsTo(g, S, base, pick, step) ==
  \A T \in SUBSET S :
    g[T] = IF T = {} THEN base ELSE step[<<pick[T], g[T \ {pick[T]}]>>]

\* There is such a function.
LEMMA FoldExists ==
  ASSUME NEW S, IsFiniteSet(S), NEW V, NEW base \in V,
         NEW pick, \A T \in SUBSET S : T # {} => pick[T] \in T,
         NEW step \in [S \X V -> V]
  PROVE  \E g \in [SUBSET S -> V] : FoldsTo(g, S, base, pick, step)
<1>. DEFINE Solves(g, F) ==
              \A T \in F : g[T] = IF T = {} THEN base
                                 ELSE step[<<pick[T], g[T \ {pick[T]}]>>]
            Closed(F) == \A T \in F : \A x \in T : T \ {x} \in F
            Q == {F \in SUBSET SUBSET S : Closed(F) => \E g \in [F -> V] : Solves(g, F)}
<1>1. ASSUME NEW F \in SUBSET SUBSET S, \A T \in F : F \ {T} \in Q
      PROVE  F \in Q
  <2>. SUFFICES ASSUME Closed(F) PROVE \E g \in [F -> V] : Solves(g, F)
    OBVIOUS
  <2>1. CASE F = {}
    <3>1. [T \in F |-> base] \in [F -> V] /\ Solves([T \in F |-> base], F)
      BY <2>1
    <3>. QED
      BY <3>1
  <2>2. CASE F # {}
    <3>1. PICK T \in F : \A U \in F : T \subseteq U => U = T
      BY <2>2, MaximalMember
    <3>2. Closed(F \ {T})
      BY <3>1
    <3>3. PICK h \in [F \ {T} -> V] : Solves(h, F \ {T})
      BY <1>1, <3>2
    <3>. DEFINE last == IF T = {} THEN base ELSE step[<<pick[T], h[T \ {pick[T]}]>>]
                g == [U \in F |-> IF U = T THEN last ELSE h[U]]
    <3>4. last \in V
      BY DEF last
    <3>5. g \in [F -> V]
      BY <3>4
    <3>6. ASSUME NEW U \in F, U # {}
          PROVE  pick[U] \in U /\ U \ {pick[U]} \in F \ {T}
      BY <3>1, <3>6
    <3>7. Solves(g, F)
      <4>. SUFFICES ASSUME NEW U \in F
                    PROVE  g[U] = IF U = {} THEN base
                                  ELSE step[<<pick[U], g[U \ {pick[U]}]>>]
        OBVIOUS
      <4>1. U # {} => g[U \ {pick[U]}] = h[U \ {pick[U]}]
        BY <3>6
      <4>. QED
        BY <3>3, <4>1
    <3>. QED
      BY <3>5, <3>7
  <2>. QED
    BY <2>1, <2>2
<1>2. SUBSET S \in Q
  <2>1. IsFiniteSet(SUBSET S)
    BY FS_SUBSET
  <2>. HIDE DEF Q
  <2>. QED
    BY <1>1, <2>1, SubsetInduction
<1>3. Closed(SUBSET S)
  OBVIOUS
<1>. QED
  BY <1>2, <1>3 DEF FoldsTo
-----------------------------------------------------------------------------
(* Sums. *)

SumOver(f, S) == MapThenSumSet(LAMBDA x : f[x], S)

\* g has the sums of f over the subsets of S.
SumsUp(g, f, S) ==
  \A T \in SUBSET S :
    g[T] = IF T = {} THEN 0
           ELSE f[CHOOSE x \in T : TRUE] + g[T \ {CHOOSE x \in T : TRUE}]

\* There is one such function.
LEMMA SumsUnique ==
  ASSUME NEW S, IsFiniteSet(S), NEW f, NEW g, NEW h, SumsUp(g, f, S), SumsUp(h, f, S)
  PROVE  g[S] = h[S]
<1>. DEFINE Q == {T \in SUBSET S : g[T] = h[T]}
<1>1. ASSUME NEW T \in SUBSET S, \A x \in T : T \ {x} \in Q
      PROVE  T \in Q
  <2>1. T # {} => (CHOOSE x \in T : TRUE) \in T
    OBVIOUS
  <2>. QED
    BY <1>1, <2>1 DEF SumsUp
<1>. HIDE DEF Q
<1>2. S \in Q
  BY <1>1, SubsetInduction
<1>. QED
  BY <1>2 DEF Q

\* The fold adds up.
LEMMA SumDefined ==
  ASSUME NEW S, IsFiniteSet(S), NEW f, \A x \in S : f[x] \in Nat
  PROVE  \E g \in [SUBSET S -> Nat] : SumsUp(g, f, S) /\ SumOver(f, S) = g[S]
<1>. DEFINE pick == [T \in SUBSET S |-> CHOOSE x \in T : TRUE]
            step == [p \in S \X Nat |-> f[p[1]] + p[2]]
            Body(g) == [s \in SUBSET S |->
                          IF s = {} THEN 0
                          ELSE f[CHOOSE x \in s : TRUE] + g[s \ {CHOOSE x \in s : TRUE}]]
            iter == CHOOSE g : g = Body(g)
<1>1. \A T \in SUBSET S : T # {} => /\ pick[T] \in T
                                    /\ pick[T] = CHOOSE x \in T : TRUE
  OBVIOUS
<1>2. step \in [S \X Nat -> Nat]
  OBVIOUS
<1>3. PICK h \in [SUBSET S -> Nat] : FoldsTo(h, S, 0, pick, step)
  <2>1. \A T \in SUBSET S : T # {} => pick[T] \in T
    BY <1>1
  <2>2. 0 \in Nat
    OBVIOUS
  <2>. HIDE DEF pick, step
  <2>. QED
    BY <1>2, <2>1, <2>2, FoldExists
<1>4. ASSUME NEW T \in SUBSET S, T # {}
      PROVE  step[<<pick[T], h[T \ {pick[T]}]>>] = f[pick[T]] + h[T \ {pick[T]}]
  <2>1. pick[T] \in S /\ h[T \ {pick[T]}] \in Nat
    BY <1>1, <1>4
  <2>2. \A x \in S, n \in Nat : step[<<x, n>>] = f[x] + n
    OBVIOUS
  <2>. HIDE DEF pick, step
  <2>. QED
    BY <2>1, <2>2
<1>5. SumsUp(h, f, S)
  <2>. HIDE DEF pick, step
  <2>. QED
    BY <1>1, <1>3, <1>4 DEF SumsUp, FoldsTo
<1>6. iter = Body(iter)
  <2>1. h = Body(h)
    BY <1>5 DEF SumsUp
  <2>. QED
    BY <2>1
<1>7. SumsUp(iter, f, S)
  BY <1>6 DEF SumsUp
<1>8. SumOver(f, S) = iter[S]
  BY DEF SumOver, MapThenSumSet, MapThenFoldSet
<1>9. SumOver(f, S) = h[S]
  <2>. HIDE DEF iter
  <2>. QED
    BY <1>5, <1>7, <1>8, SumsUnique
<1>. QED
  BY <1>5, <1>9

\* A sum over nothing is 0.
LEMMA SumEmpty ==
  ASSUME NEW f
  PROVE  SumOver(f, {}) = 0
<1>1. \E g \in [SUBSET {} -> Nat] : SumsUp(g, f, {}) /\ SumOver(f, {}) = g[{}]
  BY SumDefined, FS_EmptySet
<1>. QED
  BY <1>1 DEF SumsUp

\* Whichever element is set aside, the sum is what it adds and the rest.
LEMMA SumRemove ==
  ASSUME NEW S, IsFiniteSet(S), NEW f, \A x \in S : f[x] \in Nat, NEW a \in S
  PROVE  /\ SumOver(f, S \ {a}) \in Nat
         /\ SumOver(f, S) = f[a] + SumOver(f, S \ {a})
<1>1. PICK g \in [SUBSET S -> Nat] : SumsUp(g, f, S) /\ SumOver(f, S) = g[S]
  BY SumDefined
<1>2. ASSUME NEW T \in SUBSET S
      PROVE  SumOver(f, T) = g[T]
  <2>1. IsFiniteSet(T)
    BY FS_Subset
  <2>2. PICK h \in [SUBSET T -> Nat] : SumsUp(h, f, T) /\ SumOver(f, T) = h[T]
    BY <2>1, SumDefined
  <2>3. SumsUp(g, f, T)
    BY <1>1 DEF SumsUp
  <2>. QED
    BY <2>1, <2>2, <2>3, SumsUnique
<1>. DEFINE Q == {T \in SUBSET S : \A x \in T : g[T] = f[x] + g[T \ {x}]}
<1>3. ASSUME NEW T \in SUBSET S, \A x \in T : T \ {x} \in Q, NEW x \in T
      PROVE  g[T] = f[x] + g[T \ {x}]
  <2>. DEFINE y == CHOOSE z \in T : TRUE
  <2>1. y \in T /\ g[T] = f[y] + g[T \ {y}]
    BY <1>1 DEF SumsUp
  <2>. HIDE DEF y
  <2>2. CASE x # y
    <3>. DEFINE rest == (T \ {x}) \ {y}
    <3>1. (T \ {y}) \ {x} = rest
      OBVIOUS
    <3>2. g[T \ {y}] = f[x] + g[rest]
      BY <1>3, <2>1, <2>2, <3>1
    <3>3. g[T \ {x}] = f[y] + g[rest]
      BY <1>3, <2>1, <2>2
    <3>4. g[rest] \in Nat /\ f[x] \in Nat /\ f[y] \in Nat
      BY <2>1
    <3>. HIDE DEF Q, rest
    <3>. QED
      BY <2>1, <3>2, <3>3, <3>4
  <2>. QED
    BY <2>1, <2>2
<1>4. \A T \in SUBSET S : (\A x \in T : T \ {x} \in Q) => T \in Q
  BY <1>3
<1>5. S \in Q
  <2>. HIDE DEF Q
  <2>. QED
    BY <1>4, SubsetInduction
<1>6. /\ SumOver(f, S \ {a}) = g[S \ {a}] /\ g[S \ {a}] \in Nat
      /\ g[S] = f[a] + g[S \ {a}]
  BY <1>2, <1>5
<1>. QED
  BY <1>1, <1>6
\* A sum depends on what is summed up only, and is a natural number.
LEMMA SumSame ==
  ASSUME NEW S, IsFiniteSet(S), NEW f, NEW h,
         \A x \in S : f[x] \in Nat /\ h[x] = f[x]
  PROVE  SumOver(f, S) \in Nat /\ SumOver(h, S) = SumOver(f, S)
<1>. DEFINE Q == {T \in SUBSET S : /\ SumOver(f, T) \in Nat
                                  /\ SumOver(h, T) = SumOver(f, T)}
<1>1. ASSUME NEW T \in SUBSET S, \A x \in T : T \ {x} \in Q
      PROVE  T \in Q
  <2>1. CASE T = {}
    BY <2>1, SumEmpty
  <2>2. CASE T # {}
    <3>1. PICK a \in T : TRUE
      BY <2>2
    <3>2. IsFiniteSet(T) /\ \A x \in T : f[x] \in Nat /\ h[x] \in Nat
      BY FS_Subset
    <3>3. /\ SumOver(f, T) = f[a] + SumOver(f, T \ {a})
          /\ SumOver(h, T) = h[a] + SumOver(h, T \ {a})
      BY <3>2, SumRemove
    <3>4. /\ SumOver(f, T \ {a}) \in Nat
          /\ SumOver(h, T \ {a}) = SumOver(f, T \ {a})
      BY <1>1
    <3>. QED
      BY <3>2, <3>3, <3>4
  <2>. QED
    BY <2>1, <2>2
<1>2. S \in Q
  <2>. HIDE DEF Q
  <2>. QED
    BY <1>1, SubsetInduction
<1>. QED
  BY <1>2

\* A sum of natural numbers is one, and not less than any of them.
LEMMA SumBounds ==
  ASSUME NEW S, IsFiniteSet(S), NEW f, \A x \in S : f[x] \in Nat
  PROVE  SumOver(f, S) \in Nat /\ \A a \in S : f[a] <= SumOver(f, S)
<1>1. SumOver(f, S) \in Nat
  BY SumSame
<1>2. ASSUME NEW a \in S
      PROVE  f[a] <= SumOver(f, S)
  <2>1. /\ SumOver(f, S \ {a}) \in Nat
        /\ SumOver(f, S) = f[a] + SumOver(f, S \ {a})
    BY SumRemove
  <2>. QED
    BY <2>1
<1>. QED
  BY <1>1, <1>2

\* When one number changes, the sum changes by the same amount.
LEMMA SumChange ==
  ASSUME NEW S, IsFiniteSet(S), NEW f, NEW h, NEW a \in S,
         \A x \in S : f[x] \in Nat /\ h[x] \in Nat /\ (x # a => h[x] = f[x])
  PROVE  SumOver(h, S) + f[a] = SumOver(f, S) + h[a]
<1>1. /\ SumOver(f, S \ {a}) \in Nat
      /\ SumOver(f, S) = f[a] + SumOver(f, S \ {a})
      /\ SumOver(h, S) = h[a] + SumOver(h, S \ {a})
  BY SumRemove
<1>2. IsFiniteSet(S \ {a})
  BY FS_RemoveElement
<1>3. SumOver(h, S \ {a}) = SumOver(f, S \ {a})
  BY <1>2, SumSame
<1>. QED
  BY <1>1, <1>3

\* Zeros add up to zero.
LEMMA SumZero ==
  ASSUME NEW S, IsFiniteSet(S), NEW f, \A x \in S : f[x] = 0
  PROVE  SumOver(f, S) = 0
<1>. DEFINE Q == {T \in SUBSET S : SumOver(f, T) = 0}
<1>1. ASSUME NEW T \in SUBSET S, \A x \in T : T \ {x} \in Q
      PROVE  T \in Q
  <2>1. CASE T # {}
    <3>1. PICK a \in T : TRUE
      BY <2>1
    <3>2. IsFiniteSet(T) /\ \A x \in T : f[x] \in Nat
      BY FS_Subset
    <3>3. SumOver(f, T) = f[a] + SumOver(f, T \ {a})
      BY <3>2, SumRemove
    <3>. QED
      BY <1>1, <3>3
  <2>. QED
    BY <2>1, SumEmpty
<1>2. S \in Q
  <2>. HIDE DEF Q
  <2>. QED
    BY <1>1, SubsetInduction
<1>. QED
  BY <1>2

\* A finite set has a finite image.
LEMMA ImageFinite ==
  ASSUME NEW S, IsFiniteSet(S), NEW p
  PROVE  IsFiniteSet({p[x] : x \in S})
<1>. DEFINE T == {p[x] : x \in S}
            f == [x \in S |-> p[x]]
<1>1. f \in Surjection(S, T)
  BY DEF Surjection
<1>. HIDE DEF T, f
<1>2. IsFiniteSet(T)
  BY <1>1, FS_Surjection
<1>. QED
  BY <1>2 DEF T

\* Renaming what is summed up leaves the sum as it is.
LEMMA SumImage ==
  ASSUME NEW S, IsFiniteSet(S), NEW p,
         \A x, y \in S : p[x] = p[y] => x = y,
         NEW f, \A x \in S : f[p[x]] \in Nat
  PROVE  SumOver(f, {p[x] : x \in S}) = SumOver([x \in S |-> f[p[x]]], S)
<1>. DEFINE h == [x \in S |-> f[p[x]]]
            Q == {T \in SUBSET S : SumOver(f, {p[x] : x \in T}) = SumOver(h, T)}
<1>1. ASSUME NEW T \in SUBSET S, \A x \in T : T \ {x} \in Q
      PROVE  T \in Q
  <2>1. CASE T = {}
    <3>1. {p[x] : x \in T} = {}
      BY <2>1
    <3>. QED
      BY <2>1, <3>1, SumEmpty
  <2>2. CASE T # {}
    <3>1. PICK a \in T : TRUE
      BY <2>2
    <3>. DEFINE image == {p[x] : x \in T}
    <3>2. IsFiniteSet(T) /\ \A x \in T : h[x] = f[p[x]] /\ h[x] \in Nat
      BY FS_Subset
    <3>3. SumOver(h, T) = h[a] + SumOver(h, T \ {a})
      <4>. HIDE DEF h
      <4>. QED
        BY <3>2, SumRemove
    <3>4. IsFiniteSet(image) /\ \A y \in image : f[y] \in Nat
      <4>1. IsFiniteSet(image)
        BY <3>2, ImageFinite
      <4>. QED
        BY <4>1
    <3>5. SumOver(f, image) = f[p[a]] + SumOver(f, image \ {p[a]})
      <4>1. p[a] \in image
        BY <3>1
      <4>. HIDE DEF image
      <4>. QED
        BY <3>4, <4>1, SumRemove
    <3>6. image \ {p[a]} = {p[x] : x \in T \ {a}}
      BY <3>1
    <3>7. SumOver(f, {p[x] : x \in T \ {a}}) = SumOver(h, T \ {a})
      BY <1>1, <3>1
    <3>. QED
      BY <3>2, <3>3, <3>5, <3>6, <3>7
  <2>. QED
    BY <2>1, <2>2
<1>2. S \in Q
  <2>. HIDE DEF Q
  <2>. QED
    BY <1>1, SubsetInduction
<1>. QED
  BY <1>2
=============================================================================
