----------------------------- MODULE FoldFacts ------------------------------
(***************************************************************************)
(* What a fold over a finite set computes (MapThenFoldSet of the community *)
(* modules, which chooses the elements in some order), and what it         *)
(* computes when the order does not matter, as in a sum. The induction     *)
(* goes over smallest counterexamples: a set of numbers has a smallest     *)
(* one.                                                                    *)
(***************************************************************************)
EXTENDS Integers, Sequences, FiniteSets, FiniteSetsExt, FiniteSetTheorems, WellFoundedInduction, TLAPS

(* A set of numbers has a smallest one. *)
LEMMA SmallestOf ==
    ASSUME NEW T, T \subseteq Nat, T # {}
    PROVE  \E x \in T : \A y \in T : x <= y
<1> DEFINE Less == OpToRel(<, Nat)
<1>1. IsWellFoundedOn(Less, Nat)
  BY NatLessThanWellFounded
<1>2. \A x \in Nat, y \in Nat : y < x => <<y, x>> \in Less
  BY DEF OpToRel
<1> HIDE DEF Less
<1>3. PICK x \in T : \A y \in T : ~(<<y, x>> \in Less)
  BY <1>1, WFMin
<1>4. ASSUME NEW y \in T PROVE x <= y
  <2>1. x \in Nat /\ y \in Nat
    OBVIOUS
  <2>2. ~(<<y, x>> \in Less)
    BY <1>3
  <2>3. ~(y < x)
    BY <1>2, <2>1, <2>2, Zenon
  <2> QED
    BY <2>1, <2>3
<1> QED
  BY <1>4

(* Induction, for sets: what holds of 0 and goes from n to n + 1. *)
LEMMA CountUp ==
    ASSUME NEW T, 0 \in T, \A n \in Nat : n \in T => n + 1 \in T
    PROVE  Nat \subseteq T
<1> DEFINE Rest == {n \in Nat : n \notin T}
<1> SUFFICES ASSUME Rest # {} PROVE FALSE
  OBVIOUS
<1>1. PICK x \in Rest : \A y \in Rest : x <= y
  BY SmallestOf
<1>2. x # 0 /\ x - 1 \in Nat /\ x - 1 \notin Rest
  BY <1>1
<1> QED
  BY <1>1, <1>2

(* c takes an element of every subset of S. *)
Chooses(c, S) == \A s \in SUBSET S : s # {} => c[s] \in s

(* g holds what F makes of base and the elements of the subsets of S, taken in    *)
(* the order of c.                                                               *)
FoldsOver(g, S, D, base, c, F) ==
    /\ g \in [SUBSET S -> D]
    /\ \A s \in SUBSET S : g[s] = IF s = {} THEN base ELSE F[<<c[s], g[s \ {c[s]}]>>]

(* What a fold over a finite set is: choosing an element and folding the rest    *)
(* defines a function.                                                           *)
LEMMA FoldIsDefined ==
    ASSUME NEW S, IsFiniteSet(S), NEW D, NEW base \in D,
           NEW c, Chooses(c, S),
           NEW F, \A x \in S, d \in D : F[<<x, d>>] \in D
    PROVE  \E g : FoldsOver(g, S, D, base, c, F)
<1> DEFINE Upto(k) == {s \in SUBSET S : Cardinality(s) <= k}
           Value(g, s) == IF s = {} THEN base ELSE F[<<c[s], g[s \ {c[s]}]>>]
           Folds(k, g) == g \in [Upto(k) -> D] /\ \A s \in Upto(k) : g[s] = Value(g, s)
           T == {k \in Nat : \E g : Folds(k, g)}
<1>1. ASSUME NEW s, s \subseteq S
      PROVE  /\ Cardinality(s) \in Nat /\ (Cardinality(s) = 0 <=> s = {})
             /\ Cardinality(s) <= Cardinality(S)
             /\ s # {} => s \ {c[s]} \subseteq S /\ Cardinality(s \ {c[s]}) = Cardinality(s) - 1
  <2>1. IsFiniteSet(s) /\ Cardinality(s) <= Cardinality(S)
    BY <1>1, FS_Subset
  <2>2. Cardinality(s) \in Nat /\ (Cardinality(s) = 0 <=> s = {})
    BY <2>1, FS_CardinalityType, FS_EmptySet
  <2>3. s # {} => c[s] \in s
    BY <1>1 DEF Chooses
  <2>4. s # {} => Cardinality(s \ {c[s]}) = Cardinality(s) - 1
    BY <2>1, <2>3, FS_RemoveElement
  <2> QED
    BY <1>1, <2>1, <2>2, <2>4
<1>2. 0 \in T
  <2> DEFINE g == [s \in Upto(0) |-> base]
  <2>1. ASSUME NEW s \in SUBSET S, Cardinality(s) <= 0 PROVE s = {}
    <3>1. s \subseteq S
      OBVIOUS
    <3>2. Cardinality(s) \in Nat /\ (Cardinality(s) = 0 <=> s = {})
      BY <1>1, <3>1
    <3> QED
      BY <2>1, <3>2
  <2>2. Folds(0, g)
    BY <2>1
  <2> QED
    BY <2>2
<1>3. ASSUME NEW k \in Nat, k \in T PROVE k + 1 \in T
  <2>1. PICK f : Folds(k, f)
    BY <1>3
  <2> DEFINE g == [s \in Upto(k + 1) |-> Value(f, s)]
  <2>2. ASSUME NEW s \in Upto(k + 1), s # {} PROVE s \ {c[s]} \in Upto(k) /\ c[s] \in S
    <3>1. s \subseteq S /\ Cardinality(s) <= k + 1
      OBVIOUS
    <3>2. /\ Cardinality(s) \in Nat
          /\ s \ {c[s]} \subseteq S
          /\ Cardinality(s \ {c[s]}) = Cardinality(s) - 1
      BY <1>1, <2>2, <3>1
    <3>3. Cardinality(s \ {c[s]}) <= k
      BY <3>1, <3>2
    <3>4. c[s] \in s
      BY <2>2 DEF Chooses
    <3> QED
      BY <3>2, <3>3, <3>4
  <2>3. \A s \in Upto(k + 1) : Value(f, s) \in D
    <3> SUFFICES ASSUME NEW s \in Upto(k + 1), s # {} PROVE F[<<c[s], f[s \ {c[s]}]>>] \in D
      OBVIOUS
    <3>1. f[s \ {c[s]}] \in D
      BY <2>1, <2>2
    <3> QED
      BY <2>2, <3>1
  <2>4. ASSUME NEW s \in Upto(k) PROVE s \in Upto(k + 1) /\ g[s] = f[s]
    <3>1. s \subseteq S /\ Cardinality(s) <= k
      OBVIOUS
    <3>2. Cardinality(s) \in Nat
      BY <1>1, <3>1
    <3>3. s \in Upto(k + 1)
      BY <3>1, <3>2
    <3>4. f[s] = Value(f, s)
      BY <2>1
    <3> QED
      BY <3>3, <3>4
  <2>5. \A s \in Upto(k + 1) : g[s] = Value(g, s)
    <3> SUFFICES ASSUME NEW s \in Upto(k + 1), s # {} PROVE g[s] = F[<<c[s], g[s \ {c[s]}]>>]
      OBVIOUS
    <3>1. g[s \ {c[s]}] = f[s \ {c[s]}]
      BY <2>2, <2>4
    <3> QED
      BY <3>1
  <2>6. g \in [Upto(k + 1) -> D]
    BY <2>3
  <2>7. Folds(k + 1, g)
    BY <2>5, <2>6
  <2> HIDE DEF Folds, g
  <2> QED
    BY <2>7
<1>4. Cardinality(S) \in T
  <2> HIDE DEF T
  <2>1. Cardinality(S) \in Nat
    BY FS_CardinalityType
  <2>2. Nat \subseteq T
    BY <1>2, <1>3, CountUp
  <2> QED
    BY <2>1, <2>2
<1>5. PICK g : Folds(Cardinality(S), g)
  BY <1>4
<1>6. Upto(Cardinality(S)) = SUBSET S
  <2>1. ASSUME NEW s \in SUBSET S PROVE Cardinality(s) <= Cardinality(S)
    <3>1. s \subseteq S
      OBVIOUS
    <3> QED
      BY <1>1, <3>1
  <2> QED
    BY <2>1
<1>7. FoldsOver(g, S, D, base, c, F)
  BY <1>5, <1>6 DEF FoldsOver
<1> QED
  BY <1>7

(* g holds the sums of w over the subsets of S. *)
SumsOf(g, S, w) ==
    /\ g \in [SUBSET S -> Int]
    /\ g[{}] = 0
    /\ \A s \in SUBSET S : \A x \in s : g[s] = w[x] + g[s \ {x}]

(* Whatever is chosen first, a sum is the same. *)
LEMMA SumsInAnyOrder ==
    ASSUME NEW S, IsFiniteSet(S), NEW w, \A x \in S : w[x] \in Int,
           NEW c, Chooses(c, S),
           NEW g \in [SUBSET S -> Int],
           \A s \in SUBSET S : g[s] = IF s = {} THEN 0 ELSE w[c[s]] + g[s \ {c[s]}]
    PROVE  SumsOf(g, S, w)
<1> DEFINE Holds(s) == \A x \in s : g[s] = w[x] + g[s \ {x}]
           T == {k \in Nat : \A s \in SUBSET S : Cardinality(s) <= k => Holds(s)}
<1>1. ASSUME NEW s \in SUBSET S, NEW x \in s
      PROVE  /\ s \ {x} \in SUBSET S
             /\ Cardinality(s) \in Nat \ {0}
             /\ Cardinality(s \ {x}) = Cardinality(s) - 1
  <2>1. s \subseteq S
    OBVIOUS
  <2>2. IsFiniteSet(s)
    BY <2>1, FS_Subset
  <2>3. Cardinality(s) \in Nat /\ (Cardinality(s) = 0 <=> s = {})
    BY <2>2, FS_CardinalityType, FS_EmptySet
  <2>4. Cardinality(s \ {x}) = Cardinality(s) - 1
    BY <2>2, FS_RemoveElement
  <2> QED
    BY <2>3, <2>4
<1>2. 0 \in T
  <2> SUFFICES ASSUME NEW s \in SUBSET S, Cardinality(s) <= 0, NEW x \in s PROVE FALSE
    OBVIOUS
  <2>1. Cardinality(s) \in Nat \ {0}
    BY <1>1
  <2> QED
    BY <2>1
<1>3. ASSUME NEW k \in Nat, k \in T PROVE k + 1 \in T
  <2> SUFFICES ASSUME NEW s \in SUBSET S, Cardinality(s) <= k + 1, NEW x \in s
               PROVE  g[s] = w[x] + g[s \ {x}]
    OBVIOUS
  <2> DEFINE y == c[s]
  <2>1. y \in s /\ g[s] = w[y] + g[s \ {y}]
    BY DEF Chooses
  <2>2. CASE x = y
    BY <2>1, <2>2
  <2>3. CASE x # y
    <3>1. /\ s \ {y} \in SUBSET S /\ Cardinality(s \ {y}) = Cardinality(s) - 1
          /\ s \ {x} \in SUBSET S /\ Cardinality(s \ {x}) = Cardinality(s) - 1
          /\ Cardinality(s) \in Nat
      BY <1>1, <2>1
    <3>2. Cardinality(s \ {y}) <= k /\ Cardinality(s \ {x}) <= k
      BY <3>1
    <3>3. Holds(s \ {y}) /\ Holds(s \ {x})
      BY <1>3, <3>1, <3>2
    <3>4. x \in s \ {y} /\ y \in s \ {x}
      BY <2>1, <2>3
    <3>5. g[s \ {y}] = w[x] + g[(s \ {y}) \ {x}] /\ g[s \ {x}] = w[y] + g[(s \ {x}) \ {y}]
      BY <3>3, <3>4
    <3>6. (s \ {y}) \ {x} = (s \ {x}) \ {y} /\ (s \ {y}) \ {x} \in SUBSET S
      OBVIOUS
    <3>7. w[x] \in Int /\ w[y] \in Int /\ g[(s \ {y}) \ {x}] \in Int
      BY <2>1, <3>6
    <3> DEFINE rest == g[(s \ {y}) \ {x}]
    <3>8. g[s \ {y}] = w[x] + rest /\ g[s \ {x}] = w[y] + rest
      BY <3>5, <3>6, Zenon
    <3>9. w[x] \in Int /\ w[y] \in Int /\ rest \in Int /\ g[s] = w[y] + g[s \ {y}]
      BY <2>1, <3>7
    <3> HIDE DEF y, rest
    <3> QED
      BY <3>8, <3>9
  <2> QED
    BY <2>2, <2>3
<1>4. Nat \subseteq T
  <2> HIDE DEF T
  <2> QED
    BY <1>2, <1>3, CountUp
<1>5. ASSUME NEW s \in SUBSET S, NEW x \in s PROVE g[s] = w[x] + g[s \ {x}]
  <2>1. Cardinality(s) \in Nat
    BY <1>1
  <2>2. Cardinality(s) \in T
    BY <1>4, <2>1
  <2> QED
    BY <2>1, <2>2
<1> QED
  BY <1>5 DEF SumsOf

(* A sum depends on what is summed, and on nothing else. *)
LEMMA SumsAgree ==
    ASSUME NEW S, NEW U, NEW w, NEW v, NEW g, NEW h, SumsOf(g, S, w), SumsOf(h, U, v),
           NEW R, IsFiniteSet(R), R \subseteq S, R \subseteq U, \A x \in R : w[x] = v[x]
    PROVE  g[R] = h[R]
<1> DEFINE T == {k \in Nat : \A s \in SUBSET R : Cardinality(s) <= k => g[s] = h[s]}
<1>1. ASSUME NEW s \in SUBSET R
      PROVE  IsFiniteSet(s) /\ Cardinality(s) \in Nat /\ (Cardinality(s) = 0 <=> s = {})
  <2>1. s \subseteq R
    OBVIOUS
  <2>2. IsFiniteSet(s)
    BY <2>1, FS_Subset
  <2> QED
    BY <2>2, FS_CardinalityType, FS_EmptySet
<1>2. 0 \in T
  <2> SUFFICES ASSUME NEW s \in SUBSET R, Cardinality(s) <= 0 PROVE g[s] = h[s]
    OBVIOUS
  <2>1. s = {}
    BY <1>1
  <2> QED
    BY <2>1 DEF SumsOf
<1>3. ASSUME NEW k \in Nat, k \in T PROVE k + 1 \in T
  <2> SUFFICES ASSUME NEW s \in SUBSET R, Cardinality(s) <= k + 1 PROVE g[s] = h[s]
    OBVIOUS
  <2>1. CASE s = {}
    BY <2>1 DEF SumsOf
  <2>2. CASE s # {}
    <3>1. PICK x \in s : TRUE
      BY <2>2
    <3>2. Cardinality(s \ {x}) = Cardinality(s) - 1 /\ Cardinality(s) \in Nat
      BY <1>1, FS_RemoveElement
    <3>3. s \ {x} \in SUBSET R /\ Cardinality(s \ {x}) <= k
      BY <3>2
    <3>4. g[s \ {x}] = h[s \ {x}]
      BY <1>3, <3>3
    <3>5. g[s] = w[x] + g[s \ {x}] /\ h[s] = v[x] + h[s \ {x}] /\ w[x] = v[x]
      BY DEF SumsOf
    <3> QED
      BY <3>4, <3>5
  <2> QED
    BY <2>1, <2>2
<1>4. Nat \subseteq T
  <2> HIDE DEF T
  <2> QED
    BY <1>2, <1>3, CountUp
<1>5. Cardinality(R) \in T
  BY <1>4, FS_CardinalityType
<1> QED
  BY <1>5, FS_CardinalityType

(* P holds the empty set, and a set when it holds what is left of it without the *)
(* element that is chosen.                                                       *)
Grows(P, S, c) == {} \in P /\ \A s \in SUBSET S : (s # {} /\ s \ {c[s]} \in P) => s \in P

(* Induction over the subsets of a finite set: what holds of the empty one and of *)
(* a set when it holds of the set without the element that is chosen.            *)
LEMMA TakeAway ==
    ASSUME NEW S, IsFiniteSet(S), NEW c, Chooses(c, S),
           NEW P, Grows(P, S, c)
    PROVE  \A s \in SUBSET S : s \in P
<1> DEFINE T == {k \in Nat : \A s \in SUBSET S : Cardinality(s) <= k => s \in P}
<1>1. ASSUME NEW s \in SUBSET S
      PROVE  IsFiniteSet(s) /\ Cardinality(s) \in Nat /\ (Cardinality(s) = 0 <=> s = {})
  <2>1. s \subseteq S
    OBVIOUS
  <2>2. IsFiniteSet(s)
    BY <2>1, FS_Subset
  <2> QED
    BY <2>2, FS_CardinalityType, FS_EmptySet
<1>2. 0 \in T
  <2> SUFFICES ASSUME NEW s \in SUBSET S, Cardinality(s) <= 0 PROVE s \in P
    OBVIOUS
  <2>1. s = {}
    BY <1>1
  <2> QED
    BY <2>1 DEF Grows
<1>3. ASSUME NEW k \in Nat, k \in T PROVE k + 1 \in T
  <2> SUFFICES ASSUME NEW s \in SUBSET S, Cardinality(s) <= k + 1 PROVE s \in P
    OBVIOUS
  <2>1. CASE s = {}
    BY <2>1 DEF Grows
  <2>2. CASE s # {}
    <3> DEFINE x == c[s]
    <3>1. x \in s
      BY <2>2 DEF Chooses
    <3>2. Cardinality(s \ {x}) = Cardinality(s) - 1 /\ Cardinality(s) \in Nat
      BY <1>1, <3>1, FS_RemoveElement
    <3>3. s \ {x} \in SUBSET S /\ Cardinality(s \ {x}) <= k
      BY <3>2
    <3>4. s \ {x} \in P
      BY <1>3, <3>3
    <3> QED
      BY <2>2, <3>4 DEF Grows
  <2> QED
    BY <2>1, <2>2
<1>4. Nat \subseteq T
  <2> HIDE DEF T
  <2> QED
    BY <1>2, <1>3, CountUp
<1>5. ASSUME NEW s \in SUBSET S PROVE s \in P
  <2>1. Cardinality(s) \in Nat
    BY <1>1
  <2>2. Cardinality(s) \in T
    BY <1>4, <2>1
  <2> QED
    BY <2>1, <2>2
<1> QED
  BY <1>5

(* The sum of w over a set, which MapThenSumSet computes. *)
SumOver(w, S) == MapThenSumSet(LAMBDA x : w[x], S)

LEMMA SumIsDefined ==
    ASSUME NEW S, IsFiniteSet(S), NEW w, \A x \in S : w[x] \in Int
    PROVE  \E g : SumsOf(g, S, w) /\ SumOver(w, S) = g[S]
<1> DEFINE c == [s \in SUBSET S |-> CHOOSE x \in s : TRUE]
           F == [p \in S \X Int |-> w[p[1]] + p[2]]
           Value(g, s) == IF s = {} THEN 0 ELSE w[CHOOSE x \in s : TRUE] + g[s \ {CHOOSE x \in s : TRUE}]
           Sums(g) == g = [s \in SUBSET S |-> Value(g, s)]
<1>1. \A s \in SUBSET S : s # {} => (CHOOSE x \in s : TRUE) \in s
  OBVIOUS
<1>2. Chooses(c, S)
  BY <1>1 DEF Chooses
<1>3. \A x \in S, d \in Int : F[<<x, d>>] \in Int /\ F[<<x, d>>] = w[x] + d
  OBVIOUS
<1>4. PICK g0 : FoldsOver(g0, S, Int, 0, c, F)
  <2> HIDE DEF F, c
  <2>1. \A x \in S, d \in Int : F[<<x, d>>] \in Int
    BY <1>3
  <2>2. 0 \in Int
    OBVIOUS
  <2> QED
    BY <1>2, <2>1, <2>2, FoldIsDefined
<1>5. ASSUME NEW s \in SUBSET S, s # {}
      PROVE  F[<<c[s], g0[s \ {c[s]}]>>] = w[c[s]] + g0[s \ {c[s]}]
  <2>1. c[s] \in S /\ g0[s \ {c[s]}] \in Int
    BY <1>2, <1>4, <1>5 DEF FoldsOver, Chooses
  <2> HIDE DEF F, c
  <2> QED
    BY <1>3, <2>1
<1>6. \A s \in SUBSET S : g0[s] = IF s = {} THEN 0 ELSE w[c[s]] + g0[s \ {c[s]}]
  <2> HIDE DEF F, c
  <2> QED
    BY <1>4, <1>5 DEF FoldsOver
<1>7. Sums(g0)
  BY <1>4, <1>6 DEF FoldsOver
<1> DEFINE iter == CHOOSE g : Sums(g)
<1>8. Sums(iter)
  <2> HIDE DEF Sums
  <2> QED
    BY <1>7
<1>9. SumOver(w, S) = iter[S]
  BY DEF SumOver, MapThenSumSet, MapThenFoldSet
<1>10. \A s \in SUBSET S : iter[s] = IF s = {} THEN 0 ELSE w[c[s]] + iter[s \ {c[s]}]
  <2> HIDE DEF iter
  <2> QED
    BY <1>8
<1>11. iter = [s \in SUBSET S |-> iter[s]]
  <2> HIDE DEF iter
  <2> QED
    BY <1>8
<1> HIDE DEF iter, c
<1>12. \A s \in SUBSET S : iter[s] \in Int
  <2> DEFINE P == {s \in SUBSET S : iter[s] \in Int}
  <2>1. {} \in P
    <3>1. {} \in SUBSET S
      OBVIOUS
    <3>2. iter[{}] = 0
      BY <1>10, <3>1, Zenon
    <3> QED
      BY <3>1, <3>2
  <2>2. ASSUME NEW s \in SUBSET S, s # {}, s \ {c[s]} \in P PROVE s \in P
    <3>1. c[s] \in s
      BY <1>2, <2>2 DEF Chooses
    <3>2. w[c[s]] \in Int /\ iter[s \ {c[s]}] \in Int
      BY <2>2, <3>1
    <3>3. iter[s] = w[c[s]] + iter[s \ {c[s]}]
      BY <1>10, <2>2
    <3> QED
      BY <3>2, <3>3
  <2>3. Grows(P, S, c)
    <3> HIDE DEF P
    <3> QED
      BY <2>1, <2>2 DEF Grows
  <2>4. \A s \in SUBSET S : s \in P
    <3> HIDE DEF P
    <3> QED
      BY <1>2, <2>3, TakeAway
  <2> QED
    BY <2>4
<1>13. iter \in [SUBSET S -> Int]
  BY <1>11, <1>12
<1>14. SumsOf(iter, S, w)
  BY <1>2, <1>10, <1>13, SumsInAnyOrder
<1> QED
  BY <1>9, <1>14

(* The largest member of a set of positions is a member of it, so that folding   *)
(* by the largest one first is a fold like any other.                            *)
LEMMA LastOf ==
    ASSUME NEW N \in Nat
    PROVE  Chooses([s \in SUBSET (1..N) |-> Max(s)], 1..N)
<1> SUFFICES ASSUME NEW s \in SUBSET (1..N), s # {} PROVE Max(s) \in s
  BY DEF Chooses
<1> DEFINE T == {N - i : i \in s}
<1>1. T \subseteq Nat /\ T # {}
  <2>1. ASSUME NEW i \in s PROVE N - i \in Nat
    <3>1. i \in 1..N
      OBVIOUS
    <3> QED
      BY <3>1
  <2> QED
    BY <2>1
<1>2. PICK x \in T : \A y \in T : x <= y
  BY <1>1, SmallestOf
<1>3. PICK m \in s : x = N - m
  BY <1>2
<1>4. ASSUME NEW i \in s PROVE m >= i
  <2>1. N - m <= N - i /\ i \in 1..N /\ m \in 1..N
    BY <1>2, <1>3
  <2> QED
    BY <2>1
<1> QED
  BY <1>4 DEF Max

(* A sequence is a function on its positions. *)
LEMMA SequenceIsAFunction ==
    ASSUME NEW S, NEW q \in Seq(S)
    PROVE  Len(q) \in Nat /\ q \in [1..Len(q) -> S]
<1>1. Len(q) \in Nat /\ DOMAIN q = 1..Len(q)
  OBVIOUS
<1>2. \A i \in 1..Len(q) : q[i] \in S
  OBVIOUS
<1>3. q = [i \in DOMAIN q |-> q[i]]
  OBVIOUS
<1> QED
  BY <1>1, <1>2, <1>3

LEMMA PositionsAreNaturals ==
    ASSUME NEW S, NEW q \in Seq(S)
    PROVE  DOMAIN q \subseteq Nat
<1>1. Len(q) \in Nat /\ q \in [1..Len(q) -> S]
  BY SequenceIsAFunction
<1>2. DOMAIN q = 1..Len(q)
  BY <1>1
<1>3. \A n \in Nat : 1..n \subseteq Nat
  OBVIOUS
<1> QED
  BY <1>1, <1>2, <1>3, Zenon
=============================================================================
