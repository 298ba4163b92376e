----------------------------- MODULE FoldProofs -----------------------------
(***************************************************************************)
(* What the proofs use of induction: over the subsets of a finite set, the *)
(* recursion behind the folds of the community modules, sums over finite   *)
(* sets, and arithmetic modulo a number.                                   *)
(*                                                                         *)
(* The induction principles take a set where the library's take a formula: *)
(* the set of the arguments for which the formula holds.  They follow from *)
(* the least element of a well-founded relation (WFMin).                   *)
(***************************************************************************)
EXTENDS Integers, FiniteSetsExt, FiniteSetTheorems, TLAPS

(* A family of sets that has the empty set, and every subset of the finite *)
(* set S that is in it when one element less always is, has all of them.   *)
LEMMA SetInduction ==
    ASSUME NEW S, IsFiniteSet(S), NEW G, {} \in G,
           \A T \in SUBSET S : T # {} /\ (\A x \in T : T \ {x} \in G) => T \in G
    PROVE  \A T \in SUBSET S : T \in G
<1> DEFINE B == {T \in SUBSET S : T \notin G}
<1>1. SUFFICES ASSUME B # {} PROVE FALSE
  OBVIOUS
<1>2. IsWellFoundedOn(StrictSubsetOrdering(S), SUBSET S)
  BY FS_StrictSubsetOrderingWellFounded, FS_FiniteSubsetsOfFinite
<1>3. B \subseteq SUBSET S
  OBVIOUS
<1> HIDE DEF B
<1>4. PICK T \in B : \A U \in B : <<U, T>> \notin StrictSubsetOrdering(S)
  BY <1>1, <1>2, <1>3, WFMin
<1>5. T \in SUBSET S /\ T \notin G /\ T # {}
  BY <1>4 DEF B
<1>6. ASSUME NEW x \in T PROVE T \ {x} \in G
  <2>1. T \ {x} \in SUBSET S /\ T \ {x} # T
    BY <1>5
  <2>2. <<T \ {x}, T>> \in StrictSubsetOrdering(S)
    BY <1>5, <2>1 DEF StrictSubsetOrdering
  <2> QED
    BY <1>4, <2>1, <2>2 DEF B
<1>7. QED
  BY <1>5, <1>6

(* A set that has 0, and with every number the next, has all of Nat. *)
LEMMA NatSetInduction ==
    ASSUME NEW G, 0 \in G, \A n \in Nat : n \in G => n + 1 \in G
    PROVE  \A n \in Nat : n \in G
<1> DEFINE B == {n \in Nat : n \notin G}
           R == OpToRel(<, Nat)
<1>1. SUFFICES ASSUME B # {} PROVE FALSE
  OBVIOUS
<1>2. IsWellFoundedOn(R, Nat)
  BY NatLessThanWellFounded
<1>2a. \A m, n \in Nat : m < n => <<m, n>> \in R
  BY DEF OpToRel
<1>3. B \subseteq Nat
  OBVIOUS
<1> HIDE DEF B, R
<1>4. PICK n \in B : \A m \in B : <<m, n>> \notin R
  BY <1>1, <1>2, <1>3, WFMin
<1>5. n \in Nat /\ n \notin G /\ n # 0
  BY <1>4 DEF B
<1>6. n - 1 \in Nat /\ n - 1 < n /\ (n - 1) + 1 = n
  BY <1>5
<1>7. n - 1 \notin B
  BY <1>2a, <1>4, <1>5, <1>6
<1>8. QED
  BY <1>5, <1>6, <1>7 DEF B

(* h is the recursion that takes the element c[s] out of s and applies F. *)
IsFold(h, S, base, F, c) ==
    \A s \in SUBSET S : h[s] = IF s = {} THEN base ELSE F[<<c[s], h[s \ {c[s]}]>>]

Picks(c, S) == \A s \in SUBSET S : s # {} => c[s] \in s

(* There is such an h: the recursion ends, because S is finite. *)
LEMMA FoldExists ==
    ASSUME NEW S, IsFiniteSet(S), NEW V, NEW base \in V, NEW F \in [S \X V -> V], NEW c, Picks(c, S)
    PROVE  \E h \in [SUBSET S -> V] : IsFold(h, S, base, F, c)
<1> DEFINE Upto(n, h) == \A s \in SUBSET S : Cardinality(s) <= n =>
                            h[s] = IF s = {} THEN base ELSE F[<<c[s], h[s \ {c[s]}]>>]
           G == {n \in Nat : \E h \in [SUBSET S -> V] : Upto(n, h)}
<1>0. \A s \in SUBSET S : /\ IsFiniteSet(s) /\ Cardinality(s) \in Nat
                          /\ Cardinality(s) <= Cardinality(S)
                          /\ Cardinality(s) = 0 <=> s = {}
  BY FS_Subset, FS_CardinalityType, FS_EmptySet
<1>1. 0 \in G
  <2> DEFINE h == [s \in SUBSET S |-> base]
  <2>1. h \in [SUBSET S -> V] /\ Upto(0, h)
    BY <1>0
  <2> QED
    BY <2>1
<1>2. ASSUME NEW n \in Nat, n \in G PROVE n + 1 \in G
  <2>1. PICK h \in [SUBSET S -> V] : Upto(n, h)
    BY <1>2
  <2> DEFINE e(s) == IF s = {} THEN base ELSE F[<<c[s], h[s \ {c[s]}]>>]
             f == [s \in SUBSET S |-> IF Cardinality(s) <= n THEN h[s] ELSE e(s)]
  <2>2. ASSUME NEW s \in SUBSET S PROVE e(s) \in V
    BY DEF Picks
  <2>3. f \in [SUBSET S -> V]
    BY <2>2
  <2>4. ASSUME NEW s \in SUBSET S, Cardinality(s) <= n + 1
        PROVE  f[s] = IF s = {} THEN base ELSE F[<<c[s], f[s \ {c[s]}]>>]
    <3>1. f[s] = e(s)
      BY <2>1
    <3>2. CASE s = {}
      BY <3>1, <3>2
    <3>3. CASE s # {}
      <4>1. c[s] \in s /\ s \ {c[s]} \in SUBSET S
        BY <3>3 DEF Picks
      <4>2. Cardinality(s \ {c[s]}) = Cardinality(s) - 1
        BY <1>0, <4>1, FS_RemoveElement
      <4>3. Cardinality(s \ {c[s]}) <= n
        BY <1>0, <2>4, <4>2
      <4>4. f[s \ {c[s]}] = h[s \ {c[s]}]
        BY <4>1, <4>3
      <4> QED
        BY <3>1, <3>3, <4>4
    <3> QED
      BY <3>2, <3>3
  <2> HIDE DEF f
  <2>5. Upto(n + 1, f)
    BY <2>4
  <2>6. n + 1 \in Nat
    OBVIOUS
  <2> QED
    BY <2>3, <2>5, <2>6
<1>3. Cardinality(S) \in Nat
  BY FS_CardinalityType
<1>4. Cardinality(S) \in G
  <2> HIDE DEF G
  <2> QED
    BY <1>1, <1>2, <1>3, NatSetInduction
<1> QED
  BY <1>0, <1>3, <1>4 DEF IsFold

(* There is one only. *)
LEMMA FoldUnique ==
    ASSUME NEW S, IsFiniteSet(S), NEW base, NEW F, NEW c, Picks(c, S),
           NEW h, NEW f, IsFold(h, S, base, F, c), IsFold(f, S, base, F, c)
    PROVE  \A s \in SUBSET S : h[s] = f[s]
<1> DEFINE G == {s \in SUBSET S : h[s] = f[s]}
<1>1. {} \in G
  BY DEF IsFold
<1>2. ASSUME NEW T \in SUBSET S, T # {}, T \ {c[T]} \in G PROVE T \in G
  BY <1>2 DEF IsFold
<1>3. ASSUME NEW T \in SUBSET S, T # {}, \A x \in T : T \ {x} \in G PROVE T \in G
  <2>1. c[T] \in T
    BY <1>3 DEF Picks
  <2> QED
    BY <1>2, <1>3, <2>1
<1> HIDE DEF G
<1>4. \A T \in SUBSET S : T \in G
  BY <1>1, <1>3, SetInduction
<1> QED
  BY <1>4 DEF G

-----------------------------------------------------------------------------
(* Sums. *)

(* The sum of g[x] over the elements of S. *)
SumOver(g, S) == MapThenSumSet(LAMBDA x : g[x], S)

IsSum(h, g, S) ==
    h = [s \in SUBSET S |-> IF s = {} THEN 0
                            ELSE g[CHOOSE x \in s : TRUE] + h[s \ {CHOOSE x \in s : TRUE}]]

(* The partial sums of g over the subsets of a finite set exist. *)
LEMMA SumExists ==
    ASSUME NEW S, IsFiniteSet(S), NEW g, \A x \in S : g[x] \in Int
    PROVE  \E h \in [SUBSET S -> Int] : IsSum(h, g, S)
<1> DEFINE F == [p \in S \X Int |-> g[p[1]] + p[2]]
           c == [s \in SUBSET S |-> CHOOSE x \in s : TRUE]
<1>1. F \in [S \X Int -> Int]
  OBVIOUS
<1>2. Picks(c, S)
  BY DEF Picks
<1>3. \A x \in S, n \in Int : F[<<x, n>>] = g[x] + n
  OBVIOUS
<1>4. \A s \in SUBSET S : s # {} => (CHOOSE x \in s : TRUE) \in s
  OBVIOUS
<1>5. \A s \in SUBSET S : c[s] = CHOOSE x \in s : TRUE
  OBVIOUS
<1>5a. 0 \in Int
  OBVIOUS
<1> HIDE DEF F, c
<1>6. PICK h \in [SUBSET S -> Int] : IsFold(h, S, 0, F, c)
  BY <1>1, <1>2, <1>5a, FoldExists
<1>7. ASSUME NEW s \in SUBSET S
      PROVE  h[s] = IF s = {} THEN 0 ELSE g[CHOOSE x \in s : TRUE] + h[s \ {CHOOSE x \in s : TRUE}]
  <2>1. CASE s = {}
    BY <1>6, <2>1 DEF IsFold
  <2>2. CASE s # {}
    <3>1. c[s] \in S /\ h[s \ {c[s]}] \in Int
      BY <1>4, <1>5, <2>2
    <3>2. h[s] = F[<<c[s], h[s \ {c[s]}]>>]
      BY <1>6, <2>2 DEF IsFold
    <3>3. F[<<c[s], h[s \ {c[s]}]>>] = g[c[s]] + h[s \ {c[s]}]
      BY <1>3, <3>1
    <3>4. h[s] = g[c[s]] + h[s \ {c[s]}]
      BY <3>2, <3>3
    <3> QED
      BY <1>5, <2>2, <3>4
  <2> QED
    BY <2>1, <2>2
<1> QED
  BY <1>7 DEF IsSum

(* They do not depend on the set they are taken from. *)
LEMMA SumUnique ==
    ASSUME NEW S, IsFiniteSet(S), NEW g, NEW h, NEW f, NEW T \in SUBSET S,
           IsSum(h, g, S), IsSum(f, g, T)
    PROVE  h[T] = f[T]
<1> DEFINE G == {s \in SUBSET T : h[s] = f[s]}
<1>1. {} \in G
  BY DEF IsSum
<1>2. ASSUME NEW s \in SUBSET T, s # {}, \A x \in s : s \ {x} \in G PROVE s \in G
  <2> DEFINE x == CHOOSE x \in s : TRUE
  <2>1. x \in s
    BY <1>2
  <2>2. h[s] = g[x] + h[s \ {x}] /\ f[s] = g[x] + f[s \ {x}]
    BY <1>2 DEF IsSum
  <2> HIDE DEF x
  <2>3. h[s \ {x}] = f[s \ {x}]
    BY <1>2, <2>1
  <2> QED
    BY <2>2, <2>3
<1>3. IsFiniteSet(T)
  BY FS_Subset
<1> HIDE DEF G
<1>4. \A s \in SUBSET T : s \in G
  BY <1>1, <1>2, <1>3, SetInduction
<1> QED
  BY <1>4 DEF G

(* The sum is the last of them. *)
LEMMA SumOverIs ==
    ASSUME NEW S, IsFiniteSet(S), NEW g, NEW h, IsSum(h, g, S), \A x \in S : g[x] \in Int
    PROVE  \A T \in SUBSET S : SumOver(g, T) = h[T]
<1> TAKE T \in SUBSET S
<1>1. IsFiniteSet(T)
  BY FS_Subset
<1>2. \E f : IsSum(f, g, T)
  BY <1>1, SumExists
<1>3. PICK f : IsSum(f, g, T) /\ SumOver(g, T) = f[T]
  BY <1>2 DEF SumOver, MapThenSumSet, MapThenFoldSet, IsSum
<1> QED
  BY <1>3, SumUnique

(* A sum of integers is one. *)
LEMMA SumType ==
    ASSUME NEW S, IsFiniteSet(S), NEW g, \A x \in S : g[x] \in Int
    PROVE  SumOver(g, S) \in Int
<1>1. PICK h \in [SUBSET S -> Int] : IsSum(h, g, S)
  BY SumExists
<1> QED
  BY <1>1, SumOverIs

(* The empty sum. *)
LEMMA SumEmpty == \A g : SumOver(g, {}) = 0
<1> TAKE g
<1>1. IsFiniteSet({}) /\ \A x \in {} : g[x] \in Int
  BY FS_EmptySet
<1>2. PICK h \in [SUBSET {} -> Int] : IsSum(h, g, {})
  BY <1>1, SumExists
<1>3. SumOver(g, {}) = h[{}]
  BY <1>1, <1>2, SumOverIs
<1> QED
  BY <1>2, <1>3 DEF IsSum

(* A sum can be taken apart at some element, *)
LEMMA SumPick ==
    ASSUME NEW S, IsFiniteSet(S), NEW g, \A x \in S : g[x] \in Int, S # {}
    PROVE  \E x \in S : SumOver(g, S) = g[x] + SumOver(g, S \ {x})
<1> DEFINE x == CHOOSE x \in S : TRUE
<1>1. x \in S
  OBVIOUS
<1>2. PICK h \in [SUBSET S -> Int] : IsSum(h, g, S)
  BY SumExists
<1>3. h[S] = g[x] + h[S \ {x}]
  BY <1>2 DEF IsSum
<1>4. SumOver(g, S) = h[S] /\ SumOver(g, S \ {x}) = h[S \ {x}]
  BY <1>2, SumOverIs
<1> HIDE DEF x
<1> QED
  BY <1>1, <1>3, <1>4

(* and therefore at any. *)
LEMMA SumAny ==
    ASSUME NEW S, IsFiniteSet(S), NEW g, \A x \in S : g[x] \in Int
    PROVE  \A x \in S : SumOver(g, S) = g[x] + SumOver(g, S \ {x})
<1> DEFINE G == {T \in SUBSET S : \A x \in T : SumOver(g, T) = g[x] + SumOver(g, T \ {x})}
<1>1. {} \in G
  OBVIOUS
<1>2. ASSUME NEW T \in SUBSET S, T # {}, \A x \in T : T \ {x} \in G PROVE T \in G
  <2>0. \A U \in SUBSET S : IsFiniteSet(U) /\ SumOver(g, U) \in Int
    BY FS_Subset, SumType
  <2>1. PICK y \in T : SumOver(g, T) = g[y] + SumOver(g, T \ {y})
    BY <1>2, <2>0, SumPick
  <2>2. ASSUME NEW x \in T, x # y PROVE SumOver(g, T) = g[x] + SumOver(g, T \ {x})
    <3>1. SumOver(g, T \ {y}) = g[x] + SumOver(g, (T \ {y}) \ {x})
      BY <1>2, <2>2
    <3>2. SumOver(g, T \ {x}) = g[y] + SumOver(g, (T \ {x}) \ {y})
      BY <1>2, <2>2
    <3> DEFINE a == SumOver(g, (T \ {y}) \ {x})
    <3>3. (T \ {x}) \ {y} = (T \ {y}) \ {x}
      OBVIOUS
    <3>4. g[x] \in Int /\ g[y] \in Int /\ a \in Int
      BY <2>0
    <3>5. SumOver(g, T) = g[y] + (g[x] + a) /\ SumOver(g, T \ {x}) = g[y] + a
      BY <2>1, <3>1, <3>2, <3>3
    <3> HIDE DEF a
    <3> QED
      BY <3>4, <3>5
  <2> QED
    BY <2>1, <2>2
<1> HIDE DEF G
<1>3. \A T \in SUBSET S : T \in G
  BY <1>1, <1>2, SetInduction
<1> QED
  BY <1>3 DEF G

(* The sum depends on the terms only. *)
LEMMA SumSame ==
    ASSUME NEW S, IsFiniteSet(S), NEW g, NEW f, \A x \in S : g[x] \in Int /\ f[x] = g[x]
    PROVE  SumOver(f, S) = SumOver(g, S)
<1>1. PICK h \in [SUBSET S -> Int] : IsSum(h, g, S)
  BY SumExists
<1>2. \A s \in SUBSET S : s # {} => (CHOOSE x \in s : TRUE) \in S
  OBVIOUS
<1>3. IsSum(h, f, S)
  BY <1>1, <1>2 DEF IsSum
<1> QED
  BY <1>1, <1>3, SumOverIs

(* Nothing adds up to nothing. *)
LEMMA SumZero ==
    ASSUME NEW S, IsFiniteSet(S), NEW g, \A x \in S : g[x] = 0
    PROVE  SumOver(g, S) = 0
<1> DEFINE G == {T \in SUBSET S : SumOver(g, T) = 0}
<1>1. {} \in G
  BY SumEmpty
<1>2. ASSUME NEW T \in SUBSET S, T # {}, \A x \in T : T \ {x} \in G PROVE T \in G
  <2>1. PICK x \in T : TRUE
    BY <1>2
  <2>2. IsFiniteSet(T) /\ \A y \in T : g[y] \in Int
    BY FS_Subset
  <2>3. SumOver(g, T) = g[x] + SumOver(g, T \ {x})
    BY <2>2, SumAny
  <2>4. SumOver(g, T \ {x}) = 0
    BY <1>2
  <2> QED
    BY <2>3, <2>4
<1> HIDE DEF G
<1>3. \A T \in SUBSET S : T \in G
  BY <1>1, <1>2, SetInduction
<1> QED
  BY <1>3 DEF G

(* Greater terms have a greater sum. *)
LEMMA SumMonotone ==
    ASSUME NEW S, IsFiniteSet(S), NEW g, NEW f,
           \A x \in S : f[x] \in Int /\ g[x] \in Int /\ f[x] <= g[x]
    PROVE  SumOver(f, S) <= SumOver(g, S)
<1> DEFINE G == {T \in SUBSET S : SumOver(f, T) <= SumOver(g, T)}
<1>1. {} \in G
  BY SumEmpty
<1>2. ASSUME NEW T \in SUBSET S, T # {}, \A x \in T : T \ {x} \in G PROVE T \in G
  <2>0. \A U \in SUBSET S : IsFiniteSet(U) /\ SumOver(g, U) \in Int /\ SumOver(f, U) \in Int
    BY FS_Subset, SumType
  <2>1. PICK x \in T : TRUE
    BY <1>2
  <2>2. SumOver(f, T) = f[x] + SumOver(f, T \ {x}) /\ SumOver(g, T) = g[x] + SumOver(g, T \ {x})
    BY <2>0, SumAny
  <2>3. SumOver(f, T \ {x}) <= SumOver(g, T \ {x})
    BY <1>2
  <2> QED
    BY <2>0, <2>2, <2>3
<1> HIDE DEF G
<1>3. \A T \in SUBSET S : T \in G
  BY <1>1, <1>2, SetInduction
<1> QED
  BY <1>3 DEF G

(* A sum is the sum of its parts. *)
LEMMA SumSplit ==
    ASSUME NEW S, IsFiniteSet(S), NEW g, \A x \in S : g[x] \in Int, NEW T \in SUBSET S
    PROVE  SumOver(g, S) = SumOver(g, T) + SumOver(g, S \ T)
<1> DEFINE G == {U \in SUBSET S : SumOver(g, U) = SumOver(g, U \cap T) + SumOver(g, U \ T)}
<1>0. \A U \in SUBSET S : IsFiniteSet(U) /\ SumOver(g, U) \in Int
  BY FS_Subset, SumType
<1>1. {} \in G
  <2>1. {} \cap T = {} /\ {} \ T = {}
    OBVIOUS
  <2> QED
    BY <2>1, SumEmpty
<1>2. ASSUME NEW U \in SUBSET S, U # {}, \A x \in U : U \ {x} \in G PROVE U \in G
  <2>1. PICK x \in U : TRUE
    BY <1>2
  <2> DEFINE w  == SumOver(g, U)
             v  == SumOver(g, U \cap T)
             u  == SumOver(g, U \ T)
             w1 == SumOver(g, U \ {x})
             v1 == SumOver(g, (U \ {x}) \cap T)
             u1 == SumOver(g, (U \ {x}) \ T)
  <2>2. w = g[x] + w1
    BY <1>0, SumAny
  <2>3. w1 = v1 + u1
    BY <1>2
  <2>4. CASE x \in T
    <3>1. (U \ {x}) \cap T = (U \cap T) \ {x} /\ (U \ {x}) \ T = U \ T
      BY <2>4
    <3>2. v = g[x] + SumOver(g, (U \cap T) \ {x})
      BY <1>0, <2>4, SumAny
    <3>3. v = g[x] + v1 /\ u = u1
      BY <3>1, <3>2
    <3>4. g[x] \in Int /\ v1 \in Int /\ u1 \in Int
      BY <1>0
    <3> HIDE DEF w, v, u, w1, v1, u1
    <3>5. w = v + u
      BY <2>2, <2>3, <3>3, <3>4
    <3> QED
      BY <3>5 DEF w, v, u
  <2>5. CASE x \notin T
    <3>1. (U \ {x}) \cap T = U \cap T /\ (U \ {x}) \ T = (U \ T) \ {x}
      BY <2>5
    <3>2. u = g[x] + SumOver(g, (U \ T) \ {x})
      BY <1>0, <2>5, SumAny
    <3>3. u = g[x] + u1 /\ v = v1
      BY <3>1, <3>2
    <3>4. g[x] \in Int /\ v1 \in Int /\ u1 \in Int
      BY <1>0
    <3> HIDE DEF w, v, u, w1, v1, u1
    <3>5. w = v + u
      BY <2>2, <2>3, <3>3, <3>4
    <3> QED
      BY <3>5 DEF w, v, u
  <2> QED
    BY <2>4, <2>5
<1> HIDE DEF G
<1>3. \A U \in SUBSET S : U \in G
  BY <1>1, <1>2, SetInduction
<1>4. S \cap T = T
  OBVIOUS
<1> QED
  BY <1>3, <1>4 DEF G

(* A sum of natural numbers is one. *)
LEMMA SumNat ==
    ASSUME NEW S, IsFiniteSet(S), NEW g, \A x \in S : g[x] \in Nat
    PROVE  SumOver(g, S) \in Nat
<1> DEFINE z == [x \in S |-> 0]
<1>1. \A x \in S : z[x] = 0 /\ z[x] \in Int /\ g[x] \in Int /\ z[x] <= g[x]
  OBVIOUS
<1> HIDE DEF z
<1>2. SumOver(z, S) = 0 /\ SumOver(z, S) <= SumOver(g, S)
  BY <1>1, SumZero, SumMonotone
<1>3. SumOver(g, S) \in Int
  BY <1>1, SumType
<1> QED
  BY <1>2, <1>3

(* More terms have a greater sum, if none is negative. *)
LEMMA SumSubset ==
    ASSUME NEW S, IsFiniteSet(S), NEW g, \A x \in S : g[x] \in Nat, NEW T \in SUBSET S
    PROVE  SumOver(g, T) <= SumOver(g, S)
<1>1. SumOver(g, S) = SumOver(g, T) + SumOver(g, S \ T)
  BY SumSplit
<1>2. SumOver(g, T) \in Nat /\ SumOver(g, S \ T) \in Nat
  BY FS_Subset, SumNat
<1> QED
  BY <1>1, <1>2

(* Terms that are 0 can be left out. *)
LEMMA SumSupport ==
    ASSUME NEW S, IsFiniteSet(S), NEW g, NEW T \in SUBSET S,
           \A x \in S : g[x] \in Int, \A x \in S \ T : g[x] = 0
    PROVE  SumOver(g, S) = SumOver(g, T)
<1>1. SumOver(g, S) = SumOver(g, T) + SumOver(g, S \ T)
  BY SumSplit
<1>2. SumOver(g, T) \in Int /\ SumOver(g, S \ T) = 0
  BY FS_Subset, SumType, SumZero
<1> QED
  BY <1>1, <1>2

(* One term more. *)
LEMMA SumAdd ==
    ASSUME NEW S, IsFiniteSet(S), NEW x, x \notin S,
           NEW g, \A y \in S \cup {x} : g[y] \in Int
    PROVE  SumOver(g, S \cup {x}) = g[x] + SumOver(g, S)
<1> DEFINE U == S \cup {x}
<1>1. IsFiniteSet(U)
  BY FS_AddElement
<1>2. x \in U /\ U \ {x} = S
  OBVIOUS
<1> HIDE DEF U
<1>3. \A y \in U : g[y] \in Int
  BY DEF U
<1>4. SumOver(g, U) = g[x] + SumOver(g, U \ {x})
  BY <1>1, <1>2, <1>3, SumAny
<1> QED
  BY <1>2, <1>4 DEF U

(* One term changes. *)
LEMMA SumChange ==
    ASSUME NEW S, IsFiniteSet(S), NEW x \in S, NEW f, NEW g,
           \A y \in S : f[y] \in Int /\ g[y] \in Int,
           \A y \in S \ {x} : f[y] = g[y]
    PROVE  SumOver(f, S) = SumOver(g, S) - g[x] + f[x]
<1> DEFINE T == S \ {x}
           a == SumOver(f, T)
           b == SumOver(g, T)
<1>1. SumOver(f, S) = f[x] + a /\ SumOver(g, S) = g[x] + b
  BY SumAny
<1>2. IsFiniteSet(T) /\ T \subseteq S
  BY FS_Subset
<1>3. a = b
  BY <1>2, SumSame
<1>4. b \in Int /\ f[x] \in Int /\ g[x] \in Int
  BY <1>2, SumType
<1> HIDE DEF a, b
<1> QED
  BY <1>1, <1>3, <1>4

-----------------------------------------------------------------------------
(* Remainders. *)

(* Division with remainder. *)
LEMMA ModDef ==
    ASSUME NEW m \in Nat \ {0}, NEW a \in Int
    PROVE  a % m \in 0 .. m - 1 /\ a \div m \in Int /\ a = m * (a \div m) + (a % m)
  OBVIOUS

(* The only multiple of m between -m and m is 0. *)
LEMMA SmallMultiple ==
    ASSUME NEW m \in Nat \ {0}, NEW k \in Int, -m < m * k, m * k < m
    PROVE  k = 0
<1>1. CASE k >= 1
  <2>1. m * k >= m
    BY <1>1
  <2> QED
    BY <2>1
<1>2. CASE k <= -1
  <2>1. m * k <= -m
    BY <1>2
  <2> QED
    BY <2>1
<1> QED
  BY <1>1, <1>2

(* There is one remainder only. *)
LEMMA ModUnique ==
    ASSUME NEW m \in Nat \ {0}, NEW r \in 0 .. m - 1, NEW s \in 0 .. m - 1, NEW p \in Int, NEW q \in Int,
           m * p + r = m * q + s
    PROVE  r = s
<1>1. m * (p - q) = s - r
  OBVIOUS
<1>2. p - q = 0
  BY <1>1, SmallMultiple
<1> QED
  BY <1>1, <1>2

(* Reducing a summand does not change the sum's remainder. *)
LEMMA ModAdd ==
    ASSUME NEW m \in Nat \ {0}, NEW a \in Int, NEW b \in Int
    PROVE  ((a % m) + b) % m = (a + b) % m
<1>0. ASSUME NEW x \in Int PROVE \E q \in Int : x % m \in 0 .. m - 1 /\ x = m * q + (x % m)
  BY ModDef
<1>1. PICK q \in Int : a % m \in 0 .. m - 1 /\ a = m * q + (a % m)
  BY <1>0
<1> DEFINE x == (a % m) + b
           y == a + b
<1>2. x \in Int /\ y \in Int
  BY <1>1
<1>3. y = m * q + x
  BY <1>1
<1> HIDE DEF x, y
<1>4. PICK p \in Int : x % m \in 0 .. m - 1 /\ x = m * p + (x % m)
  BY <1>0, <1>2
<1>5. PICK u \in Int : y % m \in 0 .. m - 1 /\ y = m * u + (y % m)
  BY <1>0, <1>2
<1> DEFINE s == x % m
           t == y % m
<1>6. s \in 0 .. m - 1 /\ t \in 0 .. m - 1 /\ m * u + t = m * q + (m * p + s)
  BY <1>3, <1>4, <1>5
<1> HIDE DEF s, t
<1>7. m * u + t = m * (q + p) + s /\ q + p \in Int
  BY <1>6
<1>8. t = s
  BY <1>6, <1>7, ModUnique
<1> QED
  BY <1>8 DEF s, t, x, y

(* Addition in two's complement: the result is in range, *)
LEMMA TwosComplementType ==
    ASSUME NEW h \in Nat \ {0}, NEW n \in Int
    PROVE  ((n + h) % (2 * h)) - h \in -h .. h - 1
<1>1. 2 * h \in Nat \ {0}
  OBVIOUS
<1>2. (n + h) % (2 * h) \in 0 .. (2 * h) - 1
  BY <1>1, ModDef
<1> QED
  BY <1>2

(* what is in range does not change, *)
LEMMA TwosComplementId ==
    ASSUME NEW h \in Nat \ {0}, NEW n \in -h .. h - 1
    PROVE  ((n + h) % (2 * h)) - h = n
<1> DEFINE m == 2 * h
           r == (n + h) % m
           q == (n + h) \div m
<1>1. m \in Nat \ {0} /\ n + h \in Int /\ n + h \in 0 .. m - 1
  OBVIOUS
<1>2. r \in 0 .. m - 1 /\ q \in Int /\ n + h = m * q + r
  BY <1>1, ModDef
<1> HIDE DEF m, r, q
<1>3. m * 0 + (n + h) = m * q + r
  BY <1>1, <1>2
<1>4. r = n + h
  BY <1>1, <1>2, <1>3, ModUnique
<1> QED
  BY <1>4 DEF r, m

(* and a sum wraps once or twice to the same end. *)
LEMMA TwosComplementAdd ==
    ASSUME NEW h \in Nat \ {0}, NEW a \in Int, NEW b \in Int
    PROVE  (((((a + h) % (2 * h)) - h) + b + h) % (2 * h)) - h = ((a + b + h) % (2 * h)) - h
<1> DEFINE m == 2 * h
           r == (a + h) % m
<1>1. m \in Nat \ {0} /\ a + h \in Int
  OBVIOUS
<1>2. r \in Int
  BY <1>1, ModDef
<1>3. (r + b) % m = ((a + h) + b) % m
  BY <1>1, ModAdd
<1> HIDE DEF m, r
<1>4. (r - h) + b + h = r + b /\ a + b + h = (a + h) + b
  BY <1>2
<1>5. (((r - h) + b + h) % m) - h = ((a + b + h) % m) - h
  BY <1>3, <1>4
<1> QED
  BY <1>5 DEF r, m
=============================================================================
