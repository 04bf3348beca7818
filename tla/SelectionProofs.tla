--------------------------- MODULE SelectionProofs ---------------------------
(***************************************************************************)
(* Sums over finite sets: what is consumed of a lot, or for an event, is the *)
(* sum of rows, and a sum is a fold, which is a recursive function.         *)
(*                                                                         *)
(* That such a function exists and is unique is shown here from the strict  *)
(* subsets of a finite set being well-founded; then the sum is taken apart  *)
(* element by element.  What is summed is a function, so that every fact    *)
(* speaks of values only.                                                   *)
(***************************************************************************)
EXTENDS Selection, FiniteSetTheorems, WellFoundedInduction, TLAPS

\* The sum of f over S, a subset of its domain.
SumOn(f, S) == MapThenSumSet(LAMBDA x : f[x], S)

\* The element a fold takes next.
First(s) == CHOOSE x \in s : TRUE

\* g gives every subset of S its sum, by the fold's own recursion.
Adds(f, S, g) ==
    g = [s \in SUBSET S |-> IF s = {} THEN 0 ELSE f[First(s)] + g[s \ {First(s)}]]

-----------------------------------------------------------------------------
(* The fold is well-defined                                                 *)

\* Among subsets of a finite set one contains no other.
LEMMA SmallestSubset ==
    ASSUME NEW S, IsFiniteSet(S), NEW P \in SUBSET SUBSET S, P # {}
    PROVE  \E s \in P : \A t \in P : t \subseteq s => t = s
  <1>1. IsWellFoundedOn(StrictSubsetOrdering(S), SUBSET S)
    BY FS_StrictSubsetOrderingWellFounded, FS_FiniteSubsetsOfFinite
  <1>2. PICK s \in P : \A t \in P : ~(<<t, s>> \in StrictSubsetOrdering(S))
    BY <1>1, WFMin
  <1> QED
    BY <1>2 DEF StrictSubsetOrdering

\* Two such functions agree where both are defined.
LEMMA AddsOnce ==
    ASSUME NEW f, NEW S, IsFiniteSet(S), NEW R \in SUBSET S, NEW g, NEW h,
           Adds(f, S, g), Adds(f, R, h)
    PROVE  \A s \in SUBSET R : g[s] = h[s]
  <1> DEFINE P == {s \in SUBSET R : g[s] # h[s]}
  <1> SUFFICES ASSUME P # {} PROVE FALSE
    OBVIOUS
  <1>0. P \in SUBSET SUBSET S
    OBVIOUS
  <1>1. PICK s \in P : \A t \in P : t \subseteq s => t = s
    <2> HIDE DEF P
    <2> QED
      BY <1>0, SmallestSubset
  <1>2. CASE s = {}
    BY <1>2 DEF Adds
  <1>3. CASE s # {}
    <2> DEFINE x == First(s)
    <2>1. x \in s
      BY <1>3 DEF First
    <2>2. g[s] = f[x] + g[s \ {x}]
      BY <1>3 DEF Adds
    <2>3. h[s] = f[x] + h[s \ {x}]
      BY <1>3 DEF Adds
    <2>4. g[s \ {x}] = h[s \ {x}]
      BY <1>1, <2>1
    <2> QED
      BY <2>2, <2>3, <2>4
  <1> QED
    BY <1>2, <1>3

\* There is one: a smallest set without one could be given one from its subsets'.
LEMMA AddsExists ==
    ASSUME NEW f, NEW S, IsFiniteSet(S)
    PROVE  \E g : Adds(f, S, g)
  <1> DEFINE P == {s \in SUBSET S : ~\E g : Adds(f, s, g)}
  <1> SUFFICES ASSUME P # {} PROVE FALSE
    OBVIOUS
  <1>0. P \in SUBSET SUBSET S
    OBVIOUS
  <1>1. PICK R \in P : \A t \in P : t \subseteq R => t = R
    <2> HIDE DEF P
    <2> QED
      BY <1>0, SmallestSubset
  <1> DEFINE H(t) == CHOOSE h : Adds(f, t, h)
             G == [s \in SUBSET R |-> IF s = {} THEN 0
                        ELSE f[First(s)] + H(s \ {First(s)})[s \ {First(s)}]]
  <1>2. \A t \in SUBSET R : t # R => Adds(f, t, H(t))
    BY <1>1
  <1>3. \A t \in SUBSET R : t # R => G[t] = H(t)[t]
    <2> SUFFICES ASSUME NEW t \in SUBSET R, t # R PROVE G[t] = H(t)[t]
      OBVIOUS
    <2>1. CASE t = {}
      <3> DEFINE h == H(t)
      <3>1. Adds(f, t, h)
        BY <1>2
      <3> HIDE DEF h
      <3>2. h[t] = 0
        BY <2>1, <3>1 DEF Adds
      <3>3. G[t] = 0
        BY <2>1
      <3> QED
        BY <3>2, <3>3 DEF h
    <2>2. CASE t # {}
      <3> DEFINE u == t \ {First(t)}
      <3>1. First(t) \in t /\ u \in SUBSET R /\ u # R /\ u \in SUBSET t
        BY <2>2 DEF First
      <3>2. Adds(f, t, H(t)) /\ Adds(f, u, H(u)) /\ IsFiniteSet(t)
        BY <1>2, <3>1, FS_Subset
      <3>3. H(t)[u] = H(u)[u]
        <4> DEFINE h == H(t)
                   k == H(u)
        <4>1. Adds(f, t, h) /\ Adds(f, u, k) /\ IsFiniteSet(t) /\ u \in SUBSET t
          BY <3>1, <3>2
        <4> HIDE DEF h, k, u
        <4>2. \A s \in SUBSET u : h[s] = k[s]
          BY <4>1, AddsOnce
        <4>3. h[u] = k[u]
          BY <4>2
        <4> QED
          BY <4>3 DEF h, k
      <3>4. H(t)[t] = f[First(t)] + H(t)[u]
        BY <2>2, <3>2 DEF Adds
      <3>5. G[t] = f[First(t)] + H(u)[u]
        BY <2>2
      <3> QED
        BY <3>3, <3>4, <3>5
    <2> QED
      BY <2>1, <2>2
  <1>4. Adds(f, R, G)
    <2>1. \A s \in SUBSET R : s # {} => H(s \ {First(s)})[s \ {First(s)}] = G[s \ {First(s)}]
      <3> SUFFICES ASSUME NEW s \in SUBSET R, s # {}
                   PROVE  H(s \ {First(s)})[s \ {First(s)}] = G[s \ {First(s)}]
        OBVIOUS
      <3>1. First(s) \in s
        BY DEF First
      <3> QED
        BY <1>3, <3>1
    <2> DEFINE K(s) == IF s = {} THEN 0 ELSE f[First(s)] + H(s \ {First(s)})[s \ {First(s)}]
               L(s) == IF s = {} THEN 0 ELSE f[First(s)] + G[s \ {First(s)}]
    <2>2. \A s \in SUBSET R : K(s) = L(s)
      <3> HIDE DEF G, H
      <3> QED
        BY <2>1
    <2>3. G = [s \in SUBSET R |-> K(s)]
      OBVIOUS
    <2>4. G = [s \in SUBSET R |-> L(s)]
      <3> HIDE DEF G, K, L
      <3> QED
        BY <2>2, <2>3
    <2> HIDE DEF G
    <2> QED
      BY <2>4 DEF Adds
  <1> QED
    BY <1>1, <1>4

\* The sum is what that function says.
LEMMA SumIsAdded ==
    ASSUME NEW f, NEW S, IsFiniteSet(S), NEW g, Adds(f, S, g)
    PROVE  \A s \in SUBSET S : SumOn(f, s) = g[s]
  <1> SUFFICES ASSUME NEW s \in SUBSET S PROVE SumOn(f, s) = g[s]
    OBVIOUS
  <1> DEFINE h == CHOOSE k : Adds(f, s, k)
  <1>1. SumOn(f, s) = h[s]
    BY DEF SumOn, MapThenSumSet, MapThenFoldSet, Adds, First
  <1>2. Adds(f, s, h)
    BY AddsExists, FS_Subset
  <1> HIDE DEF h
  <1> QED
    BY <1>1, <1>2, AddsOnce

\* The two cases of the recursion.
LEMMA SumOfNone == ASSUME NEW f PROVE SumOn(f, {}) = 0
  <1>1. PICK g : Adds(f, {}, g)
    BY AddsExists, FS_EmptySet
  <1>2. SumOn(f, {}) = g[{}]
    BY <1>1, SumIsAdded, FS_EmptySet
  <1>3. g[{}] = 0
    BY <1>1 DEF Adds
  <1> QED
    BY <1>2, <1>3

LEMMA SumStep ==
    ASSUME NEW f, NEW S, IsFiniteSet(S), S # {}
    PROVE  SumOn(f, S) = f[First(S)] + SumOn(f, S \ {First(S)})
  <1>1. PICK g : Adds(f, S, g)
    BY AddsExists
  <1>2. g[S] = f[First(S)] + g[S \ {First(S)}]
    BY <1>1 DEF Adds
  <1> QED
    BY <1>1, <1>2, SumIsAdded

-----------------------------------------------------------------------------
(* Sums of integers                                                         *)

\* What holds of a finite set whenever it holds of all smaller subsets holds of it;
\* P is the set of those it holds of.
LEMMA SubsetInduction ==
    ASSUME NEW S, IsFiniteSet(S), NEW P,
           \A s \in SUBSET S : (\A t \in SUBSET s : t # s => t \in P) => s \in P
    PROVE  S \in P
  <1> DEFINE Q == (SUBSET S) \ P
  <1> SUFFICES ASSUME Q # {} PROVE FALSE
    OBVIOUS
  <1>1. PICK s \in Q : \A t \in Q : t \subseteq s => t = s
    <2>1. Q \in SUBSET SUBSET S
      OBVIOUS
    <2> HIDE DEF Q
    <2> QED
      BY <2>1, SmallestSubset
  <1> QED
    BY <1>1

\* A sum of integers is one, and of naturals a natural.
LEMMA SumIsInt ==
    ASSUME NEW S, IsFiniteSet(S), NEW f, \A x \in S : f[x] \in Int
    PROVE  SumOn(f, S) \in Int
  <1> DEFINE P == {s \in SUBSET S : SumOn(f, s) \in Int}
  <1>1. ASSUME NEW s \in SUBSET S, \A t \in SUBSET s : t # s => t \in P
        PROVE  s \in P
    <2>1. CASE s = {}
      BY <2>1, SumOfNone
    <2>2. CASE s # {}
      <3>1. IsFiniteSet(s) /\ First(s) \in s
        BY <2>2, FS_Subset DEF First
      <3>2. SumOn(f, s) = f[First(s)] + SumOn(f, s \ {First(s)})
        BY <2>2, <3>1, SumStep
      <3>3. SumOn(f, s \ {First(s)}) \in Int
        BY <1>1, <3>1
      <3> QED
        BY <3>1, <3>2, <3>3
    <2> QED
      BY <2>1, <2>2
  <1>2. S \in P
    <2> HIDE DEF P
    <2> QED
      BY <1>1, SubsetInduction
  <1> QED
    BY <1>2

LEMMA SumIsNat ==
    ASSUME NEW S, IsFiniteSet(S), NEW f, \A x \in S : f[x] \in Nat
    PROVE  SumOn(f, S) \in Nat
  <1> DEFINE P == {s \in SUBSET S : SumOn(f, s) \in Nat}
  <1>1. ASSUME NEW s \in SUBSET S, \A t \in SUBSET s : t # s => t \in P
        PROVE  s \in P
    <2>1. CASE s = {}
      BY <2>1, SumOfNone
    <2>2. CASE s # {}
      <3>1. IsFiniteSet(s) /\ First(s) \in s
        BY <2>2, FS_Subset DEF First
      <3>2. SumOn(f, s) = f[First(s)] + SumOn(f, s \ {First(s)})
        BY <2>2, <3>1, SumStep
      <3>3. SumOn(f, s \ {First(s)}) \in Nat
        BY <1>1, <3>1
      <3> QED
        BY <3>1, <3>2, <3>3
    <2> QED
      BY <2>1, <2>2
  <1>2. S \in P
    <2> HIDE DEF P
    <2> QED
      BY <1>1, SubsetInduction
  <1> QED
    BY <1>2

\* Any element may be taken out, not only the one the fold takes.
LEMMA SumWithout ==
    ASSUME NEW S, IsFiniteSet(S), NEW f, \A x \in S : f[x] \in Int, NEW x \in S
    PROVE  SumOn(f, S) = f[x] + SumOn(f, S \ {x})
  <1> DEFINE P == {s \in SUBSET S :
                      \A y \in s : SumOn(f, s) = f[y] + SumOn(f, s \ {y})}
  <1>1. ASSUME NEW s \in SUBSET S, \A t \in SUBSET s : t # s => t \in P
        PROVE  s \in P
    <2> SUFFICES ASSUME NEW y \in s PROVE SumOn(f, s) = f[y] + SumOn(f, s \ {y})
      OBVIOUS
    <2> DEFINE z == First(s)
    <2>1. z \in s /\ IsFiniteSet(s)
      BY <1>1, FS_Subset DEF First
    <2>2. SumOn(f, s) = f[z] + SumOn(f, s \ {z})
      BY <1>1, <2>1, SumStep
    <2>3. CASE y = z
      BY <2>2, <2>3
    <2>4. CASE y # z
      <3> DEFINE r == s \ {y, z}
      <3>1. s \ {z} \in P /\ s \ {y} \in P
        BY <1>1, <2>1
      <3>2. SumOn(f, s \ {z}) = f[y] + SumOn(f, r) /\ SumOn(f, s \ {y}) = f[z] + SumOn(f, r)
        <4>1. y \in s \ {z} /\ z \in s \ {y} /\ (s \ {z}) \ {y} = r /\ (s \ {y}) \ {z} = r
          BY <2>1, <2>4
        <4> QED
          BY <3>1, <4>1
      <3>3. SumOn(f, r) \in Int /\ f[y] \in Int /\ f[z] \in Int
        BY <2>1, SumIsInt, FS_Subset
      <3> QED
        BY <2>2, <3>2, <3>3
    <2> QED
      BY <2>3, <2>4
  <1>2. S \in P
    <2> HIDE DEF P
    <2> QED
      BY <1>1, SubsetInduction
  <1> QED
    BY <1>2

\* A sum of one term.
LEMMA SumOfOne == ASSUME NEW f, NEW x, f[x] \in Int PROVE SumOn(f, {x}) = f[x]
  <1>1. IsFiniteSet({x}) /\ {x} \ {x} = {} /\ \A y \in {x} : f[y] \in Int
    BY FS_Singleton
  <1>2. SumOn(f, {x}) = f[x] + SumOn(f, {})
    BY <1>1, SumWithout
  <1> QED
    BY <1>2, SumOfNone

\* The sum depends on the values over S only.
LEMMA SumSame ==
    ASSUME NEW S, IsFiniteSet(S), NEW f, NEW g, \A x \in S : f[x] = g[x]
    PROVE  SumOn(f, S) = SumOn(g, S)
  <1> DEFINE P == {s \in SUBSET S : SumOn(f, s) = SumOn(g, s)}
  <1>1. ASSUME NEW s \in SUBSET S, \A t \in SUBSET s : t # s => t \in P
        PROVE  s \in P
    <2>1. CASE s = {}
      BY <2>1, SumOfNone
    <2>2. CASE s # {}
      <3>1. IsFiniteSet(s) /\ First(s) \in s
        BY <2>2, FS_Subset DEF First
      <3>2. /\ SumOn(f, s) = f[First(s)] + SumOn(f, s \ {First(s)})
            /\ SumOn(g, s) = g[First(s)] + SumOn(g, s \ {First(s)})
        BY <2>2, <3>1, SumStep
      <3>3. SumOn(f, s \ {First(s)}) = SumOn(g, s \ {First(s)})
        BY <1>1, <3>1
      <3> QED
        BY <3>1, <3>2, <3>3
    <2> QED
      BY <2>1, <2>2
  <1>2. S \in P
    <2> HIDE DEF P
    <2> QED
      BY <1>1, SubsetInduction
  <1> QED
    BY <1>2

\* Zeros add up to zero.
LEMMA SumOfZeros ==
    ASSUME NEW S, IsFiniteSet(S), NEW f, \A x \in S : f[x] = 0
    PROVE  SumOn(f, S) = 0
  <1> DEFINE P == {s \in SUBSET S : SumOn(f, s) = 0}
  <1>1. ASSUME NEW s \in SUBSET S, \A t \in SUBSET s : t # s => t \in P
        PROVE  s \in P
    <2>1. CASE s = {}
      BY <2>1, SumOfNone
    <2>2. CASE s # {}
      <3>1. IsFiniteSet(s) /\ First(s) \in s
        BY <2>2, FS_Subset DEF First
      <3>2. SumOn(f, s) = f[First(s)] + SumOn(f, s \ {First(s)})
        BY <2>2, <3>1, SumStep
      <3>3. SumOn(f, s \ {First(s)}) = 0
        BY <1>1, <3>1
      <3> QED
        BY <3>1, <3>2, <3>3
    <2> QED
      BY <2>1, <2>2
  <1>2. S \in P
    <2> HIDE DEF P
    <2> QED
      BY <1>1, SubsetInduction
  <1> QED
    BY <1>2

\* No term exceeds the sum.
LEMMA SumIsAtLeast ==
    ASSUME NEW S, IsFiniteSet(S), NEW f, \A x \in S : f[x] \in Nat, NEW x \in S
    PROVE  f[x] <= SumOn(f, S)
  <1>1. SumOn(f, S) = f[x] + SumOn(f, S \ {x})
    BY SumWithout
  <1>2. f[x] \in Nat /\ SumOn(f, S \ {x}) \in Nat
    BY SumIsNat, FS_Subset
  <1> QED
    BY <1>1, <1>2

\* One term changed changes the sum by as much.
LEMMA SumChanged ==
    ASSUME NEW S, IsFiniteSet(S), NEW f, NEW g, NEW x \in S,
           \A y \in S : f[y] \in Int /\ g[y] \in Int,
           \A y \in S \ {x} : g[y] = f[y]
    PROVE  SumOn(g, S) = SumOn(f, S) - f[x] + g[x]
  <1>1. SumOn(f, S) = f[x] + SumOn(f, S \ {x}) /\ SumOn(g, S) = g[x] + SumOn(g, S \ {x})
    BY SumWithout
  <1>2. SumOn(g, S \ {x}) = SumOn(f, S \ {x}) /\ SumOn(f, S \ {x}) \in Int
    BY SumSame, SumIsInt, FS_Subset
  <1> QED
    BY <1>1, <1>2

\* Terms that are zero may be left out.
LEMMA SumWhereItIs ==
    ASSUME NEW S, IsFiniteSet(S), NEW f, NEW T \in SUBSET S,
           \A x \in S : f[x] \in Int, \A x \in S \ T : f[x] = 0
    PROVE  SumOn(f, S) = SumOn(f, T)
  <1> DEFINE P == {s \in SUBSET S : SumOn(f, s) = SumOn(f, s \cap T)}
  <1>1. ASSUME NEW s \in SUBSET S, \A t \in SUBSET s : t # s => t \in P
        PROVE  s \in P
    <2>1. CASE s \subseteq T
      BY <2>1
    <2>2. CASE ~(s \subseteq T)
      <3>1. PICK x \in s : x \notin T
        BY <2>2
      <3>2. IsFiniteSet(s) /\ \A y \in s : f[y] \in Int
        BY FS_Subset
      <3>3. SumOn(f, s) = f[x] + SumOn(f, s \ {x})
        BY <3>1, <3>2, SumWithout
      <3>4. f[x] = 0 /\ SumOn(f, s \ {x}) \in Int
        BY <3>1, <3>2, SumIsInt, FS_Subset
      <3>5. SumOn(f, s \ {x}) = SumOn(f, (s \ {x}) \cap T)
        <4>1. s \ {x} \in SUBSET s /\ s \ {x} # s
          BY <3>1
        <4> QED
          BY <1>1, <4>1
      <3>6. (s \ {x}) \cap T = s \cap T
        BY <3>1
      <3>7. SumOn(f, s) = SumOn(f, s \ {x})
        BY <3>3, <3>4
      <3> QED
        BY <3>5, <3>6, <3>7
    <2> QED
      BY <2>1, <2>2
  <1>2. S \in P
    <2> HIDE DEF P
    <2> QED
      BY <1>1, SubsetInduction
  <1>3. S \cap T = T
    OBVIOUS
  <1> QED
    BY <1>2, <1>3

\* Sums are added term by term.
LEMMA SumPlus ==
    ASSUME NEW S, IsFiniteSet(S), NEW f, NEW g, NEW h,
           \A x \in S : f[x] \in Int /\ g[x] \in Int /\ h[x] = f[x] + g[x]
    PROVE  SumOn(h, S) = SumOn(f, S) + SumOn(g, S)
  <1> DEFINE P == {s \in SUBSET S : SumOn(h, s) = SumOn(f, s) + SumOn(g, s)}
  <1>1. ASSUME NEW s \in SUBSET S, \A t \in SUBSET s : t # s => t \in P
        PROVE  s \in P
    <2>1. CASE s = {}
      BY <2>1, SumOfNone
    <2>2. CASE s # {}
      <3> DEFINE x == First(s)
                 r == s \ {x}
      <3>1. IsFiniteSet(s) /\ IsFiniteSet(r) /\ x \in s /\ r # s /\ r \in SUBSET s
        BY <2>2, FS_Subset DEF First
      <3>2. /\ SumOn(f, s) = f[x] + SumOn(f, r)
            /\ SumOn(g, s) = g[x] + SumOn(g, r)
            /\ SumOn(h, s) = h[x] + SumOn(h, r)
        BY <2>2, <3>1, SumStep
      <3>3. SumOn(h, r) = SumOn(f, r) + SumOn(g, r)
        BY <1>1, <3>1
      <3>4. SumOn(f, r) \in Int /\ SumOn(g, r) \in Int
        BY <3>1, SumIsInt
      <3>5. f[x] \in Int /\ g[x] \in Int /\ h[x] = f[x] + g[x]
        BY <3>1
      <3> HIDE DEF x, r
      <3> QED
        BY <3>2, <3>3, <3>4, <3>5
    <2> QED
      BY <2>1, <2>2
  <1>2. S \in P
    <2> HIDE DEF P
    <2> QED
      BY <1>1, SubsetInduction
  <1> QED
    BY <1>2

\* A set may be added up in two parts.
LEMMA SumSplit ==
    ASSUME NEW S, IsFiniteSet(S), NEW T \in SUBSET S, NEW f, \A x \in S : f[x] \in Int
    PROVE  SumOn(f, S) = SumOn(f, T) + SumOn(f, S \ T)
  <1> DEFINE g == [x \in S |-> IF x \in T THEN f[x] ELSE 0]
             h == [x \in S |-> IF x \in T THEN 0 ELSE f[x]]
             U == S \ T
  <1>1. /\ \A x \in S : g[x] \in Int /\ h[x] \in Int /\ f[x] = g[x] + h[x]
        /\ \A x \in S \ T : g[x] = 0
        /\ \A x \in S \ U : h[x] = 0
        /\ \A x \in T : g[x] = f[x]
        /\ \A x \in U : h[x] = f[x]
    OBVIOUS
  <1>2. U \in SUBSET S /\ IsFiniteSet(T) /\ IsFiniteSet(U)
    BY FS_Subset
  <1> HIDE DEF g, h, U
  <1>3. SumOn(f, S) = SumOn(g, S) + SumOn(h, S)
    BY <1>1, SumPlus
  <1>4. SumOn(g, S) = SumOn(g, T) /\ SumOn(h, S) = SumOn(h, U)
    BY <1>1, <1>2, SumWhereItIs
  <1>5. SumOn(g, T) = SumOn(f, T) /\ SumOn(h, U) = SumOn(f, U)
    BY <1>1, <1>2, SumSame
  <1> QED
    BY <1>3, <1>4, <1>5 DEF U

\* What holds of the terms in proportion holds of the sums.
LEMMA SumInProportion ==
    ASSUME NEW S, IsFiniteSet(S), NEW f, NEW g, NEW p \in Int, NEW q \in Int,
           \A x \in S : f[x] \in Int /\ g[x] \in Int /\ f[x] * q <= g[x] * p
    PROVE  SumOn(f, S) * q <= SumOn(g, S) * p
  <1> DEFINE P == {s \in SUBSET S : SumOn(f, s) * q <= SumOn(g, s) * p}
  <1>1. ASSUME NEW s \in SUBSET S, \A t \in SUBSET s : t # s => t \in P
        PROVE  s \in P
    <2>1. CASE s = {}
      BY <2>1, SumOfNone
    <2>2. CASE s # {}
      <3> DEFINE x == First(s)
                 r == s \ {x}
      <3>1. IsFiniteSet(s) /\ IsFiniteSet(r) /\ x \in s /\ r # s /\ r \in SUBSET s
        BY <2>2, FS_Subset DEF First
      <3>2. /\ SumOn(f, s) = f[x] + SumOn(f, r)
            /\ SumOn(g, s) = g[x] + SumOn(g, r)
        BY <2>2, <3>1, SumStep
      <3>3. SumOn(f, r) * q <= SumOn(g, r) * p
        BY <1>1, <3>1
      <3>4. SumOn(f, r) \in Int /\ SumOn(g, r) \in Int
        BY <3>1, SumIsInt
      <3>5. f[x] \in Int /\ g[x] \in Int /\ f[x] * q <= g[x] * p
        BY <3>1
      <3> HIDE DEF x, r
      <3>6. (f[x] + SumOn(f, r)) * q <= (g[x] + SumOn(g, r)) * p
        BY <3>3, <3>4, <3>5
      <3> QED
        BY <3>2, <3>6
    <2> QED
      BY <2>1, <2>2
  <1>2. S \in P
    <2> HIDE DEF P
    <2> QED
      BY <1>1, SubsetInduction
  <1> QED
    BY <1>2

LEMMA SumIsAtMost ==
    ASSUME NEW S, IsFiniteSet(S), NEW f, NEW g,
           \A x \in S : f[x] \in Int /\ g[x] \in Int /\ f[x] <= g[x]
    PROVE  SumOn(f, S) <= SumOn(g, S)
  <1>1. \A x \in S : f[x] * 1 <= g[x] * 1
    OBVIOUS
  <1>2. SumOn(f, S) * 1 <= SumOn(g, S) * 1
    BY <1>1, SumInProportion
  <1>3. SumOn(f, S) \in Int /\ SumOn(g, S) \in Int
    BY SumIsInt
  <1> QED
    BY <1>2, <1>3

\* If some term is smaller and none is larger, the sum is smaller.
LEMMA SumIsLess ==
    ASSUME NEW S, IsFiniteSet(S), NEW f, NEW g, NEW x \in S, f[x] < g[x],
           \A y \in S : f[y] \in Int /\ g[y] \in Int /\ f[y] <= g[y]
    PROVE  SumOn(f, S) < SumOn(g, S)
  <1> DEFINE r == S \ {x}
  <1>1. SumOn(f, S) = f[x] + SumOn(f, r) /\ SumOn(g, S) = g[x] + SumOn(g, r)
    BY SumWithout
  <1>2. IsFiniteSet(r) /\ \A y \in r : f[y] \in Int /\ g[y] \in Int /\ f[y] <= g[y]
    BY FS_Subset
  <1> HIDE DEF r
  <1>3. SumOn(f, r) <= SumOn(g, r) /\ SumOn(f, r) \in Int /\ SumOn(g, r) \in Int
    BY <1>2, SumIsAtMost, SumIsInt
  <1> QED
    BY <1>1, <1>3

\* As many names, as many things named.
LEMMA NamedAsMany ==
    ASSUME NEW T, IsFiniteSet(T), NEW m, \A x, y \in T : m[x] = m[y] => x = y
    PROVE  /\ IsFiniteSet({m[x] : x \in T})
           /\ Cardinality({m[x] : x \in T}) = Cardinality(T)
  <1> DEFINE S == {m[x] : x \in T}
             f == [x \in T |-> m[x]]
  <1>1. f \in Bijection(T, S)
    BY DEF Bijection, Injection, Surjection, IsInjective
  <1>2. ExistsBijection(T, S)
    BY <1>1 DEF ExistsBijection
  <1> HIDE DEF S
  <1>3. IsFiniteSet(S) /\ Cardinality(S) = Cardinality(T)
    BY <1>2, FS_Bijection
  <1> QED
    BY <1>3 DEF S

\* A sum may be taken over other names of the same terms.
LEMMA SumRenamed ==
    ASSUME NEW T, IsFiniteSet(T), NEW m, NEW f,
           \A x, y \in T : m[x] = m[y] => x = y,
           \A x \in T : f[m[x]] \in Int
    PROVE  SumOn(f, {m[x] : x \in T}) = SumOn([x \in T |-> f[m[x]]], T)
  <1> DEFINE g == [x \in T |-> f[m[x]]]
             Named(t) == {m[x] : x \in t}
             P == {t \in SUBSET T : SumOn(f, Named(t)) = SumOn(g, t)}
  <1>1. ASSUME NEW t \in SUBSET T, \A u \in SUBSET t : u # t => u \in P
        PROVE  t \in P
    <2>1. CASE t = {}
      <3>1. Named(t) = {}
        BY <2>1
      <3> QED
        BY <2>1, <3>1, SumOfNone
    <2>2. CASE t # {}
      <3> DEFINE x == First(t)
                 r == t \ {x}
      <3>1. IsFiniteSet(t) /\ x \in t /\ r # t /\ r \in SUBSET t
        BY <2>2, FS_Subset DEF First
      <3>2. SumOn(g, t) = g[x] + SumOn(g, r)
        BY <2>2, <3>1, SumStep
      <3>3. SumOn(f, Named(r)) = SumOn(g, r)
        BY <1>1, <3>1
      <3>4. m[x] \in Named(t) /\ Named(t) \ {m[x]} = Named(r)
        BY <3>1
      <3>5. IsFiniteSet(Named(t))
        BY <3>1, NamedAsMany
      <3>6. \A y \in Named(t) : f[y] \in Int
        OBVIOUS
      <3>7. SumOn(f, Named(t)) = f[m[x]] + SumOn(f, Named(t) \ {m[x]})
        <4> HIDE DEF Named, x
        <4> QED
          BY <3>4, <3>5, <3>6, SumWithout
      <3>8. g[x] = f[m[x]]
        BY <3>1
      <3> QED
        BY <3>2, <3>3, <3>4, <3>7, <3>8
    <2> QED
      BY <2>1, <2>2
  <1>2. T \in P
    <2> HIDE DEF P
    <2> QED
      BY <1>1, SubsetInduction
  <1> QED
    BY <1>2

LEMMA SumNamed ==
    ASSUME NEW T, IsFiniteSet(T), NEW m, NEW f, NEW S, NEW g,
           S = {m[x] : x \in T}, \A x, y \in T : m[x] = m[y] => x = y,
           \A x \in T : f[m[x]] \in Int /\ g[x] = f[m[x]]
    PROVE  SumOn(f, S) = SumOn(g, T)
  <1> DEFINE h == [x \in T |-> f[m[x]]]
  <1>1. SumOn(f, S) = SumOn(h, T)
    BY SumRenamed
  <1>2. \A x \in T : h[x] = g[x]
    OBVIOUS
  <1> HIDE DEF h
  <1>3. SumOn(h, T) = SumOn(g, T)
    BY <1>2, SumSame
  <1> QED
    BY <1>1, <1>3

-----------------------------------------------------------------------------
(* The sums of the model                                                    *)

\* Selection's total of a slicing.
LEMMA TotalIsSum == ASSUME NEW s PROVE Total(s) = SumOn(s, DOMAIN s)
  BY Zenon DEF Total, SumOn

\* What a column of a table of rows adds up to.
LEMMA ColumnSum ==
    ASSUME NEW S, IsFiniteSet(S), NEW rows, NEW k
    PROVE  MapThenSumSet(LAMBDA e : rows[e][k], S) = SumOn([e \in S |-> rows[e][k]], S)
  <1> DEFINE f == [e \in S |-> rows[e][k]]
             Sums(g) == g = [s \in SUBSET S |-> IF s = {} THEN 0
                                ELSE rows[First(s)][k] + g[s \ {First(s)}]]
             h == CHOOSE g : Sums(g)
  <1>1. MapThenSumSet(LAMBDA e : rows[e][k], S) = h[S]
    BY DEF MapThenSumSet, MapThenFoldSet, First
  <1>2. \A g : Sums(g) <=> Adds(f, S, g)
    <2> SUFFICES ASSUME NEW g PROVE Sums(g) <=> Adds(f, S, g)
      OBVIOUS
    <2> DEFINE K(s) == IF s = {} THEN 0 ELSE rows[First(s)][k] + g[s \ {First(s)}]
               L(s) == IF s = {} THEN 0 ELSE f[First(s)] + g[s \ {First(s)}]
    <2>1. \A s \in SUBSET S : K(s) = L(s)
      BY DEF First
    <2>2. Sums(g) <=> g = [s \in SUBSET S |-> K(s)]
      OBVIOUS
    <2>3. Adds(f, S, g) <=> g = [s \in SUBSET S |-> L(s)]
      BY DEF Adds
    <2> HIDE DEF K, L, Sums, f
    <2> QED
      BY <2>1, <2>2, <2>3
  <1>3. \E g : Adds(f, S, g)
    BY AddsExists
  <1> HIDE DEF Sums, f
  <1>4. Adds(f, S, h)
    BY <1>2, <1>3
  <1> HIDE DEF h
  <1>5. SumOn(f, S) = h[S]
    BY <1>4, SumIsAdded
  <1> QED
    BY <1>1, <1>5 DEF f

\* And a row of it.
LEMMA RowSum ==
    ASSUME NEW S, NEW row
    PROVE  MapThenSumSet(LAMBDA k : row[k], S) = SumOn(row, S)
  BY Zenon DEF SumOn

-----------------------------------------------------------------------------
(* Selections                                                               *)

\* Where of two lots one always comes before the other, there is only one way to cover a
\* quantity: two would each take more of some lot than the other does, and of these two
\* lots the one that comes later is touched while the earlier is not exhausted.
LEMMA OneCovering ==
    ASSUME NEW before, NEW left, NEW q \in Nat, IsFiniteSet(DOMAIN left),
           \A l \in DOMAIN left : left[l] \in Nat,
           \A m, l \in DOMAIN left : m # l => <<m, l>> \in before \/ <<l, m>> \in before,
           NEW s \in Coverings(before, left, q), NEW t \in Coverings(before, left, q)
    PROVE  s = t
  <1> DEFINE D == DOMAIN left
  <1>1. /\ s \in [D -> 0..q] /\ t \in [D -> 0..q]
        /\ \A l \in D : s[l] <= left[l] /\ t[l] <= left[l]
        /\ Total(s) = q /\ Total(t) = q
        /\ \A m, l \in D : <<m, l>> \in before =>
              (s[l] > 0 => s[m] = left[m]) /\ (t[l] > 0 => t[m] = left[m])
    BY DEF Coverings
  <1>2. SumOn(s, D) = q /\ SumOn(t, D) = q
    BY <1>1, TotalIsSum
  <1>3. ASSUME NEW u \in [D -> 0..q], NEW v \in [D -> 0..q], u # v,
               SumOn(u, D) = q, SumOn(v, D) = q
        PROVE  \E l \in D : u[l] > v[l]
    <2> SUFFICES ASSUME \A l \in D : u[l] <= v[l] PROVE FALSE
      OBVIOUS
    <2>1. PICK l \in D : u[l] # v[l]
      BY <1>3
    <2>2. u[l] < v[l]
      BY <2>1
    <2>3. SumOn(u, D) < SumOn(v, D)
      BY <2>2, SumIsLess
    <2> QED
      BY <1>3, <2>3
  <1> SUFFICES ASSUME s # t PROVE FALSE
    OBVIOUS
  <1>4. PICK l \in D : s[l] > t[l]
    BY <1>1, <1>2, <1>3
  <1>5. PICK m \in D : t[m] > s[m]
    BY <1>1, <1>2, <1>3
  <1>6. m # l /\ s[l] > 0 /\ t[m] > 0
    BY <1>1, <1>4, <1>5
  <1>7. CASE <<m, l>> \in before
    BY <1>1, <1>5, <1>6, <1>7
  <1>8. CASE <<l, m>> \in before
    BY <1>1, <1>4, <1>6, <1>8
  <1> QED
    BY <1>6, <1>7, <1>8
=============================================================================
