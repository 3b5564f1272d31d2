------------------------------ MODULE SetSums -------------------------------
(***************************************************************************)
(* Sums of integers over finite sets.  The library states its induction    *)
(* theorems with an operator parameter; here a set of counterexamples has  *)
(* a smallest member instead, which is a fact about sets.                  *)
(***************************************************************************)
EXTENDS Integers, FiniteSets, Functions, FiniteSetTheorems, WellFoundedInduction, TLAPS

Sum(f, S) == SumFunctionOnSet(f, S)

LEMMA SumOfFunction ==
  ASSUME NEW f
  PROVE  SumFunction(f) = Sum(f, DOMAIN f)
BY DEF SumFunction, Sum

\* Among some subsets of a finite set one has no other of them below it.
LEMMA Smallest ==
  ASSUME NEW S, IsFiniteSet(S), NEW T, T \subseteq SUBSET S, T # {}
  PROVE  \E U \in T : \A V \in T : V \subseteq U => V = U
<1>1. T \subseteq FiniteSubsetsOf(S)
  BY FS_Subset DEF FiniteSubsetsOf
<1>2. PICK U \in T : \A V \in T : ~(<<V, U>> \in StrictSubsetOrdering(S))
  BY <1>1, FS_StrictSubsetOrderingWellFounded, WFMin
<1> QED
  BY <1>1, <1>2 DEF StrictSubsetOrdering, FiniteSubsetsOf

-----------------------------------------------------------------------------
\* The recursive function the library's fold is defined by.
One(s) == CHOOSE x \in s : TRUE
Adding(h, f, S) ==
  h = [s \in SUBSET S |-> IF s = {} THEN 0 ELSE f[One(s)] + h[s \ {One(s)}]]

LEMMA OneOf ==
  ASSUME NEW s, s # {}
  PROVE  One(s) \in s
BY DEF One

LEMMA SumIs ==
  ASSUME NEW f, NEW S
  PROVE  Sum(f, S) = (CHOOSE h : Adding(h, f, S))[S]
BY DEF Sum, SumFunctionOnSet, FoldFunctionOnSet, MapThenFoldSet, Adding, One

\* Two such functions agree where they are both defined.
LEMMA AddingAgree ==
  ASSUME NEW f, NEW S, NEW T, IsFiniteSet(S), NEW g, NEW h, Adding(g, f, S), Adding(h, f, T),
         NEW U, U \subseteq S, U \subseteq T
  PROVE  g[U] = h[U]
<1> SUFFICES ASSUME g[U] # h[U] PROVE FALSE
  OBVIOUS
<1> DEFINE bad == {V \in SUBSET (S \cap T) : g[V] # h[V]}
<1>1. bad \subseteq SUBSET S /\ bad # {}
  OBVIOUS
<1> HIDE DEF bad
<1>2. PICK V \in bad : \A W \in bad : W \subseteq V => W = V
  BY <1>1, Smallest
<1> USE DEF bad
<1>3. /\ g[V] = IF V = {} THEN 0 ELSE f[One(V)] + g[V \ {One(V)}]
      /\ h[V] = IF V = {} THEN 0 ELSE f[One(V)] + h[V \ {One(V)}]
  BY <1>2 DEF Adding
<1>4. V # {}
  BY <1>2, <1>3
<1>5. V \ {One(V)} \notin bad
  BY <1>2, <1>4, OneOf
<1> QED
  BY <1>2, <1>3, <1>4, <1>5

LEMMA AddingExists ==
  ASSUME NEW f, NEW S, IsFiniteSet(S)
  PROVE  \E h : Adding(h, f, S)
<1> SUFFICES ASSUME ~\E h : Adding(h, f, S) PROVE FALSE
  OBVIOUS
<1> DEFINE bad == {V \in SUBSET S : ~\E h : Adding(h, f, V)}
<1>1. bad \subseteq SUBSET S /\ bad # {}
  OBVIOUS
<1> HIDE DEF bad
<1>2. PICK U \in bad : \A V \in bad : V \subseteq U => V = U
  BY <1>1, Smallest
<1> USE DEF bad
<1> DEFINE H(V) == CHOOSE h : Adding(h, f, V)
           h == [s \in SUBSET U |->
                   IF s = {} THEN 0
                   ELSE f[One(s)] + H(s \ {One(s)})[s \ {One(s)}]]
<1>3. ASSUME NEW V \in SUBSET U, V # U
      PROVE  Adding(H(V), f, V) /\ IsFiniteSet(V)
  <2>1. V \notin bad /\ V \in SUBSET S
    BY <1>2, <1>3
  <2> QED
    BY <2>1, FS_Subset
<1> HIDE DEF H
<1>4. ASSUME NEW V \in SUBSET U, V # U
      PROVE  H(V)[V] = h[V]
  <2>1. Adding(H(V), f, V) /\ IsFiniteSet(V)
    BY <1>3, <1>4
  <2>2. H(V)[V] = IF V = {} THEN 0 ELSE f[One(V)] + H(V)[V \ {One(V)}]
    BY <2>1 DEF Adding
  <2>3. CASE V # {}
    <3> DEFINE W == V \ {One(V)}
    <3>1. W \in SUBSET U /\ W # U /\ W \subseteq V
      BY <1>4, <2>3, OneOf
    <3>2. Adding(H(W), f, W)
      BY <1>3, <3>1
    <3>3. H(V)[W] = H(W)[W]
      BY <2>1, <3>1, <3>2, AddingAgree
    <3> QED
      BY <2>2, <2>3, <3>3
  <2> QED
    BY <2>2, <2>3
<1>5. ASSUME NEW s \in SUBSET U, s # {}
      PROVE  h[s] = f[One(s)] + h[s \ {One(s)}]
  <2>1. s \ {One(s)} \in SUBSET U /\ s \ {One(s)} # U
    BY <1>5, OneOf
  <2>2. H(s \ {One(s)})[s \ {One(s)}] = h[s \ {One(s)}]
    BY <1>4, <2>1
  <2> QED
    BY <1>5, <2>2
<1>6. \A s \in SUBSET U : h[s] = IF s = {} THEN 0 ELSE f[One(s)] + h[s \ {One(s)}]
  BY <1>5
<1>7. Adding(h, f, U)
  BY <1>6 DEF Adding
<1> HIDE DEF h
<1> QED
  BY <1>2, <1>7

LEMMA SumAdding ==
  ASSUME NEW f, NEW S, IsFiniteSet(S), NEW T \in SUBSET S, NEW h, Adding(h, f, S)
  PROVE  Sum(f, T) = h[T]
<1>1. IsFiniteSet(T)
  BY FS_Subset
<1> DEFINE g == CHOOSE k : Adding(k, f, T)
<1>2. Adding(g, f, T)
  BY <1>1, AddingExists
<1> HIDE DEF g
<1>3. g[T] = h[T]
  BY <1>1, <1>2, AddingAgree
<1> QED
  BY <1>3, SumIs DEF g

-----------------------------------------------------------------------------
\* The equations of a sum.
LEMMA SumEmpty ==
  ASSUME NEW f
  PROVE  Sum(f, {}) = 0
<1>1. PICK h : Adding(h, f, {})
  BY AddingExists, FS_EmptySet
<1>2. Sum(f, {}) = h[{}]
  BY <1>1, SumAdding, FS_EmptySet
<1>3. h[{}] = 0
  BY <1>1 DEF Adding
<1> QED
  BY <1>2, <1>3

LEMMA SumOne ==
  ASSUME NEW f, NEW S, IsFiniteSet(S), S # {}
  PROVE  One(S) \in S /\ Sum(f, S) = f[One(S)] + Sum(f, S \ {One(S)})
<1>1. PICK h : Adding(h, f, S)
  BY AddingExists
<1>2. h[S] = f[One(S)] + h[S \ {One(S)}]
  BY <1>1 DEF Adding
<1>3. Sum(f, S) = h[S] /\ Sum(f, S \ {One(S)}) = h[S \ {One(S)}]
  BY <1>1, SumAdding
<1> QED
  BY <1>2, <1>3, OneOf

LEMMA SumInt ==
  ASSUME NEW S, IsFiniteSet(S), NEW f, \A x \in S : f[x] \in Int
  PROVE  Sum(f, S) \in Int
<1> SUFFICES ASSUME Sum(f, S) \notin Int PROVE FALSE
  OBVIOUS
<1> DEFINE bad == {U \in SUBSET S : Sum(f, U) \notin Int}
<1>0. bad \subseteq SUBSET S /\ bad # {}
  OBVIOUS
<1> HIDE DEF bad
<1>1. PICK U \in bad : \A V \in bad : V \subseteq U => V = U
  BY <1>0, Smallest
<1> USE DEF bad
<1>2. U \in SUBSET S /\ IsFiniteSet(U)
  BY FS_Subset
<1>3. U # {}
  <2>1. Sum(f, {}) \in Int
    BY SumEmpty
  <2> QED
    BY <1>1, <2>1
<1>4. One(U) \in U /\ Sum(f, U) = f[One(U)] + Sum(f, U \ {One(U)})
  BY <1>2, <1>3, SumOne
<1>5. U \ {One(U)} \notin bad
  BY <1>1, <1>4
<1> QED
  BY <1>1, <1>2, <1>4, <1>5

\* The order of the terms does not matter.
LEMMA SumTake ==
  ASSUME NEW S, IsFiniteSet(S), NEW f, \A z \in S : f[z] \in Int, NEW x \in S
  PROVE  Sum(f, S) = f[x] + Sum(f, S \ {x})
<1> SUFFICES ASSUME Sum(f, S) # f[x] + Sum(f, S \ {x}) PROVE FALSE
  OBVIOUS
<1> DEFINE bad == {U \in SUBSET S : \E z \in U : Sum(f, U) # f[z] + Sum(f, U \ {z})}
<1>0. bad \subseteq SUBSET S /\ bad # {}
  OBVIOUS
<1> HIDE DEF bad
<1>1. PICK U \in bad : \A V \in bad : V \subseteq U => V = U
  BY <1>0, Smallest
<1> USE DEF bad
<1>2. PICK z \in U : Sum(f, U) # f[z] + Sum(f, U \ {z})
  BY <1>1
<1>3. U \in SUBSET S /\ IsFiniteSet(U)
  BY FS_Subset
<1> DEFINE y == One(U)
           V == U \ {y, z}
<1>4. y \in U /\ Sum(f, U) = f[y] + Sum(f, U \ {y})
  BY <1>2, <1>3, SumOne
<1> HIDE DEF y
<1>5. y # z
  BY <1>2, <1>4
<1>6. Sum(f, U \ {y}) = f[z] + Sum(f, V)
  <2>1. U \ {y} \notin bad
    BY <1>1, <1>4
  <2>2. (U \ {y}) \ {z} = V
    OBVIOUS
  <2> QED
    BY <1>2, <1>3, <1>5, <2>1, <2>2
<1>7. Sum(f, U \ {z}) = f[y] + Sum(f, V)
  <2>1. U \ {z} \notin bad
    BY <1>1, <1>2
  <2>2. (U \ {z}) \ {y} = V
    OBVIOUS
  <2> QED
    BY <1>3, <1>4, <1>5, <2>1, <2>2
<1>8. Sum(f, V) \in Int /\ f[z] \in Int /\ f[y] \in Int
  <2>1. V \in SUBSET S /\ IsFiniteSet(V) /\ z \in S /\ y \in S
    BY <1>2, <1>3, <1>4, FS_Subset
  <2> QED
    BY <2>1, SumInt
<1> QED
  BY <1>2, <1>4, <1>6, <1>7, <1>8

\* Sums compare term by term, over a set and a larger one.
LEMMA SumMono ==
  ASSUME NEW S, IsFiniteSet(S), NEW f, NEW g, \A x \in S : f[x] \in Int /\ g[x] \in Int,
         \A x \in S : f[x] <= g[x]
  PROVE  Sum(f, S) <= Sum(g, S)
<1> SUFFICES ASSUME ~(Sum(f, S) <= Sum(g, S)) PROVE FALSE
  OBVIOUS
<1> DEFINE bad == {U \in SUBSET S : ~(Sum(f, U) <= Sum(g, U))}
<1>0. bad \subseteq SUBSET S /\ bad # {}
  OBVIOUS
<1> HIDE DEF bad
<1>1. PICK U \in bad : \A V \in bad : V \subseteq U => V = U
  BY <1>0, Smallest
<1> USE DEF bad
<1>2. U \in SUBSET S /\ IsFiniteSet(U) /\ U # {}
  <2>1. U \in SUBSET S /\ IsFiniteSet(U)
    BY FS_Subset
  <2>2. Sum(f, {}) = 0 /\ Sum(g, {}) = 0
    BY SumEmpty
  <2>3. ASSUME U = {} PROVE FALSE
    BY <1>1, <2>2, <2>3
  <2> QED
    BY <2>1, <2>3
<1>3. PICK x \in U : TRUE
  BY <1>2
<1>4. Sum(f, U) = f[x] + Sum(f, U \ {x}) /\ Sum(g, U) = g[x] + Sum(g, U \ {x})
  BY <1>2, SumTake
<1>5. Sum(f, U \ {x}) <= Sum(g, U \ {x})
  BY <1>1
<1>6. Sum(f, U \ {x}) \in Int /\ Sum(g, U \ {x}) \in Int
  <2>1. IsFiniteSet(U \ {x}) /\ U \ {x} \in SUBSET S
    BY <1>2, FS_Subset
  <2> QED
    BY <2>1, SumInt
<1> QED
  BY <1>1, <1>2, <1>4, <1>5, <1>6

\* The sum of sums.
LEMMA SumPlus ==
  ASSUME NEW S, IsFiniteSet(S), NEW f, NEW g, NEW h,
         \A x \in S : f[x] \in Int /\ g[x] \in Int /\ h[x] = f[x] + g[x]
  PROVE  Sum(h, S) = Sum(f, S) + Sum(g, S)
<1> SUFFICES ASSUME Sum(h, S) # Sum(f, S) + Sum(g, S) PROVE FALSE
  OBVIOUS
<1> DEFINE bad == {U \in SUBSET S : Sum(h, U) # Sum(f, U) + Sum(g, U)}
<1>0. bad \subseteq SUBSET S /\ bad # {}
  OBVIOUS
<1> HIDE DEF bad
<1>1. PICK U \in bad : \A V \in bad : V \subseteq U => V = U
  BY <1>0, Smallest
<1> USE DEF bad
<1>2. U \in SUBSET S /\ IsFiniteSet(U) /\ U # {}
  <2>1. U \in SUBSET S /\ IsFiniteSet(U)
    BY FS_Subset
  <2>2. Sum(f, {}) = 0 /\ Sum(g, {}) = 0 /\ Sum(h, {}) = 0
    BY SumEmpty
  <2>3. ASSUME U = {} PROVE FALSE
    BY <1>1, <2>2, <2>3
  <2> QED
    BY <2>1, <2>3
<1>3. PICK x \in U : TRUE
  BY <1>2
<1>4. /\ Sum(f, U) = f[x] + Sum(f, U \ {x}) /\ Sum(g, U) = g[x] + Sum(g, U \ {x})
      /\ Sum(h, U) = h[x] + Sum(h, U \ {x})
  BY <1>2, SumTake
<1>5. Sum(h, U \ {x}) = Sum(f, U \ {x}) + Sum(g, U \ {x})
  BY <1>1
<1>6. Sum(f, U \ {x}) \in Int /\ Sum(g, U \ {x}) \in Int
  <2>1. IsFiniteSet(U \ {x}) /\ U \ {x} \in SUBSET S
    BY <1>2, FS_Subset
  <2> QED
    BY <2>1, SumInt
<1> QED
  BY <1>1, <1>2, <1>4, <1>5, <1>6

\* A common factor.
LEMMA SumTimes ==
  ASSUME NEW S, IsFiniteSet(S), NEW f, NEW h, NEW c \in Int,
         \A x \in S : f[x] \in Int /\ h[x] = c * f[x]
  PROVE  Sum(h, S) = c * Sum(f, S)
<1> SUFFICES ASSUME Sum(h, S) # c * Sum(f, S) PROVE FALSE
  OBVIOUS
<1> DEFINE bad == {U \in SUBSET S : Sum(h, U) # c * Sum(f, U)}
<1>0. bad \subseteq SUBSET S /\ bad # {}
  OBVIOUS
<1> HIDE DEF bad
<1>1. PICK U \in bad : \A V \in bad : V \subseteq U => V = U
  BY <1>0, Smallest
<1> USE DEF bad
<1>2. U \in SUBSET S /\ IsFiniteSet(U) /\ U # {}
  <2>1. U \in SUBSET S /\ IsFiniteSet(U)
    BY FS_Subset
  <2>2. Sum(f, {}) = 0 /\ Sum(h, {}) = 0
    BY SumEmpty
  <2>3. ASSUME U = {} PROVE FALSE
    BY <1>1, <2>2, <2>3
  <2> QED
    BY <2>1, <2>3
<1>3. PICK x \in U : TRUE
  BY <1>2
<1>4. /\ Sum(f, U) = f[x] + Sum(f, U \ {x})
      /\ Sum(h, U) = h[x] + Sum(h, U \ {x})
  BY <1>2, SumTake
<1>5. Sum(h, U \ {x}) = c * Sum(f, U \ {x})
  BY <1>1
<1>6. Sum(f, U \ {x}) \in Int /\ f[x] \in Int /\ h[x] = c * f[x]
  <2>1. IsFiniteSet(U \ {x}) /\ U \ {x} \in SUBSET S
    BY <1>2, FS_Subset
  <2> QED
    BY <1>2, <2>1, SumInt
<1>7. c * (f[x] + Sum(f, U \ {x})) = c * f[x] + c * Sum(f, U \ {x})
  BY <1>6
<1> QED
  BY <1>1, <1>4, <1>5, <1>6, <1>7

\* Two sets without a common member.
LEMMA SumUnion ==
  ASSUME NEW S, IsFiniteSet(S), NEW T, IsFiniteSet(T), S \cap T = {}, NEW f,
         \A x \in S \cup T : f[x] \in Int
  PROVE  Sum(f, S \cup T) = Sum(f, S) + Sum(f, T)
<1> SUFFICES ASSUME Sum(f, S \cup T) # Sum(f, S) + Sum(f, T) PROVE FALSE
  OBVIOUS
<1> DEFINE bad == {U \in SUBSET S : Sum(f, U \cup T) # Sum(f, U) + Sum(f, T)}
<1>0. bad \subseteq SUBSET S /\ bad # {}
  OBVIOUS
<1> HIDE DEF bad
<1>1. PICK U \in bad : \A V \in bad : V \subseteq U => V = U
  BY <1>0, Smallest
<1> USE DEF bad
<1>2. Sum(f, T) \in Int
  BY SumInt
<1>3. U \in SUBSET S /\ IsFiniteSet(U) /\ U # {}
  <2>1. U \in SUBSET S /\ IsFiniteSet(U)
    BY FS_Subset
  <2>2. {} \cup T = T /\ Sum(f, {}) = 0
    BY SumEmpty
  <2>3. ASSUME U = {} PROVE FALSE
    BY <1>1, <2>2, <2>3, <1>2
  <2> QED
    BY <2>1, <2>3
<1>4. PICK x \in U : TRUE
  BY <1>3
<1>5. IsFiniteSet(U \cup T) /\ x \in U \cup T /\ (U \cup T) \ {x} = (U \ {x}) \cup T
  BY <1>3, FS_Union
<1>6. Sum(f, U) = f[x] + Sum(f, U \ {x})
  BY <1>3, SumTake
<1>7. Sum(f, U \cup T) = f[x] + Sum(f, (U \ {x}) \cup T)
  <2>1. \A z \in U \cup T : f[z] \in Int
    BY <1>3
  <2> QED
    BY <1>5, <2>1, SumTake
<1>8. Sum(f, (U \ {x}) \cup T) = Sum(f, U \ {x}) + Sum(f, T)
  BY <1>1
<1>9. Sum(f, U \ {x}) \in Int /\ f[x] \in Int
  <2>1. IsFiniteSet(U \ {x}) /\ U \ {x} \in SUBSET S
    BY <1>3, FS_Subset
  <2> QED
    BY <1>3, <2>1, SumInt
<1> QED
  BY <1>1, <1>2, <1>6, <1>7, <1>8, <1>9

\* Terms that are zero do not count.
LEMMA SumZero ==
  ASSUME NEW S, IsFiniteSet(S), NEW f, \A x \in S : f[x] = 0
  PROVE  Sum(f, S) = 0
<1> DEFINE g == [x \in S |-> 0]
<1>1. Sum(f, S) <= Sum(g, S) /\ Sum(g, S) <= Sum(f, S)
  BY SumMono
<1>2. Sum(g, S) = 0 * Sum(g, S)
  BY SumTimes
<1>3. Sum(f, S) \in Int /\ Sum(g, S) \in Int
  BY SumInt
<1> HIDE DEF g
<1> QED
  BY <1>1, <1>2, <1>3

LEMMA SumSupport ==
  ASSUME NEW S, IsFiniteSet(S), NEW T \in SUBSET S, NEW f, \A x \in S : f[x] \in Int,
         \A x \in S \ T : f[x] = 0
  PROVE  Sum(f, S) = Sum(f, T)
<1>1. IsFiniteSet(T) /\ IsFiniteSet(S \ T) /\ T \cup (S \ T) = S /\ T \cap (S \ T) = {}
  BY FS_Subset
<1>2. Sum(f, S) = Sum(f, T) + Sum(f, S \ T)
  BY <1>1, SumUnion
<1>3. Sum(f, S \ T) = 0 /\ Sum(f, T) \in Int
  BY <1>1, SumZero, SumInt
<1> QED
  BY <1>2, <1>3

LEMMA SumSame ==
  ASSUME NEW S, IsFiniteSet(S), NEW f, NEW g, \A x \in S : f[x] \in Int /\ f[x] = g[x]
  PROVE  Sum(f, S) = Sum(g, S)
<1>1. Sum(f, S) <= Sum(g, S) /\ Sum(g, S) <= Sum(f, S)
  BY SumMono
<1>2. Sum(f, S) \in Int /\ Sum(g, S) \in Int
  BY SumInt
<1> QED
  BY <1>1, <1>2

LEMMA SumNat ==
  ASSUME NEW S, IsFiniteSet(S), NEW f, \A x \in S : f[x] \in Nat
  PROVE  Sum(f, S) \in Nat
<1> DEFINE g == [x \in S |-> 0]
<1>1. Sum(g, S) <= Sum(f, S)
  BY SumMono
<1>2. Sum(g, S) = 0 /\ Sum(f, S) \in Int
  BY SumZero, SumInt
<1> HIDE DEF g
<1> QED
  BY <1>1, <1>2

\* A term that grows.
LEMMA SumAt ==
  ASSUME NEW S, IsFiniteSet(S), NEW f, NEW g, NEW x \in S, NEW n \in Int,
         \A y \in S : f[y] \in Int /\ g[y] = f[y] + IF y = x THEN n ELSE 0
  PROVE  Sum(g, S) = Sum(f, S) + n
<1>1. IsFiniteSet(S \ {x})
  BY FS_Subset
<1>2. Sum(f, S) = f[x] + Sum(f, S \ {x})
  BY SumTake
<1>3. \A y \in S : g[y] \in Int
  OBVIOUS
<1>4. Sum(g, S) = g[x] + Sum(g, S \ {x})
  BY <1>3, SumTake
<1>5. Sum(f, S \ {x}) = Sum(g, S \ {x})
  BY <1>1, SumSame
<1>6. Sum(f, S \ {x}) \in Int /\ f[x] \in Int /\ g[x] = f[x] + n
  BY <1>1, SumInt
<1> QED
  BY <1>2, <1>4, <1>5, <1>6

-----------------------------------------------------------------------------
\* A set of natural numbers has a least member.
LEMMA LeastOf ==
  ASSUME NEW S, S \subseteq Nat, S # {}
  PROVE  \E m \in S : \A n \in S : m <= n
<1> DEFINE less == OpToRel(<, Nat)
<1>1. IsWellFoundedOn(less, Nat)
  BY NatLessThanWellFounded
<1>2. \A m \in Nat, n \in Nat : n < m => <<n, m>> \in less
  BY DEF OpToRel
<1> HIDE DEF less
<1>3. PICK m \in S : \A n \in S : ~(<<n, m>> \in less)
  BY <1>1, WFMin
<1>4. ASSUME NEW n \in S
      PROVE  m <= n
  <2>1. m \in Nat /\ n \in Nat
    OBVIOUS
  <2>2. ~(n < m)
    BY <1>2, <1>3, <2>1
  <2> QED
    BY <2>1, <2>2
<1> QED
  BY <1>4

\* Elements of a sum of naturals are no more than all of it.
LEMMA SumOver ==
  ASSUME NEW S, IsFiniteSet(S), NEW f, \A z \in S : f[z] \in Nat, NEW x \in S
  PROVE  /\ f[x] <= Sum(f, S)
         /\ \A y \in S : y # x => f[x] + f[y] <= Sum(f, S)
<1>1. IsFiniteSet(S \ {x}) /\ \A z \in S \ {x} : f[z] \in Nat
  BY FS_Subset
<1>2. Sum(f, S) = f[x] + Sum(f, S \ {x})
  BY SumTake
<1>3. Sum(f, S \ {x}) \in Nat
  BY <1>1, SumNat
<1>4. f[x] <= Sum(f, S)
  BY <1>2, <1>3
<1>5. ASSUME NEW y \in S, y # x
      PROVE  f[x] + f[y] <= Sum(f, S)
  <2>1. y \in S \ {x} /\ IsFiniteSet((S \ {x}) \ {y})
    BY <1>1, <1>5, FS_Subset
  <2>2. Sum(f, S \ {x}) = f[y] + Sum(f, (S \ {x}) \ {y})
    BY <1>1, <2>1, SumTake
  <2>3. Sum(f, (S \ {x}) \ {y}) \in Nat
    BY <2>1, SumNat
  <2> QED
    BY <1>2, <2>2, <2>3
<1> QED
  BY <1>4, <1>5

\* The same number for everyone.
LEMMA SumConstant ==
  ASSUME NEW S, IsFiniteSet(S), NEW c \in Int, NEW f, \A x \in S : f[x] = c
  PROVE  Sum(f, S) = c * Cardinality(S)
<1> SUFFICES ASSUME Sum(f, S) # c * Cardinality(S) PROVE FALSE
  OBVIOUS
<1> DEFINE bad == {U \in SUBSET S : Sum(f, U) # c * Cardinality(U)}
<1>0. bad \subseteq SUBSET S /\ bad # {}
  OBVIOUS
<1> HIDE DEF bad
<1>1. PICK U \in bad : \A V \in bad : V \subseteq U => V = U
  BY <1>0, Smallest
<1> USE DEF bad
<1>2. U \in SUBSET S /\ IsFiniteSet(U) /\ U # {}
  <2>1. U \in SUBSET S /\ IsFiniteSet(U)
    BY FS_Subset
  <2>2. Sum(f, {}) = 0 /\ Cardinality({}) = 0
    BY SumEmpty, FS_EmptySet
  <2>3. ASSUME U = {} PROVE FALSE
    BY <1>1, <2>2, <2>3
  <2> QED
    BY <2>1, <2>3
<1>3. PICK x \in U : TRUE
  BY <1>2
<1>4. Sum(f, U) = c + Sum(f, U \ {x})
  BY <1>2, SumTake
<1>5. Sum(f, U \ {x}) = c * Cardinality(U \ {x})
  BY <1>1
<1>6. Cardinality(U) \in Nat /\ Cardinality(U \ {x}) = Cardinality(U) - 1
  BY <1>2, FS_RemoveElement, FS_CardinalityType
<1> QED
  BY <1>1, <1>4, <1>5, <1>6

\* A sum is taken group by group.
Group(S, k, t) == {x \in S : k[x] = t}
Grouped(S, k, T) == {x \in S : k[x] \in T}

LEMMA SumGroups ==
  ASSUME NEW S, IsFiniteSet(S), NEW f, \A x \in S : f[x] \in Int,
         NEW T, IsFiniteSet(T), NEW k,
         NEW g, \A t \in T : g[t] = Sum(f, Group(S, k, t))
  PROVE  Sum(g, T) = Sum(f, Grouped(S, k, T))
<1> USE DEF Group, Grouped
<1> DEFINE group(U) == {x \in S : k[x] \in U}
<1> SUFFICES ASSUME Sum(g, T) # Sum(f, group(T)) PROVE FALSE
  OBVIOUS
<1> DEFINE bad == {U \in SUBSET T : Sum(g, U) # Sum(f, group(U))}
<1>0. bad \subseteq SUBSET T /\ bad # {}
  OBVIOUS
<1> HIDE DEF bad
<1>1. PICK U \in bad : \A V \in bad : V \subseteq U => V = U
  BY <1>0, Smallest
<1>2. U \in SUBSET T /\ IsFiniteSet(U) /\ Sum(g, U) # Sum(f, group(U))
  BY <1>1, FS_Subset DEF bad
<1>3. U # {}
  <2>1. group({}) = {}
    OBVIOUS
  <2> QED
    BY <1>2, <2>1, SumEmpty
<1>4. PICK t \in U : TRUE
  BY <1>3
<1> DEFINE V == U \ {t}
           one == {x \in S : k[x] = t}
<1>5. Sum(g, V) = Sum(f, group(V))
  BY <1>1, <1>2 DEF bad
<1>6. /\ group(U) = one \cup group(V) /\ one \cap group(V) = {}
      /\ one \subseteq S /\ group(V) \subseteq S
  BY <1>4
<1>7. g[t] = Sum(f, one) /\ \A u \in U : g[u] \in Int
  <2>1. ASSUME NEW u \in U
        PROVE  g[u] = Sum(f, {x \in S : k[x] = u}) /\ g[u] \in Int
    <3>1. IsFiniteSet({x \in S : k[x] = u})
      BY FS_Subset
    <3>2. g[u] = Sum(f, {x \in S : k[x] = u})
      BY <1>2
    <3> QED
      BY <3>1, <3>2, SumInt
  <2> QED
    BY <2>1, <1>4
<1>8. Sum(g, U) = g[t] + Sum(g, V)
  BY <1>2, <1>4, <1>7, SumTake
<1> HIDE DEF group, V, one
<1>9. IsFiniteSet(one) /\ IsFiniteSet(group(V))
  BY <1>6, FS_Subset
<1>10. \A x \in one \cup group(V) : f[x] \in Int
  BY <1>6
<1>11. Sum(f, one \cup group(V)) = Sum(f, one) + Sum(f, group(V))
  BY <1>6, <1>9, <1>10, SumUnion
<1> QED
  BY <1>2, <1>5, <1>6, <1>7, <1>8, <1>11

\* Part of a sum of naturals is no more than all of it.
LEMMA SumPart ==
  ASSUME NEW S, IsFiniteSet(S), NEW f, \A z \in S : f[z] \in Nat, NEW T \in SUBSET S
  PROVE  Sum(f, T) <= Sum(f, S)
<1>1. IsFiniteSet(T) /\ IsFiniteSet(S \ T) /\ T \cup (S \ T) = S /\ T \cap (S \ T) = {}
  BY FS_Subset
<1>2. Sum(f, S) = Sum(f, T) + Sum(f, S \ T)
  BY <1>1, SumUnion
<1>3. Sum(f, S \ T) \in Nat /\ Sum(f, T) \in Nat
  BY <1>1, SumNat
<1> QED
  BY <1>2, <1>3

=============================================================================
