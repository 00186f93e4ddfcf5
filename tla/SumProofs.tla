------------------------------ MODULE SumProofs ------------------------------
(***************************************************************************)
(* What MapThenSumSet computes.  The capital reserved for approved orders, *)
(* the balance of an account and the quantity filled are all such sums, and*)
(* the invariants about them need that a sum does not depend on the order  *)
(* in which the elements are picked, that it grows by what is added, and   *)
(* that it is monotonic.                                                   *)
(*                                                                         *)
(* The sum is given by a function F rather than by an operator, so that    *)
(* the lemmas can be cited.  Induction is by minimal counterexample: among *)
(* the finite sets for which a fact fails there would be a least one.  The *)
(* same for natural numbers.                                               *)
(***************************************************************************)
EXTENDS FiniteSetsExt, FiniteSetTheorems, TLAPS

SumOver(F, S) == MapThenSumSet(LAMBDA x : F[x], S)

\* The element a sum takes out of a set first.
Pick(s) == CHOOSE x \in s : TRUE

\* h is the recursive function behind SumOver(F, S).
IsSum(h, F, S) ==
    h = [s \in SUBSET S |-> IF s = {} THEN 0 ELSE F[Pick(s)] + h[s \ {Pick(s)}]]

-----------------------------------------------------------------------------
(* Induction                                                               *)

\* Among natural numbers there is a least one.
LEMMA LeastNat ==
    ASSUME NEW S \in SUBSET Nat, S # {}
    PROVE  \E m \in S : \A n \in S : m <= n
<1> DEFINE R == OpToRel(<, Nat)
<1>1. \E m \in S : \A n \in S : ~ (<<n, m>> \in R)
  <2>1. IsWellFoundedOn(R, Nat)
    BY NatLessThanWellFounded
  <2> HIDE DEF R
  <2> QED
    BY <2>1, WFMin
<1>2. PICK m \in S : \A n \in S : ~ (<<n, m>> \in R)
  BY <1>1
<1>3. ASSUME NEW n \in S, n < m PROVE FALSE
  <2>1. <<n, m>> \in Nat \X Nat
    OBVIOUS
  <2> QED
    BY <1>2, <1>3, <2>1 DEF OpToRel
<1>4. ASSUME NEW n \in S PROVE m <= n
  <2>1. n \in Nat /\ m \in Nat /\ ~(n < m)
    BY <1>3
  <2> QED
    BY <2>1
<1> QED
  BY <1>4

\* A set that holds a and, with every number before b, the next one holds all from a to b.
LEMMA HoldsUpTo ==
    ASSUME NEW a \in Nat, NEW b \in Nat, NEW S, a \in S,
           \A n \in a .. b - 1 : n \in S => n + 1 \in S
    PROVE  \A n \in a .. b : n \in S
<1> DEFINE Bad == {n \in Nat : n \in a .. b /\ n \notin S}
<1> SUFFICES ASSUME Bad # {} PROVE FALSE
  OBVIOUS
<1>1. PICK m \in Bad : \A n \in Bad : m <= n
  <2>1. Bad \in SUBSET Nat
    OBVIOUS
  <2> HIDE DEF Bad
  <2> QED
    BY <2>1, LeastNat
<1>2. m \in Nat /\ m \in a .. b /\ m \notin S /\ m # a
  OBVIOUS
<1>3. m - 1 \in Nat /\ m - 1 \in a .. b - 1 /\ m - 1 \in a .. b /\ ~(m <= m - 1)
  BY <1>2
<1>4. m - 1 \notin Bad
  BY <1>1, <1>3
<1>5. m - 1 \in S
  BY <1>3, <1>4
<1> HIDE DEF Bad
<1> QED
  BY <1>2, <1>3, <1>5

-----------------------------------------------------------------------------
(* The recursive function is well defined                                  *)

\* A family of subsets of a finite set has a least member.
LEMMA MinimalSet ==
    ASSUME NEW S, IsFiniteSet(S), NEW Bad \in SUBSET SUBSET S, Bad # {}
    PROVE  \E m \in Bad : \A t \in Bad : t \subseteq m => t = m
<1> DEFINE R == StrictSubsetOrdering(S)
<1>1. IsWellFoundedOn(R, SUBSET S)
  BY FS_StrictSubsetOrderingWellFounded, FS_FiniteSubsetsOfFinite
<1>2. \E m \in Bad : \A t \in Bad : ~ (<<t, m>> \in R)
  <2> HIDE DEF R
  <2> QED
    BY <1>1, WFMin
<1> QED
  BY <1>2 DEF StrictSubsetOrdering

\* The library's definition, as the function it is made of.
LEMMA SumUnfolded ==
    ASSUME NEW F, NEW S
    PROVE  SumOver(F, S) = (CHOOSE h : IsSum(h, F, S))[S]
BY DEF SumOver, MapThenSumSet, MapThenFoldSet, IsSum, Pick

\* The picked element is one of the set's.
LEMMA Picked == ASSUME NEW s, s # {} PROVE Pick(s) \in s
BY DEF Pick

\* What the recursive function's values are.
LEMMA IsSumValue ==
    ASSUME NEW F, NEW S, NEW h, IsSum(h, F, S), NEW s \in SUBSET S
    PROVE  /\ s = {} => h[s] = 0
           /\ s # {} => h[s] = F[Pick(s)] + h[s \ {Pick(s)}]
BY DEF IsSum

\* The recursive functions of a set and of a part of it agree on that part.
LEMMA SumUnique ==
    ASSUME NEW F, NEW S, IsFiniteSet(S), NEW T \in SUBSET S, NEW g, NEW h,
           IsSum(g, F, T), IsSum(h, F, S), NEW s \in SUBSET T
    PROVE  g[s] = h[s]
<1> DEFINE Bad == {u \in SUBSET T : g[u] # h[u]}
<1> SUFFICES ASSUME Bad # {} PROVE FALSE
  OBVIOUS
<1>1. IsFiniteSet(T)
  BY FS_Subset
<1>2. PICK m \in Bad : \A t \in Bad : t \subseteq m => t = m
  <2>1. Bad \in SUBSET SUBSET T
    OBVIOUS
  <2> HIDE DEF Bad
  <2> QED
    BY <1>1, <2>1, MinimalSet
<1>3. m \in SUBSET T /\ m \in SUBSET S /\ g[m] # h[m]
  OBVIOUS
<1>4. m # {}
  <2>1. {} \in SUBSET T /\ {} \in SUBSET S
    OBVIOUS
  <2>2. g[{}] = 0 /\ h[{}] = 0
    BY <2>1 DEF IsSum
  <2> QED
    BY <1>3, <2>2
<1>5. Pick(m) \in m
  BY <1>4, Picked
<1>6. m \ {Pick(m)} \in SUBSET T /\ m \ {Pick(m)} \notin Bad
  BY <1>2, <1>3, <1>5
<1>7. g[m \ {Pick(m)}] = h[m \ {Pick(m)}]
  BY <1>6
<1> QED
  BY <1>3, <1>4, <1>7, IsSumValue

\* SumOver satisfies the recursive equation.
LEMMA SumDefined ==
    ASSUME NEW F, NEW S, IsFiniteSet(S)
    PROVE  IsSum([s \in SUBSET S |-> SumOver(F, s)], F, S)
<1> DEFINE G(T) == [s \in SUBSET T |-> SumOver(F, s)]
           Bad == {T \in SUBSET S : ~IsSum(G(T), F, T)}
<1> SUFFICES ASSUME Bad # {} PROVE FALSE
  OBVIOUS
<1>1. PICK T \in Bad : \A t \in Bad : t \subseteq T => t = T
  <2>1. Bad \in SUBSET SUBSET S
    OBVIOUS
  <2> HIDE DEF Bad
  <2> QED
    BY <2>1, MinimalSet
<1>2. T \in SUBSET S /\ ~IsSum(G(T), F, T) /\ IsFiniteSet(T)
  BY FS_Subset
<1>3. ASSUME NEW s \in SUBSET T, s # T
      PROVE  IsSum(G(s), F, s)
  BY <1>1, <1>2, <1>3
<1>4. ASSUME NEW s \in SUBSET T, s # T
      PROVE  SumOver(F, s) = IF s = {} THEN 0 ELSE F[Pick(s)] + SumOver(F, s \ {Pick(s)})
  <2>1. /\ s = {} => G(s)[s] = 0
        /\ s # {} => G(s)[s] = F[Pick(s)] + G(s)[s \ {Pick(s)}]
    <3> HIDE DEF G
    <3> QED
      BY <1>3, <1>4, IsSumValue
  <2> QED
    BY <2>1
<1> DEFINE top == IF T = {} THEN 0 ELSE F[Pick(T)] + SumOver(F, T \ {Pick(T)})
           h0 == [s \in SUBSET T |-> IF s = T THEN top ELSE SumOver(F, s)]
<1>5. IsSum(h0, F, T)
  <2>1. ASSUME NEW s \in SUBSET T
        PROVE  h0[s] = IF s = {} THEN 0 ELSE F[Pick(s)] + h0[s \ {Pick(s)}]
    <3>1. s # {} => /\ s \ {Pick(s)} \in SUBSET T
                    /\ s \ {Pick(s)} # T
                    /\ h0[s \ {Pick(s)}] = SumOver(F, s \ {Pick(s)})
      BY Picked
    <3> QED
      BY <1>4, <3>1
  <2> QED
    BY <2>1, Zenon DEF IsSum
<1> DEFINE h == CHOOSE f : IsSum(f, F, T)
<1>6. IsSum(h, F, T)
  <2> HIDE DEF h0
  <2> QED
    BY <1>5
<1>7. SumOver(F, T) = h[T]
  BY SumUnfolded
<1>8. SumOver(F, T) = top
  <2> HIDE DEF h, G
  <2>1. CASE T = {}
    BY <1>6, <1>7, <2>1, IsSumValue
  <2>2. CASE T # {}
    <3> DEFINE p == T \ {Pick(T)}
    <3>1. p \in SUBSET T /\ p # T
      BY <2>2, Picked
    <3>2. h[T] = F[Pick(T)] + h[p]
      BY <1>6, <2>2, IsSumValue
    <3>3. IsSum(G(p), F, p)
      BY <1>3, <3>1
    <3> HIDE DEF p
    <3>4. G(p)[p] = h[p]
      BY <1>2, <1>6, <3>1, <3>3, SumUnique
    <3>5. G(p)[p] = SumOver(F, p)
      BY DEF G
    <3> QED
      BY <1>7, <2>2, <3>2, <3>4, <3>5 DEF p
  <2> QED
    BY <2>1, <2>2
<1>9. h0 = G(T)
  <2> HIDE DEF top
  <2> QED
    BY <1>8, Zenon
<1> QED
  BY <1>2, <1>5, <1>9

\* A sum over nothing is 0; any other sum takes an element out.
LEMMA SumStep ==
    ASSUME NEW F, NEW S, IsFiniteSet(S)
    PROVE  /\ SumOver(F, {}) = 0
           /\ S # {} => SumOver(F, S) = F[Pick(S)] + SumOver(F, S \ {Pick(S)})
<1> DEFINE G == [s \in SUBSET S |-> SumOver(F, s)]
<1>1. IsSum(G, F, S)
  BY SumDefined
<1>2. G = [s \in SUBSET S |-> IF s = {} THEN 0 ELSE F[Pick(s)] + G[s \ {Pick(s)}]]
  BY <1>1 DEF IsSum
<1>3. {} \in SUBSET S /\ S \in SUBSET S /\ S \ {Pick(S)} \in SUBSET S
  OBVIOUS
<1>4. /\ G[{}] = 0
      /\ S # {} => G[S] = F[Pick(S)] + G[S \ {Pick(S)}]
  <2> HIDE DEF G
  <2> QED
    BY <1>2, <1>3
<1> QED
  BY <1>3, <1>4

-----------------------------------------------------------------------------
(* The algebra of sums                                                     *)

\* A sum of integers is one, and of naturals too.
LEMMA SumType ==
    ASSUME NEW F, NEW S, IsFiniteSet(S), NEW N \in {Nat, Int}, \A x \in S : F[x] \in N
    PROVE  SumOver(F, S) \in N
<1> DEFINE Bad == {T \in SUBSET S : SumOver(F, T) \notin N}
<1> SUFFICES ASSUME Bad # {} PROVE FALSE
  OBVIOUS
<1>1. PICK T \in Bad : \A t \in Bad : t \subseteq T => t = T
  <2>1. Bad \in SUBSET SUBSET S
    OBVIOUS
  <2> HIDE DEF Bad
  <2> QED
    BY <2>1, MinimalSet
<1>2. T \in SUBSET S /\ SumOver(F, T) \notin N /\ IsFiniteSet(T)
  BY FS_Subset
<1>3. T # {}
  <2>1. SumOver(F, {}) = 0
    BY FS_EmptySet, SumStep
  <2> QED
    BY <1>2, <2>1
<1>4. Pick(T) \in T
  BY <1>3, Picked
<1>5. SumOver(F, T \ {Pick(T)}) \in N
  BY <1>1, <1>2, <1>4
<1>6. SumOver(F, T) = F[Pick(T)] + SumOver(F, T \ {Pick(T)})
  BY <1>2, <1>3, SumStep
<1>7. F[Pick(T)] \in N
  BY <1>2, <1>4
<1> QED
  BY <1>2, <1>5, <1>6, <1>7

\* Any element can be taken out first.
LEMMA SumRemove ==
    ASSUME NEW F, NEW S, IsFiniteSet(S), \A x \in S : F[x] \in Int, NEW e \in S
    PROVE  SumOver(F, S) = F[e] + SumOver(F, S \ {e})
<1> DEFINE Fact(T) == \A x \in T : SumOver(F, T) = F[x] + SumOver(F, T \ {x})
           Bad == {T \in SUBSET S : ~Fact(T)}
<1> SUFFICES ASSUME Bad # {} PROVE FALSE
  BY DEF Fact
<1>1. PICK T \in Bad : \A t \in Bad : t \subseteq T => t = T
  <2>1. Bad \in SUBSET SUBSET S
    OBVIOUS
  <2> HIDE DEF Bad
  <2> QED
    BY <2>1, MinimalSet
<1>2. T \in SUBSET S /\ ~Fact(T) /\ IsFiniteSet(T)
  BY FS_Subset
<1>3. \A t \in SUBSET T : t # T => Fact(t)
  BY <1>1, <1>2
<1>4. PICK x \in T : SumOver(F, T) # F[x] + SumOver(F, T \ {x})
  BY <1>2
<1> DEFINE p == Pick(T)
<1>5. p \in T
  BY <1>4, Picked
<1>6. SumOver(F, T) = F[p] + SumOver(F, T \ {p})
  BY <1>2, <1>4, SumStep
<1>7. x # p
  BY <1>4, <1>6
<1> HIDE DEF p
<1>8. SumOver(F, T \ {p}) = F[x] + SumOver(F, (T \ {p}) \ {x})
  BY <1>3, <1>4, <1>5, <1>7
<1>9. SumOver(F, T \ {x}) = F[p] + SumOver(F, (T \ {x}) \ {p})
  BY <1>3, <1>4, <1>5, <1>7
<1>10. (T \ {x}) \ {p} = (T \ {p}) \ {x}
  OBVIOUS
<1>11. SumOver(F, (T \ {p}) \ {x}) \in Int /\ F[x] \in Int /\ F[p] \in Int
  <2>1. IsFiniteSet((T \ {p}) \ {x})
    BY <1>2, FS_Subset
  <2>2. SumOver(F, (T \ {p}) \ {x}) \in Int
    BY <1>2, <2>1, SumType
  <2> QED
    BY <1>2, <1>5, <2>2
<1> DEFINE rest == SumOver(F, (T \ {p}) \ {x})
<1>12. SumOver(F, T \ {x}) = F[p] + rest
  BY <1>9, <1>10
<1>13. SumOver(F, T) = F[p] + (F[x] + rest)
  BY <1>6, <1>8
<1> HIDE DEF rest
<1> QED
  BY <1>4, <1>11, <1>12, <1>13 DEF rest

\* A new element adds its value.
LEMMA SumAdd ==
    ASSUME NEW F, NEW S, IsFiniteSet(S), NEW e, e \notin S, \A x \in S \cup {e} : F[x] \in Int
    PROVE  SumOver(F, S \cup {e}) = F[e] + SumOver(F, S)
<1>1. IsFiniteSet(S \cup {e})
  BY FS_AddElement
<1>2. (S \cup {e}) \ {e} = S
  OBVIOUS
<1>3. SumOver(F, S \cup {e}) = F[e] + SumOver(F, (S \cup {e}) \ {e})
  BY <1>1, SumRemove
<1> QED
  BY <1>2, <1>3

\* A sum depends on the values of its elements only.
LEMMA SumEqual ==
    ASSUME NEW F, NEW G, NEW S, IsFiniteSet(S), \A x \in S : F[x] = G[x]
    PROVE  SumOver(F, S) = SumOver(G, S)
<1> DEFINE Bad == {T \in SUBSET S : SumOver(F, T) # SumOver(G, T)}
<1> SUFFICES ASSUME Bad # {} PROVE FALSE
  OBVIOUS
<1>1. PICK T \in Bad : \A t \in Bad : t \subseteq T => t = T
  <2>1. Bad \in SUBSET SUBSET S
    OBVIOUS
  <2> HIDE DEF Bad
  <2> QED
    BY <2>1, MinimalSet
<1>2. T \in SUBSET S /\ SumOver(F, T) # SumOver(G, T) /\ IsFiniteSet(T)
  BY FS_Subset
<1>3. T # {}
  <2>1. SumOver(F, {}) = 0 /\ SumOver(G, {}) = 0
    BY FS_EmptySet, SumStep
  <2> QED
    BY <1>2, <2>1
<1>4. Pick(T) \in T
  BY <1>3, Picked
<1>5. SumOver(F, T \ {Pick(T)}) = SumOver(G, T \ {Pick(T)})
  BY <1>1, <1>2, <1>4
<1>6. /\ SumOver(F, T) = F[Pick(T)] + SumOver(F, T \ {Pick(T)})
      /\ SumOver(G, T) = G[Pick(T)] + SumOver(G, T \ {Pick(T)})
  BY <1>2, <1>3, SumStep
<1> QED
  BY <1>2, <1>4, <1>5, <1>6

\* A sum of naturals does not grow when elements are taken out.
LEMMA SumMonotonic ==
    ASSUME NEW F, NEW S, IsFiniteSet(S), \A x \in S : F[x] \in Nat, NEW U \in SUBSET S
    PROVE  SumOver(F, U) <= SumOver(F, S)
<1> DEFINE Fact(T) == \A V \in SUBSET T : SumOver(F, V) <= SumOver(F, T)
           Bad == {T \in SUBSET S : ~Fact(T)}
<1> SUFFICES ASSUME Bad # {} PROVE FALSE
  BY DEF Fact
<1>0. \A T \in SUBSET S : SumOver(F, T) \in Nat /\ IsFiniteSet(T)
  <2> TAKE T \in SUBSET S
  <2>1. IsFiniteSet(T)
    BY FS_Subset
  <2> QED
    BY <2>1, SumType
<1>1. PICK T \in Bad : \A t \in Bad : t \subseteq T => t = T
  <2>1. Bad \in SUBSET SUBSET S
    OBVIOUS
  <2> HIDE DEF Bad
  <2> QED
    BY <2>1, MinimalSet
<1>2. T \in SUBSET S /\ ~Fact(T)
  OBVIOUS
<1>3. \A t \in SUBSET T : t # T => Fact(t)
  BY <1>1, <1>2
<1>4. PICK V \in SUBSET T : ~(SumOver(F, V) <= SumOver(F, T))
  BY <1>2
<1>5. V # T
  BY <1>0, <1>2, <1>4
<1>6. PICK x \in T : x \notin V
  BY <1>5
<1>7. SumOver(F, T) = F[x] + SumOver(F, T \ {x})
  <2>1. \A y \in T : F[y] \in Int
    BY <1>2
  <2> QED
    BY <1>0, <1>2, <2>1, SumRemove
<1>8. SumOver(F, V) <= SumOver(F, T \ {x})
  <2>1. T \ {x} \in SUBSET T /\ T \ {x} # T /\ V \in SUBSET (T \ {x})
    BY <1>6
  <2> QED
    BY <1>3, <2>1
<1>9. F[x] \in Nat /\ SumOver(F, T \ {x}) \in Nat /\ SumOver(F, V) \in Nat /\ SumOver(F, T) \in Nat
  BY <1>0, <1>2
<1> QED
  BY <1>4, <1>7, <1>8, <1>9

\* A sum is that of a part and that of the rest.
LEMMA SumSplit ==
    ASSUME NEW F, NEW S, IsFiniteSet(S), \A x \in S : F[x] \in Int, NEW U \in SUBSET S
    PROVE  SumOver(F, S) = SumOver(F, U) + SumOver(F, S \ U)
<1> DEFINE Fact(T) == \A V \in SUBSET T : SumOver(F, T) = SumOver(F, V) + SumOver(F, T \ V)
           Bad == {T \in SUBSET S : ~Fact(T)}
<1> SUFFICES ASSUME Bad # {} PROVE FALSE
  BY DEF Fact
<1>0. \A T \in SUBSET S : SumOver(F, T) \in Int /\ IsFiniteSet(T)
  <2> TAKE T \in SUBSET S
  <2>1. IsFiniteSet(T)
    BY FS_Subset
  <2> QED
    BY <2>1, SumType
<1>1. PICK T \in Bad : \A t \in Bad : t \subseteq T => t = T
  <2>1. Bad \in SUBSET SUBSET S
    OBVIOUS
  <2> HIDE DEF Bad
  <2> QED
    BY <2>1, MinimalSet
<1>2. T \in SUBSET S /\ ~Fact(T)
  OBVIOUS
<1>3. \A t \in SUBSET T : t # T => Fact(t)
  BY <1>1, <1>2
<1>4. PICK V \in SUBSET T : SumOver(F, T) # SumOver(F, V) + SumOver(F, T \ V)
  BY <1>2
<1>5. ASSUME V = {} PROVE FALSE
  <2>1. SumOver(F, V) = 0
    BY <1>5, FS_EmptySet, SumStep
  <2>2. SumOver(F, T) \in Int
    BY <1>0, <1>2
  <2>3. T \ V = T
    BY <1>5
  <2>4. SumOver(F, T \ V) = SumOver(F, T)
    BY <2>3
  <2> QED
    BY <1>4, <2>1, <2>2, <2>4
<1>6. PICK x \in V : TRUE
  BY <1>5
<1>7. /\ SumOver(F, T) = F[x] + SumOver(F, T \ {x})
      /\ SumOver(F, V) = F[x] + SumOver(F, V \ {x})
  <2>1. \A y \in T : F[y] \in Int
    BY <1>2
  <2>2. \A y \in V : F[y] \in Int
    BY <2>1
  <2>3. IsFiniteSet(T) /\ IsFiniteSet(V)
    BY <1>0, <1>2, <1>4
  <2>4. SumOver(F, T) = F[x] + SumOver(F, T \ {x})
    BY <1>6, <2>1, <2>3, SumRemove
  <2>5. SumOver(F, V) = F[x] + SumOver(F, V \ {x})
    BY <1>6, <2>2, <2>3, SumRemove
  <2> QED
    BY <2>4, <2>5
<1>8. SumOver(F, T \ {x}) = SumOver(F, V \ {x}) + SumOver(F, T \ V)
  <2>1. /\ T \ {x} \in SUBSET T /\ T \ {x} # T /\ V \ {x} \in SUBSET (T \ {x})
        /\ (T \ {x}) \ (V \ {x}) = T \ V
    BY <1>6
  <2>2. Fact(T \ {x})
    BY <1>3, <2>1
  <2>3. SumOver(F, T \ {x}) = SumOver(F, V \ {x}) + SumOver(F, (T \ {x}) \ (V \ {x}))
    BY <2>1, <2>2
  <2> QED
    BY <2>1, <2>3
<1>9. F[x] \in Int /\ SumOver(F, V \ {x}) \in Int /\ SumOver(F, T \ V) \in Int
  BY <1>0, <1>2, <1>6
<1> QED
  BY <1>4, <1>7, <1>8, <1>9

\* The value of one element changes.
LEMMA SumMoved ==
    ASSUME NEW F, NEW G, NEW S, IsFiniteSet(S), NEW c \in S, NEW amount \in Int,
           \A x \in S : F[x] \in Int, G[c] = F[c] + amount, \A x \in S \ {c} : G[x] = F[x]
    PROVE  SumOver(G, S) = SumOver(F, S) + amount
<1>1. IsFiniteSet(S \ {c}) /\ \A x \in S : G[x] \in Int
  BY FS_Subset
<1>2. SumOver(F, S) = F[c] + SumOver(F, S \ {c})
  BY SumRemove
<1>3. SumOver(G, S) = G[c] + SumOver(G, S \ {c})
  BY <1>1, SumRemove
<1>4. SumOver(F, S \ {c}) = SumOver(G, S \ {c})
  BY <1>1, SumEqual
<1>5. SumOver(F, S \ {c}) \in Int /\ F[c] \in Int
  BY <1>1, SumType
<1> QED
  BY <1>2, <1>3, <1>4, <1>5
=============================================================================
