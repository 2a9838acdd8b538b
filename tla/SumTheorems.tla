---------------------------- MODULE SumTheorems ----------------------------
(***************************************************************************)
(* What SumFunctionOnSet(f, S), the sum of f[x] over a finite set S, is:   *)
(* the facts about sums of money that the proofs of the services cite.     *)
(*                                                                         *)
(* The sum is defined by recursion over the subsets of S.  Instead of an   *)
(* induction over finite sets each proof takes a smallest subset for which *)
(* the claim fails (SmallestFailure) and finds a smaller one.              *)
(***************************************************************************)
EXTENDS Functions, FiniteSetTheorems, TLAPS

(* The element the definition takes out of a set first. *)
Taken(s) == CHOOSE x \in s : TRUE

(* g adds up f over every subset of S, as the definition does. *)
Adds(g, f, S) ==
  g = [s \in SUBSET S |-> IF s = {} THEN 0 ELSE f[Taken(s)] + g[s \ {Taken(s)}]]

(* The sum is the value at S of such a function. *)
LEMMA SumAsChoice ==
  ASSUME NEW f, NEW S
  PROVE  SumFunctionOnSet(f, S) = (CHOOSE g : Adds(g, f, S))[S]
BY DEF SumFunctionOnSet, FoldFunctionOnSet, MapThenFoldSet, Adds, Taken

(* What a function that adds up says of one set. *)
LEMMA AddsAt ==
  ASSUME NEW g, NEW f, NEW S, Adds(g, f, S), NEW T \in SUBSET S
  PROVE  /\ T = {} => g[T] = 0
         /\ T # {} => g[T] = f[Taken(T)] + g[T \ {Taken(T)}]
<1> DEFINE body(s) == IF s = {} THEN 0 ELSE f[Taken(s)] + g[s \ {Taken(s)}]
<1>1. g = [s \in SUBSET S |-> body(s)]
  BY DEF Adds
<1> HIDE DEF body
<1>2. g[T] = body(T)
  BY <1>1
<1> QED BY <1>2 DEF body

LEMMA TakenIn == ASSUME NEW s, s # {} PROVE Taken(s) \in s
BY DEF Taken

(* Of the subsets of a finite set for which something fails, one has no other
   inside it. *)
LEMMA SmallestFailure ==
  ASSUME NEW S, IsFiniteSet(S), NEW B, B \subseteq SUBSET S, B # {}
  PROVE  \E T \in B : \A U \in SUBSET T : U # T => U \notin B
<1>1. IsWellFoundedOn(StrictSubsetOrdering(S), SUBSET S)
  BY FS_StrictSubsetOrderingWellFounded, FS_FiniteSubsetsOfFinite
<1>2. PICK T \in B : \A U \in B : <<U, T>> \notin StrictSubsetOrdering(S)
  BY <1>1, WFMin
<1>3. ASSUME NEW U \in SUBSET T, U # T, U \in B PROVE FALSE
  <2>1. <<U, T>> \in (SUBSET S) \X (SUBSET S) /\ U \subseteq T
    BY <1>3
  <2>2. <<U, T>> \in StrictSubsetOrdering(S)
    BY <1>3, <2>1 DEF StrictSubsetOrdering
  <2> QED BY <1>2, <1>3, <2>2
<1> QED BY <1>2, <1>3

(* Two functions that add up equal amounts agree. *)
LEMMA AddsAgree ==
  ASSUME NEW g, NEW h, NEW f, NEW e, NEW S, NEW R, Adds(g, f, S), Adds(h, e, R),
         NEW U, IsFiniteSet(U), U \subseteq S, U \subseteq R, \A x \in U : f[x] = e[x]
  PROVE  g[U] = h[U]
<1> DEFINE B == {T \in SUBSET U : g[T] # h[T]}
<1> SUFFICES ASSUME B # {} PROVE FALSE
  OBVIOUS
<1>1. PICK T \in B : \A V \in SUBSET T : V # T => V \notin B
  <2> B \subseteq SUBSET U
    OBVIOUS
  <2> HIDE DEF B
  <2> QED BY SmallestFailure
<1>2. T \in SUBSET U /\ T \in SUBSET S /\ T \in SUBSET R /\ g[T] # h[T]
  BY <1>1
<1>3. T # {}
  BY <1>2, AddsAt
<1>4. Taken(T) \in T
  BY <1>3, TakenIn
<1>5. g[T \ {Taken(T)}] = h[T \ {Taken(T)}]
  BY <1>1, <1>2, <1>4
<1>6. g[T] = f[Taken(T)] + g[T \ {Taken(T)}] /\ h[T] = e[Taken(T)] + h[T \ {Taken(T)}]
  BY <1>2, <1>3, AddsAt
<1> QED BY <1>2, <1>4, <1>5, <1>6

(* Every finite set has such a function. *)
LEMMA AddsExists ==
  ASSUME NEW f, NEW S, IsFiniteSet(S) PROVE \E g : Adds(g, f, S)
<1> DEFINE B == {T \in SUBSET S : ~ \E g : Adds(g, f, T)}
<1> SUFFICES ASSUME B # {} PROVE FALSE
  OBVIOUS
<1>1. PICK T \in B : \A U \in SUBSET T : U # T => U \notin B
  <2> B \subseteq SUBSET S
    OBVIOUS
  <2> HIDE DEF B
  <2> QED BY SmallestFailure
<1> DEFINE sum(U) == SumFunctionOnSet(f, U)
           h == [s \in SUBSET T |-> IF s = {} THEN 0 ELSE f[Taken(s)] + sum(s \ {Taken(s)})]
<1>2. ASSUME NEW U \in SUBSET T, U # T
      PROVE  IsFiniteSet(U) /\ \E g : Adds(g, f, U) /\ sum(U) = g[U]
  <2>1. \E g : Adds(g, f, U)
    BY <1>1, <1>2
  <2>2. Adds(CHOOSE g : Adds(g, f, U), f, U)
    BY <2>1
  <2> QED BY <1>1, <2>2, SumAsChoice, FS_Subset
<1>3. ASSUME NEW U \in SUBSET T, U # T PROVE h[U] = sum(U)
  <2>1. PICK g : Adds(g, f, U) /\ sum(U) = g[U]
    BY <1>2, <1>3
  <2>2. CASE U = {}
    BY <2>1, <2>2, AddsAt
  <2>3. CASE U # {}
    <3> DEFINE V == U \ {Taken(U)}
    <3>1. Taken(U) \in U
      BY <2>3, TakenIn
    <3>2. V \in SUBSET T /\ V # T /\ V \subseteq U
      BY <1>3, <3>1
    <3>3. PICK k : Adds(k, f, V) /\ sum(V) = k[V]
      BY <1>2, <3>2
    <3>4. g[V] = k[V]
      <4>1. IsFiniteSet(V)
        BY <1>2, <3>2
      <4> HIDE DEF V
      <4> QED BY <2>1, <3>2, <3>3, <4>1, AddsAgree
    <3>5. g[U] = f[Taken(U)] + g[V]
      BY <2>1, <2>3, AddsAt
    <3>6. h[U] = f[Taken(U)] + sum(V)
      BY <2>3
    <3> QED BY <2>1, <3>3, <3>4, <3>5, <3>6
  <2> QED BY <2>2, <2>3
<1>4. \A s \in SUBSET T : s # {} => s \ {Taken(s)} \in SUBSET T /\ s \ {Taken(s)} # T
  BY TakenIn
<1>5. \A s \in SUBSET T : s # {} => h[s \ {Taken(s)}] = sum(s \ {Taken(s)})
  BY <1>3, <1>4
<1>6. Adds(h, f, T)
  <2> SUFFICES h = [s \in SUBSET T |-> IF s = {} THEN 0 ELSE f[Taken(s)] + h[s \ {Taken(s)}]]
    BY DEF Adds
  <2> QED BY <1>5
<1> QED BY <1>1, <1>6

----------------------------------------------------------------------------
(* The facts to cite. *)

(* An empty sum is nothing. *)
THEOREM SumEmpty == \A f : SumFunctionOnSet(f, {}) = 0
<1> SUFFICES ASSUME NEW f PROVE SumFunctionOnSet(f, {}) = 0
  OBVIOUS
<1>1. Adds(CHOOSE g : Adds(g, f, {}), f, {})
  BY AddsExists, FS_EmptySet
<1> QED BY <1>1, AddsAt, SumAsChoice

(* A sum depends only on the amounts of its own set. *)
THEOREM SumSame ==
  ASSUME NEW f, NEW e, NEW S, IsFiniteSet(S), \A x \in S : f[x] = e[x]
  PROVE  SumFunctionOnSet(f, S) = SumFunctionOnSet(e, S)
<1>1. Adds(CHOOSE g : Adds(g, f, S), f, S) /\ Adds(CHOOSE g : Adds(g, e, S), e, S)
  BY AddsExists
<1> QED BY <1>1, AddsAgree, SumAsChoice

(* The step of the recursion. *)
LEMMA SumTaken ==
  ASSUME NEW f, NEW S, IsFiniteSet(S), S # {}
  PROVE  SumFunctionOnSet(f, S) = f[Taken(S)] + SumFunctionOnSet(f, S \ {Taken(S)})
<1> DEFINE R == S \ {Taken(S)}
<1>1. IsFiniteSet(R) /\ R \subseteq S
  BY FS_Subset
<1>2. PICK g : Adds(g, f, S) /\ SumFunctionOnSet(f, S) = g[S]
  <2>1. Adds(CHOOSE g : Adds(g, f, S), f, S)
    BY AddsExists
  <2> QED BY <2>1, SumAsChoice
<1>3. PICK h : Adds(h, f, R) /\ SumFunctionOnSet(f, R) = h[R]
  <2>1. Adds(CHOOSE h : Adds(h, f, R), f, R)
    BY <1>1, AddsExists
  <2> QED BY <2>1, SumAsChoice
<1>4. g[S] = f[Taken(S)] + g[R]
  BY <1>2, AddsAt
<1> HIDE DEF R
<1>5. g[R] = h[R]
  BY <1>1, <1>2, <1>3, AddsAgree
<1> QED BY <1>2, <1>3, <1>4, <1>5 DEF R

(* A sum of integers is an integer. *)
THEOREM SumInt ==
  ASSUME NEW f, NEW S, IsFiniteSet(S), \A x \in S : f[x] \in Int
  PROVE  SumFunctionOnSet(f, S) \in Int
<1> DEFINE B == {T \in SUBSET S : SumFunctionOnSet(f, T) \notin Int}
<1> SUFFICES ASSUME B # {} PROVE FALSE
  OBVIOUS
<1>1. PICK T \in B : \A U \in SUBSET T : U # T => U \notin B
  <2> B \subseteq SUBSET S
    OBVIOUS
  <2> HIDE DEF B
  <2> QED BY SmallestFailure
<1>2. T \in SUBSET S /\ IsFiniteSet(T) /\ T # {}
  <2>1. T \in SUBSET S /\ SumFunctionOnSet(f, T) \notin Int
    BY <1>1
  <2>2. SumFunctionOnSet(f, {}) = 0
    BY SumEmpty
  <2>3. T # {}
    BY <2>1, <2>2
  <2> QED BY <2>1, <2>3, FS_Subset
<1>3. Taken(T) \in T
  BY <1>2, TakenIn
<1>4. SumFunctionOnSet(f, T \ {Taken(T)}) \in Int /\ f[Taken(T)] \in Int
  BY <1>1, <1>2, <1>3
<1>5. SumFunctionOnSet(f, T) \in Int
  BY <1>2, <1>4, SumTaken
<1> QED BY <1>1, <1>5

(* Any element can be taken out of a sum, not only the first. *)
THEOREM SumRemove ==
  ASSUME NEW f, NEW S, IsFiniteSet(S), \A x \in S : f[x] \in Int, NEW y \in S
  PROVE  SumFunctionOnSet(f, S) = f[y] + SumFunctionOnSet(f, S \ {y})
<1> DEFINE sum(U) == SumFunctionOnSet(f, U)
           B == {T \in SUBSET S : ~ \A z \in T : sum(T) = f[z] + sum(T \ {z})}
<1> SUFFICES ASSUME B # {} PROVE FALSE
  <2> B = {} => sum(S) = f[y] + sum(S \ {y})
    OBVIOUS
  <2> QED OBVIOUS
<1>1. PICK T \in B : \A U \in SUBSET T : U # T => U \notin B
  <2> B \subseteq SUBSET S
    OBVIOUS
  <2> HIDE DEF B
  <2> QED BY SmallestFailure
<1>2. T \in SUBSET S /\ IsFiniteSet(T)
  BY <1>1, FS_Subset
<1>3. PICK z \in T : sum(T) # f[z] + sum(T \ {z})
  BY <1>1
<1> DEFINE t == Taken(T)
           TZ == T \ {z}
           TT == T \ {t}
           TB == T \ {t, z}
<1>4. t \in T
  BY <1>3, TakenIn
<1>5. sum(T) = f[t] + sum(TT)
  BY <1>2, <1>3, SumTaken
<1>6. z # t
  BY <1>3, <1>5
<1>7. sum(TT) = f[z] + sum(TB)
  <2>1. TT \in SUBSET T /\ TT # T /\ z \in TT /\ TT \ {z} = TB
    BY <1>3, <1>4, <1>6
  <2>2. \A x \in TT : sum(TT) = f[x] + sum(TT \ {x})
    BY <1>1, <1>2, <2>1
  <2> QED BY <2>1, <2>2
<1>8. sum(TZ) = f[t] + sum(TB)
  <2>1. TZ \in SUBSET T /\ TZ # T /\ t \in TZ /\ TZ \ {t} = TB
    BY <1>3, <1>4, <1>6
  <2>2. \A x \in TZ : sum(TZ) = f[x] + sum(TZ \ {x})
    BY <1>1, <1>2, <2>1
  <2> QED BY <2>1, <2>2
<1>9. f[t] \in Int /\ f[z] \in Int /\ sum(TB) \in Int
  <2>1. TB \subseteq S /\ IsFiniteSet(TB)
    BY <1>2, FS_Subset
  <2> QED BY <1>2, <1>3, <1>4, <2>1, SumInt
<1> HIDE DEF sum, TZ, TT, TB, t
<1> QED BY <1>3, <1>5, <1>7, <1>8, <1>9 DEF TZ

(* A new element adds its amount. *)
THEOREM SumAdd ==
  ASSUME NEW f, NEW S, IsFiniteSet(S), \A x \in S : f[x] \in Int, NEW y, y \notin S, f[y] \in Int
  PROVE  SumFunctionOnSet(f, S \cup {y}) = SumFunctionOnSet(f, S) + f[y]
<1> DEFINE R == S \cup {y}
<1>1. IsFiniteSet(R) /\ R \ {y} = S
  BY FS_AddElement
<1>2. SumFunctionOnSet(f, S) \in Int
  BY SumInt
<1>3. y \in R /\ \A x \in R : f[x] \in Int
  OBVIOUS
<1> HIDE DEF R
<1>4. SumFunctionOnSet(f, R) = f[y] + SumFunctionOnSet(f, R \ {y})
  BY <1>1, <1>3, SumRemove
<1>5. SumFunctionOnSet(f, R) = SumFunctionOnSet(f, S) + f[y]
  <2>1. SumFunctionOnSet(f, R) = f[y] + SumFunctionOnSet(f, S)
    BY <1>1, <1>4, Zenon
  <2> QED BY <1>2, <2>1
<1> QED BY <1>5 DEF R

(* Without one of its elements a sum has that amount less. *)
THEOREM SumLess ==
  ASSUME NEW f, NEW S, IsFiniteSet(S), \A x \in S : f[x] \in Int, NEW y \in S
  PROVE  SumFunctionOnSet(f, S \ {y}) = SumFunctionOnSet(f, S) - f[y]
<1>1. IsFiniteSet(S \ {y})
  BY FS_Subset
<1>2. SumFunctionOnSet(f, S \ {y}) \in Int /\ f[y] \in Int
  BY <1>1, SumInt
<1> QED BY <1>2, SumRemove

(* A sum of natural numbers is not negative. *)
THEOREM SumNat ==
  ASSUME NEW f, NEW S, IsFiniteSet(S), \A x \in S : f[x] \in Nat
  PROVE  SumFunctionOnSet(f, S) \in Nat
<1> DEFINE B == {T \in SUBSET S : SumFunctionOnSet(f, T) \notin Nat}
<1> SUFFICES ASSUME B # {} PROVE FALSE
  OBVIOUS
<1>1. PICK T \in B : \A U \in SUBSET T : U # T => U \notin B
  <2> B \subseteq SUBSET S
    OBVIOUS
  <2> HIDE DEF B
  <2> QED BY SmallestFailure
<1>2. T \in SUBSET S /\ IsFiniteSet(T) /\ T # {}
  <2>1. T \in SUBSET S /\ SumFunctionOnSet(f, T) \notin Nat
    BY <1>1
  <2>2. SumFunctionOnSet(f, {}) = 0
    BY SumEmpty
  <2>3. T # {}
    BY <2>1, <2>2
  <2> QED BY <2>1, <2>3, FS_Subset
<1>3. Taken(T) \in T
  BY <1>2, TakenIn
<1>4. SumFunctionOnSet(f, T \ {Taken(T)}) \in Nat /\ f[Taken(T)] \in Nat
  BY <1>1, <1>2, <1>3
<1>5. SumFunctionOnSet(f, T) \in Nat
  BY <1>2, <1>4, SumTaken
<1> QED BY <1>1, <1>5
=============================================================================
