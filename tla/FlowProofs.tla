----------------------------- MODULE FlowProofs ------------------------------
(***************************************************************************)
(* Proofs about the flow of a project, for any datasets, recipes, wirings  *)
(* and requests: what the graph algorithms of RecipeGraph compute, and what*)
(* FlowGraph promises because of them.                                     *)
(***************************************************************************)
EXTENDS FlowGraph, FiniteSetTheorems, WellFoundedInduction, TLAPS

-----------------------------------------------------------------------------
(* Induction over the natural numbers, and functions defined by it.          *)

LEMMA NatRounds ==
  ASSUME NEW S, 0 \in S, \A n \in Nat : n \in S => n + 1 \in S
  PROVE  Nat \subseteq S
<1> SUFFICES ASSUME Nat \ S # {}
             PROVE  FALSE
  OBVIOUS
<1>1. PICK m \in Nat \ S : \A k \in Nat \ S : <<k, m>> \notin OpToRel(<, Nat)
  BY NatLessThanWellFounded, WFMin
<1>2. \A k \in Nat \ S : ~(k < m)
  BY <1>1 DEF OpToRel
<1>3. m \in Nat /\ m # 0
  BY <1>1, Zenon
<1>4. m - 1 \in Nat /\ m - 1 < m /\ (m - 1) + 1 = m
  BY <1>3
<1>5. m - 1 \in S
  BY <1>2, <1>4
<1>6. m \in S
  BY <1>4, <1>5
<1> QED
  BY <1>1, <1>6

\* A function that each step makes from its value before.
Iterates(f, x, step) == f[0] = x /\ \A n \in Nat : f[n + 1] = step[n + 1][f[n]]

LEMMA IterationExists ==
  ASSUME NEW X, NEW x \in X, NEW step \in [Nat -> [X -> X]]
  PROVE  \E f \in [Nat -> X] : Iterates(f, x, step)
<1> DEFINE Starts(m) == {g \in [0..m -> X] :
                           g[0] = x /\ \A n \in 0..(m - 1) : g[n + 1] = step[n + 1][g[n]]}
<1>1. \A m \in Nat : Starts(m) # {}
  <2> DEFINE S == {m \in Nat : Starts(m) # {}}
  <2>1. 0 \in S
    <3>1. [n \in 0..0 |-> x] \in Starts(0)
      OBVIOUS
    <3> QED
      BY <3>1
  <2>2. ASSUME NEW m \in Nat, m \in S
        PROVE  m + 1 \in S
    <3>1. PICK g \in Starts(m) : TRUE
      BY <2>2
    <3>2. PICK h : h = [n \in 0..(m + 1) |-> IF n = m + 1 THEN step[m + 1][g[m]] ELSE g[n]]
      OBVIOUS
    <3>3. g[m] \in X /\ step[m + 1][g[m]] \in X
      BY <3>1
    <3>4. h \in [0..(m + 1) -> X] /\ h[0] = x
      BY <3>1, <3>2, <3>3
    <3>5. ASSUME NEW n \in 0..m
          PROVE  h[n + 1] = step[n + 1][h[n]]
      <4>1. CASE n = m
        BY <3>2, <4>1
      <4>2. CASE n # m
        BY <3>1, <3>2, <4>2
      <4> QED
        BY <4>1, <4>2
    <3>6. h \in Starts(m + 1)
      BY <3>4, <3>5
    <3> QED
      BY <3>6
  <2> HIDE DEF S
  <2>3. Nat \subseteq S
    BY <2>1, <2>2, NatRounds, Zenon
  <2> QED
    BY <2>3 DEF S
<1>2. ASSUME NEW m \in Nat, NEW k \in Nat, m <= k, NEW g \in Starts(m), NEW h \in Starts(k)
      PROVE  g[m] = h[m]
  <2> DEFINE S == {n \in Nat : n <= m => g[n] = h[n]}
  <2>1. 0 \in S
    OBVIOUS
  <2>2. ASSUME NEW n \in Nat, n \in S
        PROVE  n + 1 \in S
    <3> SUFFICES ASSUME n + 1 <= m
                 PROVE  g[n + 1] = h[n + 1]
      OBVIOUS
    <3>1. n \in 0..(m - 1) /\ n \in 0..(k - 1) /\ g[n] = h[n]
      BY <1>2, <2>2
    <3> QED
      BY <3>1
  <2> HIDE DEF S
  <2>3. Nat \subseteq S
    BY <2>1, <2>2, NatRounds, Zenon
  <2> QED
    BY <2>3 DEF S
<1>3. PICK pick : pick = [m \in Nat |-> CHOOSE g \in Starts(m) : TRUE]
  OBVIOUS
<1>4. \A m \in Nat : pick[m] \in Starts(m)
  BY <1>1, <1>3
<1>5. PICK f : f = [m \in Nat |-> pick[m][m]]
  OBVIOUS
<1>6. \A m \in Nat : pick[m][m] \in X
  BY <1>4
<1>7. f \in [Nat -> X]
  BY <1>5, <1>6
<1>8. ASSUME NEW n \in Nat
      PROVE  f[n + 1] = step[n + 1][f[n]]
  <2>1. pick[n + 1] \in Starts(n + 1) /\ pick[n] \in Starts(n)
    BY <1>4
  <2>2. pick[n + 1][n + 1] = step[n + 1][pick[n + 1][n]]
    <3>1. n \in 0..((n + 1) - 1)
      OBVIOUS
    <3> QED
      BY <2>1, <3>1
  <2>3. pick[n][n] = pick[n + 1][n]
    <3>1. n <= n + 1 /\ n + 1 \in Nat
      OBVIOUS
    <3> HIDE DEF Starts
    <3> QED
      BY <1>2, <2>1, <3>1
  <2> QED
    BY <1>5, <2>2, <2>3
<1>9. f[0] = x
  BY <1>4, <1>5
<1> QED
  BY <1>7, <1>8, <1>9 DEF Iterates

\* Sets of recipes that grow by rounds stop growing after as many rounds as there
\* are recipes.
LEMMA Saturates ==
  ASSUME NEW P, IsFiniteSet(P), NEW p \in [Nat -> SUBSET P],
         \A n \in Nat : p[n] \subseteq p[n + 1],
         \A n \in Nat : p[n] = p[n + 1] => p[n + 1] = p[n + 2]
  PROVE  LET N == Cardinality(P) IN
         /\ N \in Nat /\ p[N] = p[N + 1]
         /\ p[0] # {} => N # 0 /\ p[N - 1] = p[N]
<1>1. PICK N : N = Cardinality(P)
  OBVIOUS
<1>2. N \in Nat
  BY <1>1, FS_CardinalityType
<1>3. \A n \in Nat : /\ IsFiniteSet(p[n]) /\ Cardinality(p[n]) \in Nat /\ Cardinality(p[n]) <= N
                     /\ Cardinality(p[n]) = N => p[n] = P
  BY <1>1, FS_Subset, FS_CardinalityType
<1>4. PICK c : c = Cardinality(p[0])
  OBVIOUS
<1>5. c \in Nat /\ (p[0] # {} => c > 0)
  BY <1>3, <1>4, FS_EmptySet
<1> DEFINE S == {n \in Nat : p[n] = p[n + 1] \/ Cardinality(p[n]) >= n + c}
<1>6. 0 \in S
  BY <1>4, <1>5
<1>7. ASSUME NEW n \in Nat, n \in S
      PROVE  n + 1 \in S
  <2>1. CASE p[n] = p[n + 1]
    BY <2>1
  <2>2. CASE p[n] # p[n + 1]
    <3>1. Cardinality(p[n]) >= n + c
      BY <1>7, <2>2
    <3>2. Cardinality(p[n]) < Cardinality(p[n + 1])
      <4>1. PICK A, B : A = p[n] /\ B = p[n + 1]
        OBVIOUS
      <4>2. A \subseteq B /\ A # B /\ IsFiniteSet(B)
        BY <1>3, <2>2, <4>1
      <4>3. Cardinality(A) <= Cardinality(B) /\ Cardinality(A) # Cardinality(B)
        BY <4>2, FS_Subset
      <4> QED
        BY <1>3, <4>1, <4>3
    <3>3. Cardinality(p[n + 1]) >= (n + 1) + c
      BY <1>3, <1>5, <3>1, <3>2
    <3> QED
      BY <3>3
  <2> QED
    BY <2>1, <2>2
<1> HIDE DEF S
<1>8. Nat \subseteq S
  BY <1>6, <1>7, NatRounds, Zenon
<1>9. p[N] = p[N + 1]
  <2>1. p[N] = p[N + 1] \/ Cardinality(p[N]) >= N + c
    BY <1>2, <1>8 DEF S
  <2>2. CASE Cardinality(p[N]) >= N + c
    <3>1. p[N] = P
      BY <1>2, <1>3, <1>5, <2>2
    <3> QED
      BY <1>2, <3>1
  <2> QED
    BY <2>1, <2>2
<1>10. ASSUME p[0] # {}
       PROVE  N # 0 /\ p[N - 1] = p[N]
  <2>1. c > 0 /\ N # 0 /\ N - 1 \in Nat
    BY <1>2, <1>3, <1>4, <1>5, <1>10
  <2>2. p[N - 1] = p[N] \/ Cardinality(p[N - 1]) >= (N - 1) + c
    BY <2>1, <1>2, <1>8 DEF S
  <2>3. CASE Cardinality(p[N - 1]) >= (N - 1) + c
    <3>1. Cardinality(p[N - 1]) <= N /\ Cardinality(p[N - 1]) \in Nat
      BY <1>3, <2>1
    <3>2. Cardinality(p[N - 1]) = N
      BY <1>2, <1>5, <2>1, <2>3, <3>1
    <3>3. p[N - 1] = P
      BY <1>3, <2>1, <3>2
    <3>4. p[N - 1] \subseteq p[N] /\ p[N] \subseteq P
      <4>1. (N - 1) + 1 = N
        BY <1>2
      <4> QED
        BY <1>2, <2>1, <4>1
    <3> QED
      BY <2>1, <3>3, <3>4
  <2> QED
    BY <2>1, <2>2, <2>3
<1> QED
  BY <1>1, <1>2, <1>9, <1>10

-----------------------------------------------------------------------------
(* The walk behind the cycle check and the upstream closure of a build: each *)
(* is the least set that contains where it starts and whatever feeds it.     *)

Feeding(g, D) == UNION {Producers(g, d) : d \in D}
Closed(g, K) == \A r \in g.recipes : Outs(g, r) \cap K # {} => Ins(g, r) \subseteq K
InsOf(g, R) == UNION {Ins(g, r) : r \in R}

\* The walk round by round.
Walk(g, D) ==
  LET up[n \in Nat] ==
        IF n = 0 THEN D
        ELSE up[n - 1] \cup UNION {Ins(g, r) : r \in UNION {Producers(g, d) : d \in up[n - 1]}}
  IN  up

LEMMA WalkRounds ==
  ASSUME NEW g, NEW D
  PROVE  /\ UpstreamDatasets(g, D) = Walk(g, D)[Cardinality(g.recipes)]
         /\ Walk(g, D)[0] = D
         /\ \A n \in Nat : Walk(g, D)[n + 1] =
              Walk(g, D)[n] \cup InsOf(g, Feeding(g, Walk(g, D)[n]))
<1> DEFINE More(S) == S \cup UNION {Ins(g, r) : r \in UNION {Producers(g, d) : d \in S}}
           Makes(f) == f = [n \in Nat |-> IF n = 0 THEN D ELSE More(f[n - 1])]
<1>1. UpstreamDatasets(g, D) = Walk(g, D)[Cardinality(g.recipes)]
  BY DEF UpstreamDatasets, Walk
<1>2. PICK X : X = SUBSET (D \cup UNION {Ins(g, r) : r \in g.recipes})
  OBVIOUS
<1>3. \A S \in X : More(S) \in X
  BY <1>2 DEF Producers
<1>4. PICK step : step = [n \in Nat |-> [S \in X |-> More(S)]]
  OBVIOUS
<1> HIDE DEF More
<1>5. step \in [Nat -> [X -> X]] /\ D \in X
  BY <1>2, <1>3, <1>4
<1>6. PICK f \in [Nat -> X] : Iterates(f, D, step)
  BY <1>5, IterationExists
<1>7. ASSUME NEW n \in Nat
      PROVE  f[n + 1] = More(f[n])
  <2>1. f[n + 1] = step[n + 1][f[n]] /\ f[n] \in X /\ n + 1 \in Nat
    BY <1>6 DEF Iterates
  <2> QED
    BY <1>4, <2>1
<1>8. ASSUME NEW n \in Nat
      PROVE  f[n] = IF n = 0 THEN D ELSE More(f[n - 1])
  <2>1. CASE n = 0
    BY <1>6, <2>1 DEF Iterates
  <2>2. CASE n # 0
    <3>1. n - 1 \in Nat /\ (n - 1) + 1 = n
      BY <2>2
    <3> QED
      BY <1>7, <2>2, <3>1
  <2> QED
    BY <2>1, <2>2
<1>9. Makes(f)
  BY <1>6, <1>8
<1>10. Walk(g, D) = CHOOSE h : Makes(h)
  BY DEF Walk, More
<1> HIDE DEF Makes
<1>11. Makes(Walk(g, D))
  BY <1>9, <1>10
<1>12. PICK w : w = Walk(g, D)
  OBVIOUS
<1>13. w = [n \in Nat |-> IF n = 0 THEN D ELSE More(w[n - 1])]
  BY <1>11, <1>12 DEF Makes
<1>14. w[0] = D /\ \A n \in Nat : w[n + 1] = More(w[n])
  <2>1. ASSUME NEW n \in Nat
        PROVE  w[n + 1] = More(w[n])
    <3>1. n + 1 \in Nat /\ n + 1 # 0 /\ (n + 1) - 1 = n
      OBVIOUS
    <3>2. w[n + 1] = More(w[(n + 1) - 1])
      BY <1>13, <3>1
    <3> QED
      BY <3>1, <3>2
  <2> QED
    BY <1>13, <2>1
<1>15. \A S : More(S) = S \cup InsOf(g, Feeding(g, S))
  BY DEF More, InsOf, Feeding
<1> QED
  BY <1>1, <1>12, <1>14, <1>15

\* The walk of the cycle check finds every dataset upstream of where it starts, and
\* nothing else, in as many rounds as there are recipes (recipes_service.py 75-110).
THEOREM WalkIsLeast ==
  ASSUME NEW g, IsFiniteSet(g.recipes), NEW D
  PROVE  /\ D \subseteq UpstreamDatasets(g, D) /\ Closed(g, UpstreamDatasets(g, D))
         /\ \A K : D \subseteq K /\ Closed(g, K) => UpstreamDatasets(g, D) \subseteq K
<1>1. PICK w, N, U : w = Walk(g, D) /\ N = Cardinality(g.recipes) /\ U = UpstreamDatasets(g, D)
  OBVIOUS
<1>2. w[0] = D /\ U = w[N] /\ \A n \in Nat : w[n + 1] = w[n] \cup InsOf(g, Feeding(g, w[n]))
  BY <1>1, WalkRounds
<1>3. N \in Nat
  BY <1>1, FS_CardinalityType
<1>4. PICK p : p = [n \in Nat |-> Feeding(g, w[n])]
  OBVIOUS
<1>5. p \in [Nat -> SUBSET g.recipes]
  BY <1>4 DEF Feeding, Producers
<1>6. \A n \in Nat : w[n] \subseteq w[n + 1] /\ w[n + 1] = w[n] \cup InsOf(g, p[n])
  BY <1>2, <1>4
<1>7. \A n \in Nat : p[n] \subseteq p[n + 1]
  <2> SUFFICES ASSUME NEW n \in Nat
               PROVE  Feeding(g, w[n]) \subseteq Feeding(g, w[n + 1])
    BY <1>4
  <2> QED
    BY <1>6 DEF Feeding
<1>8. ASSUME NEW n \in Nat, p[n] = p[n + 1]
      PROVE  p[n + 1] = p[n + 2] /\ w[n + 2] = w[n + 1]
  <2>1. n + 1 \in Nat /\ (n + 1) + 1 = n + 2 /\ n + 2 \in Nat
    OBVIOUS
  <2>2. w[n + 1] = w[n] \cup InsOf(g, p[n]) /\ w[n + 2] = w[n + 1] \cup InsOf(g, p[n + 1])
    BY <1>6, <2>1
  <2>3. w[n + 2] = w[n + 1]
    BY <1>8, <2>2
  <2> QED
    BY <1>4, <2>1, <2>3
<1>9. InsOf(g, p[N]) \subseteq U
  <2>1. CASE p[0] # {}
    <3>1. N # 0 /\ p[N - 1] = p[N]
      BY <1>1, <1>5, <1>7, <1>8, <2>1, Saturates
    <3>2. N - 1 \in Nat /\ (N - 1) + 1 = N
      BY <1>3, <3>1
    <3>3. w[N] = w[N - 1] \cup InsOf(g, p[N - 1])
      BY <1>6, <3>2
    <3> QED
      BY <1>2, <3>1, <3>3
  <2>2. CASE p[0] = {}
    <3> DEFINE S == {n \in Nat : p[n] = {}}
    <3>1. 0 \in S
      BY <2>2
    <3>2. ASSUME NEW n \in Nat, n \in S
          PROVE  n + 1 \in S
      <4>1. InsOf(g, p[n]) = {}
        BY <3>2 DEF InsOf
      <4>2. w[n + 1] = w[n]
        BY <1>6, <4>1
      <4> QED
        BY <1>4, <3>2, <4>2
    <3> HIDE DEF S
    <3>3. Nat \subseteq S
      BY <3>1, <3>2, NatRounds, Zenon
    <3>4. p[N] = {}
      BY <1>3, <3>3 DEF S
    <3> QED
      BY <3>4 DEF InsOf
  <2> QED
    BY <2>1, <2>2
<1>10. Closed(g, U)
  <2> SUFFICES ASSUME NEW r \in g.recipes, NEW d \in Outs(g, r) \cap U
               PROVE  Ins(g, r) \subseteq U
    BY DEF Closed
  <2>1. r \in p[N]
    BY <1>2, <1>3, <1>4 DEF Feeding, Producers
  <2> QED
    BY <1>9, <2>1 DEF InsOf
<1>11. ASSUME NEW n \in Nat
       PROVE  D \subseteq w[n]
  <2> DEFINE S == {k \in Nat : D \subseteq w[k]}
  <2>1. 0 \in S
    BY <1>2
  <2>2. \A k \in Nat : k \in S => k + 1 \in S
    BY <1>6
  <2> HIDE DEF S
  <2>3. Nat \subseteq S
    BY <2>1, <2>2, NatRounds, Zenon
  <2> QED
    BY <2>3 DEF S
<1>12. ASSUME NEW K, D \subseteq K, Closed(g, K)
       PROVE  U \subseteq K
  <2> DEFINE S == {k \in Nat : w[k] \subseteq K}
  <2>1. 0 \in S
    BY <1>2, <1>12
  <2>2. ASSUME NEW k \in Nat, k \in S
        PROVE  k + 1 \in S
    <3>1. InsOf(g, p[k]) \subseteq K
      BY <1>4, <1>12, <2>2 DEF Closed, InsOf, Feeding, Producers
    <3> QED
      BY <1>6, <2>2, <3>1
  <2> HIDE DEF S
  <2>3. Nat \subseteq S
    BY <2>1, <2>2, NatRounds, Zenon
  <2> QED
    BY <1>2, <1>3, <2>3 DEF S
<1> QED
  BY <1>1, <1>2, <1>3, <1>10, <1>11, <1>12

\* The recipes upstream of R round by round.
Closing(g, R) ==
  LET up[n \in Nat] ==
        IF n = 0 THEN R
        ELSE up[n - 1] \cup UNION {UpstreamOf(g, r) : r \in up[n - 1]}
  IN  up

\* The closure a build considers is exactly the recipes upstream of R, R included
\* (build_service.py 59-72).
THEOREM ClosureIsLeast ==
  ASSUME NEW g, IsFiniteSet(g.recipes), NEW R, R \subseteq g.recipes
  PROVE  /\ R \subseteq UpstreamClosure(g, R) /\ UpstreamClosure(g, R) \subseteq g.recipes
         /\ \A r \in UpstreamClosure(g, R) : UpstreamOf(g, r) \subseteq UpstreamClosure(g, R)
         /\ \A K : R \subseteq K /\ (\A r \in K : UpstreamOf(g, r) \subseteq K)
                     => UpstreamClosure(g, R) \subseteq K
<1> DEFINE More(S) == S \cup UNION {UpstreamOf(g, r) : r \in S}
           Makes(f) == f = [n \in Nat |-> IF n = 0 THEN R ELSE More(f[n - 1])]
<1>1. PICK N, X : N = Cardinality(g.recipes) /\ X = SUBSET g.recipes
  OBVIOUS
<1>2. UpstreamClosure(g, R) = Closing(g, R)[N]
  BY <1>1 DEF UpstreamClosure, Closing
<1>3. N \in Nat
  BY <1>1, FS_CardinalityType
<1>4. \A S \in X : More(S) \in X
  BY <1>1 DEF UpstreamOf, Producers
<1>5. PICK step : step = [n \in Nat |-> [S \in X |-> More(S)]]
  OBVIOUS
<1> HIDE DEF More
<1>6. step \in [Nat -> [X -> X]] /\ R \in X
  BY <1>1, <1>4, <1>5
<1>7. PICK f \in [Nat -> X] : Iterates(f, R, step)
  BY <1>6, IterationExists
<1>8. ASSUME NEW n \in Nat
      PROVE  f[n] = IF n = 0 THEN R ELSE More(f[n - 1])
  <2>1. CASE n = 0
    BY <1>7, <2>1 DEF Iterates
  <2>2. CASE n # 0
    <3>1. n - 1 \in Nat /\ (n - 1) + 1 = n
      BY <2>2
    <3> QED
      BY <1>5, <1>7, <2>2, <3>1 DEF Iterates
  <2> QED
    BY <2>1, <2>2
<1>9. Makes(f)
  BY <1>7, <1>8
<1>10. Closing(g, R) = CHOOSE h : Makes(h)
  BY DEF Closing, More
<1> HIDE DEF Makes
<1>11. PICK w : w = Closing(g, R) /\ Makes(w)
  BY <1>9, <1>10
<1>12. w[0] = R /\ \A n \in Nat : w[n + 1] = More(w[n])
  <2>1. w = [n \in Nat |-> IF n = 0 THEN R ELSE More(w[n - 1])]
    BY <1>11 DEF Makes
  <2>2. ASSUME NEW n \in Nat
        PROVE  w[n + 1] = More(w[n])
    <3>1. n + 1 \in Nat /\ n + 1 # 0 /\ (n + 1) - 1 = n
      OBVIOUS
    <3>2. w[n + 1] = More(w[(n + 1) - 1])
      BY <2>1, <3>1
    <3> QED
      BY <3>1, <3>2
  <2> QED
    BY <2>1, <2>2
<1>13. \A n \in Nat : w[n] \in X
  <2> DEFINE S == {n \in Nat : w[n] \in X}
  <2>1. 0 \in S
    BY <1>6, <1>12
  <2>2. \A n \in Nat : n \in S => n + 1 \in S
    BY <1>4, <1>12
  <2> HIDE DEF S
  <2>3. Nat \subseteq S
    BY <2>1, <2>2, NatRounds, Zenon
  <2> QED
    BY <2>3 DEF S
<1>14. PICK p : p = [n \in Nat |-> w[n]]
  OBVIOUS
<1>15. p \in [Nat -> SUBSET g.recipes] /\ \A n \in Nat : p[n] = w[n]
  BY <1>1, <1>13, <1>14
<1>16. \A n \in Nat : p[n] \subseteq p[n + 1]
  BY <1>12, <1>15 DEF More
<1>17. \A n \in Nat : p[n] = p[n + 1] => p[n + 1] = p[n + 2]
  <2> SUFFICES ASSUME NEW n \in Nat, w[n] = w[n + 1]
               PROVE  w[n + 1] = w[n + 2]
    BY <1>15
  <2>1. n + 1 \in Nat /\ (n + 1) + 1 = n + 2
    OBVIOUS
  <2>2. w[n + 2] = More(w[n + 1])
    BY <1>12, <2>1
  <2> QED
    BY <1>12, <2>2
<1>18. w[N] = More(w[N])
  <2>1. p[N] = p[N + 1]
    BY <1>1, <1>15, <1>16, <1>17, Saturates
  <2> QED
    BY <1>3, <1>12, <1>15, <2>1
<1>19. \A r \in w[N] : UpstreamOf(g, r) \subseteq w[N]
  BY <1>18 DEF More
<1>20. R \subseteq w[N]
  <2> DEFINE S == {k \in Nat : R \subseteq w[k]}
  <2>1. 0 \in S
    BY <1>12
  <2>2. \A k \in Nat : k \in S => k + 1 \in S
    BY <1>12 DEF More
  <2> HIDE DEF S
  <2>3. Nat \subseteq S
    BY <2>1, <2>2, NatRounds, Zenon
  <2> QED
    BY <1>3, <2>3 DEF S
<1>21. ASSUME NEW K, R \subseteq K, \A r \in K : UpstreamOf(g, r) \subseteq K
       PROVE  w[N] \subseteq K
  <2> DEFINE S == {k \in Nat : w[k] \subseteq K}
  <2>1. 0 \in S
    BY <1>12, <1>21
  <2>2. \A k \in Nat : k \in S => k + 1 \in S
    BY <1>12, <1>21 DEF More
  <2> HIDE DEF S
  <2>3. Nat \subseteq S
    BY <2>1, <2>2, NatRounds, Zenon
  <2> QED
    BY <1>3, <2>3 DEF S
<1> QED
  BY <1>1, <1>2, <1>3, <1>11, <1>13, <1>19, <1>20, <1>21

-----------------------------------------------------------------------------
(* Kahn's rounds.  ById lists a finite set of recipes in one way: the rank   *)
(* of a recipe is its place.                                                 *)

UpTo(S, r) == {s \in S : s <= r}
Place(S, r) == Cardinality(UpTo(S, r))

LEMMA PlaceFacts ==
  ASSUME NEW S, S \subseteq Nat, IsFiniteSet(S), NEW r \in S
  PROVE  /\ Place(S, r) \in 1..Cardinality(S) /\ Cardinality(S) \in Nat
         /\ \A s \in S : s < r => Place(S, s) < Place(S, r)
<1>1. \A s : IsFiniteSet(UpTo(S, s)) /\ Place(S, s) \in Nat /\ Place(S, s) <= Cardinality(S)
  <2>1. \A s : UpTo(S, s) \subseteq S
    BY DEF UpTo
  <2> QED
    BY <2>1, FS_Subset, FS_CardinalityType DEF Place
<1>2. \A s \in S : s \in UpTo(S, s)
  BY DEF UpTo
<1>3. Place(S, r) # 0
  BY <1>1, <1>2, FS_EmptySet DEF Place
<1>4. ASSUME NEW s \in S, s < r
      PROVE  Place(S, s) < Place(S, r)
  <2>1. UpTo(S, s) \subseteq UpTo(S, r) /\ r \notin UpTo(S, s)
    <3>1. r \in Nat /\ s \in Nat /\ \A x \in S : x \in Nat
      OBVIOUS
    <3>2. \A x \in S : x <= s => x <= r
      BY <1>4, <3>1
    <3>3. ~(r <= s)
      BY <1>4, <3>1
    <3> QED
      BY <3>2, <3>3 DEF UpTo
  <2>2. /\ Cardinality(UpTo(S, s)) <= Cardinality(UpTo(S, r))
        /\ Cardinality(UpTo(S, r)) = Cardinality(UpTo(S, s)) => UpTo(S, r) = UpTo(S, s)
    BY <1>1, <2>1, FS_Subset
  <2> QED
    BY <1>1, <1>2, <2>1, <2>2 DEF Place
<1>5. Cardinality(S) \in Nat
  BY FS_CardinalityType
<1> QED
  BY <1>1, <1>3, <1>4, <1>5

LEMMA ByIdFacts ==
  ASSUME NEW S, S \subseteq Nat, IsFiniteSet(S)
  PROVE  /\ Cardinality(S) \in Nat /\ ById(S) \in [1..Cardinality(S) -> S]
         /\ \A i, j \in 1..Cardinality(S) : ById(S)[i] = ById(S)[j] => i = j
         /\ \A r \in S : \E i \in 1..Cardinality(S) : ById(S)[i] = r
<1>1. PICK n \in Nat : n = Cardinality(S)
  BY FS_CardinalityType
<1>2. IsFiniteSet(1..n) /\ Cardinality(1..n) = n
  BY FS_Interval
<1>3. PICK place : place = [r \in S |-> Place(S, r)]
  OBVIOUS
<1>4. /\ \A r \in S : r \in Nat /\ Place(S, r) \in 1..n
      /\ \A r, s \in S : s < r => Place(S, s) < Place(S, r)
      /\ place \in [S -> 1..n]
  <2>1. ASSUME NEW r \in S
        PROVE  /\ r \in Nat /\ Place(S, r) \in 1..n
               /\ \A s \in S : s < r => Place(S, s) < Place(S, r)
    BY <1>1, PlaceFacts
  <2> QED
    BY <1>3, <2>1
<1>5. \A r, s \in S : place[r] = place[s] => r = s
  <2> SUFFICES ASSUME NEW r \in S, NEW s \in S, r # s
               PROVE  Place(S, r) # Place(S, s)
    BY <1>3
  <2>1. Place(S, r) \in Nat /\ Place(S, s) \in Nat /\ r \in Nat /\ s \in Nat
    BY <1>4
  <2>2. r < s \/ s < r
    BY <2>1
  <2>3. Place(S, r) < Place(S, s) \/ Place(S, s) < Place(S, r)
    BY <1>4, <2>2
  <2> QED
    BY <2>1, <2>3
<1>6. place \in Surjection(S, 1..n)
  <2>1. place \in Injection(S, 1..n)
    BY <1>4, <1>5 DEF Injection, IsInjective
  <2> QED
    BY <1>1, <1>2, <2>1, FS_Injection
<1>7. \A i \in 1..n : \E r \in S : place[r] = i
  BY <1>6 DEF Surjection
<1>8. PICK h : h = [i \in 1..n |-> CHOOSE r \in S : place[r] = i]
  OBVIOUS
<1>9. \A i \in 1..n : h[i] \in S /\ Place(S, h[i]) = i
  BY <1>3, <1>7, <1>8
<1>10. \A i, j \in 1..n : i < j => h[i] < h[j]
  <2> SUFFICES ASSUME NEW i \in 1..n, NEW j \in 1..n, i < j, ~(h[i] < h[j])
               PROVE  FALSE
    OBVIOUS
  <2>1. h[i] \in S /\ h[j] \in S /\ Place(S, h[i]) = i /\ Place(S, h[j]) = j
    BY <1>9
  <2>2. h[j] < h[i] \/ h[i] = h[j]
    <3>1. h[i] \in Nat /\ h[j] \in Nat
      BY <1>4, <2>1
    <3> QED
      BY <3>1
  <2>3. h[j] < h[i] => j < i
    BY <1>4, <2>1
  <2> QED
    BY <2>1, <2>2, <2>3
<1>11. h \in [1..n -> S]
  BY <1>8, <1>9
<1>12. PICK d : d = ById(S)
  OBVIOUS
<1>13. d \in [1..n -> S] /\ \A i, j \in 1..n : i < j => d[i] < d[j]
  BY <1>1, <1>10, <1>11, <1>12 DEF ById
<1>14. \A i, j \in 1..n : d[i] = d[j] => i = j
  <2> SUFFICES ASSUME NEW i \in 1..n, NEW j \in 1..n, i # j
               PROVE  d[i] # d[j]
    OBVIOUS
  <2>1. i < j \/ j < i
    OBVIOUS
  <2>2. d[i] \in Nat /\ d[j] \in Nat
    BY <1>13
  <2> QED
    BY <1>13, <2>1, <2>2
<1>15. \A r \in S : \E i \in 1..n : d[i] = r
  <2>1. d \in Injection(1..n, S)
    BY <1>13, <1>14 DEF Injection, IsInjective
  <2>2. d \in Surjection(1..n, S)
    BY <1>1, <1>2, <2>1, FS_Injection
  <2> QED
    BY <2>2 DEF Surjection
<1> QED
  BY <1>1, <1>12, <1>13, <1>14, <1>15

\* A graph without a loop: any set of its recipes has one that waits for no other.
Acyclic(g, C) == \A B \in SUBSET C : B # {} => \E r \in B : UpstreamOf(g, r) \cap B = {}

\* Each recipe once, after every recipe of C that it depends on.
Ordered(g, C, s) ==
  /\ s \in Seq(C) /\ \A i, j \in 1..Len(s) : s[i] = s[j] => i = j
  /\ \A i \in 1..Len(s) : \A q \in Dependencies(g, s[i], C) :
       \E j \in 1..Len(s) : j < i /\ s[j] = q

ReadyAfter(g, C, done) == {r \in C \ done : Dependencies(g, r, C) \subseteq done}

LEMMA OrderedFacts ==
  ASSUME NEW g, NEW C, IsFiniteSet(C), NEW s, Ordered(g, C, s)
  PROVE  /\ Len(s) \in Nat /\ DOMAIN s = 1..Len(s)
         /\ ToSet(s) \subseteq C /\ Cardinality(ToSet(s)) = Len(s)
         /\ \A i \in 1..Len(s) : s[i] \in ToSet(s)
         /\ \A r \in ToSet(s) : \E i \in 1..Len(s) : s[i] = r
<1>1. s \in Seq(C) /\ Len(s) \in Nat /\ DOMAIN s = 1..Len(s) /\ s \in [1..Len(s) -> C]
  BY DEF Ordered
<1>2. ToSet(s) = {s[i] : i \in 1..Len(s)}
  BY <1>1 DEF ToSet
<1>3. PICK n, T : n = Len(s) /\ T = ToSet(s)
  OBVIOUS
<1>4. T \subseteq C /\ IsFiniteSet(T)
  BY <1>1, <1>2, <1>3, FS_Subset
<1>5. s \in Bijection(1..n, T)
  BY <1>1, <1>2, <1>3 DEF Ordered, Bijection, Injection, Surjection, IsInjective
<1>6. Cardinality(T) = n
  <2>1. n \in Nat
    BY <1>1, <1>3
  <2>2. IsFiniteSet(1..n) /\ Cardinality(1..n) = n
    BY <2>1, FS_Interval
  <2>3. ExistsBijection(1..n, T)
    BY <1>5 DEF ExistsBijection
  <2> QED
    BY <2>2, <2>3, FS_Bijection
<1> QED
  BY <1>1, <1>2, <1>3, <1>4, <1>6

LEMMA RoundFacts ==
  ASSUME NEW g, NEW C, C \subseteq Nat, IsFiniteSet(C), NEW s, Ordered(g, C, s)
  PROVE  /\ Ordered(g, C, s \o ById(ReadyAfter(g, C, ToSet(s))))
         /\ ToSet(s \o ById(ReadyAfter(g, C, ToSet(s)))) = ToSet(s) \cup ReadyAfter(g, C, ToSet(s))
<1>0. PICK R, t : R = ReadyAfter(g, C, ToSet(s)) /\ t = s \o ById(R)
  OBVIOUS
<1>1. PICK k, d, n : k = Len(s) /\ d = ById(R) /\ n = Cardinality(R)
  OBVIOUS
<1>2. R \subseteq C /\ R \subseteq Nat /\ IsFiniteSet(R) /\ R \cap ToSet(s) = {}
  BY <1>0, FS_Subset DEF ReadyAfter
<1>3. /\ k \in Nat /\ DOMAIN s = 1..k /\ s \in Seq(C) /\ \A i \in 1..k : s[i] \in ToSet(s) /\ s[i] \in C
      /\ \A r \in ToSet(s) : \E i \in 1..k : s[i] = r
  <2>1. /\ Len(s) \in Nat /\ DOMAIN s = 1..Len(s) /\ ToSet(s) \subseteq C
        /\ \A i \in 1..Len(s) : s[i] \in ToSet(s)
        /\ \A r \in ToSet(s) : \E i \in 1..Len(s) : s[i] = r
    <3>1. Len(s) \in Nat /\ DOMAIN s = 1..Len(s) /\ ToSet(s) \subseteq C
      BY OrderedFacts
    <3>2. \A i \in 1..Len(s) : s[i] \in ToSet(s)
      BY OrderedFacts
    <3>3. \A r \in ToSet(s) : \E i \in 1..Len(s) : s[i] = r
      BY OrderedFacts
    <3> QED
      BY <3>1, <3>2, <3>3
  <2>2. s \in Seq(C)
    BY DEF Ordered
  <2> QED
    BY <1>1, <2>1, <2>2
<1>4. /\ n \in Nat /\ d \in [1..n -> R]
      /\ \A i, j \in 1..n : d[i] = d[j] => i = j
      /\ \A r \in R : \E i \in 1..n : d[i] = r
  BY <1>1, <1>2, ByIdFacts
<1>5. d \in Seq(C) /\ Len(d) = n /\ DOMAIN d = 1..n
  <2>1. n \in Nat /\ d \in [1..n -> C]
    BY <1>2, <1>4
  <2> QED
    BY <2>1
<1>6. t \in Seq(C) /\ Len(t) = k + n
  <2>1. \A x \in Seq(C), y \in Seq(C) : x \o y \in Seq(C) /\ Len(x \o y) = Len(x) + Len(y)
    OBVIOUS
  <2>2. s \o d \in Seq(C) /\ Len(s \o d) = Len(s) + Len(d)
    BY <1>3, <1>5, <2>1, Zenon
  <2> QED
    BY <1>0, <1>1, <1>5, <2>2, Zenon
<1>7. DOMAIN t = 1..(k + n)
  BY <1>6
<1>8. \A i \in 1..k : t[i] = s[i]
  BY <1>0, <1>1, <1>3, <1>4, <1>5
<1>9. \A i \in 1..n : t[k + i] = d[i]
  BY <1>0, <1>1, <1>3, <1>4, <1>5
<1>10. \A i \in 1..(k + n) : \/ i \in 1..k /\ t[i] = s[i] /\ t[i] \in ToSet(s)
                             \/ i \notin 1..k /\ i - k \in 1..n /\ t[i] = d[i - k] /\ t[i] \in R
  <2> SUFFICES ASSUME NEW i \in 1..(k + n), i \notin 1..k
               PROVE  i - k \in 1..n /\ t[i] = d[i - k] /\ t[i] \in R
    BY <1>3, <1>8
  <2>1. i - k \in 1..n /\ i = k + (i - k)
    BY <1>3, <1>4
  <2>2. t[k + (i - k)] = d[i - k]
    BY <1>9, <2>1
  <2> QED
    BY <1>4, <2>1, <2>2
<1>11. ASSUME NEW i \in 1..(k + n), NEW j \in 1..(k + n), t[i] = t[j]
       PROVE  i = j
  <2>1. CASE i \in 1..k /\ j \in 1..k
    BY <1>1, <1>8, <1>11, <2>1 DEF Ordered
  <2>2. CASE i \notin 1..k /\ j \notin 1..k
    <3>1. i - k \in 1..n /\ j - k \in 1..n /\ d[i - k] = d[j - k]
      BY <1>10, <1>11, <2>2
    <3>2. i - k = j - k
      BY <1>4, <3>1
    <3> QED
      BY <1>3, <1>4, <3>2
  <2>3. ~(i \in 1..k /\ j \notin 1..k) /\ ~(j \in 1..k /\ i \notin 1..k)
    BY <1>2, <1>10, <1>11
  <2> QED
    BY <2>1, <2>2, <2>3
<1>12. ToSet(t) = ToSet(s) \cup R
  <2>1. ToSet(t) = {t[i] : i \in 1..(k + n)}
    BY <1>7 DEF ToSet
  <2>2. ToSet(t) \subseteq ToSet(s) \cup R
    BY <1>10, <2>1
  <2>3. \A r \in ToSet(s) : r \in ToSet(t)
    <3> SUFFICES ASSUME NEW r \in ToSet(s)
                 PROVE  r \in ToSet(t)
      OBVIOUS
    <3>1. PICK i \in 1..k : s[i] = r
      BY <1>3
    <3>2. i \in 1..(k + n) /\ t[i] = r
      BY <1>3, <1>4, <1>8, <3>1
    <3> QED
      BY <2>1, <3>2
  <2>4. \A r \in R : r \in ToSet(t)
    <3> SUFFICES ASSUME NEW r \in R
                 PROVE  r \in ToSet(t)
      OBVIOUS
    <3>1. PICK i \in 1..n : d[i] = r
      BY <1>4
    <3>2. k + i \in 1..(k + n)
      BY <1>3, <1>4
    <3>3. t[k + i] = r
      BY <1>9, <3>1
    <3> QED
      BY <2>1, <3>2, <3>3
  <2> QED
    BY <2>2, <2>3, <2>4
<1>13. ASSUME NEW i \in 1..(k + n), NEW q \in Dependencies(g, t[i], C)
       PROVE  \E j \in 1..(k + n) : j < i /\ t[j] = q
  <2>1. CASE i \in 1..k
    <3>1. q \in Dependencies(g, s[i], C)
      BY <1>8, <2>1
    <3>2. PICK j \in 1..k : j < i /\ s[j] = q
      BY <1>1, <2>1, <3>1 DEF Ordered
    <3>3. j \in 1..(k + n) /\ t[j] = q
      BY <1>3, <1>4, <1>8, <3>2
    <3> QED
      BY <3>2, <3>3
  <2>2. CASE i \notin 1..k
    <3>1. t[i] \in R
      BY <1>10, <2>2
    <3>2. q \in ToSet(s)
      BY <1>0, <3>1 DEF ReadyAfter
    <3>3. PICK j \in 1..k : s[j] = q
      BY <1>3, <3>2
    <3>4. j \in 1..(k + n) /\ t[j] = q /\ j < i
      BY <1>3, <1>4, <1>8, <2>2, <3>3
    <3> QED
      BY <3>4
  <2> QED
    BY <2>1, <2>2
<1>14. Ordered(g, C, t)
  <2>1. \A i, j \in 1..Len(t) : t[i] = t[j] => i = j
    BY <1>6, <1>11
  <2>2. \A i \in 1..Len(t) : \A q \in Dependencies(g, t[i], C) : \E j \in 1..Len(t) : j < i /\ t[j] = q
    <3> SUFFICES ASSUME NEW i \in 1..Len(t), NEW q \in Dependencies(g, t[i], C)
                 PROVE  \E j \in 1..Len(t) : j < i /\ t[j] = q
      OBVIOUS
    <3>1. i \in 1..(k + n)
      BY <1>6
    <3>2. \E j \in 1..(k + n) : j < i /\ t[j] = q
      BY <1>13, <3>1
    <3> QED
      BY <1>6, <3>2
  <2> QED
    BY <1>6, <2>1, <2>2 DEF Ordered
<1> QED
  BY <1>0, <1>12, <1>14

\* Kahn's algorithm round by round.
Kahn(g, C) ==
  LET Ready(done) == {r \in C \ done : Dependencies(g, r, C) \subseteq done}
      order[n \in Nat] ==
        IF n = 0 THEN <<>>
        ELSE order[n - 1] \o ById(Ready(ToSet(order[n - 1])))
  IN  order

LEMMA KahnRounds ==
  ASSUME NEW g, NEW C, C \subseteq Nat, IsFiniteSet(C)
  PROVE  /\ TopoOrder(g, C) = Kahn(g, C)[Cardinality(C)]
         /\ Kahn(g, C)[0] = <<>>
         /\ \A n \in Nat : /\ Ordered(g, C, Kahn(g, C)[n])
                           /\ Kahn(g, C)[n + 1] = Kahn(g, C)[n] \o
                                ById(ReadyAfter(g, C, ToSet(Kahn(g, C)[n])))
<1> DEFINE More(s) == s \o ById({r \in C \ ToSet(s) : Dependencies(g, r, C) \subseteq ToSet(s)})
           Makes(f) == f = [n \in Nat |-> IF n = 0 THEN <<>> ELSE More(f[n - 1])]
<1>1. TopoOrder(g, C) = Kahn(g, C)[Cardinality(C)]
  BY DEF TopoOrder, Kahn
<1>2. PICK X : X = {s \in Seq(C) : Ordered(g, C, s)}
  OBVIOUS
<1>3. \A s : More(s) = s \o ById(ReadyAfter(g, C, ToSet(s)))
  BY DEF ReadyAfter
<1>4. ASSUME NEW s \in X
      PROVE  More(s) \in X
  <2>1. Ordered(g, C, s)
    BY <1>2
  <2>2. Ordered(g, C, s \o ById(ReadyAfter(g, C, ToSet(s))))
    BY <2>1, RoundFacts
  <2>3. Ordered(g, C, More(s))
    BY <1>3, <2>2
  <2> HIDE DEF More
  <2> QED
    BY <1>2, <2>3 DEF Ordered
<1>5. PICK step : step = [n \in Nat |-> [s \in X |-> More(s)]]
  OBVIOUS
<1> HIDE DEF More
<1>6. step \in [Nat -> [X -> X]] /\ <<>> \in X
  <2>1. <<>> \in Seq(C) /\ Len(<<>>) = 0 /\ 1..0 = {}
    OBVIOUS
  <2>2. Ordered(g, C, <<>>)
    BY <2>1 DEF Ordered
  <2>3. step \in [Nat -> [X -> X]]
    BY <1>4, <1>5
  <2> QED
    BY <1>2, <2>1, <2>2, <2>3
<1>7. PICK f \in [Nat -> X] : Iterates(f, <<>>, step)
  BY <1>6, IterationExists
<1>8. ASSUME NEW n \in Nat
      PROVE  f[n + 1] = More(f[n])
  <2>1. f[n + 1] = step[n + 1][f[n]] /\ f[n] \in X /\ n + 1 \in Nat
    BY <1>7 DEF Iterates
  <2> QED
    BY <1>5, <2>1
<1>9. ASSUME NEW n \in Nat
      PROVE  f[n] = IF n = 0 THEN <<>> ELSE More(f[n - 1])
  <2>1. CASE n = 0
    BY <1>7, <2>1 DEF Iterates
  <2>2. CASE n # 0
    <3>1. n - 1 \in Nat /\ (n - 1) + 1 = n
      BY <2>2
    <3> QED
      BY <1>8, <2>2, <3>1
  <2> QED
    BY <2>1, <2>2
<1>10. Makes(f)
  BY <1>7, <1>9
<1>11. Kahn(g, C) = CHOOSE h : Makes(h)
  BY DEF Kahn, More
<1> HIDE DEF Makes
<1>12. PICK w : w = Kahn(g, C) /\ Makes(w)
  BY <1>10, <1>11
<1>13. w[0] = <<>> /\ \A n \in Nat : w[n + 1] = More(w[n])
  <2>1. w = [n \in Nat |-> IF n = 0 THEN <<>> ELSE More(w[n - 1])]
    BY <1>12 DEF Makes
  <2>2. ASSUME NEW n \in Nat
        PROVE  w[n + 1] = More(w[n])
    <3>1. n + 1 \in Nat /\ n + 1 # 0 /\ (n + 1) - 1 = n
      OBVIOUS
    <3>2. w[n + 1] = More(w[(n + 1) - 1])
      BY <2>1, <3>1
    <3> QED
      BY <3>1, <3>2
  <2> QED
    BY <2>1, <2>2
<1>14. \A n \in Nat : w[n] \in X
  <2> DEFINE S == {n \in Nat : w[n] \in X}
  <2>1. 0 \in S
    BY <1>6, <1>13
  <2>2. \A n \in Nat : n \in S => n + 1 \in S
    BY <1>4, <1>13
  <2> HIDE DEF S
  <2>3. Nat \subseteq S
    BY <2>1, <2>2, NatRounds, Zenon
  <2> QED
    BY <2>3 DEF S
<1> QED
  BY <1>1, <1>2, <1>3, <1>12, <1>13, <1>14

\* Kahn's algorithm orders every recipe after those it depends on, and gives up on a
\* set exactly if it has a loop (build_service.py 75-101).
THEOREM TopoOrderSorts ==
  ASSUME NEW g, NEW C, C \subseteq Nat, IsFiniteSet(C)
  PROVE  /\ Ordered(g, C, TopoOrder(g, C))
         /\ Cyclic(g, C) <=> ~Acyclic(g, C)
         /\ ~Cyclic(g, C) => ToSet(TopoOrder(g, C)) = C
<1>1. PICK w, N : w = Kahn(g, C) /\ N = Cardinality(C)
  OBVIOUS
<1>2. N \in Nat
  BY <1>1, FS_CardinalityType
<1>3. PICK done : done = [n \in Nat |-> ToSet(w[n])]
  OBVIOUS
<1>4. /\ TopoOrder(g, C) = w[N] /\ w[0] = <<>>
      /\ \A n \in Nat : /\ Ordered(g, C, w[n])
                        /\ w[n + 1] = w[n] \o ById(ReadyAfter(g, C, done[n]))
  BY <1>1, <1>3, KahnRounds
<1>5. \A n \in Nat : /\ Len(w[n]) \in Nat /\ done[n] \subseteq C /\ Cardinality(done[n]) = Len(w[n])
                     /\ IsFiniteSet(done[n])
  <2> SUFFICES ASSUME NEW n \in Nat
               PROVE  /\ Len(w[n]) \in Nat /\ done[n] \subseteq C /\ Cardinality(done[n]) = Len(w[n])
                      /\ IsFiniteSet(done[n])
    OBVIOUS
  <2>1. Ordered(g, C, w[n]) /\ done[n] = ToSet(w[n])
    BY <1>3, <1>4
  <2>2. Len(w[n]) \in Nat /\ ToSet(w[n]) \subseteq C /\ Cardinality(ToSet(w[n])) = Len(w[n])
    BY <2>1, OrderedFacts
  <2> QED
    BY <2>1, <2>2, FS_Subset
<1>6. done[0] = {} /\ \A n \in Nat : done[n + 1] = done[n] \cup ReadyAfter(g, C, done[n])
  <2>1. done[0] = {}
    BY <1>3, <1>4 DEF ToSet
  <2>2. ASSUME NEW n \in Nat
        PROVE  done[n + 1] = done[n] \cup ReadyAfter(g, C, done[n])
    <3>1. done[n] = ToSet(w[n]) /\ done[n + 1] = ToSet(w[n + 1])
      BY <1>3
    <3>2. Ordered(g, C, w[n]) /\ w[n + 1] = w[n] \o ById(ReadyAfter(g, C, ToSet(w[n])))
      BY <1>4, <3>1
    <3>4. ToSet(w[n] \o ById(ReadyAfter(g, C, ToSet(w[n])))) = ToSet(w[n]) \cup ReadyAfter(g, C, ToSet(w[n]))
      BY <3>2, RoundFacts
    <3>5. ToSet(w[n + 1]) = ToSet(w[n]) \cup ReadyAfter(g, C, ToSet(w[n]))
      BY <3>2, <3>4
    <3> QED
      BY <3>1, <3>5
  <2> QED
    BY <2>1, <2>2
<1>7. ASSUME Acyclic(g, C)
      PROVE  done[N] = C
  <2> DEFINE S == {n \in Nat : done[n] = C \/ Cardinality(done[n]) >= n}
  <2>1. 0 \in S
    BY <1>5
  <2>2. ASSUME NEW n \in Nat, n \in S
        PROVE  n + 1 \in S
    <3>1. CASE done[n] = C
      <4>1. n + 1 \in Nat /\ done[n + 1] = C \cup ReadyAfter(g, C, C)
        BY <1>6, <3>1
      <4> QED
        BY <4>1 DEF ReadyAfter
    <3>2. CASE done[n] # C
      <4>1. Cardinality(done[n]) >= n
        BY <2>2, <3>2
      <4>2. PICK r \in C \ done[n] : UpstreamOf(g, r) \cap (C \ done[n]) = {}
        BY <1>5, <1>7, <3>2 DEF Acyclic
      <4>3. r \in ReadyAfter(g, C, done[n])
        BY <4>2 DEF ReadyAfter, Dependencies
      <4>4. done[n] \subseteq done[n + 1] /\ done[n] # done[n + 1]
        BY <1>6, <4>2, <4>3
      <4>5. PICK A, B : A = done[n] /\ B = done[n + 1]
        OBVIOUS
      <4>6. IsFiniteSet(B) /\ Cardinality(A) \in Nat /\ Cardinality(B) \in Nat
        BY <1>5, <4>5
      <4>7. Cardinality(A) <= Cardinality(B) /\ Cardinality(A) # Cardinality(B)
        BY <4>4, <4>5, <4>6, FS_Subset
      <4>8. Cardinality(B) >= n + 1
        BY <4>1, <4>5, <4>6, <4>7
      <4> QED
        BY <4>5, <4>8
    <3> QED
      BY <3>1, <3>2
  <2> HIDE DEF S
  <2>3. Nat \subseteq S
    BY <2>1, <2>2, NatRounds, Zenon
  <2>4. done[N] = C \/ Cardinality(done[N]) >= N
    BY <1>2, <2>3 DEF S
  <2>5. /\ Cardinality(done[N]) <= N /\ Cardinality(done[N]) \in Nat
        /\ Cardinality(done[N]) = N => done[N] = C
    BY <1>1, <1>2, <1>5, FS_Subset
  <2> QED
    BY <1>2, <2>4, <2>5
<1>8. ASSUME ~Acyclic(g, C)
      PROVE  done[N] # C
  <2>1. PICK B \in SUBSET C : B # {} /\ \A r \in B : UpstreamOf(g, r) \cap B # {}
    BY <1>8 DEF Acyclic
  <2> DEFINE S == {n \in Nat : done[n] \cap B = {}}
  <2>2. 0 \in S
    BY <1>6
  <2>3. ASSUME NEW n \in Nat, n \in S
        PROVE  n + 1 \in S
    <3>1. \A r \in B : r \notin ReadyAfter(g, C, done[n])
      BY <2>1, <2>3 DEF ReadyAfter, Dependencies
    <3>2. done[n + 1] = done[n] \cup ReadyAfter(g, C, done[n]) /\ done[n] \cap B = {}
      BY <1>6, <2>3
    <3>3. done[n + 1] \cap B = {}
      BY <3>1, <3>2
    <3> QED
      BY <3>3
  <2> HIDE DEF S
  <2>4. Nat \subseteq S
    BY <2>2, <2>3, NatRounds, Zenon
  <2>5. done[N] \cap B = {}
    BY <1>2, <2>4 DEF S
  <2> QED
    BY <2>1, <2>5
<1>9. Cyclic(g, C) <=> done[N] # C
  <2>1. Len(w[N]) = Cardinality(done[N]) /\ done[N] \subseteq C /\ Len(w[N]) \in Nat
    BY <1>2, <1>5
  <2>2. Cardinality(done[N]) <= N /\ (Cardinality(done[N]) = N => done[N] = C)
    BY <1>1, <2>1, FS_Subset
  <2>3. Cyclic(g, C) <=> Len(w[N]) < N
    BY <1>1, <1>4 DEF Cyclic
  <2>4. done[N] = C => Len(w[N]) = N
    BY <1>1, <2>1
  <2> QED
    BY <1>2, <2>1, <2>2, <2>3, <2>4
<1> QED
  BY <1>2, <1>3, <1>4, <1>7, <1>8, <1>9

-----------------------------------------------------------------------------
(* The cycle check.  It rejects a wiring exactly if the graph would have a   *)
(* loop with it.                                                             *)

\* The same without a record for the graph: C with the inputs i and the outputs o.
Loopless(C, i, o) ==
  \A B \in SUBSET C : B # {} => \E r \in B : \A q \in B : ToSet(o[q]) \cap ToSet(i[r]) = {}

LEMMA UpstreamMeans ==
  ASSUME NEW g, NEW r
  PROVE  \A q : q \in UpstreamOf(g, r) <=> q \in g.recipes /\ Outs(g, q) \cap Ins(g, r) # {}
BY DEF UpstreamOf, Producers

LEMMA AcyclicMeans ==
  ASSUME NEW g, NEW C, C \subseteq g.recipes
  PROVE  Acyclic(g, C) <=> Loopless(C, g.ins, g.outs)
<1>1. \A r, q \in C : q \in UpstreamOf(g, r) <=> ToSet(g.outs[q]) \cap ToSet(g.ins[r]) # {}
  BY UpstreamMeans DEF Ins, Outs
<1>2. ASSUME NEW B \in SUBSET C
      PROVE  (\E r \in B : UpstreamOf(g, r) \cap B = {})
               <=> \E r \in B : \A q \in B : ToSet(g.outs[q]) \cap ToSet(g.ins[r]) = {}
  <2>1. ASSUME NEW r \in B
        PROVE  UpstreamOf(g, r) \cap B = {}
                 <=> \A q \in B : ToSet(g.outs[q]) \cap ToSet(g.ins[r]) = {}
    BY <1>1
  <2> QED
    BY <2>1
<1> QED
  BY <1>2 DEF Acyclic, Loopless

LEMMA OverlayFacts ==
  ASSUME NEW g, NEW r, r \notin g.recipes, NEW in, NEW out, NEW o, o = Overlay(g, r, in, out)
  PROVE  /\ o.recipes = g.recipes \cup {r}
         /\ Ins(o, r) = ToSet(in) /\ Outs(o, r) = ToSet(out)
         /\ \A q \in g.recipes : Ins(o, q) = ToSet(g.ins[q]) /\ Outs(o, q) = ToSet(g.outs[q])
BY DEF Overlay, Ins, Outs

LEMMA CycleCheck ==
  ASSUME NEW g, IsFiniteSet(g.recipes), Loopless(g.recipes, g.ins, g.outs),
         NEW r, r \notin g.recipes, NEW in, NEW out
  PROVE  WouldCreateCycle(g, r, in, out)
           <=> ~Acyclic(Overlay(g, r, in, out), Overlay(g, r, in, out).recipes)
<1>1. PICK o, U : o = Overlay(g, r, in, out) /\ U = UpstreamDatasets(o, ToSet(in))
  OBVIOUS
<1>2. /\ o.recipes = g.recipes \cup {r}
      /\ Ins(o, r) = ToSet(in) /\ Outs(o, r) = ToSet(out)
      /\ \A q \in g.recipes : Ins(o, q) = ToSet(g.ins[q]) /\ Outs(o, q) = ToSet(g.outs[q])
  BY <1>1, OverlayFacts
<1>3. IsFiniteSet(o.recipes)
  BY <1>2, FS_AddElement
<1>4. /\ ToSet(in) \subseteq U /\ Closed(o, U)
      /\ \A K : ToSet(in) \subseteq K /\ Closed(o, K) => U \subseteq K
  BY <1>1, <1>3, WalkIsLeast
<1>5. WouldCreateCycle(g, r, in, out) <=> U \cap ToSet(out) # {}
  BY <1>1 DEF WouldCreateCycle
<1>6. ASSUME U \cap ToSet(out) = {}, NEW B \in SUBSET o.recipes, B # {}
      PROVE  \E q \in B : UpstreamOf(o, q) \cap B = {}
  <2>1. ASSUME NEW A, A \subseteq B, A # {}, r \notin A
        PROVE  \E q \in A : \A p \in A : p \notin UpstreamOf(o, q)
    <3>1. A \in SUBSET g.recipes
      BY <1>2, <2>1
    <3>2. PICK q \in A : \A p \in A : ToSet(g.outs[p]) \cap ToSet(g.ins[q]) = {}
      BY <2>1, <3>1 DEF Loopless
    <3> QED
      BY <1>2, <3>1, <3>2, UpstreamMeans
  <2>2. PICK V : V = {q \in o.recipes : Outs(o, q) \cap U # {}}
    OBVIOUS
  <2>3. r \notin V /\ \A q \in V : Ins(o, q) \subseteq U
    BY <1>2, <1>4, <1>6, <2>2 DEF Closed
  <2>4. CASE r \notin B
    <3>1. PICK q \in B : \A p \in B : p \notin UpstreamOf(o, q)
      BY <1>6, <2>1, <2>4
    <3> QED
      BY <3>1
  <2>5. CASE r \in B /\ B \cap V # {}
    <3>1. PICK q \in B \cap V : \A p \in B \cap V : p \notin UpstreamOf(o, q)
      BY <2>1, <2>3, <2>5
    <3>2. \A p \in UpstreamOf(o, q) : p \in V
      BY <2>2, <2>3, <3>1, UpstreamMeans
    <3> QED
      BY <3>1, <3>2
  <2>6. CASE r \in B /\ B \cap V = {}
    <3>1. \A p \in UpstreamOf(o, r) : p \in V
      BY <1>2, <1>4, <2>2, UpstreamMeans
    <3> QED
      BY <2>6, <3>1
  <2> QED
    BY <2>4, <2>5, <2>6
<1>7. ASSUME U \cap ToSet(out) # {}, Acyclic(o, o.recipes)
      PROVE  FALSE
  <2>1. PICK W, Free : /\ W = UNION {Ins(o, q) : q \in o.recipes}
                       /\ Free = {K \in SUBSET W : Closed(o, K) /\ K \cap ToSet(out) = {}}
    OBVIOUS
  <2>2. PICK C : C = {p \in o.recipes : \A K \in Free : ~(Ins(o, p) \subseteq K)}
    OBVIOUS
  <2>3. r \in C
    BY <1>2, <1>4, <1>7, <2>1, <2>2
  <2>4. PICK p \in C : UpstreamOf(o, p) \cap C = {}
    BY <1>7, <2>2, <2>3 DEF Acyclic
  <2>5. PICK M : M = UNION Free
    OBVIOUS
  <2>6. M \subseteq W /\ Closed(o, M) /\ M \cap ToSet(out) = {}
    BY <2>1, <2>5 DEF Closed
  <2>7. \A q \in UpstreamOf(o, p) : Ins(o, q) \subseteq M
    <3> SUFFICES ASSUME NEW q \in UpstreamOf(o, p)
                 PROVE  Ins(o, q) \subseteq M
      OBVIOUS
    <3>1. q \in o.recipes /\ q \notin C
      BY <2>4, UpstreamMeans
    <3>2. PICK K \in Free : Ins(o, q) \subseteq K
      BY <2>2, <3>1
    <3> QED
      BY <2>5, <3>2
  <2>8. Closed(o, Ins(o, p) \cup M)
    <3> SUFFICES ASSUME NEW q \in o.recipes, Outs(o, q) \cap (Ins(o, p) \cup M) # {}
                 PROVE  Ins(o, q) \subseteq M
      BY DEF Closed
    <3>1. CASE Outs(o, q) \cap M # {}
      BY <2>6, <3>1 DEF Closed
    <3>2. CASE Outs(o, q) \cap Ins(o, p) # {}
      BY <2>7, <3>2, UpstreamMeans
    <3> QED
      BY <3>1, <3>2
  <2>9. Ins(o, p) \cup M \in SUBSET W
    BY <2>1, <2>2, <2>6
  <2>10. Ins(o, p) \cap ToSet(out) # {}
    BY <2>1, <2>2, <2>4, <2>6, <2>8, <2>9
  <2>11. r \in UpstreamOf(o, p)
    BY <1>2, <2>10, UpstreamMeans
  <2> QED
    BY <2>3, <2>4, <2>11
<1>8. U \cap ToSet(out) = {} => Acyclic(o, o.recipes)
  BY <1>6 DEF Acyclic
<1> QED
  BY <1>1, <1>5, <1>7, <1>8

\* On a graph without a loop, would_create_cycle rejects a wiring of one more recipe
\* exactly if Kahn's algorithm could not order the graph with it
\* (recipes_service.py 75-110).
THEOREM CycleCheckIsExact ==
  ASSUME NEW g, g.recipes \subseteq Nat, IsFiniteSet(g.recipes), ~Cyclic(g, g.recipes),
         NEW r \in Nat \ g.recipes, NEW in, NEW out
  PROVE  WouldCreateCycle(g, r, in, out)
           <=> Cyclic(Overlay(g, r, in, out), Overlay(g, r, in, out).recipes)
<1>1. Loopless(g.recipes, g.ins, g.outs)
  BY TopoOrderSorts, AcyclicMeans
<1>2. PICK o : o = Overlay(g, r, in, out)
  OBVIOUS
<1>3. o.recipes = g.recipes \cup {r}
  BY <1>2, OverlayFacts
<1>4. o.recipes \subseteq Nat /\ IsFiniteSet(o.recipes)
  BY <1>3, FS_AddElement
<1>5. Cyclic(o, o.recipes) <=> ~Acyclic(o, o.recipes)
  BY <1>4, TopoOrderSorts
<1> QED
  BY <1>1, <1>2, <1>5, CycleCheck

-----------------------------------------------------------------------------
(* The plan of a build.                                                      *)

LEMMA MaxFacts ==
  ASSUME NEW n \in Nat, NEW S, S \subseteq 0..n, S # {}
  PROVE  Max(S) \in S /\ \A y \in S : Max(S) >= y
<1>1. PICK U : U = {u \in Nat : \A y \in S : y <= u}
  OBVIOUS
<1>2. U \subseteq Nat /\ n \in U
  BY <1>1
<1>3. PICK m \in U : \A k \in U : <<k, m>> \notin OpToRel(<, Nat)
  BY <1>2, NatLessThanWellFounded, WFMin
<1>4. m \in Nat /\ \A k \in U : ~(k < m)
  BY <1>2, <1>3 DEF OpToRel
<1>5. \A y \in S : y \in Nat /\ y <= m
  <2>1. m \in U
    BY <1>3
  <2>2. \A y \in S : y <= m
    BY <1>1, <2>1
  <2>3. \A y \in S : y \in Nat
    OBVIOUS
  <2> QED
    BY <2>2, <2>3
<1>6. m \in S
  <2> SUFFICES ASSUME m \notin S
               PROVE  FALSE
    OBVIOUS
  <2>1. \A y \in S : y \in Nat /\ y < m
    <3>1. \A y \in S : y # m
      OBVIOUS
    <3> QED
      BY <1>4, <1>5, <3>1
  <2>2. m # 0
    <3>1. PICK y \in S : TRUE
      OBVIOUS
    <3> QED
      BY <2>1, <3>1
  <2>3. m - 1 \in Nat /\ m - 1 < m
    BY <1>4, <2>2
  <2>4. \A y \in S : y <= m - 1
    BY <1>4, <2>1
  <2> QED
    BY <1>1, <1>4, <2>3, <2>4
<1>7. \A y \in S : m >= y
  BY <1>4, <1>5
<1>8. \E x \in S : \A y \in S : x >= y
  BY <1>6, <1>7
<1> QED
  BY <1>8 DEF Max

LEMMA NonEmptyFacts ==
  ASSUME NEW D, NEW s \in Seq(D)
  PROVE  /\ ToSet(s) \subseteq D /\ s # <<>> => ToSet(s) # {} /\ s[1] \in ToSet(s) /\ Head(s) = s[1]
         /\ \A i \in 1..Len(s) : s[i] \in ToSet(s)
         /\ \A x \in ToSet(s) : \E i \in 1..Len(s) : s[i] = x
<1>1. DOMAIN s = 1..Len(s) /\ Len(s) \in Nat /\ s \in [1..Len(s) -> D]
  OBVIOUS
<1>2. s # <<>> => Len(s) # 0 /\ Head(s) = s[1]
  OBVIOUS
<1>3. ToSet(s) = {s[i] : i \in 1..Len(s)}
  BY <1>1 DEF ToSet
<1>4. s # <<>> => 1 \in 1..Len(s)
  BY <1>1, <1>2
<1> QED
  BY <1>1, <1>2, <1>3, <1>4

\* The plan after one more recipe of the order, and the plans recipe by recipe.
Extended(force, r, steps) ==
  IF force \/ OutputStale(r) \/ FeedsFrom(r) \cap Chosen(steps) # {}
    THEN Append(steps, <<r, Primary(r)>>)
    ELSE steps

Planning(order, force) ==
  LET steps[n \in 0..Len(order)] ==
        IF n = 0 THEN <<>>
        ELSE LET r == order[n] IN
             IF force \/ OutputStale(r) \/ FeedsFrom(r) \cap Chosen(steps[n - 1]) # {}
               THEN Append(steps[n - 1], <<r, Primary(r)>>)
               ELSE steps[n - 1]
  IN  steps

LEMMA PlanRounds ==
  ASSUME NEW C, NEW order \in Seq(C), NEW force
  PROVE  /\ Planning(order, force)[0] = <<>>
         /\ \A n \in 0..(Len(order) - 1) :
              Planning(order, force)[n + 1] = Extended(force, order[n + 1], Planning(order, force)[n])
<1>1. PICK N : N = Len(order) /\ N \in Nat
  OBVIOUS
<1>2. PICK X : X = Seq({<<r, Primary(r)>> : r \in C})
  OBVIOUS
<1>3. \A r \in C : \A s \in X : Extended(force, r, s) \in X
  BY <1>2 DEF Extended
<1>4. \A n \in 1..N : order[n] \in C
  BY <1>1
<1>5. PICK step : step = [n \in Nat |-> [s \in X |->
                            IF n \in 1..N THEN Extended(force, order[n], s) ELSE s]]
  OBVIOUS
<1>6. step \in [Nat -> [X -> X]] /\ <<>> \in X
  BY <1>2, <1>3, <1>4, <1>5
<1>7. PICK f \in [Nat -> X] : Iterates(f, <<>>, step)
  BY <1>6, IterationExists
<1> DEFINE Makes(h) == h = [n \in 0..Len(order) |->
                              IF n = 0 THEN <<>> ELSE Extended(force, order[n], h[n - 1])]
<1>8. PICK g : g = [n \in 0..N |-> f[n]]
  OBVIOUS
<1>9. ASSUME NEW n \in 0..N
      PROVE  g[n] = IF n = 0 THEN <<>> ELSE Extended(force, order[n], g[n - 1])
  <2>1. CASE n = 0
    BY <1>1, <1>7, <1>8, <2>1 DEF Iterates
  <2>2. CASE n # 0
    <3>1. n - 1 \in Nat /\ n - 1 \in 0..N /\ (n - 1) + 1 = n /\ n \in 1..N /\ n \in Nat
      BY <1>1, <2>2
    <3>2. f[n] = step[n][f[n - 1]] /\ f[n - 1] \in X
      BY <1>7, <3>1 DEF Iterates
    <3>3. f[n] = Extended(force, order[n], f[n - 1])
      BY <1>5, <3>1, <3>2
    <3> QED
      BY <1>8, <2>2, <3>1, <3>3
  <2> QED
    BY <2>1, <2>2
<1>10. Makes(g)
  BY <1>1, <1>8, <1>9
<1>11. Planning(order, force) = CHOOSE h : Makes(h)
  BY DEF Planning, Extended
<1> HIDE DEF Makes
<1>12. PICK w : w = Planning(order, force) /\ Makes(w)
  BY <1>10, <1>11
<1>13. w = [n \in 0..N |-> IF n = 0 THEN <<>> ELSE Extended(force, order[n], w[n - 1])]
  BY <1>1, <1>12 DEF Makes
<1>14. ASSUME NEW n \in 0..(N - 1)
       PROVE  w[n + 1] = Extended(force, order[n + 1], w[n])
  <2>1. n + 1 \in 0..N /\ n + 1 # 0 /\ (n + 1) - 1 = n
    BY <1>1
  <2>2. w[n + 1] = Extended(force, order[n + 1], w[(n + 1) - 1])
    BY <1>13, <2>1
  <2> QED
    BY <2>1, <2>2
<1> QED
  BY <1>1, <1>12, <1>13, <1>14

\* What a plan P for the first n recipes of an order holds: steps in that order, and
\* every recipe left out is up to date with its config and with what will be built.
Planned(order, n, P) ==
  /\ P \in Seq({<<r, Primary(r)>> : r \in {order[k] : k \in 1..n}})
  /\ \A i, j \in 1..Len(P) : /\ i < j => P[i][1] # P[j][1]
                             /\ i <= j => P[j][1] \notin FeedsFrom(P[i][1])
  /\ \A k \in 1..n : order[k] \notin Chosen(P) =>
                       ~OutputStale(order[k]) /\ FeedsFrom(order[k]) \cap Chosen(P) = {}

LEMMA ChosenFacts ==
  ASSUME NEW A, NEW P \in Seq(A)
  PROVE  /\ \A i \in 1..Len(P) : P[i][1] \in Chosen(P)
         /\ \A r \in Chosen(P) : \E i \in 1..Len(P) : P[i][1] = r
         /\ \A x : Chosen(Append(P, x)) = Chosen(P) \cup {x[1]}
<1>1. ToSet(P) = {P[i] : i \in 1..Len(P)}
  BY DEF ToSet
<1>2. ASSUME NEW x
      PROVE  ToSet(Append(P, x)) = ToSet(P) \cup {x}
  <2>1. PICK Q : Q = Append(P, x)
    OBVIOUS
  <2>2. Len(P) \in Nat /\ Len(Q) = Len(P) + 1 /\ DOMAIN Q = 1..(Len(P) + 1)
        /\ Q[Len(P) + 1] = x /\ \A i \in 1..Len(P) : Q[i] = P[i]
    BY <2>1
  <2>3. ToSet(Q) = {Q[i] : i \in 1..(Len(P) + 1)}
    BY <2>2 DEF ToSet
  <2>4. 1..(Len(P) + 1) = 1..Len(P) \cup {Len(P) + 1}
    BY <2>2
  <2>5. {Q[i] : i \in 1..(Len(P) + 1)} = {P[i] : i \in 1..Len(P)} \cup {x}
    BY <2>2, <2>4
  <2> QED
    BY <1>1, <2>1, <2>3, <2>5
<1> QED
  BY <1>1, <1>2 DEF Chosen

LEMMA PlanFacts ==
  ASSUME NEW C, C \subseteq ActiveRecipes, IsFiniteSet(C), NEW order, Ordered(Graph, C, order), NEW force
  PROVE  Planned(order, Len(order), Planning(order, force)[Len(order)])
<1>1. PICK N : N = Len(order)
  OBVIOUS
<1>2. /\ N \in Nat /\ order \in Seq(C)
      /\ \A i \in 1..N : order[i] \in C
      /\ \A i, j \in 1..N : order[i] = order[j] => i = j
  BY <1>1, OrderedFacts DEF Ordered
<1>3. \A i \in 1..N : \A q \in FeedsFrom(order[i]) \cap C : \E j \in 1..N : j < i /\ order[j] = q
  BY <1>1 DEF Ordered, Dependencies, FeedsFrom
<1>4. \A i, j \in 1..N : i <= j => order[j] \notin FeedsFrom(order[i])
  <2> SUFFICES ASSUME NEW i \in 1..N, NEW j \in 1..N, i <= j, order[j] \in FeedsFrom(order[i])
               PROVE  FALSE
    OBVIOUS
  <2>1. PICK k \in 1..N : k < i /\ order[k] = order[j]
    BY <1>2, <1>3
  <2>2. k = j
    BY <1>2, <2>1
  <2> QED
    BY <2>1, <2>2
<1>5. PICK w : w = Planning(order, force)
  OBVIOUS
<1>6. w[0] = <<>> /\ \A n \in 0..(N - 1) : w[n + 1] = Extended(force, order[n + 1], w[n])
  BY <1>1, <1>2, <1>5, PlanRounds
<1> DEFINE S == {n \in Nat : n <= N => Planned(order, n, w[n])}
<1>7. 0 \in S
  <2>1. Planned(order, 0, <<>>)
    <3>1. Len(<<>>) = 0
      OBVIOUS
    <3> QED
      BY <3>1 DEF Planned
  <2> QED
    BY <1>6, <2>1
<1>8. ASSUME NEW n \in Nat, n \in S
      PROVE  n + 1 \in S
  <2> SUFFICES ASSUME n + 1 <= N
               PROVE  Planned(order, n + 1, w[n + 1])
    OBVIOUS
  <2>1. n \in 0..(N - 1) /\ n + 1 \in 1..N /\ n + 1 \in Nat
    BY <1>2
  <2>2. PICK P, r : P = w[n] /\ r = order[n + 1]
    OBVIOUS
  <2>3. Planned(order, n, P)
    BY <1>2, <1>8, <2>2
  <2>4. PICK A, B : /\ A = {<<q, Primary(q)>> : q \in {order[k] : k \in 1..n}}
                    /\ B = {<<q, Primary(q)>> : q \in {order[k] : k \in 1..(n + 1)}}
    OBVIOUS
  <2>5. A \subseteq B /\ <<r, Primary(r)>> \in B
    BY <2>1, <2>2, <2>4
  <2>6. P \in Seq(A) /\ P \in Seq(B)
    <3>1. P \in Seq(A)
      BY <2>3, <2>4 DEF Planned
    <3> QED
      BY <2>5, <3>1
  <2>7. Len(P) \in Nat /\ \A i \in 1..Len(P) : \E k \in 1..n : P[i][1] = order[k]
    <3>1. Len(P) \in Nat /\ \A i \in 1..Len(P) : P[i] \in A
      BY <2>6
    <3> QED
      BY <2>4, <3>1
  <2>8. \A k \in 1..n : k \in 1..N /\ k <= n + 1 /\ k # n + 1
    BY <1>2, <2>1
  <2>9. \A i \in 1..Len(P) : P[i][1] # r /\ r \notin FeedsFrom(P[i][1])
    BY <1>2, <1>4, <2>1, <2>2, <2>7, <2>8
  <2>10. r \notin FeedsFrom(r)
    BY <1>4, <2>1, <2>2
  <2>11. \A k \in 1..n : r \notin FeedsFrom(order[k])
    BY <1>4, <2>1, <2>2, <2>8
  <2>12. w[n + 1] = Extended(force, r, P)
    BY <1>6, <2>1, <2>2
  <2>13. CASE force \/ OutputStale(r) \/ FeedsFrom(r) \cap Chosen(P) # {}
    <3>1. PICK Q : Q = Append(P, <<r, Primary(r)>>)
      OBVIOUS
    <3>2. /\ Q \in Seq(B) /\ Len(Q) = Len(P) + 1
          /\ Q[Len(P) + 1][1] = r
          /\ \A i \in 1..Len(P) : Q[i] = P[i]
      BY <2>5, <2>6, <3>1
    <3>3. ASSUME NEW i \in 1..Len(Q), NEW j \in 1..Len(Q)
          PROVE  /\ i < j => Q[i][1] # Q[j][1]
                 /\ i <= j => Q[j][1] \notin FeedsFrom(Q[i][1])
      <4>1. CASE i \in 1..Len(P) /\ j \in 1..Len(P)
        BY <2>3, <3>2, <4>1 DEF Planned
      <4>2. CASE i \in 1..Len(P) /\ j = Len(P) + 1
        BY <2>9, <3>2, <4>2
      <4>3. CASE i = Len(P) + 1 /\ j \in 1..Len(P)
        BY <2>7, <4>3
      <4>4. CASE i = Len(P) + 1 /\ j = Len(P) + 1
        BY <2>7, <2>10, <3>2, <4>4
      <4> QED
        BY <2>7, <3>2, <4>1, <4>2, <4>3, <4>4
    <3>4. Chosen(Q) = Chosen(P) \cup {r}
      BY <2>6, <3>1, ChosenFacts
    <3>5. ASSUME NEW k \in 1..(n + 1), order[k] \notin Chosen(Q)
          PROVE  ~OutputStale(order[k]) /\ FeedsFrom(order[k]) \cap Chosen(Q) = {}
      <4>1. k # n + 1
        BY <2>2, <3>4, <3>5
      <4>2. k \in 1..n
        BY <4>1
      <4>3. ~OutputStale(order[k]) /\ FeedsFrom(order[k]) \cap Chosen(P) = {}
        BY <2>3, <3>4, <3>5, <4>2 DEF Planned
      <4> QED
        BY <2>11, <3>4, <4>2, <4>3
    <3>6. w[n + 1] = Q
      BY <2>12, <2>13, <3>1 DEF Extended
    <3> QED
      BY <2>4, <3>2, <3>3, <3>5, <3>6 DEF Planned
  <2>14. CASE ~(force \/ OutputStale(r) \/ FeedsFrom(r) \cap Chosen(P) # {})
    <3>1. w[n + 1] = P
      BY <2>12, <2>14 DEF Extended
    <3>2. \A k \in 1..(n + 1) : k \in 1..n \/ k = n + 1
      OBVIOUS
    <3>3. ASSUME NEW k \in 1..(n + 1), order[k] \notin Chosen(P)
          PROVE  ~OutputStale(order[k]) /\ FeedsFrom(order[k]) \cap Chosen(P) = {}
      BY <2>2, <2>3, <2>14, <3>2, <3>3 DEF Planned
    <3>4. \A i, j \in 1..Len(P) : /\ i < j => P[i][1] # P[j][1]
                                  /\ i <= j => P[j][1] \notin FeedsFrom(P[i][1])
      BY <2>3 DEF Planned
    <3> QED
      BY <2>4, <2>6, <3>1, <3>3, <3>4 DEF Planned
  <2> QED
    BY <2>13, <2>14
<1> HIDE DEF S
<1>9. Nat \subseteq S
  BY <1>7, <1>8, NatRounds, Zenon
<1> QED
  BY <1>1, <1>2, <1>5, <1>9 DEF S

-----------------------------------------------------------------------------
(* Types, whatever may overlap.                                              *)

Lists == Seq(Datasets) \ {<<>>}

RowTypes ==
  /\ recipe \in [Recipes -> {"absent", "active", "archived"}]
  /\ config \in [Recipes -> Configs \cup {0}]
  /\ ins \in [Recipes -> Seq(Datasets)] /\ outs \in [Recipes -> Seq(Datasets)]
  /\ \A r \in Recipes : /\ recipe[r] = "absent" => outs[r] = <<>>
                        /\ recipe[r] # "absent" => ins[r] # <<>>
                        /\ recipe[r] = "active" => outs[r] # <<>>
                        /\ \A d \in ToSet(outs[r]) : dataset[d] # "absent"

DatasetTypes ==
  /\ dataset \in [Datasets -> {"absent", "active", "archived"}]
  /\ label \in [Datasets -> Labels]
  /\ versions = [d \in Datasets |-> versions[d]]
  /\ \A d \in Datasets : /\ \E V : versions[d] \in Seq(V)
                         /\ dataset[d] = "absent" => versions[d] = <<>>

\* A save provisions the outputs that did not exist, and sets the outputs of a recipe
\* it creates.
SaveFits(r, s) ==
  /\ s.ins \in Lists /\ s.outs \in Lists /\ s.moved \in BOOLEAN /\ s.floor \in Labels
  /\ s.label \in [Datasets -> Labels] /\ s.new \subseteq ToSet(s.outs)
  /\ recipe[r] = "absent" => s.moved
  /\ \A d \in ToSet(s.outs) \ s.new : dataset[d] # "absent"

SaveTypes ==
  /\ save = [r \in Recipes |-> save[r]]
  /\ \A r \in Recipes : save[r] # None => SaveFits(r, save[r])

JobFits(j) ==
  /\ j = [target |-> j.target, todo |-> j.todo, at |-> j.at, read |-> j.read]
  /\ j.target \in Datasets /\ j.todo \in Seq(Recipes \X Datasets) /\ j.at \in {"next", "flip"}
  /\ \A n \in 1..Len(j.todo) : recipe[j.todo[n][1]] # "absent" /\ dataset[j.todo[n][2]] # "absent"
  /\ j.at = "flip" => j.todo # <<>> /\ j.read.ins \in Lists

JobTypes == job # None => JobFits(job)

FlowTypes == rules \in Rules /\ RowTypes /\ DatasetTypes /\ SaveTypes /\ JobTypes

LEMMA FlowTypesInit == Init => FlowTypes
<1> SUFFICES ASSUME Init
             PROVE  FlowTypes
  OBVIOUS
<1> USE DEF Init
<1>1. RowTypes
  <2>1. ToSet(<<>>) = {}
    BY DEF ToSet
  <2> QED
    BY <2>1 DEF RowTypes
<1>2. DatasetTypes
  <2>1. 0 \in Labels
    BY RulesAssumption DEF Labels
  <2>2. <<>> \in Seq({})
    OBVIOUS
  <2> QED
    BY <2>1, <2>2 DEF DatasetTypes
<1>3. SaveTypes /\ JobTypes
  BY DEF SaveTypes, JobTypes
<1> QED
  BY <1>1, <1>2, <1>3 DEF FlowTypes

LEMMA TopLabel ==
  ASSUME rules \in Rules
  PROVE  rules.topLabel \in Nat
BY RulesAssumption

LEMMA FloorFacts ==
  ASSUME rules \in Rules, NEW lab \in [Datasets -> Labels], NEW s \in Lists
  PROVE  /\ Floor(lab, ToSet(s)) \in Labels
         /\ \A d \in ToSet(s) : Floor(lab, ToSet(s)) >= lab[d]
<1>1. ToSet(s) \subseteq Datasets /\ ToSet(s) # {}
  BY NonEmptyFacts DEF Lists
<1>2. PICK S : S = {lab[d] : d \in ToSet(s)}
  OBVIOUS
<1>3. S \subseteq 0..rules.topLabel /\ S # {}
  BY <1>1, <1>2 DEF Labels
<1>4. Max(S) \in S /\ \A y \in S : Max(S) >= y
  BY <1>3, TopLabel, MaxFacts
<1>5. Floor(lab, ToSet(s)) = Max(S)
  BY <1>2 DEF Floor
<1> QED
  BY <1>2, <1>3, <1>4, <1>5 DEF Labels

\* Nothing about the types changes with the datasets' labels and versions, nor as
\* datasets and recipes come to exist.
LEMMA RowsStay ==
  ASSUME RowTypes, UNCHANGED recipeVars, NEW D, \A d \in D : dataset[d] # "absent" => dataset'[d] # "absent",
         \A r \in Recipes : ToSet(outs[r]) \subseteq D
  PROVE  RowTypes'
BY DEF RowTypes, recipeVars

LEMMA SavesStay ==
  ASSUME SaveTypes, UNCHANGED <<save, rules>>,
         \A r \in Recipes : recipe'[r] = "absent" => recipe[r] = "absent",
         \A d \in Datasets : dataset[d] # "absent" => dataset'[d] # "absent"
  PROVE  SaveTypes'
<1>1. \A s : s \in Lists => ToSet(s) \subseteq Datasets
  BY NonEmptyFacts DEF Lists
<1> QED
  BY <1>1 DEF SaveTypes, SaveFits, Labels

LEMMA JobStays ==
  ASSUME JobTypes, UNCHANGED job,
         \A r \in Recipes : recipe'[r] = "absent" => recipe[r] = "absent",
         \A d \in Datasets : dataset[d] # "absent" => dataset'[d] # "absent"
  PROVE  JobTypes'
<1> SUFFICES ASSUME job # None
             PROVE  JobFits(job)'
  BY DEF JobTypes
<1>1. JobFits(job)
  BY DEF JobTypes
<1>2. \A n \in 1..Len(job.todo) : job.todo[n][1] \in Recipes /\ job.todo[n][2] \in Datasets
  BY <1>1 DEF JobFits
<1> QED
  BY <1>1, <1>2 DEF JobFits, Lists

LEMMA OutsFacts ==
  ASSUME RowTypes
  PROVE  \A r \in Recipes : /\ outs[r] \in Seq(Datasets) /\ ToSet(outs[r]) \subseteq Datasets
                            /\ ins[r] \in Seq(Datasets) /\ ToSet(ins[r]) \subseteq Datasets
<1> SUFFICES ASSUME NEW r \in Recipes
             PROVE  /\ outs[r] \in Seq(Datasets) /\ ToSet(outs[r]) \subseteq Datasets
                    /\ ins[r] \in Seq(Datasets) /\ ToSet(ins[r]) \subseteq Datasets
  OBVIOUS
<1>1. outs[r] \in Seq(Datasets) /\ ins[r] \in Seq(Datasets)
  BY DEF RowTypes
<1> QED
  BY <1>1, NonEmptyFacts

LEMMA DatasetStepTypes ==
  ASSUME FlowTypes, rules' = rules, NEW d \in Datasets, NEW l \in Labels,
         CreateDataset(d, l) \/ PatchLabel(d, l) \/ ArchiveDataset(d)
  PROVE  FlowTypes'
<1> USE DEF FlowTypes
<1>1. \A e \in Datasets : dataset[e] # "absent" => dataset'[e] # "absent"
  BY DEF DatasetTypes, CreateDataset, PatchLabel, ArchiveDataset, datasetVars
<1>2. UNCHANGED recipeVars /\ UNCHANGED <<save, job>>
  BY DEF CreateDataset, PatchLabel, ArchiveDataset
<1>3. RowTypes'
  <2>1. \A r \in Recipes : ToSet(outs[r]) \subseteq Datasets
    BY OutsFacts
  <2> QED
    BY <1>1, <1>2, <2>1, RowsStay
<1>4. SaveTypes' /\ JobTypes'
  BY <1>1, <1>2, SavesStay, JobStays DEF recipeVars
<1>5. DatasetTypes'
  <2>1. CASE CreateDataset(d, l)
    <3>1. versions'[d] = <<SourceVersion(d)>> /\ <<SourceVersion(d)>> \in Seq({SourceVersion(d)})
      BY <2>1 DEF CreateDataset, DatasetTypes
    <3>2. \A e \in Datasets \ {d} : versions'[e] = versions[e] /\ dataset'[e] = dataset[e]
      BY <2>1 DEF CreateDataset, DatasetTypes
    <3>3. dataset'[d] = "active" /\ versions' = [e \in Datasets |-> versions'[e]]
      BY <2>1 DEF CreateDataset, DatasetTypes
    <3>4. /\ dataset' \in [Datasets -> {"absent", "active", "archived"}]
          /\ label' \in [Datasets -> Labels'] 
      BY <2>1 DEF CreateDataset, DatasetTypes, Labels
    <3>5. ASSUME NEW e \in Datasets
          PROVE  (\E V : versions'[e] \in Seq(V)) /\ (dataset'[e] = "absent" => versions'[e] = <<>>)
      <4>1. CASE e = d
        BY <3>1, <3>3, <4>1
      <4>2. CASE e # d
        BY <3>2, <4>2 DEF DatasetTypes
      <4> QED
        BY <4>1, <4>2
    <3> QED
      BY <3>3, <3>4, <3>5 DEF DatasetTypes
  <2>2. CASE PatchLabel(d, l)
    BY <2>2 DEF PatchLabel, DatasetTypes, Labels
  <2>3. CASE ArchiveDataset(d)
    BY <2>3 DEF ArchiveDataset, DatasetTypes, Labels
  <2> QED
    BY <2>1, <2>2, <2>3
<1> QED
  BY <1>3, <1>4, <1>5

LEMMA DatasetsStay ==
  ASSUME DatasetTypes, UNCHANGED datasetVars, rules' = rules
  PROVE  DatasetTypes'
BY DEF DatasetTypes, datasetVars, Labels

LEMMA RecipeStepTypes ==
  ASSUME FlowTypes, rules' = rules, NEW r \in Recipes,
         (\E c \in Configs : PatchConfig(r, c)) \/ ArchiveRecipe(r)
  PROVE  FlowTypes'
<1> USE DEF FlowTypes
<1>1. \A q \in Recipes : recipe'[q] = "absent" => recipe[q] = "absent"
  BY DEF RowTypes, PatchConfig, ArchiveRecipe
<1>2. UNCHANGED datasetVars /\ UNCHANGED <<save, job>>
  BY DEF PatchConfig, ArchiveRecipe
<1>3. SaveTypes' /\ JobTypes' /\ DatasetTypes'
  BY <1>1, <1>2, SavesStay, JobStays, DatasetsStay DEF datasetVars
<1>4. RowTypes'
  <2>1. CASE \E c \in Configs : PatchConfig(r, c)
    BY <2>1 DEF PatchConfig, RowTypes, datasetVars
  <2>2. CASE ArchiveRecipe(r)
    <3>1. <<>> \in Seq(Datasets) /\ ToSet(<<>>) = {}
      BY DEF ToSet
    <3>2. outs' = [outs EXCEPT ![r] = <<>>] /\ recipe' = [recipe EXCEPT ![r] = "archived"]
          /\ UNCHANGED <<config, ins, dataset>> /\ recipe[r] = "active"
      BY <2>2 DEF ArchiveRecipe, NoOutputs, datasetVars
    <3> QED
      BY <3>1, <3>2 DEF RowTypes
  <2> QED
    BY <2>1, <2>2
<1> QED
  BY <1>3, <1>4

\* What a save reads and asks for: the parts it gives and the rows of the others.
LEMMA BeginSaveParts ==
  ASSUME NEW r \in Recipes, NEW w \in rules.wirings, BeginSave(r, w)
  PROVE  \E given, in, out, s :
    /\ given \in rules.given
    /\ in = IF "ins" \in given THEN w[1] ELSE ins[r]
    /\ out = IF "outs" \in given THEN w[2] ELSE outs[r]
    /\ Alone /\ UNCHANGED <<recipeVars, datasetVars, job>>
    /\ recipe[r] = "active" \/ (recipe[r] = "absent" /\ given = {"ins", "outs"})
    /\ "ins" \in given => \A d \in ToSet(in) : dataset[d] = "active"
    /\ "outs" \in given => \A d \in ToSet(out) : dataset[d] # "archived" /\ ~ProducedElsewhere(d, r)
    /\ ~RejectsCycle(r, in, out)
    /\ s = [ins |-> in, outs |-> out, moved |-> "outs" \in given, label |-> label,
            floor |-> IF "ins" \in given THEN Floor(label, ToSet(in)) ELSE 0,
            new |-> {d \in ToSet(out) : dataset[d] = "absent"}]
    /\ save' = [save EXCEPT ![r] = s]
<1>1. PICK given \in rules.given :
        LET in == IF "ins" \in given THEN w[1] ELSE ins[r]
            out == IF "outs" \in given THEN w[2] ELSE outs[r]
        IN
        /\ Alone /\ UNCHANGED <<recipeVars, datasetVars, job>>
        /\ recipe[r] = "active" \/ (recipe[r] = "absent" /\ given = {"ins", "outs"})
        /\ "ins" \in given => \A d \in ToSet(in) : dataset[d] = "active"
        /\ "outs" \in given => \A d \in ToSet(out) : dataset[d] # "archived" /\ ~ProducedElsewhere(d, r)
        /\ ~RejectsCycle(r, in, out)
        /\ save' = [save EXCEPT ![r] =
              [ins |-> in, outs |-> out, moved |-> "outs" \in given, label |-> label,
               floor |-> IF "ins" \in given THEN Floor(label, ToSet(in)) ELSE 0,
               new |-> {d \in ToSet(out) : dataset[d] = "absent"}]]
  BY DEF BeginSave
<1> DEFINE in == IF "ins" \in given THEN w[1] ELSE ins[r]
           out == IF "outs" \in given THEN w[2] ELSE outs[r]
           s == [ins |-> in, outs |-> out, moved |-> "outs" \in given, label |-> label,
                 floor |-> IF "ins" \in given THEN Floor(label, ToSet(in)) ELSE 0,
                 new |-> {d \in ToSet(out) : dataset[d] = "absent"}]
<1>2. /\ Alone /\ UNCHANGED <<recipeVars, datasetVars, job>>
      /\ recipe[r] = "active" \/ (recipe[r] = "absent" /\ given = {"ins", "outs"})
      /\ "ins" \in given => \A d \in ToSet(in) : dataset[d] = "active"
      /\ "outs" \in given => \A d \in ToSet(out) : dataset[d] # "archived" /\ ~ProducedElsewhere(d, r)
      /\ ~RejectsCycle(r, in, out)
      /\ save' = [save EXCEPT ![r] = s]
  BY <1>1
<1>3. /\ in = IF "ins" \in given THEN w[1] ELSE ins[r]
      /\ out = IF "outs" \in given THEN w[2] ELSE outs[r]
      /\ s = [ins |-> in, outs |-> out, moved |-> "outs" \in given, label |-> label,
              floor |-> IF "ins" \in given THEN Floor(label, ToSet(in)) ELSE 0,
              new |-> {d \in ToSet(out) : dataset[d] = "absent"}]
  OBVIOUS
<1> HIDE DEF in, out, s
<1> QED
  BY <1>2, <1>3

LEMMA BeginSaveTypes ==
  ASSUME FlowTypes, rules' = rules, NEW r \in Recipes, NEW w \in rules.wirings, BeginSave(r, w)
  PROVE  FlowTypes'
<1> USE DEF FlowTypes
<1>1. PICK given, in, out, s :
        /\ given \in rules.given
        /\ in = IF "ins" \in given THEN w[1] ELSE ins[r]
        /\ out = IF "outs" \in given THEN w[2] ELSE outs[r]
        /\ recipe[r] = "active" \/ (recipe[r] = "absent" /\ given = {"ins", "outs"})
        /\ s = [ins |-> in, outs |-> out, moved |-> "outs" \in given, label |-> label,
                floor |-> IF "ins" \in given THEN Floor(label, ToSet(in)) ELSE 0,
                new |-> {d \in ToSet(out) : dataset[d] = "absent"}]
        /\ save' = [save EXCEPT ![r] = s]
        /\ UNCHANGED <<recipeVars, datasetVars, job>>
  BY BeginSaveParts
<1>2. w \in (Seq(Datasets) \ {<<>>}) \X (Seq(Datasets) \ {<<>>})
  BY RulesAssumption
<1>3. in \in Lists /\ out \in Lists
  <2>1. recipe[r] = "active" => ins[r] \in Lists /\ outs[r] \in Lists
    BY DEF RowTypes, Lists
  <2>2. w[1] \in Lists /\ w[2] \in Lists
    BY <1>2 DEF Lists
  <2> QED
    BY <1>1, <2>1, <2>2
<1>4. UNCHANGED <<recipeVars, datasetVars, job>>
  BY <1>1
<1>5. RowTypes' /\ DatasetTypes' /\ JobTypes'
  <2>1. \A q \in Recipes : ToSet(outs[q]) \subseteq Datasets
    BY OutsFacts
  <2> QED
    BY <1>4, <2>1, RowsStay, DatasetsStay, JobStays DEF datasetVars, recipeVars
<1>6. s.floor \in Labels
  <2>1. Floor(label, ToSet(in)) \in Labels
    BY <1>3, FloorFacts DEF DatasetTypes
  <2>2. 0 \in Labels
    BY RulesAssumption DEF Labels
  <2> QED
    BY <1>1, <2>1, <2>2
<1>7. save' = [save EXCEPT ![r] = s]
  BY <1>1
<1>8. SaveFits(r, s)
  <2>1. recipe[r] = "absent" => s.moved
    BY <1>1
  <2>2. s.ins = in /\ s.outs = out /\ s.moved \in BOOLEAN /\ s.label = label
        /\ s.new = {d \in ToSet(out) : dataset[d] = "absent"}
    BY <1>1
  <2> QED
    BY <1>3, <1>6, <2>1, <2>2 DEF SaveFits, DatasetTypes
<1>9. \A q \in Recipes : SaveFits(q, save'[q]) => SaveFits(q, save[q])'
  BY <1>4 DEF SaveFits, Labels, recipeVars, datasetVars
<1>10. SaveTypes'
  <2>1. save' = [q \in Recipes |-> save'[q]] /\ save'[r] = s
        /\ \A q \in Recipes \ {r} : save'[q] = save[q]
    BY <1>7 DEF SaveTypes
  <2>2. \A q \in Recipes : save'[q] # None => SaveFits(q, save'[q])
    BY <1>8, <2>1 DEF SaveTypes
  <2> QED
    BY <1>9, <2>1, <2>2 DEF SaveTypes
<1> QED
  BY <1>5, <1>10

LEMMA AbortSaveTypes ==
  ASSUME FlowTypes, rules' = rules, NEW r \in Recipes, AbortSave(r)
  PROVE  FlowTypes'
<1> USE DEF FlowTypes
<1>1. UNCHANGED <<recipeVars, datasetVars, job>>
  BY DEF AbortSave
<1>2. RowTypes' /\ DatasetTypes' /\ JobTypes'
  <2>1. \A q \in Recipes : ToSet(outs[q]) \subseteq Datasets
    BY OutsFacts
  <2> QED
    BY <1>1, <2>1, RowsStay, DatasetsStay, JobStays DEF datasetVars, recipeVars
<1>3. save' = [save EXCEPT ![r] = None]
  BY DEF AbortSave
<1>4. \A q \in Recipes : SaveFits(q, save'[q]) => SaveFits(q, save[q])'
  BY <1>1 DEF SaveFits, Labels, recipeVars, datasetVars
<1>5. SaveTypes'
  <2>1. save' = [q \in Recipes |-> save'[q]] /\ save'[r] = None
        /\ \A q \in Recipes \ {r} : save'[q] = save[q]
    BY <1>3 DEF SaveTypes
  <2> QED
    BY <1>4, <2>1 DEF SaveTypes
<1> QED
  BY <1>2, <1>5

LEMMA EndSaveTypes ==
  ASSUME FlowTypes, rules' = rules, NEW r \in Recipes, NEW c \in Configs, EndSave(r, c)
  PROVE  FlowTypes'
<1> USE DEF FlowTypes
<1>1. PICK s : s = save[r]
  OBVIOUS
<1>2. SaveFits(r, s)
  BY <1>1 DEF EndSave, SaveTypes
<1>3. /\ recipe' = [recipe EXCEPT ![r] = IF @ = "absent" THEN "active" ELSE @]
      /\ config' = [config EXCEPT ![r] = IF recipe[r] = "absent" THEN c ELSE @]
      /\ ins' = [ins EXCEPT ![r] = s.ins]
      /\ outs' = [outs EXCEPT ![r] = IF s.moved THEN s.outs ELSE @]
      /\ dataset' = [d \in Datasets |-> IF d \in s.new THEN "active" ELSE dataset[d]]
      /\ save' = [save EXCEPT ![r] = None]
      /\ UNCHANGED <<versions, job>>
  BY <1>1 DEF EndSave
<1>4. label' = [d \in Datasets |->
        IF d \in ToSet(s.outs) /\ s.label[d] < s.floor THEN s.floor ELSE label[d]]
  BY <1>1 DEF EndSave
<1>5. \A d \in Datasets : dataset[d] # "absent" => dataset'[d] # "absent"
  BY <1>3
<1>6. \A q \in Recipes : recipe'[q] = "absent" => recipe[q] = "absent"
  BY <1>3 DEF RowTypes
<1>7. JobTypes'
  BY <1>3, <1>5, <1>6, JobStays
<1>8. \A t : t \in Lists => ToSet(t) \subseteq Datasets /\ t # <<>> /\ t \in Seq(Datasets)
  BY NonEmptyFacts DEF Lists
<1>9. SaveTypes'
  <2>1. save' = [q \in Recipes |-> save'[q]] /\ save'[r] = None
        /\ \A q \in Recipes \ {r} : save'[q] = save[q]
    BY <1>3 DEF SaveTypes
  <2>2. ASSUME NEW q \in Recipes, NEW t, SaveFits(q, t)
        PROVE  SaveFits(q, t)'
    BY <1>5, <1>6, <1>8, <2>2 DEF SaveFits, Labels, Lists
  <2> QED
    BY <2>1, <2>2 DEF SaveTypes
<1>10. DatasetTypes'
  <2>1. s.floor \in Labels
    BY <1>2 DEF SaveFits
  <2>2. label' \in [Datasets -> Labels]
    BY <1>4, <2>1 DEF DatasetTypes
  <2>3. dataset' \in [Datasets -> {"absent", "active", "archived"}]
    BY <1>3 DEF DatasetTypes
  <2>4. \A d \in Datasets : dataset'[d] = "absent" => dataset[d] = "absent"
    BY <1>5
  <2> QED
    BY <1>3, <2>2, <2>3, <2>4 DEF DatasetTypes, Labels
<1>11. RowTypes'
  <2>1. /\ recipe' \in [Recipes -> {"absent", "active", "archived"}]
        /\ config' \in [Recipes -> Configs \cup {0}]
    BY <1>3 DEF RowTypes
  <2>2. /\ ins' \in [Recipes -> Seq(Datasets)]
        /\ outs' \in [Recipes -> Seq(Datasets)]
    BY <1>2, <1>3, <1>8 DEF RowTypes, SaveFits
  <2>3. \A q \in Recipes : ToSet(outs[q]) \subseteq Datasets
    BY OutsFacts
  <2>4. /\ recipe'[r] # "absent" /\ ins'[r] # <<>>
        /\ recipe'[r] = "active" => outs'[r] # <<>>
    BY <1>2, <1>3, <1>8 DEF RowTypes, SaveFits
  <2>5. \A d \in ToSet(outs'[r]) : dataset'[d] # "absent"
    <3>1. CASE s.moved
      <4>1. outs'[r] = s.outs
        BY <1>3, <3>1 DEF RowTypes
      <4>2. \A d \in ToSet(s.outs) : d \in Datasets /\ (d \notin s.new => dataset[d] # "absent")
        BY <1>2, <1>8 DEF SaveFits
      <4> QED
        BY <1>3, <4>1, <4>2
    <3>2. CASE ~s.moved
      <4>1. outs'[r] = outs[r]
        BY <1>3, <3>2 DEF RowTypes
      <4> QED
        BY <1>5, <2>3, <4>1 DEF RowTypes
    <3> QED
      BY <3>1, <3>2
  <2>6. \A q \in Recipes \ {r} : recipe'[q] = recipe[q] /\ ins'[q] = ins[q] /\ outs'[q] = outs[q]
    BY <1>3 DEF RowTypes
  <2>7. ASSUME NEW q \in Recipes \ {r}
        PROVE  /\ recipe'[q] = "absent" => outs'[q] = <<>>
               /\ recipe'[q] # "absent" => ins'[q] # <<>>
               /\ recipe'[q] = "active" => outs'[q] # <<>>
               /\ \A d \in ToSet(outs'[q]) : dataset'[d] # "absent"
    BY <1>5, <2>3, <2>6 DEF RowTypes
  <2> QED
    BY <2>1, <2>2, <2>4, <2>5, <2>7 DEF RowTypes
<1> QED
  BY <1>7, <1>9, <1>10, <1>11

LEMMA GraphFacts ==
  /\ Graph.recipes = ActiveRecipes /\ ActiveRecipes \subseteq Recipes
  /\ ActiveRecipes \subseteq Nat /\ IsFiniteSet(ActiveRecipes)
  /\ \A r : Ins(Graph, r) = ToSet(ins[r]) /\ Outs(Graph, r) = ToSet(outs[r])
  /\ \A d : Producers(Graph, d) \subseteq ActiveRecipes
<1>1. ActiveRecipes \subseteq Recipes
  BY DEF ActiveRecipes
<1>2. ActiveRecipes \subseteq Nat /\ IsFiniteSet(ActiveRecipes)
  BY <1>1, RecipesAssumption, FS_Subset
<1>3. Graph.recipes = ActiveRecipes /\ Graph.ins = ins /\ Graph.outs = outs
  BY DEF Graph
<1> QED
  BY <1>1, <1>2, <1>3 DEF Ins, Outs, Producers

\* The recipes a build of d may run, and its plan.
BuildOf(d) == UpstreamClosure(Graph, Producers(Graph, d))

LEMMA PlanOfBuild ==
  ASSUME NEW d, NEW force
  PROVE  /\ BuildOf(d) \subseteq ActiveRecipes /\ IsFiniteSet(BuildOf(d))
         /\ Ordered(Graph, BuildOf(d), TopoOrder(Graph, BuildOf(d)))
         /\ Planned(TopoOrder(Graph, BuildOf(d)), Len(TopoOrder(Graph, BuildOf(d))), Plan(d, force))
         /\ ~Cyclic(Graph, BuildOf(d)) => ToSet(TopoOrder(Graph, BuildOf(d))) = BuildOf(d)
<1>1. PICK C : C = BuildOf(d)
  OBVIOUS
<1>2. C \subseteq ActiveRecipes
  BY <1>1, GraphFacts, ClosureIsLeast DEF BuildOf
<1>3. IsFiniteSet(C) /\ C \subseteq Nat
  BY <1>2, GraphFacts, FS_Subset
<1>4. PICK order : order = TopoOrder(Graph, C)
  OBVIOUS
<1>5. Ordered(Graph, C, order) /\ (~Cyclic(Graph, C) => ToSet(order) = C)
  BY <1>3, <1>4, TopoOrderSorts
<1>6. Plan(d, force) = Planning(order, force)[Len(order)]
  BY <1>1, <1>4 DEF Plan, Planning, BuildOf
<1>7. Planned(order, Len(order), Plan(d, force))
  BY <1>2, <1>3, <1>5, <1>6, PlanFacts
<1> QED
  BY <1>1, <1>2, <1>3, <1>4, <1>5, <1>7

LEMMA RequestBuildTypes ==
  ASSUME FlowTypes, rules' = rules, NEW d \in Datasets, NEW force \in BOOLEAN, RequestBuild(d, force)
  PROVE  FlowTypes'
<1> USE DEF FlowTypes
<1>1. UNCHANGED <<recipeVars, datasetVars, save>>
  BY DEF RequestBuild
<1>2. RowTypes' /\ DatasetTypes' /\ SaveTypes'
  <2>1. \A q \in Recipes : ToSet(outs[q]) \subseteq Datasets
    BY OutsFacts
  <2> QED
    BY <1>1, <2>1, RowsStay, DatasetsStay, SavesStay DEF datasetVars, recipeVars
<1>3. PICK P, C, order : P = Plan(d, force) /\ C = BuildOf(d) /\ order = TopoOrder(Graph, C)
  OBVIOUS
<1>4. C \subseteq ActiveRecipes /\ IsFiniteSet(C) /\ Ordered(Graph, C, order) /\ Planned(order, Len(order), P)
  BY <1>3, PlanOfBuild
<1>5. PICK A : A = {<<r, Primary(r)>> : r \in {order[k] : k \in 1..Len(order)}}
  OBVIOUS
<1>6. P \in Seq(A)
  BY <1>4, <1>5 DEF Planned
<1>7. \A k \in 1..Len(order) : order[k] \in C
  BY <1>4 DEF Ordered
<1>8. ASSUME NEW r \in C
      PROVE  /\ r \in Recipes /\ recipe[r] = "active"
             /\ Primary(r) \in Datasets /\ dataset[Primary(r)] # "absent"
  <2>1. r \in Recipes /\ recipe[r] = "active"
    BY <1>4 DEF ActiveRecipes
  <2>2. outs[r] \in Seq(Datasets) /\ outs[r] # <<>>
    BY <2>1 DEF RowTypes
  <2>3. outs[r][1] \in ToSet(outs[r]) /\ ToSet(outs[r]) \subseteq Datasets
    BY <2>2, NonEmptyFacts
  <2> QED
    BY <2>1, <2>3 DEF RowTypes, Primary
<1>9. \A x \in A : /\ x \in Recipes \X Datasets /\ x = <<x[1], x[2]>>
                   /\ recipe[x[1]] # "absent" /\ dataset[x[2]] # "absent"
  BY <1>5, <1>7, <1>8
<1>10. P \in Seq(Recipes \X Datasets)
       /\ \A n \in 1..Len(P) : recipe[P[n][1]] # "absent" /\ dataset[P[n][2]] # "absent"
  <2>1. A \subseteq Recipes \X Datasets
    BY <1>9
  <2>2. \A n \in 1..Len(P) : P[n] \in A
    BY <1>6
  <2> QED
    BY <1>6, <1>9, <2>1, <2>2
<1>11. job' = [target |-> d, todo |-> P, at |-> "next", read |-> None]
  BY <1>3 DEF RequestBuild
<1>12. JobTypes'
  BY <1>1, <1>10, <1>11 DEF JobTypes, JobFits, recipeVars, datasetVars
<1> QED
  BY <1>2, <1>12

LEMMA JobEnds ==
  ASSUME FlowTypes, UNCHANGED <<recipeVars, datasetVars, save, rules>>, job' = None
  PROVE  FlowTypes'
<1> USE DEF FlowTypes
<1>1. \A q \in Recipes : ToSet(outs[q]) \subseteq Datasets
  BY OutsFacts
<1>2. RowTypes' /\ DatasetTypes' /\ SaveTypes'
  BY <1>1, RowsStay, DatasetsStay, SavesStay DEF datasetVars, recipeVars
<1> QED
  BY <1>2 DEF JobTypes

LEMMA HeadFacts ==
  ASSUME JobTypes, job # None, job.todo # <<>>
  PROVE  /\ Len(job.todo) \in Nat \ {0} /\ Head(job.todo) = job.todo[1]
         /\ Head(job.todo)[1] \in Recipes /\ Head(job.todo)[2] \in Datasets
         /\ recipe[Head(job.todo)[1]] # "absent" /\ dataset[Head(job.todo)[2]] # "absent"
         /\ Tail(job.todo) \in Seq(Recipes \X Datasets)
         /\ Len(Tail(job.todo)) = Len(job.todo) - 1
         /\ \A n \in 1..Len(Tail(job.todo)) : n + 1 \in 1..Len(job.todo) /\ Tail(job.todo)[n] = job.todo[n + 1]
<1>1. job.todo \in Seq(Recipes \X Datasets)
  BY DEF JobTypes, JobFits
<1>2. /\ Len(job.todo) \in Nat \ {0} /\ Head(job.todo) = job.todo[1]
      /\ Tail(job.todo) \in Seq(Recipes \X Datasets)
      /\ Len(Tail(job.todo)) = Len(job.todo) - 1
      /\ \A n \in 1..Len(Tail(job.todo)) : Tail(job.todo)[n] = job.todo[n + 1]
  BY <1>1
<1>3. 1 \in 1..Len(job.todo) /\ job.todo[1] \in Recipes \X Datasets
  BY <1>1, <1>2
<1>4. recipe[job.todo[1][1]] # "absent" /\ dataset[job.todo[1][2]] # "absent"
  BY <1>3 DEF JobTypes, JobFits
<1> QED
  BY <1>2, <1>3, <1>4

LEMMA ResolveStepTypes ==
  ASSUME FlowTypes, rules' = rules, ResolveStep
  PROVE  FlowTypes'
<1> USE DEF FlowTypes
<1>1. UNCHANGED <<recipeVars, datasetVars, save>>
  BY DEF ResolveStep
<1>2. PICK r : r = Head(job.todo)[1]
  OBVIOUS
<1>3. r \in Recipes /\ recipe[r] # "absent"
  BY <1>2, HeadFacts DEF ResolveStep
<1>4. ins[r] \in Lists
  BY <1>3 DEF RowTypes, Lists
<1>5. CASE job' = None
  BY <1>1, <1>5, JobEnds
<1>6. CASE \E x : job' = [job EXCEPT !.at = "flip",
             !.read = [config |-> config[r], ins |-> ins[r], consumed |-> x]]
  <2>1. PICK x : job' = [job EXCEPT !.at = "flip",
             !.read = [config |-> config[r], ins |-> ins[r], consumed |-> x]]
    BY <1>6
  <2>2. JobFits(job) /\ job.todo # <<>>
    BY DEF ResolveStep, JobTypes
  <2>3. job' = [target |-> job.target, todo |-> job.todo, at |-> "flip",
                read |-> [config |-> config[r], ins |-> ins[r], consumed |-> x]]
    BY <2>1, <2>2 DEF JobFits
  <2>4. JobTypes'
    BY <1>1, <1>4, <2>2, <2>3 DEF JobTypes, JobFits, recipeVars, datasetVars
  <2>5. \A q \in Recipes : ToSet(outs[q]) \subseteq Datasets
    BY OutsFacts
  <2>6. RowTypes' /\ DatasetTypes' /\ SaveTypes'
    BY <1>1, <2>5, RowsStay, DatasetsStay, SavesStay DEF datasetVars, recipeVars
  <2> QED
    BY <2>4, <2>6
<1> QED
  BY <1>2, <1>5, <1>6 DEF ResolveStep

LEMMA CommitStepTypes ==
  ASSUME FlowTypes, rules' = rules, CommitStep
  PROVE  FlowTypes'
<1> USE DEF FlowTypes
<1>1. PICK d, v : /\ d = Head(job.todo)[2]
                  /\ versions' = [versions EXCEPT ![d] = Append(@, v)]
                  /\ label' = [label EXCEPT ![d] = Raised(@, ReadFloor(job.read))]
  BY DEF CommitStep
<1>2. /\ job # None /\ job.at = "flip" /\ UNCHANGED <<recipeVars, dataset, save>>
      /\ job' = [job EXCEPT !.todo = Tail(@), !.at = "next", !.read = None]
  BY DEF CommitStep
<1>3. JobFits(job) /\ job.todo # <<>> /\ job.read.ins \in Lists
  BY <1>2 DEF JobTypes, JobFits
<1>4. d \in Datasets /\ dataset[d] # "absent"
  BY <1>1, <1>2, <1>3, HeadFacts
<1>5. RowTypes'
  <2>1. \A q \in Recipes : ToSet(outs[q]) \subseteq Datasets
    BY OutsFacts
  <2> QED
    BY <1>2, <2>1, RowsStay
<1>6. SaveTypes'
  BY <1>2, SavesStay DEF recipeVars
<1>7. JobTypes'
  <2>1. job' = [target |-> job.target, todo |-> Tail(job.todo), at |-> "next", read |-> None]
    BY <1>2, <1>3 DEF JobFits
  <2>2. Tail(job.todo) \in Seq(Recipes \X Datasets)
    BY <1>2, <1>3, HeadFacts
  <2>3. \A n \in 1..Len(Tail(job.todo)) :
          recipe[Tail(job.todo)[n][1]] # "absent" /\ dataset[Tail(job.todo)[n][2]] # "absent"
    BY <1>2, <1>3, HeadFacts DEF JobFits
  <2> QED
    BY <1>2, <1>3, <2>1, <2>2, <2>3 DEF JobTypes, JobFits, recipeVars
<1>8. DatasetTypes'
  <2>1. ReadFloor(job.read) \in Labels
    BY <1>3, FloorFacts DEF DatasetTypes, ReadFloor
  <2>2. label' \in [Datasets -> Labels]
    BY <1>1, <1>4, <2>1 DEF DatasetTypes, Raised
  <2>3. versions' = [e \in Datasets |-> versions'[e]] /\ versions'[d] = Append(versions[d], v)
        /\ \A e \in Datasets \ {d} : versions'[e] = versions[e]
    BY <1>1, <1>4 DEF DatasetTypes
  <2>4. \E V : versions'[d] \in Seq(V)
    <3>1. PICK V : versions[d] \in Seq(V)
      BY <1>4 DEF DatasetTypes
    <3>2. versions[d] \in Seq(V \cup {v})
      BY <3>1
    <3>3. Append(versions[d], v) \in Seq(V \cup {v})
      BY <3>2
    <3> QED
      BY <2>3, <3>3
  <2>5. ASSUME NEW e \in Datasets
        PROVE  (\E V : versions'[e] \in Seq(V)) /\ (dataset'[e] = "absent" => versions'[e] = <<>>)
    <3>1. CASE e = d
      BY <1>2, <1>4, <2>4, <3>1
    <3>2. CASE e # d
      BY <1>2, <2>3, <3>2 DEF DatasetTypes
    <3> QED
      BY <3>1, <3>2
  <2> QED
    BY <1>2, <2>2, <2>3, <2>5 DEF DatasetTypes, Labels
<1> QED
  BY <1>5, <1>6, <1>7, <1>8

LEMMA FlowTypesStep ==
  ASSUME FlowTypes, [Next]_vars
  PROVE  FlowTypes'
<1>1. CASE UNCHANGED vars
  <2>1. \A q \in Recipes : ToSet(outs[q]) \subseteq Datasets
    BY OutsFacts DEF FlowTypes
  <2>2. RowTypes' /\ DatasetTypes' /\ SaveTypes' /\ JobTypes'
    BY <1>1, <2>1, RowsStay, DatasetsStay, SavesStay, JobStays DEF FlowTypes, vars, datasetVars, recipeVars
  <2> QED
    BY <1>1, <2>2 DEF FlowTypes, vars
<1>2. CASE Next
  <2>1. Steps /\ rules' = rules
    BY <1>2 DEF Next
  <2>2. ASSUME NEW d \in Datasets, NEW l \in Labels, CreateDataset(d, l) \/ PatchLabel(d, l)
        PROVE  FlowTypes'
    BY <2>1, <2>2, DatasetStepTypes
  <2>3. ASSUME NEW d \in Datasets, ArchiveDataset(d)
        PROVE  FlowTypes'
    <3>1. 0 \in Labels
      BY TopLabel DEF FlowTypes, Labels
    <3> QED
      BY <2>1, <2>3, <3>1, DatasetStepTypes
  <2>4. ASSUME NEW r \in Recipes, NEW w \in rules.wirings, BeginSave(r, w)
        PROVE  FlowTypes'
    BY <2>1, <2>4, BeginSaveTypes
  <2>5. ASSUME NEW r \in Recipes, NEW c \in Configs, EndSave(r, c) \/ PatchConfig(r, c)
        PROVE  FlowTypes'
    BY <2>1, <2>5, EndSaveTypes, RecipeStepTypes
  <2>6. ASSUME NEW r \in Recipes, AbortSave(r)
        PROVE  FlowTypes'
    BY <2>1, <2>6, AbortSaveTypes
  <2>7. ASSUME NEW r \in Recipes, ArchiveRecipe(r)
        PROVE  FlowTypes'
    BY <2>1, <2>7, RecipeStepTypes
  <2>8. ASSUME NEW d \in Datasets, NEW force \in BOOLEAN, RequestBuild(d, force)
        PROVE  FlowTypes'
    BY <2>1, <2>8, RequestBuildTypes
  <2>9. CASE ResolveStep
    BY <2>1, <2>9, ResolveStepTypes
  <2>10. CASE StopBuild \/ FinishBuild
    BY <2>1, <2>10, JobEnds DEF StopBuild, FinishBuild
  <2>11. CASE CommitStep
    BY <2>1, <2>11, CommitStepTypes
  <2> QED
    BY <2>1, <2>2, <2>3, <2>4, <2>5, <2>6, <2>7, <2>8, <2>9, <2>10, <2>11 DEF Steps
<1> QED
  BY <1>1, <1>2

\* Every reachable state has the types of the tables, whatever may overlap.
THEOREM FlowTypeOK == Spec => []TypeOK
<1>1. Init => FlowTypes
  BY FlowTypesInit
<1>2. FlowTypes /\ [Next]_vars => FlowTypes'
  BY FlowTypesStep
<1>3. FlowTypes => TypeOK
  <2>1. \A s : s \in Lists => s \in Seq(Datasets)
    BY DEF Lists
  <2> QED
    BY <2>1 DEF FlowTypes, RowTypes, DatasetTypes, SaveTypes, SaveFits, JobTypes, JobFits, TypeOK
<1> QED
  BY <1>1, <1>2, <1>3, PTL DEF Spec

-----------------------------------------------------------------------------
(* Where requests and builds do not overlap: what a save was checked against *)
(* still holds when it is written, so the rows stay a graph without a loop.  *)

OneInFlight ==
  /\ job # None => \A r \in Recipes : save[r] = None
  /\ \A q, r \in Recipes : save[q] # None /\ save[r] # None => q = r

OneProducer == \A q, r \in Recipes : q # r => ToSet(outs[q]) \cap ToSet(outs[r]) = {}

CalmRows ==
  /\ \A r \in Recipes : recipe[r] # "active" => outs[r] = <<>>
  /\ OneProducer
  /\ \A r \in ActiveRecipes : \A d \in ToSet(ins[r]) \cup ToSet(outs[r]) : dataset[d] = "active"
  /\ Loopless(ActiveRecipes, ins, outs)

UpToDate(r, s) ==
  /\ recipe[r] \in {"absent", "active"}
  /\ ~s.moved => s.outs = outs[r]
  /\ s.label = label
  /\ \A d \in ToSet(s.ins) : dataset[d] = "active"
  /\ s.moved => \A d \in ToSet(s.outs) : dataset[d] # "archived" /\ ~ProducedElsewhere(d, r)
  /\ s.new = {d \in ToSet(s.outs) : dataset[d] = "absent"}
  /\ ~RejectsCycle(r, s.ins, s.outs)

SavesUpToDate == \A r \in Recipes : save[r] # None => UpToDate(r, save[r])

Calm == OneInFlight /\ CalmRows /\ SavesUpToDate

LEMMA AloneMeans ==
  ASSUME ~rules.overlap, Alone
  PROVE  job = None /\ \A r \in Recipes : save[r] = None
BY DEF Alone

LEMMA CalmInit == Init => Calm
<1> SUFFICES ASSUME Init
             PROVE  Calm
  OBVIOUS
<1>1. ToSet(<<>>) = {}
  BY DEF ToSet
<1>2. ActiveRecipes = {}
  BY DEF Init, ActiveRecipes
<1>3. CalmRows
  BY <1>1, <1>2 DEF Init, CalmRows, OneProducer, Loopless
<1> QED
  BY <1>3 DEF Init, Calm, OneInFlight, SavesUpToDate

LEMMA CalmRowsStay ==
  ASSUME CalmRows, UNCHANGED <<recipe, ins, outs>>,
         \A r \in ActiveRecipes : \A d \in ToSet(ins[r]) \cup ToSet(outs[r]) :
           dataset[d] = "active" => dataset'[d] = "active"
  PROVE  CalmRows'
BY DEF CalmRows, OneProducer, ActiveRecipes, Loopless

LEMMA CalmIdle ==
  ASSUME CalmRows', UNCHANGED <<save, job>>, job = None, \A r \in Recipes : save[r] = None
  PROVE  Calm'
BY DEF Calm, OneInFlight, SavesUpToDate

LEMMA CalmDataset ==
  ASSUME FlowTypes, ~rules.overlap, Calm, NEW d \in Datasets, NEW l,
         CreateDataset(d, l) \/ PatchLabel(d, l) \/ ArchiveDataset(d)
  PROVE  Calm'
<1>1. Alone /\ UNCHANGED <<recipeVars, save, job>>
  BY DEF CreateDataset, PatchLabel, ArchiveDataset
<1>2. \A r \in ActiveRecipes : \A e \in ToSet(ins[r]) \cup ToSet(outs[r]) : e \in Datasets
  BY OutsFacts, GraphFacts DEF FlowTypes
<1>3. \A r \in ActiveRecipes : \A e \in ToSet(ins[r]) \cup ToSet(outs[r]) :
        dataset[e] = "active" => dataset'[e] = "active"
  <2>1. CASE CreateDataset(d, l) \/ PatchLabel(d, l)
    BY <1>2, <2>1 DEF CreateDataset, PatchLabel, FlowTypes, DatasetTypes
  <2>2. CASE ArchiveDataset(d)
    <3>1. \A r \in ActiveRecipes : d \notin ToSet(ins[r]) \cup ToSet(outs[r])
      BY <2>2, GraphFacts DEF ArchiveDataset, Referenced
    <3> QED
      BY <1>2, <2>2, <3>1 DEF ArchiveDataset, FlowTypes, DatasetTypes
  <2> QED
    BY <2>1, <2>2
<1>4. CalmRows'
  BY <1>1, <1>3, CalmRowsStay DEF Calm, recipeVars
<1> QED
  BY <1>1, <1>4, CalmIdle, AloneMeans

LEMMA LooplessPart ==
  ASSUME NEW C, NEW i, NEW o, Loopless(C, i, o), NEW D \in SUBSET C, NEW j, NEW p,
         \A r \in D : j[r] = i[r] /\ p[r] = o[r]
  PROVE  Loopless(D, j, p)
<1> SUFFICES ASSUME NEW B \in SUBSET D, B # {}
             PROVE  \E r \in B : \A q \in B : ToSet(p[q]) \cap ToSet(j[r]) = {}
  BY DEF Loopless
<1>1. PICK r \in B : \A q \in B : ToSet(o[q]) \cap ToSet(i[r]) = {}
  BY DEF Loopless
<1> QED
  BY <1>1

LEMMA CalmRecipe ==
  ASSUME FlowTypes, ~rules.overlap, Calm, NEW r \in Recipes,
         (\E c \in Configs : PatchConfig(r, c)) \/ ArchiveRecipe(r)
  PROVE  Calm'
<1>1. Alone /\ UNCHANGED <<ins, datasetVars, save, job>>
  BY DEF PatchConfig, ArchiveRecipe
<1>2. CASE \E c \in Configs : PatchConfig(r, c)
  <2>1. UNCHANGED <<recipe, ins, outs>> /\ dataset' = dataset
    BY <1>2 DEF PatchConfig, datasetVars
  <2>2. CalmRows'
    BY <2>1, CalmRowsStay DEF Calm
  <2> QED
    BY <1>1, <2>2, CalmIdle, AloneMeans
<1>3. CASE ArchiveRecipe(r)
  <2>1. /\ outs' = [outs EXCEPT ![r] = <<>>] /\ recipe' = [recipe EXCEPT ![r] = "archived"]
        /\ UNCHANGED <<ins, dataset>>
    BY <1>3 DEF ArchiveRecipe, NoOutputs, datasetVars
  <2>2. /\ outs'[r] = <<>> /\ recipe'[r] = "archived"
        /\ \A q \in Recipes \ {r} : outs'[q] = outs[q] /\ recipe'[q] = recipe[q]
    BY <2>1 DEF FlowTypes, RowTypes
  <2>3. ToSet(<<>>) = {}
    BY DEF ToSet
  <2>4. ActiveRecipes' = ActiveRecipes \ {r}
    BY <2>2 DEF ActiveRecipes
  <2>5. Loopless(ActiveRecipes', ins', outs')
    <3>1. \A q \in ActiveRecipes' : ins'[q] = ins[q] /\ outs'[q] = outs[q]
      BY <2>1, <2>2, <2>4, GraphFacts
    <3> QED
      BY <2>4, <3>1, LooplessPart DEF Calm, CalmRows
  <2>6. CalmRows'
    <3>1. \A q \in Recipes : recipe'[q] # "active" => outs'[q] = <<>>
      BY <2>2 DEF Calm, CalmRows
    <3>2. OneProducer'
      BY <2>2, <2>3 DEF Calm, CalmRows, OneProducer
    <3>3. \A q \in ActiveRecipes' : \A d \in ToSet(ins'[q]) \cup ToSet(outs'[q]) : dataset'[d] = "active"
      BY <2>1, <2>2, <2>4, GraphFacts DEF Calm, CalmRows
    <3> QED
      BY <2>5, <3>1, <3>2, <3>3 DEF CalmRows
  <2> QED
    BY <1>1, <2>6, CalmIdle, AloneMeans
<1> QED
  BY <1>2, <1>3

LEMMA CalmBeginSave ==
  ASSUME FlowTypes, ~rules.overlap, Calm, NEW r \in Recipes, NEW w \in rules.wirings, BeginSave(r, w)
  PROVE  Calm'
<1>1. PICK given, in, out, s :
        /\ given \in rules.given
        /\ in = IF "ins" \in given THEN w[1] ELSE ins[r]
        /\ out = IF "outs" \in given THEN w[2] ELSE outs[r]
        /\ Alone /\ UNCHANGED <<recipeVars, datasetVars, job>>
        /\ recipe[r] = "active" \/ (recipe[r] = "absent" /\ given = {"ins", "outs"})
        /\ "ins" \in given => \A d \in ToSet(in) : dataset[d] = "active"
        /\ "outs" \in given => \A d \in ToSet(out) : dataset[d] # "archived" /\ ~ProducedElsewhere(d, r)
        /\ ~RejectsCycle(r, in, out)
        /\ s = [ins |-> in, outs |-> out, moved |-> "outs" \in given, label |-> label,
                floor |-> IF "ins" \in given THEN Floor(label, ToSet(in)) ELSE 0,
                new |-> {d \in ToSet(out) : dataset[d] = "absent"}]
        /\ save' = [save EXCEPT ![r] = s]
  BY BeginSaveParts
<1>2. /\ Alone /\ UNCHANGED <<recipeVars, datasetVars, job>>
      /\ recipe[r] \in {"absent", "active"}
      /\ ~RejectsCycle(r, in, out)
  BY <1>1
<1>3. \A d \in ToSet(in) : dataset[d] = "active"
  <2>1. recipe[r] = "active" => \A d \in ToSet(ins[r]) : dataset[d] = "active"
    BY DEF Calm, CalmRows, ActiveRecipes
  <2> QED
    BY <1>1, <2>1
<1>4. save' = [save EXCEPT ![r] = s]
  BY <1>1
<1>5. \A q \in Recipes \ {r} : save'[q] = None
  BY <1>2, <1>4, AloneMeans DEF FlowTypes, SaveTypes
<1>6. save'[r] = s
  BY <1>4 DEF FlowTypes, SaveTypes
<1>7. UpToDate(r, s)
  <2>1. s.ins = in /\ s.outs = out /\ s.label = label
        /\ s.moved = ("outs" \in given) /\ s.new = {d \in ToSet(out) : dataset[d] = "absent"}
    BY <1>1
  <2>2. ~s.moved => out = outs[r]
    BY <1>1, <2>1
  <2>3. s.moved => \A d \in ToSet(out) : dataset[d] # "archived" /\ ~ProducedElsewhere(d, r)
    BY <1>1, <2>1
  <2> QED
    BY <1>2, <1>3, <2>1, <2>2, <2>3 DEF UpToDate
<1>8. UpToDate(r, s)'
  BY <1>2, <1>7 DEF UpToDate, ProducedElsewhere, RejectsCycle, GraphWithout, Graph, ActiveRecipes, recipeVars, datasetVars
<1>9. CalmRows'
  BY <1>2, CalmRowsStay DEF Calm, recipeVars, datasetVars
<1>10. OneInFlight'
  BY <1>2, <1>5, AloneMeans DEF OneInFlight
<1> QED
  BY <1>5, <1>6, <1>8, <1>9, <1>10 DEF Calm, SavesUpToDate

LEMMA CalmSaveEnds ==
  ASSUME FlowTypes, Calm, NEW r \in Recipes, save[r] # None, save' = [save EXCEPT ![r] = None],
         UNCHANGED job, CalmRows'
  PROVE  Calm'
<1>1. \A q \in Recipes : save'[q] = None
  BY DEF FlowTypes, SaveTypes, Calm, OneInFlight
<1> QED
  BY <1>1 DEF Calm, OneInFlight, SavesUpToDate

LEMMA CalmAbortSave ==
  ASSUME FlowTypes, ~rules.overlap, Calm, NEW r \in Recipes, AbortSave(r)
  PROVE  Calm'
<1>1. UNCHANGED <<recipe, ins, outs, dataset, job>> /\ save[r] # None /\ save' = [save EXCEPT ![r] = None]
  BY DEF AbortSave, recipeVars, datasetVars
<1>2. CalmRows'
  BY <1>1, CalmRowsStay DEF Calm
<1> QED
  BY <1>1, <1>2, CalmSaveEnds

LEMMA GraphWithoutFacts ==
  ASSUME NEW r
  PROVE  /\ GraphWithout(r).recipes = ActiveRecipes \ {r}
         /\ GraphWithout(r).ins = ins /\ GraphWithout(r).outs = outs
BY DEF GraphWithout, Graph

LEMMA SaveKeepsLoopless ==
  ASSUME Loopless(ActiveRecipes, ins, outs), NEW r \in Recipes, NEW in, NEW out, ~RejectsCycle(r, in, out),
         NEW i, NEW o, i[r] = in, o[r] = out,
         \A q \in ActiveRecipes \ {r} : i[q] = ins[q] /\ o[q] = outs[q]
  PROVE  Loopless(ActiveRecipes \cup {r}, i, o)
<1>1. PICK g, v : g = GraphWithout(r) /\ v = Overlay(g, r, in, out)
  OBVIOUS
<1>2. g.recipes = ActiveRecipes \ {r} /\ g.ins = ins /\ g.outs = outs
  BY <1>1, GraphWithoutFacts
<1>3. Loopless(g.recipes, g.ins, g.outs)
  BY <1>2, LooplessPart
<1>4. IsFiniteSet(g.recipes) /\ r \notin g.recipes
  BY <1>2, GraphFacts, FS_Subset
<1>5. v.recipes = ActiveRecipes \cup {r}
  <2>1. v.recipes = g.recipes \cup {r}
    BY <1>1, <1>4, OverlayFacts
  <2> QED
    BY <1>2, <2>1
<1>6. Acyclic(v, v.recipes)
  BY <1>1, <1>3, <1>4, CycleCheck DEF RejectsCycle
<1>7. Loopless(v.recipes, v.ins, v.outs)
  BY <1>6, AcyclicMeans
<1>8. \A q \in v.recipes : i[q] = v.ins[q] /\ o[q] = v.outs[q]
  BY <1>1, <1>2, <1>5 DEF Overlay
<1> QED
  BY <1>5, <1>7, <1>8, LooplessPart

LEMMA CalmEndSave ==
  ASSUME FlowTypes, ~rules.overlap, Calm, NEW r \in Recipes, NEW c \in Configs, EndSave(r, c)
  PROVE  Calm'
<1>1. PICK s : s = save[r]
  OBVIOUS
<1>2. UpToDate(r, s) /\ SaveFits(r, s)
  BY <1>1 DEF EndSave, Calm, SavesUpToDate, FlowTypes, SaveTypes
<1>3. /\ recipe' = [recipe EXCEPT ![r] = IF @ = "absent" THEN "active" ELSE @]
      /\ ins' = [ins EXCEPT ![r] = s.ins]
      /\ outs' = [outs EXCEPT ![r] = IF s.moved THEN s.outs ELSE @]
      /\ dataset' = [d \in Datasets |-> IF d \in s.new THEN "active" ELSE dataset[d]]
      /\ save[r] # None /\ save' = [save EXCEPT ![r] = None]
      /\ UNCHANGED job
  BY <1>1 DEF EndSave
<1>4. /\ recipe'[r] = "active" /\ ins'[r] = s.ins /\ outs'[r] = s.outs
      /\ \A q \in Recipes \ {r} : recipe'[q] = recipe[q] /\ ins'[q] = ins[q] /\ outs'[q] = outs[q]
  BY <1>2, <1>3 DEF FlowTypes, RowTypes, UpToDate
<1>5. ActiveRecipes' = ActiveRecipes \cup {r}
  BY <1>4 DEF ActiveRecipes
<1>6. \A q \in ActiveRecipes \ {r} : q \in Recipes \ {r}
  BY GraphFacts
<1>7. Loopless(ActiveRecipes, ins, outs)'
  BY <1>2, <1>4, <1>5, <1>6, SaveKeepsLoopless DEF Calm, CalmRows, UpToDate
<1>8. \A q \in Recipes : recipe'[q] # "active" => outs'[q] = <<>>
  BY <1>4 DEF Calm, CalmRows
<1>9. \A d \in Datasets : dataset[d] = "active" => dataset'[d] = "active"
  BY <1>3
<1>10. OneProducer'
  <2>1. \A q \in Recipes \ {r} : ToSet(outs[q]) \cap ToSet(s.outs) = {}
    <3>1. CASE s.moved
      BY <1>2, <3>1 DEF UpToDate, ProducedElsewhere
    <3>2. CASE ~s.moved
      BY <1>2, <3>2 DEF UpToDate, Calm, CalmRows, OneProducer
    <3> QED
      BY <3>1, <3>2
  <2> QED
    BY <1>4, <2>1 DEF Calm, CalmRows, OneProducer
<1>11. ToSet(s.ins) \subseteq Datasets /\ ToSet(s.outs) \subseteq Datasets
  BY <1>2, NonEmptyFacts DEF SaveFits, Lists
<1>12. \A d \in ToSet(s.ins) \cup ToSet(s.outs) : dataset'[d] = "active"
  <2>1. \A d \in ToSet(s.ins) : dataset'[d] = "active"
    BY <1>2, <1>9, <1>11 DEF UpToDate
  <2>2. ASSUME NEW d \in ToSet(s.outs)
        PROVE  dataset'[d] = "active"
    <3>1. d \in Datasets
      BY <1>11
    <3>2. CASE s.moved
      <4>1. dataset[d] \in {"absent", "active"}
        BY <1>2, <3>1, <3>2 DEF UpToDate, FlowTypes, DatasetTypes
      <4> QED
        BY <1>2, <1>3, <3>1, <4>1 DEF UpToDate
    <3>3. CASE ~s.moved
      <4>1. s.outs = outs[r] /\ s.outs # <<>>
        BY <1>2, <3>3 DEF UpToDate, SaveFits, Lists
      <4>2. r \in ActiveRecipes
        BY <4>1 DEF Calm, CalmRows, ActiveRecipes
      <4> QED
        BY <1>9, <3>1, <4>1, <4>2 DEF Calm, CalmRows
    <3> QED
      BY <3>2, <3>3
  <2> QED
    BY <2>1, <2>2
<1>13. \A q \in ActiveRecipes' : \A d \in ToSet(ins'[q]) \cup ToSet(outs'[q]) : dataset'[d] = "active"
  <2>1. \A q \in ActiveRecipes : \A d \in ToSet(ins[q]) \cup ToSet(outs[q]) : d \in Datasets
    BY OutsFacts, GraphFacts DEF FlowTypes
  <2>2. ASSUME NEW q \in ActiveRecipes \ {r}, NEW d \in ToSet(ins[q]) \cup ToSet(outs[q])
        PROVE  dataset'[d] = "active"
    BY <1>9, <2>1 DEF Calm, CalmRows
  <2> QED
    BY <1>4, <1>5, <1>6, <1>12, <2>2
<1>14. CalmRows'
  BY <1>7, <1>8, <1>10, <1>13 DEF CalmRows
<1> QED
  BY <1>3, <1>14, CalmSaveEnds

\* The steps of a build touch no row that a save is checked against.
BuildStep == ResolveStep \/ StopBuild \/ CommitStep \/ FinishBuild

LEMMA CalmBuild ==
  ASSUME FlowTypes, ~rules.overlap, Calm,
         BuildStep \/ \E d \in Datasets, force \in BOOLEAN : RequestBuild(d, force)
  PROVE  Calm'
<1>1. UNCHANGED <<recipeVars, dataset, save>>
  BY DEF BuildStep, ResolveStep, StopBuild, CommitStep, FinishBuild, RequestBuild, datasetVars
<1>2. \A r \in Recipes : save[r] = None
  <2>1. CASE BuildStep
    BY <2>1 DEF BuildStep, ResolveStep, StopBuild, CommitStep, FinishBuild, Calm, OneInFlight
  <2>2. CASE \E d \in Datasets, force \in BOOLEAN : RequestBuild(d, force)
    BY <2>2, AloneMeans DEF RequestBuild
  <2> QED
    BY <2>1, <2>2
<1>3. CalmRows'
  BY <1>1, CalmRowsStay DEF Calm, recipeVars
<1> QED
  BY <1>1, <1>2, <1>3 DEF Calm, OneInFlight, SavesUpToDate

LEMMA CalmStep ==
  ASSUME FlowTypes, ~rules.overlap, Calm, [Next]_vars
  PROVE  Calm'
<1>1. CASE UNCHANGED vars
  <2>1. UNCHANGED <<recipe, ins, outs, dataset, label, save, job>>
    BY <1>1 DEF vars, recipeVars, datasetVars
  <2>2. CalmRows'
    BY <2>1, CalmRowsStay DEF Calm
  <2>3. ASSUME NEW r \in Recipes, NEW s, UpToDate(r, s)
        PROVE  UpToDate(r, s)'
    <3>1. RejectsCycle(r, s.ins, s.outs)' <=> RejectsCycle(r, s.ins, s.outs)
      BY <2>1 DEF RejectsCycle, GraphWithout, Graph, ActiveRecipes
    <3> QED
      BY <2>1, <2>3, <3>1 DEF UpToDate, ProducedElsewhere
  <2>4. SavesUpToDate' /\ OneInFlight'
    BY <2>1, <2>3 DEF Calm, SavesUpToDate, OneInFlight
  <2> QED
    BY <2>2, <2>4 DEF Calm
<1>2. CASE Next
  BY <1>2, CalmDataset, CalmRecipe, CalmBeginSave, CalmAbortSave, CalmEndSave, CalmBuild
     DEF Next, Steps, BuildStep
<1> QED
  BY <1>1, <1>2

-----------------------------------------------------------------------------
(* Data is labelled at least as strictly as what it was computed from.       *)

Lineage ==
  \A d \in Datasets : versions[d] # <<>> =>
    \A l \in LatestVersion(d).inputLabels : l \in Labels /\ label[d] >= l

LEMMA LineageInit == Init => Lineage
BY DEF Init, Lineage

LEMMA LineageStays ==
  ASSUME FlowTypes, FlowTypes', rules' = rules, versions' = versions, Lineage,
         \A d \in Datasets : label'[d] >= label[d]
  PROVE  Lineage'
<1> SUFFICES ASSUME NEW d \in Datasets, versions[d] # <<>>, NEW l \in LatestVersion(d).inputLabels
             PROVE  l \in Labels /\ label'[d] >= l
  BY DEF Lineage, LatestVersion, current, Labels
<1>1. l \in Labels /\ label[d] >= l /\ label'[d] >= label[d]
  BY DEF Lineage
<1>2. label[d] \in Labels /\ label'[d] \in Labels
  BY DEF FlowTypes, DatasetTypes, Labels
<1>3. l \in Nat /\ label[d] \in Nat /\ label'[d] \in Nat
  BY <1>1, <1>2, TopLabel DEF FlowTypes, Labels
<1> QED
  BY <1>1, <1>3

LEMMA LatestFacts ==
  ASSUME NEW V, NEW s \in Seq(V), NEW v
  PROVE  /\ Append(s, v) # <<>> /\ Len(Append(s, v)) = Len(s) + 1 /\ Len(s) \in Nat
         /\ Append(s, v)[Len(Append(s, v))] = v
<1>1. PICK q : q = Append(s, v)
  OBVIOUS
<1>2. Len(s) \in Nat /\ Len(q) = Len(s) + 1 /\ q[Len(s) + 1] = v
  BY <1>1
<1>3. Len(<<>>) = 0
  OBVIOUS
<1>4. q # <<>>
  BY <1>2, <1>3
<1> QED
  BY <1>1, <1>2, <1>4

\* What a step of a build appends to the output of its recipe.
LEMMA CommitFacts ==
  ASSUME FlowTypes, CommitStep
  PROVE  \E d, v :
           /\ d \in Datasets
           /\ d = Head(job.todo)[2] /\ job.todo # <<>>
           /\ v.config = job.read.config /\ v.consumed = job.read.consumed
           /\ v.inputLabels = {label[i] : i \in ToSet(job.read.ins)}
           /\ v.content = Content(job.read)
           /\ versions'[d] # <<>> /\ Len(versions[d]) \in Nat /\ Len(versions'[d]) = Len(versions[d]) + 1
           /\ versions'[d] = Append(versions[d], v) /\ versions'[d][Len(versions'[d])] = v
           /\ \A e \in Datasets \ {d} : versions'[e] = versions[e] /\ label'[e] = label[e]
           /\ label'[d] = Raised(label[d], ReadFloor(job.read))
<1>1. PICK d, v : /\ d = Head(job.todo)[2]
                  /\ v = [config |-> job.read.config, consumed |-> job.read.consumed,
                          inputLabels |-> {label[i] : i \in ToSet(job.read.ins)},
                          content |-> Content(job.read)]
  OBVIOUS
<1>2. /\ versions' = [versions EXCEPT ![d] = Append(@, v)]
      /\ label' = [label EXCEPT ![d] = Raised(@, ReadFloor(job.read))]
      /\ job # None /\ job.at = "flip"
  BY <1>1 DEF CommitStep
<1>3. job.todo # <<>>
  BY <1>2 DEF FlowTypes, JobTypes, JobFits
<1>4. d \in Datasets
  BY <1>1, <1>2, <1>3, HeadFacts DEF FlowTypes
<1>5. /\ versions'[d] = Append(versions[d], v)
      /\ \A e \in Datasets \ {d} : versions'[e] = versions[e] /\ label'[e] = label[e]
      /\ label'[d] = Raised(label[d], ReadFloor(job.read))
  BY <1>2, <1>4 DEF FlowTypes, DatasetTypes
<1>6. PICK V : versions[d] \in Seq(V)
  BY <1>4 DEF FlowTypes, DatasetTypes
<1>7. /\ Append(versions[d], v) # <<>> /\ Len(versions[d]) \in Nat
      /\ Len(Append(versions[d], v)) = Len(versions[d]) + 1
      /\ Append(versions[d], v)[Len(Append(versions[d], v))] = v
  BY <1>6, LatestFacts
<1>8. /\ v.config = job.read.config /\ v.consumed = job.read.consumed
      /\ v.inputLabels = {label[i] : i \in ToSet(job.read.ins)}
      /\ v.content = Content(job.read)
  BY <1>1
<1>9. /\ versions'[d] # <<>> /\ Len(versions[d]) \in Nat /\ Len(versions'[d]) = Len(versions[d]) + 1
      /\ versions'[d] = Append(versions[d], v) /\ versions'[d][Len(versions'[d])] = v
  BY <1>5, <1>7
<1>10. d = Head(job.todo)[2]
  BY <1>1
<1> QED
  BY <1>3, <1>4, <1>5, <1>8, <1>9, <1>10, Zenon

LEMMA LineageStep ==
  ASSUME FlowTypes, FlowTypes', ~rules.overlap, ~rules.mayLower, Calm, Lineage, [Next]_vars
  PROVE  Lineage'
<1>1. rules' = rules
  BY DEF Next, vars
<1>2. \A d \in Datasets : label[d] \in Labels
  BY DEF FlowTypes, DatasetTypes
<1>3. \A l \in Labels : l \in Nat /\ l >= l
  BY TopLabel DEF FlowTypes, Labels
<1>4. CASE label' = label /\ versions' = versions
  <2>1. \A d \in Datasets : label'[d] >= label[d]
    BY <1>2, <1>3, <1>4
  <2> QED
    BY <1>1, <1>4, <2>1, LineageStays
<1>5. ASSUME NEW d \in Datasets, NEW m \in Labels, PatchLabel(d, m)
      PROVE  Lineage'
  <2>1. label' = [label EXCEPT ![d] = m] /\ m > label[d] /\ versions' = versions
    BY <1>5 DEF PatchLabel
  <2>2. m \in Nat /\ label[d] \in Nat /\ m >= label[d]
    BY <1>2, <1>3, <2>1
  <2>3. \A e \in Datasets : label'[e] >= label[e]
    BY <1>2, <1>3, <2>1, <2>2 DEF FlowTypes, DatasetTypes
  <2> QED
    BY <1>1, <2>1, <2>3, LineageStays
<1>6. ASSUME NEW r \in Recipes, NEW c \in Configs, EndSave(r, c)
      PROVE  Lineage'
  <2>1. PICK s : s = save[r]
    OBVIOUS
  <2>2. s.label = label
    BY <1>6, <2>1 DEF EndSave, Calm, SavesUpToDate, UpToDate
  <2>3. versions' = versions /\ s \in {save[r]} /\ save[r] # None
    BY <1>6, <2>1 DEF EndSave
  <2>4. SaveFits(r, s)
    BY <2>1, <2>3 DEF FlowTypes, SaveTypes
  <2>5. PICK f \in Labels : f = s.floor
    BY <2>4 DEF SaveFits
  <2>6. label' = [d \in Datasets |->
          IF d \in ToSet(s.outs) /\ label[d] < f THEN f ELSE label[d]]
    BY <1>6, <2>1, <2>2, <2>5 DEF EndSave
  <2>7. ASSUME NEW d \in Datasets
        PROVE  label'[d] >= label[d]
    <3>1. f \in Nat /\ label[d] \in Nat
      BY <1>2, <1>3, <2>5
    <3>2. (label'[d] = f /\ label[d] < f) \/ label'[d] = label[d]
      BY <2>6
    <3> QED
      BY <3>1, <3>2
  <2> QED
    BY <1>1, <2>3, <2>7, LineageStays
<1>7. ASSUME NEW d \in Datasets, NEW m \in Labels, CreateDataset(d, m)
      PROVE  Lineage'
  <2>1. /\ versions'[d] = <<SourceVersion(d)>>
        /\ \A e \in Datasets \ {d} : versions'[e] = versions[e] /\ label'[e] = label[e]
    BY <1>7 DEF CreateDataset, FlowTypes, DatasetTypes
  <2>2. LatestVersion(d)' = SourceVersion(d) /\ SourceVersion(d).inputLabels = {}
    BY <2>1 DEF LatestVersion, current, SourceVersion
  <2>3. ASSUME NEW e \in Datasets \ {d}, versions'[e] # <<>>, NEW l \in LatestVersion(e)'.inputLabels
        PROVE  l \in Labels /\ label'[e] >= l
    BY <2>1, <2>3 DEF Lineage, LatestVersion, current
  <2> QED
    BY <1>1, <2>2, <2>3 DEF Lineage, Labels
<1>8. CASE CommitStep
  <2>1. PICK d, v :
           /\ d \in Datasets
           /\ v.inputLabels = {label[i] : i \in ToSet(job.read.ins)}
           /\ versions'[d][Len(versions'[d])] = v
           /\ \A e \in Datasets \ {d} : versions'[e] = versions[e] /\ label'[e] = label[e]
           /\ label'[d] = Raised(label[d], ReadFloor(job.read))
    BY <1>8, CommitFacts
  <2> d \in Datasets
    BY <2>1
  <2>2. job.read.ins \in Lists
    BY <1>8 DEF CommitStep, FlowTypes, JobTypes, JobFits
  <2>3. PICK f : f = ReadFloor(job.read)
    OBVIOUS
  <2>4. f \in Labels /\ \A i \in ToSet(job.read.ins) : f >= label[i]
    BY <2>2, <2>3, FloorFacts DEF FlowTypes, DatasetTypes, ReadFloor
  <2>5. label'[d] >= f
    <3>1. f \in Nat /\ label[d] \in Nat
      BY <1>2, <1>3, <2>4
    <3> QED
      BY <2>1, <2>3, <3>1 DEF Raised
  <2>6. ToSet(job.read.ins) \subseteq Datasets
    BY <2>2, NonEmptyFacts DEF Lists
  <2>7. ASSUME NEW l \in v.inputLabels
        PROVE  l \in Labels /\ label'[d] >= l
    <3>1. PICK i \in ToSet(job.read.ins) : l = label[i]
      BY <2>1
    <3>2. l \in Labels /\ f >= l
      BY <1>2, <2>4, <2>6, <3>1
    <3>3. label'[d] \in Labels
      BY <1>1 DEF FlowTypes, DatasetTypes, Labels
    <3>4. l \in Nat /\ f \in Nat /\ label'[d] \in Nat
      BY <1>3, <2>4, <3>2, <3>3
    <3> QED
      BY <2>5, <3>2, <3>4
  <2>8. LatestVersion(d)' = v
    BY <2>1 DEF LatestVersion, current
  <2>9. ASSUME NEW e \in Datasets \ {d}, versions'[e] # <<>>, NEW l \in LatestVersion(e)'.inputLabels
        PROVE  l \in Labels /\ label'[e] >= l
    BY <2>1, <2>9 DEF Lineage, LatestVersion, current
  <2> QED
    BY <1>1, <2>7, <2>8, <2>9 DEF Lineage, Labels
<1>9. UNCHANGED vars => label' = label /\ versions' = versions
  BY DEF vars, datasetVars
<1>10. ASSUME Next, label' # label \/ versions' # versions
       PROVE  \/ \E d \in Datasets, l \in Labels : CreateDataset(d, l) \/ PatchLabel(d, l)
              \/ \E r \in Recipes, c \in Configs : EndSave(r, c)
              \/ CommitStep
  BY <1>10 DEF Next, Steps, ArchiveDataset, BeginSave, PatchConfig, AbortSave, ArchiveRecipe, RequestBuild,
     ResolveStep, StopBuild, FinishBuild, datasetVars
<1> QED
  BY <1>4, <1>5, <1>6, <1>7, <1>8, <1>9, <1>10

-----------------------------------------------------------------------------
(* A build: what its plan leaves out is up to date, and each step brings one *)
(* more recipe up to date without making another stale.                      *)

PlanLeft ==
  job # None =>
    /\ \A n \in 1..Len(job.todo) : /\ job.todo[n][1] \in BuildOf(job.target)
                                   /\ job.todo[n][2] = Primary(job.todo[n][1])
    /\ \A i, j \in 1..Len(job.todo) :
         /\ i < j => job.todo[i][1] # job.todo[j][1]
         /\ i <= j => job.todo[j][1] \notin FeedsFrom(job.todo[i][1])
    /\ \A r \in BuildOf(job.target) \ Chosen(job.todo) :
         ~OutputStale(r) /\ FeedsFrom(r) \cap Chosen(job.todo) = {}
    /\ job.at = "flip" =>
         LET r == job.todo[1][1] IN
         /\ job.read.config = config[r] /\ job.read.ins = ins[r]
         /\ job.read.consumed = [i \in ToSet(ins[r]) |-> current(i)]

LEMMA GraphStays ==
  ASSUME UNCHANGED <<recipe, ins, outs>>
  PROVE  /\ \A d : BuildOf(d)' = BuildOf(d)
         /\ \A r : FeedsFrom(r)' = FeedsFrom(r) /\ Primary(r)' = Primary(r)
<1>1. Graph' = Graph
  BY DEF Graph, ActiveRecipes
<1> QED
  BY <1>1 DEF BuildOf, FeedsFrom, Primary

LEMMA StaleStays ==
  ASSUME UNCHANGED <<config, ins, outs, dataset, versions>>
  PROVE  /\ \A r : OutputStale(r)' <=> OutputStale(r)
         /\ \A d : current(d)' = current(d)
BY DEF OutputStale, Staleness, Primary, LatestVersion, OtherConfig, current

\* A build that goes through none of its rows goes on with the same plan.
LEMMA PlanLeftStays ==
  ASSUME PlanLeft, UNCHANGED <<recipeVars, dataset, versions>>, job # None => job'.todo = job.todo,
         job' # None => job # None /\ job'.target = job.target,
         job' # None /\ job'.at = "flip" =>
           LET r == job.todo[1][1] IN
           /\ job'.read.config = config[r] /\ job'.read.ins = ins[r]
           /\ job'.read.consumed = [i \in ToSet(ins[r]) |-> current(i)]
  PROVE  PlanLeft'
<1>1. /\ \A d : BuildOf(d)' = BuildOf(d)
      /\ \A r : FeedsFrom(r)' = FeedsFrom(r) /\ Primary(r)' = Primary(r)
      /\ \A r : OutputStale(r)' <=> OutputStale(r)
      /\ \A d : current(d)' = current(d)
      /\ \A P : Chosen(P)' = Chosen(P)
      /\ UNCHANGED <<config, ins>>
  BY GraphStays, StaleStays DEF recipeVars, Chosen
<1> SUFFICES ASSUME job' # None
             PROVE  PlanLeft'
  BY DEF PlanLeft
<1>2. PICK P, t : P = job.todo /\ t = job.target
  OBVIOUS
<1>3. job'.todo = P /\ job'.target = t /\ job # None
  BY <1>2
<1>4. /\ \A n \in 1..Len(P) : P[n][1] \in BuildOf(t) /\ P[n][2] = Primary(P[n][1])
      /\ \A i, j \in 1..Len(P) : /\ i < j => P[i][1] # P[j][1]
                                 /\ i <= j => P[j][1] \notin FeedsFrom(P[i][1])
      /\ \A r \in BuildOf(t) \ Chosen(P) : ~OutputStale(r) /\ FeedsFrom(r) \cap Chosen(P) = {}
  BY <1>2, <1>3 DEF PlanLeft
<1>5. /\ \A n \in 1..Len(P) : P[n][1] \in BuildOf(t)' /\ P[n][2] = Primary(P[n][1])'
      /\ \A i, j \in 1..Len(P) : /\ i < j => P[i][1] # P[j][1]
                                 /\ i <= j => P[j][1] \notin FeedsFrom(P[i][1])'
      /\ \A r \in BuildOf(t)' \ Chosen(P)' : ~OutputStale(r)' /\ FeedsFrom(r)' \cap Chosen(P)' = {}
  BY <1>1, <1>4
<1>6. job'.at = "flip" =>
        LET r == P[1][1] IN
        /\ job'.read.config = config'[r] /\ job'.read.ins = ins'[r]
        /\ job'.read.consumed = [i \in ToSet(ins'[r]) |-> current(i)']
  BY <1>1, <1>2
<1> QED
  BY <1>3, <1>5, <1>6 DEF PlanLeft

LEMMA PlanLeftRequest ==
  ASSUME FlowTypes, NEW d \in Datasets, NEW force \in BOOLEAN, RequestBuild(d, force)
  PROVE  PlanLeft'
<1>1. PICK P, K, order : P = Plan(d, force) /\ K = BuildOf(d) /\ order = TopoOrder(Graph, K)
  OBVIOUS
<1>2. ~Cyclic(Graph, K) /\ job' = [target |-> d, todo |-> P, at |-> "next", read |-> None]
      /\ UNCHANGED <<recipe, config, ins, outs, dataset, versions>>
  BY <1>1 DEF RequestBuild, BuildOf, recipeVars, datasetVars
<1>3. /\ K \subseteq ActiveRecipes /\ IsFiniteSet(K) /\ Ordered(Graph, K, order)
      /\ Planned(order, Len(order), P) /\ ToSet(order) = K
  BY <1>1, <1>2, PlanOfBuild
<1>4. /\ \A k \in 1..Len(order) : order[k] \in K
      /\ \A r \in K : \E k \in 1..Len(order) : order[k] = r
  <2>1. IsFiniteSet(K) /\ Ordered(Graph, K, order)
    BY <1>3
  <2>2. \A k \in 1..Len(order) : order[k] \in ToSet(order)
    BY <2>1, OrderedFacts
  <2>3. \A r \in ToSet(order) : \E k \in 1..Len(order) : order[k] = r
    BY <2>1, OrderedFacts
  <2> QED
    BY <1>3, <2>2, <2>3
<1>5. PICK A : A = {<<r, Primary(r)>> : r \in {order[k] : k \in 1..Len(order)}}
  OBVIOUS
<1>6. /\ P \in Seq(A)
      /\ \A i, j \in 1..Len(P) : /\ i < j => P[i][1] # P[j][1]
                                 /\ i <= j => P[j][1] \notin FeedsFrom(P[i][1])
      /\ \A k \in 1..Len(order) : order[k] \notin Chosen(P) =>
           ~OutputStale(order[k]) /\ FeedsFrom(order[k]) \cap Chosen(P) = {}
  BY <1>3, <1>5 DEF Planned
<1>7. \A x \in A : x[1] \in K /\ x[2] = Primary(x[1])
  BY <1>4, <1>5
<1>8. \A n \in 1..Len(P) : P[n][1] \in K /\ P[n][2] = Primary(P[n][1])
  <2>1. \A n \in 1..Len(P) : P[n] \in A
    BY <1>6
  <2> QED
    BY <1>7, <2>1
<1>9. \A r \in K \ Chosen(P) : ~OutputStale(r) /\ FeedsFrom(r) \cap Chosen(P) = {}
  BY <1>4, <1>6
<1>10. /\ \A e : BuildOf(e)' = BuildOf(e)
       /\ \A r : FeedsFrom(r)' = FeedsFrom(r) /\ Primary(r)' = Primary(r)
       /\ \A r : OutputStale(r)' <=> OutputStale(r)
       /\ \A Q : Chosen(Q)' = Chosen(Q)
  BY <1>2, GraphStays, StaleStays DEF Chosen
<1>11. job'.todo = P /\ job'.target = d /\ job'.at # "flip" /\ BuildOf(d)' = K
  BY <1>1, <1>2, <1>10
<1>12. /\ \A n \in 1..Len(P) : P[n][1] \in K /\ P[n][2] = Primary(P[n][1])'
       /\ \A i, j \in 1..Len(P) : /\ i < j => P[i][1] # P[j][1]
                                  /\ i <= j => P[j][1] \notin FeedsFrom(P[i][1])'
       /\ \A r \in K \ Chosen(P)' : ~OutputStale(r)' /\ FeedsFrom(r)' \cap Chosen(P)' = {}
  BY <1>6, <1>8, <1>9, <1>10
<1> QED
  BY <1>11, <1>12 DEF PlanLeft

LEMMA BuildOfFacts ==
  ASSUME FlowTypes, NEW d, NEW r \in BuildOf(d)
  PROVE  /\ r \in ActiveRecipes /\ r \in Recipes /\ Primary(r) \in Datasets /\ Primary(r) \in ToSet(outs[r])
         /\ \A q : q \in FeedsFrom(r) <=> q \in ActiveRecipes /\ ToSet(outs[q]) \cap ToSet(ins[r]) # {}
<1>1. r \in ActiveRecipes /\ r \in Recipes /\ recipe[r] = "active"
  BY PlanOfBuild, GraphFacts DEF ActiveRecipes
<1>2. outs[r] \in Seq(Datasets) /\ outs[r] # <<>>
  BY <1>1 DEF FlowTypes, RowTypes
<1>3. outs[r][1] \in ToSet(outs[r]) /\ ToSet(outs[r]) \subseteq Datasets
  BY <1>2, NonEmptyFacts
<1>4. \A q : q \in FeedsFrom(r) <=> q \in Graph.recipes /\ Outs(Graph, q) \cap Ins(Graph, r) # {}
  BY UpstreamMeans DEF FeedsFrom
<1> QED
  BY <1>1, <1>3, <1>4, GraphFacts DEF Primary

LEMMA PlanLeftCommit ==
  ASSUME FlowTypes, Calm, PlanLeft, CommitStep
  PROVE  PlanLeft'
<1>1. PICK d, v :
         /\ d \in Datasets
         /\ d = Head(job.todo)[2] /\ job.todo # <<>>
         /\ v.config = job.read.config /\ v.consumed = job.read.consumed
         /\ versions'[d] # <<>> /\ Len(versions[d]) \in Nat /\ Len(versions'[d]) = Len(versions[d]) + 1
         /\ versions'[d][Len(versions'[d])] = v
         /\ \A e \in Datasets \ {d} : versions'[e] = versions[e]
  BY CommitFacts
<1> d \in Datasets
  BY <1>1
<1>2. PICK P, t, K : P = job.todo /\ t = job.target /\ K = BuildOf(t)
  OBVIOUS
<1>3. /\ job # None /\ job.at = "flip" /\ UNCHANGED <<recipe, config, ins, outs, dataset>>
      /\ job' = [job EXCEPT !.todo = Tail(@), !.at = "next", !.read = None]
  BY DEF CommitStep, recipeVars
<1>4. /\ \A n \in 1..Len(P) : P[n][1] \in K /\ P[n][2] = Primary(P[n][1])
      /\ \A i, j \in 1..Len(P) : /\ i < j => P[i][1] # P[j][1]
                                 /\ i <= j => P[j][1] \notin FeedsFrom(P[i][1])
      /\ \A r \in K \ Chosen(P) : ~OutputStale(r) /\ FeedsFrom(r) \cap Chosen(P) = {}
  BY <1>2, <1>3 DEF PlanLeft
<1>5. PICK r0, Q : r0 = P[1][1] /\ Q = Tail(P)
  OBVIOUS
<1>6. /\ job.read.config = config[r0]
      /\ job.read.consumed = [i \in ToSet(ins[r0]) |-> current(i)]
  BY <1>2, <1>3, <1>5 DEF PlanLeft
<1>7. /\ Len(P) \in Nat \ {0} /\ Head(P) = P[1] /\ Q \in Seq(Recipes \X Datasets)
      /\ Len(Q) = Len(P) - 1 /\ P \in Seq(Recipes \X Datasets)
      /\ \A n \in 1..Len(Q) : n + 1 \in 1..Len(P) /\ Q[n] = P[n + 1]
  BY <1>1, <1>2, <1>3, <1>5, HeadFacts DEF FlowTypes, JobTypes, JobFits
<1>8. r0 \in K /\ d = Primary(r0) /\ r0 \notin FeedsFrom(r0)
  <2>1. 1 \in 1..Len(P) /\ 1 <= 1
    BY <1>7
  <2> QED
    BY <1>1, <1>2, <1>4, <1>5, <1>7, <2>1
<1>9. r0 \in Recipes /\ r0 \in ActiveRecipes /\ d \in ToSet(outs[r0]) /\ d \notin ToSet(ins[r0])
  BY <1>2, <1>8, BuildOfFacts
<1>10. Chosen(P) \subseteq Chosen(Q) \cup {r0}
  <2> SUFFICES ASSUME NEW r \in Chosen(P), r # r0
               PROVE  r \in Chosen(Q)
    OBVIOUS
  <2>1. PICK i \in 1..Len(P) : P[i][1] = r
    BY <1>7, ChosenFacts
  <2>2. i - 1 \in 1..Len(Q) /\ (i - 1) + 1 = i
    BY <1>5, <1>7, <2>1
  <2>3. Q[i - 1][1] = r
    BY <1>7, <2>1, <2>2
  <2> QED
    BY <1>7, <2>2, <2>3, ChosenFacts
<1>11. Chosen(Q) \subseteq Chosen(P)
  <2> SUFFICES ASSUME NEW r \in Chosen(Q)
               PROVE  r \in Chosen(P)
    OBVIOUS
  <2>1. PICK i \in 1..Len(Q) : Q[i][1] = r
    BY <1>7, ChosenFacts
  <2>2. i + 1 \in 1..Len(P) /\ P[i + 1][1] = r
    BY <1>7, <2>1
  <2> QED
    BY <1>7, <2>2, ChosenFacts
<1>12. current(d)' = current(d) + 1 /\ current(d) \in Nat /\ LatestVersion(d)' = v
  BY <1>1 DEF current, LatestVersion
<1>13. \A e \in Datasets \ {d} : current(e)' = current(e) /\ LatestVersion(e)' = LatestVersion(e)
  BY <1>1 DEF current, LatestVersion
<1>14. ToSet(ins[r0]) \subseteq Datasets /\ \A e \in Datasets : current(e) \in Nat
  BY <1>9, OutsFacts DEF FlowTypes, DatasetTypes, current
<1>15. ~OutputStale(r0)' /\ FeedsFrom(r0) \cap Chosen(Q) = {}
  <2>1. dataset'[d] = "active" /\ Primary(r0)' = d
    BY <1>3, <1>8, <1>9 DEF Calm, CalmRows, Primary
  <2>2. ~OtherConfig(r0, v)'
    BY <1>1, <1>3, <1>6 DEF OtherConfig
  <2>3. \A i \in ToSet(ins[r0]) : Consumed(v, i) = current(i)
    BY <1>1, <1>6 DEF Consumed
  <2>4. \A i \in ToSet(ins[r0]) : ~(current(i)' > Consumed(v, i))
    <3> SUFFICES ASSUME NEW i \in ToSet(ins[r0])
                 PROVE  ~(current(i)' > Consumed(v, i))
      OBVIOUS
    <3>1. i \in Datasets \ {d} /\ current(i) \in Nat
      BY <1>9, <1>14
    <3>2. current(i)' = current(i) /\ Consumed(v, i) = current(i)
      BY <1>13, <2>3, <3>1
    <3> QED
      BY <3>1, <3>2
  <2>5. \A x, i : Consumed(x, i)' = Consumed(x, i)
    BY DEF Consumed
  <2>6. Staleness(r0, d)' = "fresh"
    BY <1>3, <1>12, <2>2, <2>4, <2>5 DEF Staleness
  <2>7. ~OutputStale(r0)'
    BY <2>1, <2>6 DEF OutputStale
  <2>8. ASSUME NEW r \in Chosen(Q)
        PROVE  r \notin FeedsFrom(r0)
    <3>1. PICK i \in 1..Len(Q) : Q[i][1] = r
      BY <1>7, ChosenFacts
    <3>2. i + 1 \in 1..Len(P) /\ 1 \in 1..Len(P) /\ 1 <= i + 1 /\ P[i + 1][1] = r
      BY <1>7, <3>1
    <3> QED
      BY <1>4, <1>5, <3>2
  <2> QED
    BY <2>7, <2>8
<1>16. ASSUME NEW r \in K, r \notin Chosen(P)
       PROVE  ~OutputStale(r)' /\ FeedsFrom(r) \cap Chosen(Q) = {}
  <2>1. ~OutputStale(r) /\ FeedsFrom(r) \cap Chosen(P) = {}
    BY <1>4, <1>16
  <2>2. r0 \in Chosen(P)
    <3>1. 1 \in 1..Len(P)
      BY <1>7
    <3> QED
      BY <1>5, <1>7, <3>1, ChosenFacts
  <2>3. PICK e : e = Primary(r)
    OBVIOUS
  <2>4. /\ r \in Recipes /\ e \in Datasets /\ e \in ToSet(outs[r])
        /\ (r0 \in FeedsFrom(r) <=> ToSet(outs[r0]) \cap ToSet(ins[r]) # {})
    BY <1>2, <1>9, <2>3, BuildOfFacts
  <2>5. e # d
    BY <1>9, <1>16, <2>2, <2>4 DEF Calm, CalmRows, OneProducer
  <2>6. d \notin ToSet(ins[r]) /\ ToSet(ins[r]) \subseteq Datasets
    BY <1>9, <2>1, <2>2, <2>4, OutsFacts DEF FlowTypes
  <2>7. \A i \in ToSet(ins[r]) : current(i)' = current(i)
    BY <1>13, <2>6
  <2>8. current(e)' = current(e) /\ LatestVersion(e)' = LatestVersion(e)
    BY <1>13, <2>4, <2>5
  <2>9. Staleness(r, e)' = Staleness(r, e)
    <3>1. \A x : OtherConfig(r, x)' <=> OtherConfig(r, x)
      BY <1>3 DEF OtherConfig
    <3>2. \A x, i : Consumed(x, i)' = Consumed(x, i)
      BY DEF Consumed
    <3> QED
      BY <1>3, <2>7, <2>8, <3>1, <3>2 DEF Staleness
  <2>10. ~OutputStale(r)'
    BY <1>3, <2>1, <2>3, <2>9 DEF OutputStale, Primary
  <2> QED
    BY <1>11, <2>1, <2>10
<1>17. \A r \in K \ Chosen(Q) : ~OutputStale(r)' /\ FeedsFrom(r) \cap Chosen(Q) = {}
  BY <1>10, <1>15, <1>16
<1>18. job' = [target |-> t, todo |-> Q, at |-> "next", read |-> None]
  BY <1>2, <1>3, <1>5 DEF FlowTypes, JobTypes, JobFits
<1>19. job'.todo = Q /\ job'.target = t /\ job'.at # "flip"
  BY <1>18
<1>20. /\ \A e : BuildOf(e)' = BuildOf(e)
       /\ \A r : FeedsFrom(r)' = FeedsFrom(r) /\ Primary(r)' = Primary(r)
       /\ \A R : Chosen(R)' = Chosen(R)
  BY <1>3, GraphStays DEF Chosen
<1>21. /\ \A n \in 1..Len(Q) : Q[n][1] \in K /\ Q[n][2] = Primary(Q[n][1])
       /\ \A i, j \in 1..Len(Q) : /\ i < j => Q[i][1] # Q[j][1]
                                  /\ i <= j => Q[j][1] \notin FeedsFrom(Q[i][1])
  <2>1. ASSUME NEW n \in 1..Len(Q)
        PROVE  Q[n][1] \in K /\ Q[n][2] = Primary(Q[n][1])
    <3>1. n + 1 \in 1..Len(P) /\ Q[n] = P[n + 1]
      BY <1>7
    <3> QED
      BY <1>4, <3>1
  <2>2. ASSUME NEW i \in 1..Len(Q), NEW j \in 1..Len(Q)
        PROVE  /\ i < j => Q[i][1] # Q[j][1]
               /\ i <= j => Q[j][1] \notin FeedsFrom(Q[i][1])
    <3>1. i + 1 \in 1..Len(P) /\ j + 1 \in 1..Len(P) /\ Q[i] = P[i + 1] /\ Q[j] = P[j + 1]
      BY <1>7
    <3>2. (i < j => i + 1 < j + 1) /\ (i <= j => i + 1 <= j + 1)
      BY <1>7
    <3> QED
      BY <1>4, <3>1, <3>2
  <2> QED
    BY <2>1, <2>2
<1>22. /\ \A n \in 1..Len(Q) : Q[n][1] \in BuildOf(t)' /\ Q[n][2] = Primary(Q[n][1])'
       /\ \A i, j \in 1..Len(Q) : /\ i < j => Q[i][1] # Q[j][1]
                                  /\ i <= j => Q[j][1] \notin FeedsFrom(Q[i][1])'
       /\ \A r \in BuildOf(t)' \ Chosen(Q)' : ~OutputStale(r)' /\ FeedsFrom(r)' \cap Chosen(Q)' = {}
  BY <1>2, <1>17, <1>20, <1>21
<1> QED
  BY <1>19, <1>22 DEF PlanLeft

LEMMA PlanLeftStep ==
  ASSUME FlowTypes, ~rules.overlap, Calm, PlanLeft, [Next]_vars
  PROVE  PlanLeft'
<1>1. CASE UNCHANGED vars
  <2>1. UNCHANGED <<recipeVars, dataset, versions, job>>
    BY <1>1 DEF vars, datasetVars
  <2> QED
    BY <2>1, PlanLeftStays DEF PlanLeft
<1>2. CASE job' = None
  BY <1>2 DEF PlanLeft
<1>3. CASE Next /\ job' # None
  <2>1. Alone => job = None
    BY AloneMeans
  <2>2. \A r \in Recipes : save[r] # None => job = None
    BY DEF Calm, OneInFlight
  <2>3. \/ BuildStep
        \/ \E d \in Datasets, force \in BOOLEAN : RequestBuild(d, force)
    BY <1>3, <2>1, <2>2 DEF Next, Steps, BuildStep, CreateDataset, PatchLabel, ArchiveDataset, BeginSave,
       PatchConfig, AbortSave, ArchiveRecipe, EndSave
  <2>4. ASSUME ResolveStep
        PROVE  PlanLeft'
    <3>1. JobFits(job) /\ UNCHANGED <<recipeVars, dataset, versions>> /\ job # None /\ job.todo # <<>>
      BY <2>4 DEF ResolveStep, FlowTypes, JobTypes, datasetVars
    <3>2. PICK r : r = Head(job.todo)[1] /\ r = job.todo[1][1]
      BY <3>1, HeadFacts DEF FlowTypes
    <3>3. job' = [job EXCEPT !.at = "flip",
                    !.read = [config |-> config[r], ins |-> ins[r],
                              consumed |-> [i \in ToSet(ins[r]) |-> current(i)]]]
      BY <1>3, <2>4, <3>2 DEF ResolveStep
    <3>4. /\ job'.todo = job.todo /\ job'.target = job.target
          /\ job'.read = [config |-> config[r], ins |-> ins[r],
                          consumed |-> [i \in ToSet(ins[r]) |-> current(i)]]
      BY <3>1, <3>3 DEF JobFits
    <3> QED
      BY <3>1, <3>2, <3>4, PlanLeftStays
  <2> QED
    BY <1>3, <2>3, <2>4, PlanLeftCommit, PlanLeftRequest DEF BuildStep, StopBuild, FinishBuild
<1> QED
  BY <1>1, <1>2, <1>3

-----------------------------------------------------------------------------
(* The invariant and what follows from it.                                   *)

FlowInv ==
  /\ FlowTypes
  /\ ~rules.overlap => /\ Calm /\ PlanLeft
                       /\ ~rules.mayLower => Lineage

LEMMA FlowInvariant == Spec => []FlowInv
<1>1. Init => FlowInv
  <2>1. Init => PlanLeft
    BY DEF Init, PlanLeft
  <2> QED
    BY <2>1, FlowTypesInit, CalmInit, LineageInit DEF FlowInv
<1>2. FlowInv /\ [Next]_vars => FlowInv'
  <2> SUFFICES ASSUME FlowInv, [Next]_vars
               PROVE  FlowInv'
    OBVIOUS
  <2>1. rules' = rules
    BY DEF Next, vars
  <2>2. FlowTypes'
    BY FlowTypesStep DEF FlowInv
  <2>3. ~rules.overlap => Calm' /\ PlanLeft'
    BY CalmStep, PlanLeftStep DEF FlowInv
  <2>4. ~rules.overlap /\ ~rules.mayLower => Lineage'
    BY <2>2, LineageStep DEF FlowInv
  <2> QED
    BY <2>1, <2>2, <2>3, <2>4 DEF FlowInv
<1> QED
  BY <1>1, <1>2, PTL DEF Spec

\* No sequence of requests and builds, one after the other, wires a project's recipes
\* into a loop: no build is ever refused as cyclic.
THEOREM FlowStaysAcyclic == Spec => []FlowAcyclic
<1>1. FlowInv => FlowAcyclic
  <2> SUFFICES ASSUME FlowInv, ~rules.overlap
               PROVE  ~Cyclic(Graph, ActiveRecipes)
    BY DEF FlowAcyclic
  <2>1. Loopless(ActiveRecipes, ins, outs)
    BY DEF FlowInv, Calm, CalmRows
  <2>2. Graph.recipes = ActiveRecipes /\ Graph.ins = ins /\ Graph.outs = outs
    BY DEF Graph
  <2>3. Acyclic(Graph, ActiveRecipes)
    BY <2>1, <2>2, AcyclicMeans
  <2> QED
    BY <2>3, GraphFacts, TopoOrderSorts
<1> QED
  BY <1>1, FlowInvariant, PTL

\* The cycle check rejects exactly the wirings that would close a loop, in every state
\* of a project whose requests and builds do not overlap.
THEOREM FlowCycleCheckExact == Spec => []CycleCheckExact
<1>1. FlowInv => CycleCheckExact
  <2> SUFFICES ASSUME FlowInv, ~rules.overlap, NEW r \in Recipes, NEW in, NEW out, NEW g,
                      g = Overlay(GraphWithout(r), r, in, out)
               PROVE  RejectsCycle(r, in, out) <=> Cyclic(g, g.recipes)
    BY DEF CycleCheckExact
  <2>1. Loopless(ActiveRecipes, ins, outs)
    BY DEF FlowInv, Calm, CalmRows
  <2>2. PICK h : h = GraphWithout(r)
    OBVIOUS
  <2>3. h.recipes = ActiveRecipes \ {r} /\ h.ins = ins /\ h.outs = outs
    BY <2>2, GraphWithoutFacts
  <2>4. Loopless(h.recipes, h.ins, h.outs)
    BY <2>1, <2>3, LooplessPart
  <2>5. h.recipes \subseteq Nat /\ IsFiniteSet(h.recipes) /\ r \notin h.recipes /\ r \in Nat
    BY <2>3, GraphFacts, FS_Subset, RecipesAssumption
  <2>6. g.recipes = h.recipes \cup {r}
    BY <2>2, <2>5, OverlayFacts
  <2>7. g.recipes \subseteq Nat /\ IsFiniteSet(g.recipes)
    BY <2>5, <2>6, FS_AddElement
  <2>8. Cyclic(g, g.recipes) <=> ~Acyclic(g, g.recipes)
    BY <2>7, TopoOrderSorts
  <2> QED
    BY <2>2, <2>4, <2>5, <2>8, CycleCheck DEF RejectsCycle
<1> QED
  BY <1>1, FlowInvariant, PTL

\* No active recipe reads or writes an archived dataset (datasets.py 590-609).
THEOREM FlowUsesActive == Spec => []ActiveUsesActive
<1>1. FlowInv => ActiveUsesActive
  BY GraphFacts DEF FlowInv, Calm, CalmRows, ActiveUsesActive
<1> QED
  BY <1>1, FlowInvariant, PTL

\* Without a PATCH that lowers a label, data is labelled at least as strictly as the data
\* it was computed from (ADR-0007 7).
THEOREM FlowLabels == Spec => []LabelsFollowLineage
<1>1. FlowInv => LabelsFollowLineage
  BY DEF FlowInv, Lineage, LabelsFollowLineage
<1> QED
  BY <1>1, FlowInvariant, PTL

\* A build that went through all its steps leaves nothing stale upstream of its target,
\* whatever was stale before and in whatever order the recipes were planned.
THEOREM FlowBuildMakesFresh == Spec => []BuildMakesFresh
<1>1. FlowInv => BuildMakesFresh
  <2> SUFFICES ASSUME FlowInv, ~rules.overlap, job # None, job.todo = <<>>, NEW r \in BuildOf(job.target)
               PROVE  ~OutputStale(r)
    BY DEF BuildMakesFresh, BuildOf
  <2>1. Chosen(<<>>) = {}
    BY DEF Chosen, ToSet
  <2> QED
    BY <2>1 DEF FlowInv, PlanLeft
<1> QED
  BY <1>1, FlowInvariant, PTL

-----------------------------------------------------------------------------
(* Where data comes from, whatever overlaps: a version consumed versions that*)
(* were there before it.                                                     *)

Ranks(rank, n) ==
  /\ n \in Nat /\ rank \in [Datasets -> [Nat -> Nat]]
  /\ \A d \in Datasets : \A k \in 1..current(d) :
       /\ rank[d][k] < n
       /\ \A i \in DOMAIN versions[d][k].consumed :
            /\ i \in Datasets /\ versions[d][k].consumed[i] \in 1..current(i)
            /\ rank[i][versions[d][k].consumed[i]] < rank[d][k]

Ranked == \E rank, n : Ranks(rank, n)

ReadExists ==
  job # None /\ job.at = "flip" =>
    /\ DOMAIN job.read.consumed = ToSet(job.read.ins)
    /\ \A i \in ToSet(job.read.ins) : job.read.consumed[i] \in 1..current(i)

\* A save that moves no output still writes its recipe's outputs, unless the recipe
\* was archived meanwhile.
SavesKeepOutputs ==
  \A r \in Recipes : save[r] # None /\ ~save[r].moved /\ recipe[r] = "active" => save[r].outs = outs[r]

\* d has one version more, v.
Gains(d, v) ==
  /\ current(d) \in Nat /\ current(d)' = current(d) + 1 /\ versions'[d][current(d) + 1] = v
  /\ \A k \in 1..current(d) : versions'[d][k] = versions[d][k]
  /\ \A e \in Datasets \ {d} : versions'[e] = versions[e]

LEMMA CurrentFacts ==
  ASSUME DatasetTypes
  PROVE  \A d \in Datasets : current(d) \in Nat /\ (versions[d] # <<>> <=> current(d) # 0)
<1> SUFFICES ASSUME NEW d \in Datasets
             PROVE  current(d) \in Nat /\ (versions[d] # <<>> <=> current(d) # 0)
  OBVIOUS
<1>1. PICK V : versions[d] \in Seq(V)
  BY DEF DatasetTypes
<1> QED
  BY <1>1 DEF current

LEMMA AppendGains ==
  ASSUME NEW d \in Datasets, NEW V, versions[d] \in Seq(V), NEW v, versions'[d] = Append(versions[d], v),
         \A e \in Datasets \ {d} : versions'[e] = versions[e]
  PROVE  Gains(d, v)
<1>1. PICK s, q : s = versions[d] /\ q = Append(s, v)
  OBVIOUS
<1>2. /\ Len(s) \in Nat /\ Len(q) = Len(s) + 1 /\ q[Len(s) + 1] = v
      /\ \A i \in 1..Len(s) : q[i] = s[i]
  BY <1>1
<1> QED
  BY <1>1, <1>2 DEF Gains, current

LEMMA CreateGains ==
  ASSUME FlowTypes, NEW d \in Datasets, NEW l, CreateDataset(d, l)
  PROVE  versions[d] = <<>> /\ Gains(d, SourceVersion(d)) /\ DOMAIN SourceVersion(d).consumed = {}
<1>1. dataset[d] = "absent" /\ versions' = [versions EXCEPT ![d] = <<SourceVersion(d)>>]
  BY DEF CreateDataset
<1>2. versions[d] = <<>>
  BY <1>1 DEF FlowTypes, DatasetTypes
<1>3. versions'[d] = <<SourceVersion(d)>> /\ \A e \in Datasets \ {d} : versions'[e] = versions[e]
  BY <1>1 DEF FlowTypes, DatasetTypes
<1>4. PICK v : v = SourceVersion(d)
  OBVIOUS
<1>5. <<v>> = Append(<<>>, v) /\ <<>> \in Seq({})
  OBVIOUS
<1>6. Gains(d, v)
  BY <1>2, <1>3, <1>4, <1>5, AppendGains
<1>7. DOMAIN v.consumed = {}
  BY <1>4 DEF SourceVersion
<1> QED
  BY <1>2, <1>4, <1>6, <1>7

LEMMA CommitGains ==
  ASSUME FlowTypes, CommitStep
  PROVE  \E d, v :
           /\ d \in Datasets
           /\ d = job.todo[1][2] /\ Gains(d, v)
           /\ v.config = job.read.config /\ v.consumed = job.read.consumed /\ v.content = Content(job.read)
<1>1. PICK d, v :
           /\ d \in Datasets
           /\ d = Head(job.todo)[2] /\ job.todo # <<>>
           /\ v.config = job.read.config /\ v.consumed = job.read.consumed
           /\ v.content = Content(job.read)
           /\ versions'[d] = Append(versions[d], v)
           /\ \A e \in Datasets \ {d} : versions'[e] = versions[e]
  BY CommitFacts
<1> d \in Datasets
  BY <1>1
<1>2. PICK V : versions[d] \in Seq(V)
  BY DEF FlowTypes, DatasetTypes
<1>3. Gains(d, v)
  BY <1>1, <1>2, AppendGains
<1>4. d = job.todo[1][2]
  BY <1>1, HeadFacts DEF CommitStep, FlowTypes
<1> QED
  BY <1>1, <1>3, <1>4

\* Versions are only ever added.
LEMMA VersionsGrow ==
  ASSUME FlowTypes, [Next]_vars
  PROVE  \/ versions' = versions
         \/ \E d \in Datasets, l \in Labels : CreateDataset(d, l)
         \/ CommitStep
<1>1. CASE Next
  BY <1>1 DEF Next, Steps, PatchLabel, ArchiveDataset, BeginSave, PatchConfig, AbortSave, ArchiveRecipe,
     EndSave, RequestBuild, ResolveStep, StopBuild, FinishBuild, datasetVars
<1>2. CASE UNCHANGED vars
  BY <1>2 DEF vars, datasetVars
<1> QED
  BY <1>1, <1>2

Grows ==
  \A d \in Datasets : /\ current(d) \in Nat /\ current(d)' \in Nat /\ current(d)' >= current(d)
                      /\ \A k \in 1..current(d) : versions'[d][k] = versions[d][k]

LEMMA GainsGrows ==
  ASSUME DatasetTypes, NEW d \in Datasets, NEW v, Gains(d, v)
  PROVE  Grows
<1> SUFFICES ASSUME NEW e \in Datasets
             PROVE  /\ current(e) \in Nat /\ current(e)' \in Nat /\ current(e)' >= current(e)
                    /\ \A k \in 1..current(e) : versions'[e][k] = versions[e][k]
  BY DEF Grows
<1>1. current(e) \in Nat
  BY CurrentFacts
<1>2. CASE e = d
  BY <1>1, <1>2 DEF Gains
<1>3. CASE e # d
  BY <1>1, <1>3 DEF Gains, current
<1> QED
  BY <1>2, <1>3

LEMMA AllGrow ==
  ASSUME FlowTypes, [Next]_vars
  PROVE  Grows
<1>1. CASE versions' = versions
  BY <1>1, CurrentFacts DEF FlowTypes, Grows, current
<1>2. CASE \E d \in Datasets, l \in Labels : CreateDataset(d, l)
  BY <1>2, CreateGains, GainsGrows DEF FlowTypes
<1>3. CASE CommitStep
  BY <1>3, CommitGains, GainsGrows DEF FlowTypes
<1> QED
  BY <1>1, <1>2, <1>3, VersionsGrow

LEMMA RankedGains ==
  ASSUME DatasetTypes, Ranked, NEW d \in Datasets, NEW v, Gains(d, v),
         \A i \in DOMAIN v.consumed : i \in Datasets /\ v.consumed[i] \in 1..current(i)
  PROVE  Ranked'
<1>1. PICK rank, n : Ranks(rank, n)
  BY DEF Ranked
<1>2. n \in Nat /\ rank \in [Datasets -> [Nat -> Nat]] /\ n + 1 \in Nat
  BY <1>1 DEF Ranks
<1>3. PICK c : c = current(d) /\ c \in Nat
  BY CurrentFacts
<1>4. PICK more : more = [e \in Datasets |-> [k \in Nat |-> IF e = d /\ k = c + 1 THEN n ELSE rank[e][k]]]
  OBVIOUS
<1>5. /\ more \in [Datasets -> [Nat -> Nat]]
      /\ more[d][c + 1] = n
      /\ \A e \in Datasets : \A k \in Nat : e # d \/ k # c + 1 => more[e][k] = rank[e][k]
  BY <1>2, <1>3, <1>4
<1>6. \A e \in Datasets : current(e) \in Nat
  BY CurrentFacts
<1>7. ASSUME NEW e \in Datasets, NEW k \in 1..current(e)
      PROVE  more[e][k] = rank[e][k] /\ k \in Nat /\ rank[e][k] \in Nat /\ rank[e][k] < n
  <2>1. k \in Nat /\ (e # d \/ k # c + 1)
    BY <1>3, <1>6
  <2> QED
    BY <1>1, <1>2, <1>5, <2>1 DEF Ranks
<1>8. Grows
  BY GainsGrows
<1>9. \A e \in Datasets : \A k \in 1..current(e) : k \in 1..current(e)'
  BY <1>8 DEF Grows
<1>10. ASSUME NEW e \in Datasets, NEW k \in 1..current(e)'
       PROVE  /\ more[e][k] < n + 1
              /\ \A i \in DOMAIN versions'[e][k].consumed :
                   /\ i \in Datasets /\ versions'[e][k].consumed[i] \in 1..current(i)'
                   /\ more[i][versions'[e][k].consumed[i]] < more[e][k]
  <2>1. CASE k \in 1..current(e)
    <3>1. PICK x : x = versions[e][k] /\ x = versions'[e][k]
      BY <1>8, <2>1 DEF Grows
    <3>2. more[e][k] = rank[e][k] /\ rank[e][k] \in Nat /\ rank[e][k] < n
      BY <1>7, <2>1
    <3>3. ASSUME NEW i \in DOMAIN x.consumed
          PROVE  i \in Datasets /\ x.consumed[i] \in 1..current(i) /\ rank[i][x.consumed[i]] < rank[e][k]
      BY <1>1, <2>1, <3>1, <3>3 DEF Ranks
    <3>4. ASSUME NEW i \in DOMAIN x.consumed
          PROVE  /\ i \in Datasets /\ x.consumed[i] \in 1..current(i)'
                 /\ more[i][x.consumed[i]] < more[e][k]
      <4>1. more[i][x.consumed[i]] = rank[i][x.consumed[i]]
        BY <1>7, <3>3
      <4> QED
        BY <1>9, <3>2, <3>3, <4>1
    <3> QED
      BY <1>2, <3>1, <3>2, <3>4
  <2>2. CASE k \notin 1..current(e)
    <3>1. e = d
      BY <2>2 DEF Gains, current
    <3>2. k = c + 1
      BY <1>3, <2>2, <3>1 DEF Gains
    <3>3. versions'[e][k] = v /\ more[e][k] = n
      BY <1>3, <1>5, <3>1, <3>2 DEF Gains
    <3>4. ASSUME NEW i \in DOMAIN v.consumed
          PROVE  i \in Datasets /\ v.consumed[i] \in 1..current(i)' /\ more[i][v.consumed[i]] < n
      <4>1. i \in Datasets /\ v.consumed[i] \in 1..current(i)
        BY <3>4
      <4>2. more[i][v.consumed[i]] < n
        BY <1>7, <4>1
      <4> QED
        BY <1>9, <4>1, <4>2
    <3> QED
      BY <1>2, <3>3, <3>4
  <2> QED
    BY <2>1, <2>2
<1>11. Ranks(more, n + 1)'
  BY <1>2, <1>5, <1>10 DEF Ranks
<1> QED
  BY <1>11 DEF Ranked

LEMMA RankedStep ==
  ASSUME FlowTypes, Ranked, ReadExists, [Next]_vars
  PROVE  Ranked'
<1>1. CASE versions' = versions
  BY <1>1 DEF Ranked, Ranks, current
<1>2. CASE \E d \in Datasets, l \in Labels : CreateDataset(d, l)
  BY <1>2, CreateGains, RankedGains DEF FlowTypes
<1>3. CASE CommitStep
  <2>1. PICK d, v : d \in Datasets /\ Gains(d, v) /\ v.consumed = job.read.consumed
    BY <1>3, CommitGains
  <2> d \in Datasets
    BY <2>1
  <2>2. job # None /\ job.at = "flip"
    BY <1>3 DEF CommitStep
  <2>3. job.read.ins \in Seq(Datasets)
    BY <2>2 DEF FlowTypes, JobTypes, JobFits, Lists
  <2>4. ToSet(job.read.ins) \subseteq Datasets
    BY <2>3, NonEmptyFacts
  <2>5. \A i \in DOMAIN v.consumed : i \in Datasets /\ v.consumed[i] \in 1..current(i)
    BY <2>1, <2>2, <2>4 DEF ReadExists
  <2> QED
    BY <2>1, <2>5, RankedGains DEF FlowTypes
<1> QED
  BY <1>1, <1>2, <1>3, VersionsGrow

LEMMA RowChanges ==
  ASSUME [Next]_vars
  PROVE  \/ UNCHANGED <<recipe, ins, outs>>
         \/ \E r \in Recipes, c \in Configs : EndSave(r, c)
         \/ \E r \in Recipes : ArchiveRecipe(r)
<1>1. CASE Next
  <2>1. ASSUME NEW r \in Recipes, NEW w \in rules.wirings, BeginSave(r, w)
        PROVE  UNCHANGED <<recipe, ins, outs>>
    BY <2>1 DEF BeginSave, recipeVars
  <2> QED
    BY <1>1, <2>1 DEF Next, Steps, CreateDataset, PatchLabel, ArchiveDataset, PatchConfig, AbortSave,
       RequestBuild, ResolveStep, StopBuild, CommitStep, FinishBuild, recipeVars
<1>2. CASE UNCHANGED vars
  BY <1>2 DEF vars, recipeVars
<1> QED
  BY <1>1, <1>2

LEMMA EndSaveRows ==
  ASSUME FlowTypes, SavesKeepOutputs, NEW r \in Recipes, NEW c \in Configs, EndSave(r, c)
  PROVE  /\ save[r].outs \in Lists
         /\ \A q \in Recipes \ {r} : recipe'[q] = recipe[q] /\ ins'[q] = ins[q] /\ outs'[q] = outs[q]
         /\ recipe'[r] = "active" => outs'[r] = save[r].outs
         /\ \/ outs'[r] = outs[r]
            \/ outs'[r] = save[r].outs /\ \A d \in ToSet(save[r].outs) : ~ProducedElsewhere(d, r)
         /\ save[r] # None /\ save' = [save EXCEPT ![r] = None] /\ job' = job /\ versions' = versions
<1>1. PICK s : s = save[r] /\ s # None
  BY DEF EndSave
<1>2. SaveFits(r, s)
  BY <1>1 DEF FlowTypes, SaveTypes
<1>3. /\ recipe' = [recipe EXCEPT ![r] = IF @ = "absent" THEN "active" ELSE @]
      /\ ins' = [ins EXCEPT ![r] = s.ins]
      /\ outs' = [outs EXCEPT ![r] = IF s.moved THEN s.outs ELSE @]
      /\ save' = [save EXCEPT ![r] = None] /\ UNCHANGED <<versions, job>>
  BY <1>1 DEF EndSave
<1>4. /\ \A q \in Recipes \ {r} : recipe'[q] = recipe[q] /\ ins'[q] = ins[q] /\ outs'[q] = outs[q]
      /\ outs'[r] = IF s.moved THEN s.outs ELSE outs[r]
      /\ recipe'[r] = IF recipe[r] = "absent" THEN "active" ELSE recipe[r]
  BY <1>3 DEF FlowTypes, RowTypes
<1>5. s.moved => \A d \in ToSet(s.outs) : ~ProducedElsewhere(d, r)
  BY <1>1 DEF EndSave, SaveConflicts
<1>6. recipe'[r] = "active" => outs'[r] = s.outs
  <2>1. recipe[r] = "absent" => s.moved
    BY <1>2 DEF SaveFits
  <2>2. recipe[r] = "active" /\ ~s.moved => outs[r] = s.outs
    BY <1>1 DEF SavesKeepOutputs
  <2> QED
    BY <1>4, <2>1, <2>2
<1>7. \/ outs'[r] = outs[r]
      \/ outs'[r] = s.outs /\ \A d \in ToSet(s.outs) : ~ProducedElsewhere(d, r)
  BY <1>4, <1>5
<1> QED
  BY <1>1, <1>2, <1>3, <1>4, <1>6, <1>7 DEF SaveFits

LEMMA ArchiveRows ==
  ASSUME FlowTypes, NEW r \in Recipes, ArchiveRecipe(r)
  PROVE  /\ outs'[r] = <<>> /\ recipe'[r] = "archived" /\ ins' = ins
         /\ \A q \in Recipes \ {r} : outs'[q] = outs[q] /\ recipe'[q] = recipe[q]
         /\ UNCHANGED <<save, job, versions>>
<1>1. /\ outs' = [outs EXCEPT ![r] = <<>>] /\ recipe' = [recipe EXCEPT ![r] = "archived"]
      /\ ins' = ins /\ UNCHANGED <<save, job, versions>>
  BY DEF ArchiveRecipe, NoOutputs, datasetVars
<1> QED
  BY <1>1 DEF FlowTypes, RowTypes

LEMMA OneProducerStep ==
  ASSUME FlowTypes, SavesKeepOutputs, OneProducer, [Next]_vars
  PROVE  OneProducer'
<1>1. CASE UNCHANGED <<recipe, ins, outs>>
  BY <1>1 DEF OneProducer
<1>2. ASSUME NEW r \in Recipes, NEW c \in Configs, EndSave(r, c)
      PROVE  OneProducer'
  <2>1. /\ \A q \in Recipes \ {r} : outs'[q] = outs[q]
        /\ \/ outs'[r] = outs[r]
           \/ outs'[r] = save[r].outs /\ \A d \in ToSet(save[r].outs) : ~ProducedElsewhere(d, r)
    BY <1>2, EndSaveRows
  <2>2. \A q \in Recipes \ {r} : ToSet(outs[q]) \cap ToSet(outs'[r]) = {}
    BY <2>1 DEF OneProducer, ProducedElsewhere
  <2> QED
    BY <2>1, <2>2 DEF OneProducer
<1>3. ASSUME NEW r \in Recipes, ArchiveRecipe(r)
      PROVE  OneProducer'
  <2>1. outs'[r] = <<>> /\ \A q \in Recipes \ {r} : outs'[q] = outs[q]
    BY <1>3, ArchiveRows
  <2>2. ToSet(<<>>) = {}
    BY DEF ToSet
  <2> QED
    BY <2>1, <2>2 DEF OneProducer
<1> QED
  BY <1>1, <1>2, <1>3, RowChanges

LEMMA SavesKeepOutputsStep ==
  ASSUME FlowTypes, SavesKeepOutputs, [Next]_vars
  PROVE  SavesKeepOutputs'
<1>1. ASSUME NEW r \in Recipes, NEW c \in Configs, EndSave(r, c)
      PROVE  SavesKeepOutputs'
  <2>1. /\ \A q \in Recipes \ {r} : recipe'[q] = recipe[q] /\ outs'[q] = outs[q]
        /\ save' = [save EXCEPT ![r] = None]
    BY <1>1, EndSaveRows
  <2>2. save'[r] = None /\ \A q \in Recipes \ {r} : save'[q] = save[q]
    BY <2>1 DEF FlowTypes, SaveTypes
  <2> QED
    BY <2>1, <2>2 DEF SavesKeepOutputs
<1>2. ASSUME NEW r \in Recipes, ArchiveRecipe(r)
      PROVE  SavesKeepOutputs'
  <2>1. /\ recipe'[r] = "archived" /\ save' = save
        /\ \A q \in Recipes \ {r} : outs'[q] = outs[q] /\ recipe'[q] = recipe[q]
    BY <1>2, ArchiveRows
  <2> QED
    BY <2>1 DEF SavesKeepOutputs
<1>3. CASE UNCHANGED <<recipe, ins, outs>>
  <2>1. ASSUME NEW r \in Recipes, NEW w \in rules.wirings, BeginSave(r, w)
        PROVE  SavesKeepOutputs'
    <3>1. PICK given, in, out, s :
            /\ given \in rules.given
            /\ out = IF "outs" \in given THEN w[2] ELSE outs[r]
            /\ s = [ins |-> in, outs |-> out, moved |-> "outs" \in given, label |-> label,
                    floor |-> IF "ins" \in given THEN Floor(label, ToSet(in)) ELSE 0,
                    new |-> {d \in ToSet(out) : dataset[d] = "absent"}]
            /\ save' = [save EXCEPT ![r] = s]
      BY <2>1, BeginSaveParts
    <3>2. save' = [save EXCEPT ![r] = s]
      BY <3>1
    <3>3. save'[r] = s /\ \A q \in Recipes \ {r} : save'[q] = save[q]
      BY <3>2 DEF FlowTypes, SaveTypes
    <3>4. ~s.moved => s.outs = outs[r]
      <4>1. s.moved = ("outs" \in given) /\ s.outs = out
        BY <3>1
      <4> QED
        BY <3>1, <4>1
    <3> QED
      BY <1>3, <3>3, <3>4 DEF SavesKeepOutputs
  <2>2. ASSUME NEW r \in Recipes, AbortSave(r)
        PROVE  SavesKeepOutputs'
    <3>1. save' = [save EXCEPT ![r] = None]
      BY <2>2 DEF AbortSave
    <3>2. save'[r] = None /\ \A q \in Recipes \ {r} : save'[q] = save[q]
      BY <3>1 DEF FlowTypes, SaveTypes
    <3> QED
      BY <1>3, <3>2 DEF SavesKeepOutputs
  <2>3. CASE save' = save
    BY <1>3, <2>3 DEF SavesKeepOutputs
  <2>4. UNCHANGED vars => save' = save
    BY DEF vars
  <2> QED
    BY <1>1, <1>2, <2>1, <2>2, <2>3, <2>4 DEF Next, Steps, CreateDataset, PatchLabel, ArchiveDataset, PatchConfig,
       RequestBuild, ResolveStep, StopBuild, CommitStep, FinishBuild
<1> QED
  BY <1>1, <1>2, <1>3, RowChanges

\* What becomes of a build in a step.
LEMMA JobChanges ==
  ASSUME FlowTypes, [Next]_vars
  PROVE  \/ job' = job /\ ~CommitStep
         \/ job' = None
         \/ \E d \in Datasets, force \in BOOLEAN :
              RequestBuild(d, force) /\ job'.at = "next" /\ job'.todo = Plan(d, force)
         \/ \E r \in Recipes :
              /\ job # None /\ job.todo # <<>> /\ r = job.todo[1][1] /\ job'.todo = job.todo
              /\ \A i \in ToSet(ins[r]) : current(i) # 0
              /\ job'.read = [config |-> config[r], ins |-> ins[r],
                              consumed |-> [i \in ToSet(ins[r]) |-> current(i)]]
              /\ UNCHANGED <<recipeVars, datasetVars, save>>
         \/ /\ CommitStep /\ job # None /\ job.todo # <<>> /\ job'.at = "next" /\ job'.todo = Tail(job.todo)
            /\ job.at = "flip"
<1>1. CASE UNCHANGED vars
  <2>1. job' = job
    BY <1>1 DEF vars
  <2>2. CommitStep => job' # job
    BY DEF CommitStep, FlowTypes, JobTypes, JobFits
  <2> QED
    BY <2>1, <2>2
<1>2. ASSUME NEW d \in Datasets, NEW force \in BOOLEAN, RequestBuild(d, force)
      PROVE  job'.at = "next" /\ job'.todo = Plan(d, force)
  BY <1>2 DEF RequestBuild
<1>3. CASE ResolveStep
  <2>1. JobFits(job) /\ job # None /\ job.todo # <<>>
    BY <1>3 DEF ResolveStep, FlowTypes, JobTypes
  <2>2. PICK r \in Recipes : r = Head(job.todo)[1] /\ r = job.todo[1][1]
    BY <2>1, HeadFacts DEF FlowTypes
  <2>3. CASE \E i \in ToSet(ins[r]) : current(i) = 0
    BY <1>3, <2>2, <2>3 DEF ResolveStep
  <2>4. CASE ~\E i \in ToSet(ins[r]) : current(i) = 0
    <3>1. job' = [job EXCEPT !.at = "flip",
                    !.read = [config |-> config[r], ins |-> ins[r],
                              consumed |-> [i \in ToSet(ins[r]) |-> current(i)]]]
          /\ UNCHANGED <<recipeVars, datasetVars, save>>
      BY <1>3, <2>2, <2>4 DEF ResolveStep
    <3>2. /\ job'.todo = job.todo
          /\ job'.read = [config |-> config[r], ins |-> ins[r],
                          consumed |-> [i \in ToSet(ins[r]) |-> current(i)]]
      BY <2>1, <3>1 DEF JobFits
    <3> QED
      BY <2>1, <2>2, <2>4, <3>1, <3>2
  <2> QED
    BY <2>3, <2>4
<1>4. CASE CommitStep
  <2>1. JobFits(job) /\ job # None /\ job.at = "flip" /\ job.todo # <<>>
    BY <1>4 DEF CommitStep, FlowTypes, JobTypes, JobFits
  <2>2. job' = [job EXCEPT !.todo = Tail(@), !.at = "next", !.read = None]
    BY <1>4 DEF CommitStep
  <2>3. job'.at = "next" /\ job'.todo = Tail(job.todo)
    BY <2>1, <2>2 DEF JobFits
  <2> QED
    BY <1>4, <2>1, <2>3
<1>5. CASE StopBuild \/ FinishBuild
  BY <1>5 DEF StopBuild, FinishBuild
<1>6. ASSUME job' = job
      PROVE  ~CommitStep
  BY <1>6 DEF CommitStep, FlowTypes, JobTypes, JobFits
<1> QED
  BY <1>1, <1>2, <1>3, <1>4, <1>5, <1>6 DEF Next, Steps, CreateDataset, PatchLabel, ArchiveDataset, BeginSave,
     PatchConfig, AbortSave, ArchiveRecipe, EndSave

LEMMA ReadExistsStep ==
  ASSUME FlowTypes, ReadExists, [Next]_vars
  PROVE  ReadExists'
<1>1. Grows
  BY AllGrow
<1>2. CASE job' = job
  <2> SUFFICES ASSUME job # None, job.at = "flip"
               PROVE  /\ DOMAIN job.read.consumed = ToSet(job.read.ins)
                      /\ \A i \in ToSet(job.read.ins) : job.read.consumed[i] \in 1..current(i)'
    BY <1>2 DEF ReadExists
  <2>1. job.read.ins \in Seq(Datasets)
    BY DEF FlowTypes, JobTypes, JobFits, Lists
  <2>2. ToSet(job.read.ins) \subseteq Datasets
    BY <2>1, NonEmptyFacts
  <2>3. \A i \in ToSet(job.read.ins) : job.read.consumed[i] \in 1..current(i)
    BY DEF ReadExists
  <2>4. \A i \in Datasets : \A k \in 1..current(i) : k \in 1..current(i)'
    BY <1>1 DEF Grows
  <2> QED
    BY <2>2, <2>3, <2>4 DEF ReadExists
<1>3. ASSUME NEW r \in Recipes, \A i \in ToSet(ins[r]) : current(i) # 0,
             job'.read = [config |-> config[r], ins |-> ins[r],
                          consumed |-> [i \in ToSet(ins[r]) |-> current(i)]],
             UNCHANGED <<recipeVars, datasetVars, save>>
      PROVE  ReadExists'
  <2>1. ToSet(ins[r]) \subseteq Datasets /\ \A i \in Datasets : current(i) \in Nat /\ current(i)' = current(i)
    BY <1>3, OutsFacts, CurrentFacts DEF FlowTypes, current, datasetVars
  <2>2. \A i \in ToSet(ins[r]) : current(i) \in 1..current(i)'
    BY <1>3, <2>1
  <2> QED
    BY <1>3, <2>2 DEF ReadExists
<1>4. CASE job' = None \/ job'.at = "next"
  BY <1>4 DEF ReadExists
<1> QED
  BY <1>2, <1>3, <1>4, JobChanges

-----------------------------------------------------------------------------
(* Where no dataset is rewired once it is being built, the latest version of *)
(* a recipe's output was computed from the inputs the recipe has now.        *)

MadeFrom(v, in) ==
  /\ DOMAIN v.consumed = ToSet(in)
  /\ v.content = <<v.config, [n \in 1..Len(in) |-> versions[in[n]][v.consumed[in[n]]].content]>>

Made ==
  \A r \in ActiveRecipes :
    versions[Primary(r)] # <<>> => MadeFrom(LatestVersion(Primary(r)), ins[r])

\* A dataset that a build will still write is written by its producer, if it has one.
TodoMatches ==
  job # None =>
    \A n \in 1..Len(job.todo) : \A r \in ActiveRecipes :
      Primary(r) = job.todo[n][2] => r = job.todo[n][1]

ReadMatches ==
  job # None /\ job.at = "flip" =>
    \A r \in ActiveRecipes : Primary(r) = job.todo[1][2] => ins[r] = job.read.ins

LEMMA ActiveFacts ==
  ASSUME FlowTypes, NEW r \in ActiveRecipes
  PROVE  /\ r \in Recipes /\ recipe[r] = "active"
         /\ Primary(r) \in Datasets /\ Primary(r) \in ToSet(outs[r]) /\ dataset[Primary(r)] # "absent"
         /\ ins[r] \in Seq(Datasets) /\ ToSet(ins[r]) \subseteq Datasets
<1>1. r \in Recipes /\ recipe[r] = "active"
  BY DEF ActiveRecipes
<1>2. outs[r] \in Seq(Datasets) /\ outs[r] # <<>>
  BY <1>1 DEF FlowTypes, RowTypes
<1>3. outs[r][1] \in ToSet(outs[r]) /\ ToSet(outs[r]) \subseteq Datasets
  BY <1>2, NonEmptyFacts
<1>4. dataset[outs[r][1]] # "absent"
  BY <1>1, <1>3 DEF FlowTypes, RowTypes
<1>5. ins[r] \in Seq(Datasets) /\ ToSet(ins[r]) \subseteq Datasets
  BY <1>1, OutsFacts DEF FlowTypes
<1> QED
  BY <1>1, <1>3, <1>4, <1>5 DEF Primary

\* What a version was made from stays where it is.
LEMMA MadeFromStays ==
  ASSUME Grows, NEW in \in Seq(Datasets), NEW v, MadeFrom(v, in),
         \A i \in ToSet(in) : v.consumed[i] \in 1..current(i)
  PROVE  MadeFrom(v, in)'
<1>1. ASSUME NEW n \in 1..Len(in)
      PROVE  versions'[in[n]][v.consumed[in[n]]] = versions[in[n]][v.consumed[in[n]]]
  <2>1. in[n] \in Datasets /\ in[n] \in ToSet(in)
    BY NonEmptyFacts
  <2> QED
    BY <2>1 DEF Grows
<1>2. [n \in 1..Len(in) |-> versions'[in[n]][v.consumed[in[n]]].content]
        = [n \in 1..Len(in) |-> versions[in[n]][v.consumed[in[n]]].content]
  BY <1>1
<1> QED
  BY <1>2 DEF MadeFrom

LEMMA LatestExists ==
  ASSUME FlowTypes, Ranked, NEW d \in Datasets, versions[d] # <<>>
  PROVE  /\ current(d) \in Nat \ {0} /\ current(d) \in 1..current(d)
         /\ \A i \in DOMAIN LatestVersion(d).consumed :
              i \in Datasets /\ LatestVersion(d).consumed[i] \in 1..current(i)
<1>1. current(d) \in Nat /\ current(d) # 0
  BY CurrentFacts DEF FlowTypes
<1>2. current(d) \in 1..current(d)
  BY <1>1
<1>3. PICK rank, n : Ranks(rank, n)
  BY DEF Ranked
<1> QED
  BY <1>1, <1>2, <1>3 DEF Ranks, LatestVersion

LEMMA MadeRows ==
  ASSUME FlowTypes, FlowTypes', Made, versions' = versions,
         \A r \in ActiveRecipes' :
           \/ r \in ActiveRecipes /\ ins'[r] = ins[r] /\ Primary(r)' = Primary(r)
           \/ versions[Primary(r)'] = <<>>
  PROVE  Made'
<1> SUFFICES ASSUME NEW r \in ActiveRecipes', versions'[Primary(r)'] # <<>>
             PROVE  MadeFrom(LatestVersion(Primary(r)), ins[r])'
  BY DEF Made
<1>1. /\ r \in ActiveRecipes /\ ins'[r] = ins[r] /\ Primary(r)' = Primary(r)
      /\ versions[Primary(r)] # <<>>
  OBVIOUS
<1>2. MadeFrom(LatestVersion(Primary(r)), ins[r])
  BY <1>1 DEF Made
<1> QED
  BY <1>1, <1>2 DEF MadeFrom, LatestVersion, current

LEMMA MadeGains ==
  ASSUME FlowTypes, Ranked, Made, UNCHANGED <<recipe, ins, outs>>, NEW d \in Datasets, NEW v, Gains(d, v),
         \A r \in ActiveRecipes : Primary(r) = d => MadeFrom(v, ins[r])'
  PROVE  Made'
<1>1. ActiveRecipes' = ActiveRecipes /\ \A r : Primary(r)' = Primary(r)
  BY DEF ActiveRecipes, Primary
<1>2. ASSUME NEW r \in ActiveRecipes, versions'[Primary(r)] # <<>>
      PROVE  MadeFrom(LatestVersion(Primary(r)), ins[r])'
  <2>1. PICK e \in Datasets : e = Primary(r)
    BY ActiveFacts
  <2>2. CASE e = d
    <3>1. LatestVersion(e)' = v
      BY <2>2 DEF Gains, LatestVersion
    <3> QED
      BY <1>1, <1>2, <2>1, <2>2, <3>1
  <2>3. CASE e # d
    <3>1. versions'[e] = versions[e]
      BY <2>3 DEF Gains
    <3>2. LatestVersion(e)' = LatestVersion(e) /\ versions[e] # <<>>
      BY <1>2, <2>1, <3>1 DEF LatestVersion, current
    <3>3. PICK x : x = LatestVersion(e) /\ MadeFrom(x, ins[r])
      BY <2>1, <3>2 DEF Made
    <3>4. \A i \in DOMAIN x.consumed : x.consumed[i] \in 1..current(i)
      BY <3>2, <3>3, LatestExists
    <3>5. DOMAIN x.consumed = ToSet(ins[r])
      BY <3>3 DEF MadeFrom
    <3>6. ins[r] \in Seq(Datasets) /\ Grows
      BY ActiveFacts, GainsGrows DEF FlowTypes
    <3>7. MadeFrom(x, ins[r])'
      <4>1. PICK in \in Seq(Datasets) : in = ins[r]
        BY <3>6
      <4>2. MadeFrom(x, in)'
        BY <3>3, <3>4, <3>5, <3>6, <4>1, MadeFromStays
      <4> QED
        BY <4>1, <4>2
    <3> QED
      BY <1>1, <2>1, <3>2, <3>3, <3>7
  <2> QED
    BY <2>2, <2>3
<1> QED
  BY <1>1, <1>2 DEF Made

\* A save that rewires leaves what is built, or about to be, to its producer.
LEMMA EndSaveUnbuilt ==
  ASSUME FlowTypes, SavesKeepOutputs, ~rules.mayRewire, NEW r \in Recipes, NEW c \in Configs, EndSave(r, c),
         NEW q \in ActiveRecipes'
  PROVE  \/ q \in ActiveRecipes /\ ins'[q] = ins[q] /\ Primary(q)' = Primary(q)
         \/ /\ versions[Primary(q)'] = <<>>
            /\ job # None => \A n \in 1..Len(job.todo) : job.todo[n][2] # Primary(q)'
<1>1. CASE q # r
  BY <1>1, EndSaveRows DEF ActiveRecipes, Primary
<1>2. CASE q = r
  <2>1. PICK s : s = save[r]
    OBVIOUS
  <2>2. s.outs \in Lists /\ outs'[r] = s.outs
    BY <1>2, <2>1, EndSaveRows DEF ActiveRecipes
  <2>3. s.outs[1] \in ToSet(s.outs)
    BY <2>2, NonEmptyFacts DEF Lists
  <2>4. Unbuilt(ToSet(s.outs)) \/ (s.ins = ins[r] /\ s.outs = outs[r])
    BY <2>1 DEF EndSave
  <2>5. Primary(q)' = s.outs[1]
    BY <1>2, <2>2 DEF Primary
  <2>6. CASE s.ins = ins[r] /\ s.outs = outs[r]
    <3>1. ins'[r] = ins[r] /\ Primary(r)' = Primary(r)
      BY <1>2, <2>1, <2>5, <2>6 DEF EndSave, FlowTypes, RowTypes, Primary
    <3>2. r \in ActiveRecipes
      <4>1. recipe[r] = "absent" => outs[r] = <<>>
        BY DEF FlowTypes, RowTypes
      <4>2. outs[r] # <<>>
        BY <2>2, <2>6 DEF Lists
      <4> QED
        BY <1>2, <2>1, <4>1, <4>2 DEF EndSave, FlowTypes, RowTypes, ActiveRecipes
    <3> QED
      BY <1>2, <3>1, <3>2
  <2> QED
    BY <2>3, <2>4, <2>5, <2>6 DEF Unbuilt
<1> QED
  BY <1>1, <1>2

LEMMA ArchiveKeeps ==
  ASSUME FlowTypes, NEW r \in Recipes, ArchiveRecipe(r), NEW q \in ActiveRecipes'
  PROVE  q \in ActiveRecipes /\ ins'[q] = ins[q] /\ Primary(q)' = Primary(q)
BY ArchiveRows DEF ActiveRecipes, Primary

LEMMA MadeStep ==
  ASSUME FlowTypes, FlowTypes', ~rules.mayRewire, SavesKeepOutputs, Ranked, ReadExists, Made, ReadMatches,
         [Next]_vars
  PROVE  Made'
<1>1. CASE versions' = versions /\ UNCHANGED <<recipe, ins, outs>>
  BY <1>1, MadeRows DEF ActiveRecipes, Primary
<1>2. ASSUME NEW r \in Recipes, NEW c \in Configs, EndSave(r, c)
      PROVE  Made'
  BY <1>2, EndSaveRows, EndSaveUnbuilt, MadeRows
<1>3. ASSUME NEW r \in Recipes, ArchiveRecipe(r)
      PROVE  Made'
  BY <1>3, ArchiveRows, ArchiveKeeps, MadeRows
<1>4. ASSUME NEW d \in Datasets, NEW l \in Labels, CreateDataset(d, l)
      PROVE  Made'
  <2>1. Gains(d, SourceVersion(d)) /\ UNCHANGED <<recipe, ins, outs>> /\ dataset[d] = "absent"
    BY <1>4, CreateGains DEF CreateDataset, recipeVars
  <2>2. \A r \in ActiveRecipes : Primary(r) # d
    BY <2>1, ActiveFacts
  <2> QED
    BY <2>1, <2>2, MadeGains
<1>5. CASE CommitStep
  <2>1. PICK d, v :
           /\ d \in Datasets
           /\ d = job.todo[1][2] /\ Gains(d, v)
           /\ v.config = job.read.config /\ v.consumed = job.read.consumed /\ v.content = Content(job.read)
    BY <1>5, CommitGains
  <2> d \in Datasets
    BY <2>1
  <2>2. job # None /\ job.at = "flip" /\ UNCHANGED <<recipe, ins, outs>>
    BY <1>5 DEF CommitStep, recipeVars
  <2>3. ASSUME NEW r \in ActiveRecipes, Primary(r) = d
        PROVE  MadeFrom(v, ins[r])'
    <3>1. PICK in : in = ins[r] /\ in = job.read.ins
      BY <2>1, <2>2, <2>3 DEF ReadMatches
    <3>2. MadeFrom(v, in)
      BY <2>1, <2>2, <3>1 DEF MadeFrom, ReadExists, Content
    <3>3. \A i \in ToSet(in) : v.consumed[i] \in 1..current(i)
      BY <2>1, <2>2, <3>1 DEF ReadExists
    <3>4. in \in Seq(Datasets) /\ Grows
      BY <2>1, <3>1, ActiveFacts, GainsGrows DEF FlowTypes
    <3>5. MadeFrom(v, in)'
      BY <3>2, <3>3, <3>4, MadeFromStays
    <3>6. MadeFrom(v, ins[r])' <=> MadeFrom(v, in)'
      BY <2>2, <3>1 DEF MadeFrom
    <3> QED
      BY <3>5, <3>6
  <2> QED
    BY <2>1, <2>2, <2>3, MadeGains
<1>6. CASE UNCHANGED vars
  BY <1>1, <1>6 DEF vars, recipeVars, datasetVars
<1>7. versions' = versions \/ (\E d \in Datasets, l \in Labels : CreateDataset(d, l)) \/ CommitStep
  BY VersionsGrow
<1> QED
  BY <1>1, <1>2, <1>3, <1>4, <1>5, <1>7, RowChanges

LEMMA MatchesRows ==
  ASSUME FlowTypes, TodoMatches, ReadMatches, job' = job,
         \A q \in ActiveRecipes' :
           \/ q \in ActiveRecipes /\ ins'[q] = ins[q] /\ Primary(q)' = Primary(q)
           \/ job # None => \A n \in 1..Len(job.todo) : job.todo[n][2] # Primary(q)'
  PROVE  TodoMatches' /\ ReadMatches'
<1>1. TodoMatches'
  BY DEF TodoMatches
<1>2. ReadMatches'
  <2> SUFFICES ASSUME job # None, job.at = "flip", NEW q \in ActiveRecipes', Primary(q)' = job.todo[1][2]
               PROVE  ins'[q] = job.read.ins
    BY DEF ReadMatches
  <2>1. job.todo # <<>>
    BY DEF FlowTypes, JobTypes, JobFits
  <2>2. 1 \in 1..Len(job.todo)
    BY <2>1, HeadFacts DEF FlowTypes
  <2> QED
    BY <2>2 DEF ReadMatches
<1> QED
  BY <1>1, <1>2

LEMMA MatchesStep ==
  ASSUME FlowTypes, ~rules.mayRewire, SavesKeepOutputs, OneProducer, TodoMatches, ReadMatches, [Next]_vars
  PROVE  TodoMatches' /\ ReadMatches'
<1>1. CASE job' = job
  <2>1. CASE UNCHANGED <<recipe, ins, outs>>
    BY <1>1, <2>1, MatchesRows DEF ActiveRecipes, Primary
  <2>2. ASSUME NEW r \in Recipes, NEW c \in Configs, EndSave(r, c)
        PROVE  TodoMatches' /\ ReadMatches'
    BY <1>1, <2>2, EndSaveUnbuilt, MatchesRows
  <2>3. ASSUME NEW r \in Recipes, ArchiveRecipe(r)
        PROVE  TodoMatches' /\ ReadMatches'
    BY <1>1, <2>3, ArchiveKeeps, MatchesRows
  <2> QED
    BY <2>1, <2>2, <2>3, RowChanges
<1>2. CASE job' = None
  BY <1>2 DEF TodoMatches, ReadMatches
<1>3. ASSUME NEW d \in Datasets, NEW force \in BOOLEAN, RequestBuild(d, force),
             job'.at = "next", job'.todo = Plan(d, force)
      PROVE  TodoMatches' /\ ReadMatches'
  <2>1. PICK P, K, order : P = Plan(d, force) /\ K = BuildOf(d) /\ order = TopoOrder(Graph, K)
    OBVIOUS
  <2>2. K \subseteq ActiveRecipes /\ Ordered(Graph, K, order) /\ Planned(order, Len(order), P)
    BY <2>1, PlanOfBuild
  <2>3. PICK A : A = {<<r, Primary(r)>> : r \in {order[k] : k \in 1..Len(order)}}
    OBVIOUS
  <2>4. P \in Seq(A)
    BY <2>2, <2>3 DEF Planned
  <2>5. \A k \in 1..Len(order) : order[k] \in K
    BY <2>2 DEF Ordered
  <2>6. ASSUME NEW n \in 1..Len(P), NEW q \in ActiveRecipes, Primary(q) = P[n][2]
        PROVE  q = P[n][1]
    <3>1. P[n] \in A
      BY <2>4
    <3>2. PICK r \in ActiveRecipes : P[n] = <<r, Primary(r)>>
      BY <2>2, <2>3, <2>5, <3>1
    <3>3. Primary(q) \in ToSet(outs[q]) \cap ToSet(outs[r]) /\ q \in Recipes /\ r \in Recipes
      BY <2>6, <3>2, ActiveFacts
    <3>4. q = r
      BY <3>3 DEF OneProducer
    <3> QED
      BY <3>2, <3>4
  <2>7. UNCHANGED <<recipe, ins, outs>>
    BY <1>3 DEF RequestBuild, recipeVars
  <2>8. ActiveRecipes' = ActiveRecipes /\ \A r : Primary(r)' = Primary(r)
    BY <2>7 DEF ActiveRecipes, Primary
  <2> QED
    BY <1>3, <2>1, <2>6, <2>8 DEF TodoMatches, ReadMatches
<1>4. ASSUME NEW r \in Recipes, job # None, job.todo # <<>>, r = job.todo[1][1], job'.todo = job.todo,
             job'.read = [config |-> config[r], ins |-> ins[r],
                          consumed |-> [i \in ToSet(ins[r]) |-> current(i)]],
             UNCHANGED <<recipeVars, datasetVars, save>>
      PROVE  TodoMatches' /\ ReadMatches'
  <2>1. /\ ActiveRecipes' = ActiveRecipes /\ \A q : Primary(q)' = Primary(q)
        /\ ins' = ins /\ job'.read.ins = ins[r]
    BY <1>4 DEF ActiveRecipes, Primary, recipeVars
  <2>2. 1 \in 1..Len(job.todo)
    BY <1>4, HeadFacts DEF FlowTypes
  <2>3. \A q \in ActiveRecipes : Primary(q) = job.todo[1][2] => q = r
    BY <1>4, <2>2 DEF TodoMatches
  <2>4. ReadMatches'
    BY <1>4, <2>1, <2>3 DEF ReadMatches
  <2>5. TodoMatches'
    BY <1>4, <2>1 DEF TodoMatches
  <2> QED
    BY <2>4, <2>5
<1>5. CASE CommitStep /\ job # None /\ job.todo # <<>> /\ job'.at = "next" /\ job'.todo = Tail(job.todo)
  <2>1. UNCHANGED <<recipe, ins, outs>>
    BY <1>5 DEF CommitStep, recipeVars
  <2>2. ActiveRecipes' = ActiveRecipes /\ \A q : Primary(q)' = Primary(q)
    BY <2>1 DEF ActiveRecipes, Primary
  <2>3. \A n \in 1..Len(Tail(job.todo)) : n + 1 \in 1..Len(job.todo) /\ Tail(job.todo)[n] = job.todo[n + 1]
    BY <1>5, HeadFacts DEF FlowTypes
  <2>4. TodoMatches'
    BY <1>5, <2>2, <2>3 DEF TodoMatches
  <2> QED
    BY <1>5, <2>4 DEF ReadMatches
<1> QED
  BY <1>1, <1>2, <1>3, <1>4, <1>5, JobChanges

Provenance ==
  /\ OneProducer /\ SavesKeepOutputs /\ Ranked /\ ReadExists
  /\ ~rules.mayRewire => Made /\ TodoMatches /\ ReadMatches

\* Whatever overlaps: a dataset has one producer, and each version consumed versions
\* that existed before it; if nothing is rewired once it is being built, the latest
\* version of a recipe's output comes from the inputs the recipe has now.
THEOREM FlowProvenance == Spec => [](FlowTypes /\ Provenance)
<1>1. Init => FlowTypes /\ Provenance
  <2> SUFFICES ASSUME Init
               PROVE  Provenance
    BY FlowTypesInit
  <2>1. ToSet(<<>>) = {}
    BY DEF ToSet
  <2>2. OneProducer /\ SavesKeepOutputs /\ ReadExists /\ TodoMatches /\ ReadMatches
    BY <2>1 DEF Init, OneProducer, SavesKeepOutputs, ReadExists, TodoMatches, ReadMatches
  <2>3. Made
    BY DEF Init, Made, ActiveRecipes
  <2>4. Ranked
    <3>1. PICK rank : rank = [d \in Datasets |-> [k \in Nat |-> 0]]
      OBVIOUS
    <3>2. \A d \in Datasets : 1..current(d) = {}
      <4>1. \A d \in Datasets : current(d) = 0
        BY DEF Init, current
      <4> QED
        BY <4>1
    <3>3. Ranks(rank, 0)
      BY <3>1, <3>2 DEF Ranks
    <3> QED
      BY <3>3 DEF Ranked
  <2> QED
    BY <2>2, <2>3, <2>4 DEF Provenance
<1>2. FlowTypes /\ Provenance /\ [Next]_vars => FlowTypes' /\ Provenance'
  <2> SUFFICES ASSUME FlowTypes, Provenance, [Next]_vars
               PROVE  FlowTypes' /\ Provenance'
    OBVIOUS
  <2>1. FlowTypes' /\ rules' = rules
    BY FlowTypesStep DEF Next, vars
  <2>2. OneProducer' /\ SavesKeepOutputs' /\ Ranked' /\ ReadExists'
    BY OneProducerStep, SavesKeepOutputsStep, RankedStep, ReadExistsStep DEF Provenance
  <2>3. ~rules.mayRewire => Made' /\ TodoMatches' /\ ReadMatches'
    BY <2>1, MadeStep, MatchesStep DEF Provenance
  <2> QED
    BY <2>1, <2>2, <2>3 DEF Provenance
<1> QED
  BY <1>1, <1>2, PTL DEF Spec

-----------------------------------------------------------------------------
(* A complete rebuild, round by round.                                       *)

BuildersOf(e) == {r \in ActiveRecipes : Primary(r) = e}
Present(e) == IF versions[e] = <<>> THEN None ELSE LatestVersion(e).content

Round(n, f) ==
  [e \in Datasets |->
     IF n = 0 \/ BuildersOf(e) = {}
       THEN IF versions[e] = <<>> THEN None ELSE LatestVersion(e).content
       ELSE LET r == CHOOSE r \in BuildersOf(e) : TRUE IN
            <<config[r], [i \in 1..Len(ins[r]) |-> f[ins[r][i]]]>>]

Rebuilding ==
  LET ideal[n \in Nat] ==
        [e \in Datasets |->
           IF n = 0 \/ BuildersOf(e) = {}
             THEN IF versions[e] = <<>> THEN None ELSE LatestVersion(e).content
             ELSE LET r == CHOOSE r \in BuildersOf(e) : TRUE IN
                  <<config[r], [i \in 1..Len(ins[r]) |-> ideal[n - 1][ins[r][i]]]>>]
  IN  ideal

\* g holds the rounds up to m.
RoundsTo(m, g) == g = [n \in 0..m |-> g[n]] /\ \A n \in 0..m : g[n] = Round(n, g[n - 1])

LEMMA RebuildingRounds == \A n \in Nat : Rebuilding[n] = Round(n, Rebuilding[n - 1])
<1> DEFINE Makes(h) == h = [n \in Nat |-> Round(n, h[n - 1])]
<1>1. \A x, y : Round(0, x) = Round(0, y)
  BY DEF Round
<1>2. \A m \in Nat : \E g : RoundsTo(m, g)
  <2> DEFINE S == {m \in Nat : \E g : RoundsTo(m, g)}
  <2>1. 0 \in S
    <3>1. PICK g : g = [n \in 0..0 |-> Round(0, <<>>)]
      OBVIOUS
    <3>2. g = [n \in 0..0 |-> g[n]] /\ \A n \in 0..0 : n = 0 /\ g[n] = Round(0, <<>>)
      BY <3>1
    <3>3. RoundsTo(0, g)
      BY <1>1, <3>2 DEF RoundsTo
    <3> QED
      BY <3>3
  <2>2. ASSUME NEW m \in Nat, m \in S
        PROVE  m + 1 \in S
    <3>1. PICK g : RoundsTo(m, g)
      BY <2>2
    <3>2. PICK h : h = [n \in 0..(m + 1) |-> IF n = m + 1 THEN Round(m + 1, g[m]) ELSE g[n]]
      OBVIOUS
    <3>3. h = [n \in 0..(m + 1) |-> h[n]]
      BY <3>2
    <3>4. ASSUME NEW n \in 0..(m + 1)
          PROVE  h[n] = Round(n, h[n - 1])
      <4>1. CASE n = 0
        <5>1. 0 \in 0..m /\ 0 \in 0..(m + 1) /\ 0 # m + 1
          OBVIOUS
        <5>2. h[0] = g[0]
          BY <3>2, <5>1
        <5>3. g[0] = Round(0, g[0 - 1])
          BY <3>1, <5>1 DEF RoundsTo
        <5> QED
          BY <1>1, <4>1, <5>2, <5>3
      <4>2. CASE n \in 1..m
        <5>1. n - 1 \in 0..m /\ n \in 0..m /\ n # m + 1 /\ n - 1 # m + 1
          BY <4>2
        <5>2. h[n] = g[n] /\ h[n - 1] = g[n - 1]
          BY <3>2, <5>1
        <5>3. g[n] = Round(n, g[n - 1])
          BY <3>1, <5>1 DEF RoundsTo
        <5> QED
          BY <5>2, <5>3
      <4>3. CASE n = m + 1
        <5>1. n - 1 = m /\ m \in 0..(m + 1) /\ m # m + 1
          BY <4>3
        <5>2. h[m] = g[m] /\ h[n] = Round(m + 1, g[m])
          BY <3>2, <4>3, <5>1
        <5> QED
          BY <4>3, <5>1, <5>2
      <4> QED
        BY <4>1, <4>2, <4>3
    <3>5. RoundsTo(m + 1, h)
      BY <3>3, <3>4 DEF RoundsTo
    <3> QED
      BY <3>5
  <2> HIDE DEF S
  <2>3. Nat \subseteq S
    BY <2>1, <2>2, NatRounds, Zenon
  <2> QED
    BY <2>3 DEF S
<1>3. ASSUME NEW m \in Nat, NEW g, NEW h, RoundsTo(m, g), RoundsTo(m + 1, h)
      PROVE  g[m] = h[m]
  <2> DEFINE S == {n \in Nat : n <= m => g[n] = h[n]}
  <2>1. 0 \in S
    <3>1. 0 \in 0..m /\ 0 \in 0..(m + 1)
      OBVIOUS
    <3>2. g[0] = Round(0, g[0 - 1]) /\ h[0] = Round(0, h[0 - 1])
      BY <1>3, <3>1 DEF RoundsTo
    <3>3. Round(0, g[0 - 1]) = Round(0, h[0 - 1])
      BY <1>1
    <3> QED
      BY <3>2, <3>3
  <2>2. ASSUME NEW n \in Nat, n \in S
        PROVE  n + 1 \in S
    <3> SUFFICES ASSUME n + 1 <= m
                 PROVE  g[n + 1] = h[n + 1]
      OBVIOUS
    <3>1. n + 1 \in 0..m /\ n + 1 \in 0..(m + 1) /\ (n + 1) - 1 = n /\ g[n] = h[n]
      BY <2>2
    <3>2. g[n + 1] = Round(n + 1, g[(n + 1) - 1]) /\ h[n + 1] = Round(n + 1, h[(n + 1) - 1])
      BY <1>3, <3>1 DEF RoundsTo
    <3> QED
      BY <3>1, <3>2
  <2> HIDE DEF S
  <2>3. Nat \subseteq S
    BY <2>1, <2>2, NatRounds, Zenon
  <2> QED
    BY <2>3 DEF S
<1>4. PICK pick : pick = [m \in Nat |-> CHOOSE g : RoundsTo(m, g)]
  OBVIOUS
<1>5. \A m \in Nat : RoundsTo(m, pick[m])
  BY <1>2, <1>4
<1>6. PICK f : f = [m \in Nat |-> pick[m][m]]
  OBVIOUS
<1>7. ASSUME NEW n \in Nat
      PROVE  f[n] = Round(n, f[n - 1])
  <2>1. pick[n][n] = Round(n, pick[n][n - 1])
    <3>1. n \in 0..n
      OBVIOUS
    <3> QED
      BY <1>5, <3>1 DEF RoundsTo
  <2>2. CASE n = 0
    BY <1>1, <1>6, <2>1, <2>2
  <2>3. CASE n # 0
    <3>1. PICK k \in Nat : k = n - 1 /\ k + 1 = n
      BY <2>3
    <3>2. pick[k][k] = pick[n][k]
      BY <1>3, <1>5, <3>1
    <3> QED
      BY <1>6, <2>1, <3>1, <3>2
  <2> QED
    BY <2>2, <2>3
<1>8. Makes(f)
  <2>1. f = [n \in Nat |-> f[n]]
    BY <1>6
  <2> QED
    BY <1>7, <2>1
<1>9. Rebuilding = CHOOSE h : Makes(h)
  BY DEF Rebuilding, Round
<1> HIDE DEF Makes
<1>10. PICK w : w = Rebuilding /\ Makes(w)
  BY <1>8, <1>9
<1>11. w = [n \in Nat |-> Round(n, w[n - 1])]
  BY <1>10 DEF Makes
<1> QED
  BY <1>10, <1>11

LEMMA IdealIs == \A d : Ideal(d) = Rebuilding[Cardinality(ActiveRecipes)][d]
BY DEF Ideal, Rebuilding, BuildersOf

LEMMA RebuildingFacts ==
  ASSUME FlowTypes, OneProducer, NEW n \in Nat
  PROVE  /\ \A e \in Datasets : BuildersOf(e) = {} => Rebuilding[n][e] = Present(e)
         /\ \A q \in ActiveRecipes :
              Rebuilding[n + 1][Primary(q)] =
                <<config[q], [i \in 1..Len(ins[q]) |-> Rebuilding[n][ins[q][i]]]>>
<1>1. ASSUME NEW e \in Datasets, BuildersOf(e) = {}
      PROVE  Rebuilding[n][e] = Present(e)
  <2>1. Rebuilding[n] = Round(n, Rebuilding[n - 1])
    BY RebuildingRounds
  <2> QED
    BY <1>1, <2>1 DEF Round, Present
<1>2. ASSUME NEW q \in ActiveRecipes
      PROVE  Rebuilding[n + 1][Primary(q)] =
               <<config[q], [i \in 1..Len(ins[q]) |-> Rebuilding[n][ins[q][i]]]>>
  <2>1. n + 1 \in Nat /\ n + 1 # 0 /\ (n + 1) - 1 = n
    OBVIOUS
  <2>2. Rebuilding[n + 1] = Round(n + 1, Rebuilding[(n + 1) - 1])
    BY <2>1, RebuildingRounds
  <2>3. PICK f, d : f = Rebuilding[n] /\ d = Primary(q) /\ d \in Datasets
    BY ActiveFacts
  <2>4. q \in BuildersOf(d) /\ \A p \in BuildersOf(d) : p = q
    <3>1. ASSUME NEW p \in BuildersOf(d)
          PROVE  p = q
      <4>1. p \in ActiveRecipes /\ Primary(p) = Primary(q)
        BY <2>3 DEF BuildersOf
      <4>2. Primary(q) \in ToSet(outs[p]) \cap ToSet(outs[q]) /\ p \in Recipes /\ q \in Recipes
        BY <4>1, ActiveFacts
      <4> QED
        BY <4>2 DEF OneProducer
    <3> QED
      BY <2>3, <3>1 DEF BuildersOf
  <2>5. (CHOOSE r \in BuildersOf(d) : TRUE) = q
    BY <2>4
  <2>6. Round(n + 1, f)[d] = <<config[q], [i \in 1..Len(ins[q]) |-> f[ins[q][i]]]>>
    BY <2>1, <2>3, <2>4, <2>5 DEF Round
  <2> QED
    BY <2>1, <2>2, <2>3, <2>6
<1> QED
  BY <1>1, <1>2

\* The recipes of K in layers: those that need none of the layers before, and on.
FedByLayer(K, S) == {q \in K : \A p \in K : Primary(p) \in ToSet(ins[q]) => p \in S}

LEMMA LayersFill ==
  ASSUME NEW K, K \subseteq ActiveRecipes, NEW rank \in [K -> Nat],
         \A p, q \in K : Primary(p) \in ToSet(ins[q]) => rank[p] < rank[q]
  PROVE  \E layer \in [Nat -> SUBSET K] :
           /\ layer[0] = {} /\ \A n \in Nat : layer[n + 1] = FedByLayer(K, layer[n])
           /\ layer[Cardinality(ActiveRecipes)] = K
<1>1. PICK X, step : X = SUBSET K /\ step = [n \in Nat |-> [S \in X |-> FedByLayer(K, S)]]
  OBVIOUS
<1>2. step \in [Nat -> [X -> X]] /\ {} \in X
  BY <1>1 DEF FedByLayer
<1>3. PICK layer \in [Nat -> X] : Iterates(layer, {}, step)
  BY <1>2, IterationExists
<1>4. /\ layer \in [Nat -> SUBSET K] /\ layer \in [Nat -> SUBSET ActiveRecipes]
      /\ layer[0] = {} /\ \A n \in Nat : layer[n + 1] = FedByLayer(K, layer[n])
  <2>1. layer[0] = {}
    BY <1>3 DEF Iterates
  <2>2. \A n \in Nat : layer[n + 1] = step[n + 1][layer[n]] /\ layer[n] \in X /\ n + 1 \in Nat
    BY <1>3 DEF Iterates
  <2> QED
    BY <1>1, <1>3, <2>1, <2>2
<1>5. \A n \in Nat : layer[n] \subseteq layer[n + 1]
  <2> DEFINE S == {n \in Nat : layer[n] \subseteq layer[n + 1]}
  <2>1. 0 \in S
    BY <1>4
  <2>2. ASSUME NEW n \in Nat, n \in S
        PROVE  n + 1 \in S
    <3>1. layer[n] \subseteq layer[n + 1]
      BY <2>2
    <3>2. layer[n + 1] = FedByLayer(K, layer[n]) /\ layer[(n + 1) + 1] = FedByLayer(K, layer[n + 1])
      BY <1>4
    <3> QED
      BY <3>1, <3>2 DEF FedByLayer
  <2> HIDE DEF S
  <2>3. Nat \subseteq S
    BY <2>1, <2>2, NatRounds, Zenon
  <2> QED
    BY <2>3 DEF S
<1>6. \A n \in Nat : layer[n] = layer[n + 1] => layer[n + 1] = layer[n + 2]
  <2> SUFFICES ASSUME NEW n \in Nat, layer[n] = layer[n + 1]
               PROVE  layer[n + 1] = layer[n + 2]
    OBVIOUS
  <2>1. layer[n + 1] = FedByLayer(K, layer[n]) /\ layer[(n + 1) + 1] = FedByLayer(K, layer[n + 1])
    BY <1>4
  <2>2. n + 2 = (n + 1) + 1
    OBVIOUS
  <2> QED
    BY <2>1, <2>2
<1>7. PICK N : N = Cardinality(ActiveRecipes)
  OBVIOUS
<1>8. N \in Nat /\ layer[N] = layer[N + 1]
  BY <1>4, <1>5, <1>6, <1>7, GraphFacts, Saturates
<1>9. layer[N] = K
  <2> SUFFICES ASSUME K \ layer[N] # {}
               PROVE  FALSE
    BY <1>4, <1>8
  <2>1. PICK R : R = {rank[q] : q \in K \ layer[N]}
    OBVIOUS
  <2>2. R \subseteq Nat /\ R # {}
    BY <2>1
  <2>3. PICK m \in R : \A k \in R : <<k, m>> \notin OpToRel(<, Nat)
    BY <2>2, NatLessThanWellFounded, WFMin
  <2>4. \A k \in R : ~(k < m)
    BY <2>2, <2>3 DEF OpToRel
  <2>5. PICK q \in K \ layer[N] : m = rank[q]
    BY <2>1, <2>3
  <2>6. q \notin FedByLayer(K, layer[N])
    BY <1>4, <1>8, <2>5
  <2>7. PICK p \in K : Primary(p) \in ToSet(ins[q]) /\ p \notin layer[N]
    BY <2>5, <2>6 DEF FedByLayer
  <2>8. rank[p] < rank[q] /\ rank[p] \in R
    BY <2>1, <2>5, <2>7
  <2> QED
    BY <2>4, <2>5, <2>8
<1> QED
  BY <1>4, <1>7, <1>9

\* What a fresh output was made from is what is there now.
LEMMA FreshFacts ==
  ASSUME FlowTypes, Provenance, ~rules.mayRewire, NEW q \in ActiveRecipes, ~OutputStale(q),
         \A i \in ToSet(ins[q]) : dataset[i] = "active"
  PROVE  /\ versions[Primary(q)] # <<>>
         /\ \A i \in ToSet(ins[q]) : /\ i \in Datasets /\ versions[i] # <<>>
                                     /\ i \in DOMAIN LatestVersion(Primary(q)).consumed
                                     /\ LatestVersion(Primary(q)).consumed[i] = current(i)
         /\ LatestVersion(Primary(q)).content =
              <<config[q], [n \in 1..Len(ins[q]) |-> LatestVersion(ins[q][n]).content]>>
<1>1. PICK d, v : d \in Datasets /\ d = Primary(q) /\ v = LatestVersion(d)
  BY ActiveFacts
<1> d \in Datasets
  BY <1>1
<1>2. Staleness(q, d) = "fresh"
  BY <1>1 DEF OutputStale
<1>3. /\ current(d) # 0 /\ ~OtherConfig(q, v)
      /\ \A i \in ToSet(ins[q]) : dataset[i] = "active" => ~(current(i) > Consumed(v, i))
  BY <1>1, <1>2 DEF Staleness
<1>4. versions[d] # <<>>
  BY <1>3, CurrentFacts DEF FlowTypes
<1>5. MadeFrom(v, ins[q])
  BY <1>1, <1>4 DEF Provenance, Made
<1>6. ASSUME NEW i \in ToSet(ins[q])
      PROVE  /\ i \in Datasets /\ versions[i] # <<>>
             /\ i \in DOMAIN v.consumed /\ v.consumed[i] = current(i)
  <2>1. i \in DOMAIN v.consumed
    BY <1>5 DEF MadeFrom
  <2>2. i \in Datasets /\ v.consumed[i] \in 1..current(i)
    BY <1>1, <1>4, <2>1, LatestExists DEF Provenance
  <2>3. current(i) \in Nat /\ (versions[i] # <<>> <=> current(i) # 0)
    BY <2>2, CurrentFacts DEF FlowTypes
  <2>4. ~(current(i) > v.consumed[i])
    BY <1>3, <2>1 DEF Consumed
  <2>5. v.consumed[i] = current(i) /\ current(i) # 0
    BY <2>2, <2>3, <2>4
  <2> QED
    BY <2>1, <2>2, <2>3, <2>5
<1>7. v.config = config[q]
  BY <1>3 DEF OtherConfig
<1>8. ASSUME NEW n \in 1..Len(ins[q])
      PROVE  versions[ins[q][n]][v.consumed[ins[q][n]]] = LatestVersion(ins[q][n])
  <2>1. ins[q] \in Seq(Datasets)
    BY ActiveFacts
  <2>2. ins[q][n] \in ToSet(ins[q])
    BY <2>1, NonEmptyFacts
  <2> QED
    BY <1>6, <2>2 DEF LatestVersion
<1>9. [n \in 1..Len(ins[q]) |-> versions[ins[q][n]][v.consumed[ins[q][n]]].content]
        = [n \in 1..Len(ins[q]) |-> LatestVersion(ins[q][n]).content]
  BY <1>8
<1>10. v.content = <<config[q], [n \in 1..Len(ins[q]) |-> LatestVersion(ins[q][n]).content]>>
  BY <1>5, <1>7, <1>9 DEF MadeFrom
<1> QED
  BY <1>1, <1>4, <1>6, <1>10

LEMMA FreshRanks ==
  ASSUME FlowTypes, Provenance, ~rules.mayRewire, NEW K, K \subseteq ActiveRecipes,
         \A q \in K : ~OutputStale(q) /\ \A i \in ToSet(ins[q]) : dataset[i] = "active"
  PROVE  \E rank \in [K -> Nat] :
           \A p, q \in K : Primary(p) \in ToSet(ins[q]) => rank[p] < rank[q]
<1>1. PICK all, n : Ranks(all, n)
  BY DEF Provenance, Ranked
<1>2. PICK rank : rank = [q \in K |-> all[Primary(q)][current(Primary(q))]]
  OBVIOUS
<1>3. \A q \in K : Primary(q) \in Datasets /\ current(Primary(q)) \in Nat
  BY ActiveFacts, CurrentFacts DEF FlowTypes
<1>4. rank \in [K -> Nat]
  BY <1>1, <1>2, <1>3 DEF Ranks
<1>5. ASSUME NEW p \in K, NEW q \in K, Primary(p) \in ToSet(ins[q])
      PROVE  rank[p] < rank[q]
  <2>1. PICK d, i, v : d = Primary(q) /\ i = Primary(p) /\ v = LatestVersion(d)
    OBVIOUS
  <2>2. versions[d] # <<>> /\ i \in DOMAIN v.consumed /\ v.consumed[i] = current(i)
    BY <1>5, <2>1, FreshFacts
  <2>3. current(d) \in 1..current(d) /\ v = versions[d][current(d)] /\ d \in Datasets
    BY <1>3, <2>1, <2>2, LatestExists DEF Provenance, LatestVersion
  <2>4. all[i][v.consumed[i]] < all[d][current(d)]
    BY <1>1, <2>2, <2>3 DEF Ranks
  <2> QED
    BY <1>2, <2>1, <2>2, <2>4
<1> QED
  BY <1>4, <1>5

LEMMA FreshAreIdeal ==
  ASSUME FlowTypes, Provenance, ~rules.mayRewire, NEW r \in ActiveRecipes,
         \A q \in UpstreamClosure(Graph, {r}) :
           ~OutputStale(q) /\ \A i \in Ins(Graph, q) : dataset[i] = "active"
  PROVE  LatestVersion(Primary(r)).content = Ideal(Primary(r))
<1>1. PICK K : K = UpstreamClosure(Graph, {r})
  OBVIOUS
<1>2. /\ r \in K /\ K \subseteq ActiveRecipes
      /\ \A q \in K : UpstreamOf(Graph, q) \subseteq K
  BY <1>1, GraphFacts, ClosureIsLeast
<1>3. \A q \in K : ~OutputStale(q) /\ \A i \in ToSet(ins[q]) : dataset[i] = "active"
  BY <1>1, GraphFacts
<1>4. PICK rank \in [K -> Nat] : \A p, q \in K : Primary(p) \in ToSet(ins[q]) => rank[p] < rank[q]
  BY <1>2, <1>3, FreshRanks
<1>5. PICK layer \in [Nat -> SUBSET K] :
        /\ layer[0] = {} /\ \A n \in Nat : layer[n + 1] = FedByLayer(K, layer[n])
        /\ layer[Cardinality(ActiveRecipes)] = K
  BY <1>2, <1>4, LayersFill
<1>6. PICK w : w = Rebuilding
  OBVIOUS
<1> DEFINE Settled(q, n) == \A m \in Nat : m >= n => w[m][Primary(q)] = LatestVersion(Primary(q)).content
           S == {n \in Nat : \A q \in layer[n] : Settled(q, n)}
<1>7. 0 \in S
  BY <1>5
<1>8. ASSUME NEW n \in Nat, n \in S
      PROVE  n + 1 \in S
  <2> SUFFICES ASSUME NEW q \in layer[n + 1], NEW m \in Nat, m >= n + 1
               PROVE  w[m][Primary(q)] = LatestVersion(Primary(q)).content
    OBVIOUS
  <2>1. PICK k \in Nat : k + 1 = m /\ k >= n
    <3>1. m - 1 \in Nat /\ (m - 1) + 1 = m /\ m - 1 >= n
      OBVIOUS
    <3> QED
      BY <3>1
  <2>2. q \in K /\ q \in ActiveRecipes /\ \A p \in K : Primary(p) \in ToSet(ins[q]) => p \in layer[n]
    BY <1>2, <1>5 DEF FedByLayer
  <2>3. w[k + 1][Primary(q)] = <<config[q], [j \in 1..Len(ins[q]) |-> w[k][ins[q][j]]]>>
    BY <1>6, <2>2, RebuildingFacts DEF Provenance
  <2>4. ASSUME NEW j \in 1..Len(ins[q])
        PROVE  w[k][ins[q][j]] = LatestVersion(ins[q][j]).content
    <3>1. PICK i : i = ins[q][j]
      OBVIOUS
    <3>2. i \in ToSet(ins[q])
      <4>1. ins[q] \in Seq(Datasets)
        BY <2>2, ActiveFacts
      <4> QED
        BY <3>1, <4>1, NonEmptyFacts
    <3>3. i \in Datasets /\ versions[i] # <<>>
      BY <1>3, <2>2, <3>2, FreshFacts
    <3>4. CASE BuildersOf(i) = {}
      <4>1. w[k][i] = Present(i)
        BY <1>6, <3>3, <3>4, RebuildingFacts DEF Provenance
      <4> QED
        BY <3>1, <3>3, <4>1 DEF Present
    <3>5. CASE BuildersOf(i) # {}
      <4>1. PICK p \in ActiveRecipes : Primary(p) = i
        BY <3>5 DEF BuildersOf
      <4>2. i \in ToSet(outs[p])
        BY <4>1, ActiveFacts
      <4>3. p \in UpstreamOf(Graph, q)
        BY <3>2, <4>2, UpstreamMeans, GraphFacts
      <4>4. p \in K /\ p \in layer[n]
        BY <1>2, <2>2, <3>2, <4>1, <4>3
      <4>5. Settled(p, n)
        BY <1>8, <4>4
      <4> QED
        BY <2>1, <3>1, <4>1, <4>5
    <3> QED
      BY <3>4, <3>5
  <2>5. [j \in 1..Len(ins[q]) |-> w[k][ins[q][j]]]
          = [j \in 1..Len(ins[q]) |-> LatestVersion(ins[q][j]).content]
    BY <2>4
  <2>6. LatestVersion(Primary(q)).content =
          <<config[q], [j \in 1..Len(ins[q]) |-> LatestVersion(ins[q][j]).content]>>
    BY <1>3, <2>2, FreshFacts
  <2> QED
    BY <2>1, <2>3, <2>5, <2>6
<1> HIDE DEF S
<1>9. Nat \subseteq S
  BY <1>7, <1>8, NatRounds, Zenon
<1>10. PICK N : N = Cardinality(ActiveRecipes) /\ N \in Nat
  BY GraphFacts, FS_CardinalityType
<1>11. Settled(r, N)
  BY <1>2, <1>5, <1>9, <1>10 DEF S
<1>12. w[N][Primary(r)] = LatestVersion(Primary(r)).content
  BY <1>10, <1>11
<1> QED
  BY <1>6, <1>10, <1>12, IdealIs

\* Data reported fresh, with everything upstream of it fresh and active, is what a
\* complete rebuild would compute, even while saves, archives and builds overlap.
THEOREM FlowFreshIsIdeal == Spec => []FreshIsIdeal
<1>1. FlowTypes /\ Provenance => FreshIsIdeal
  BY FreshAreIdeal DEF FreshIsIdeal
<1> QED
  BY <1>1, FlowProvenance, PTL

-----------------------------------------------------------------------------
(* Labels only go up, but for the PATCH that sets them.                      *)

Unlabelled == \A d \in Datasets : dataset[d] = "absent" => label[d] = 0

LEMMA LabelSteps ==
  ASSUME FlowTypes, [Next]_vars
  PROVE  \/ label' = label /\ \A d \in Datasets : dataset'[d] = "absent" => dataset[d] = "absent"
         \/ \E d \in Datasets, l \in Labels : CreateDataset(d, l) \/ PatchLabel(d, l)
         \/ \E r \in Recipes, c \in Configs : EndSave(r, c)
         \/ CommitStep
<1>1. CASE UNCHANGED vars
  BY <1>1 DEF vars, datasetVars
<1>2. ASSUME NEW d \in Datasets, ArchiveDataset(d)
      PROVE  label' = label /\ \A e \in Datasets : dataset'[e] = "absent" => dataset[e] = "absent"
  BY <1>2 DEF ArchiveDataset, FlowTypes, DatasetTypes
<1>3. CASE Next
  BY <1>2, <1>3 DEF Next, Steps, BeginSave, PatchConfig, AbortSave, ArchiveRecipe, RequestBuild,
     ResolveStep, StopBuild, FinishBuild, datasetVars
<1> QED
  BY <1>1, <1>3

LEMMA UnlabelledStep ==
  ASSUME FlowTypes, Unlabelled, [Next]_vars
  PROVE  Unlabelled'
<1>1. ASSUME NEW d \in Datasets, NEW l \in Labels, CreateDataset(d, l)
      PROVE  Unlabelled'
  <2>1. /\ dataset'[d] = "active"
        /\ \A e \in Datasets \ {d} : dataset'[e] = dataset[e] /\ label'[e] = label[e]
    BY <1>1 DEF CreateDataset, FlowTypes, DatasetTypes
  <2> QED
    BY <2>1 DEF Unlabelled
<1>2. ASSUME NEW d \in Datasets, NEW l \in Labels, PatchLabel(d, l)
      PROVE  Unlabelled'
  <2>1. /\ dataset[d] = "active" /\ dataset' = dataset
        /\ \A e \in Datasets \ {d} : label'[e] = label[e]
    BY <1>2 DEF PatchLabel, FlowTypes, DatasetTypes
  <2> QED
    BY <2>1 DEF Unlabelled
<1>3. ASSUME NEW r \in Recipes, NEW c \in Configs, EndSave(r, c)
      PROVE  Unlabelled'
  <2>1. PICK s : s = save[r] /\ s # None
    BY <1>3 DEF EndSave
  <2>2. SaveFits(r, s)
    BY <2>1 DEF FlowTypes, SaveTypes
  <2>3. /\ \A d \in Datasets : label'[d] = label[d] \/ d \in ToSet(s.outs)
        /\ \A d \in Datasets : dataset'[d] = IF d \in s.new THEN "active" ELSE dataset[d]
    BY <1>3, <2>1 DEF EndSave
  <2>4. \A d \in ToSet(s.outs) : d \notin s.new => dataset[d] # "absent"
    BY <2>2 DEF SaveFits
  <2> QED
    BY <2>3, <2>4 DEF Unlabelled
<1>4. CASE CommitStep
  <2>1. PICK d \in Datasets : /\ d = Head(job.todo)[2] /\ job.todo # <<>>
                              /\ \A e \in Datasets \ {d} : label'[e] = label[e]
    BY <1>4, CommitFacts
  <2>2. dataset[d] # "absent" /\ dataset' = dataset
    BY <1>4, <2>1, HeadFacts DEF CommitStep, FlowTypes
  <2> QED
    BY <2>1, <2>2 DEF Unlabelled
<1>5. CASE label' = label /\ \A d \in Datasets : dataset'[d] = "absent" => dataset[d] = "absent"
  BY <1>5 DEF Unlabelled
<1> QED
  BY <1>1, <1>2, <1>3, <1>4, <1>5, LabelSteps

LEMMA LabelsRise ==
  ASSUME FlowTypes, ~rules.overlap, Calm, Unlabelled, [Next]_vars,
         NEW d \in Datasets, label'[d] < label[d]
  PROVE  \E l \in Labels : PatchLabel(d, l)
<1>1. \A e \in Datasets : label[e] \in Labels
  BY DEF FlowTypes, DatasetTypes
<1>2. \A l \in Labels : l \in Nat
  BY TopLabel DEF FlowTypes, Labels
<1>3. label'[d] # label[d]
  BY <1>1, <1>2
<1>4. ASSUME NEW e \in Datasets, NEW l \in Labels, CreateDataset(e, l)
      PROVE  FALSE
  <2>1. dataset[e] = "absent" /\ label' = [label EXCEPT ![e] = l]
    BY <1>4 DEF CreateDataset
  <2>2. e = d /\ label'[d] = l /\ label[d] = 0
    BY <1>3, <2>1 DEF FlowTypes, DatasetTypes, Unlabelled
  <2> QED
    BY <1>2, <2>2
<1>5. ASSUME NEW e \in Datasets, NEW l \in Labels, PatchLabel(e, l)
      PROVE  e = d
  BY <1>3, <1>5 DEF PatchLabel, FlowTypes, DatasetTypes
<1>6. ASSUME NEW r \in Recipes, NEW c \in Configs, EndSave(r, c)
      PROVE  FALSE
  <2>1. PICK s : s = save[r] /\ s # None
    BY <1>6 DEF EndSave
  <2>2. SaveFits(r, s) /\ s.label = label
    BY <1>6, <2>1 DEF FlowTypes, SaveTypes, Calm, SavesUpToDate, UpToDate
  <2>3. PICK f \in Labels : f = s.floor
    BY <2>2 DEF SaveFits
  <2>4. label' = [e \in Datasets |->
          IF e \in ToSet(s.outs) /\ label[e] < f THEN f ELSE label[e]]
    BY <1>6, <2>1, <2>2, <2>3 DEF EndSave
  <2>5. label'[d] = f /\ label[d] < f
    BY <1>3, <2>4
  <2>6. f \in Nat /\ label[d] \in Nat
    BY <1>1, <1>2
  <2> QED
    BY <2>5, <2>6
<1>7. CASE CommitStep
  <2>1. PICK e \in Datasets : /\ \A x \in Datasets \ {e} : label'[x] = label[x]
                              /\ label'[e] = Raised(label[e], ReadFloor(job.read))
    BY <1>7, CommitFacts
  <2>2. job.read.ins \in Lists
    BY <1>7 DEF CommitStep, FlowTypes, JobTypes, JobFits
  <2>3. PICK f \in Labels : f = ReadFloor(job.read)
    BY <2>2, FloorFacts DEF FlowTypes, DatasetTypes, ReadFloor
  <2>4. e = d
    BY <1>3, <2>1
  <2>5. f \in Nat /\ label[d] \in Nat
    BY <1>1, <1>2
  <2> QED
    BY <2>1, <2>3, <2>4, <2>5 DEF Raised
<1> QED
  BY <1>3, <1>4, <1>5, <1>6, <1>7, LabelSteps

\* Where requests and builds do not overlap, only PATCH /datasets lowers a label
\* (propagation.py 31-33).
THEOREM FlowOnlyPatchLowers ==
  Spec => [][~rules.overlap => \A d \in Datasets :
               label'[d] < label[d] => \E l \in Labels : PatchLabel(d, l)]_vars
<1>1. Init => Unlabelled
  BY DEF Init, Unlabelled
<1>2. FlowInv /\ Unlabelled /\ [Next]_vars => Unlabelled'
  BY UnlabelledStep DEF FlowInv
<1>3. FlowInv /\ Unlabelled /\ [Next]_vars =>
        [~rules.overlap => \A d \in Datasets :
           label'[d] < label[d] => \E l \in Labels : PatchLabel(d, l)]_vars
  BY LabelsRise DEF FlowInv
<1> QED
  BY <1>1, <1>2, <1>3, FlowInvariant, PTL DEF Spec

=============================================================================
